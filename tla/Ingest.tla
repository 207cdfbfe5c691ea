------------------------------- MODULE Ingest -------------------------------
(***************************************************************************)
(* The ingest consumer of the control plane (pkg/canary/ingest): the       *)
(* goroutine that pulls canary results from the durable JetStream consumer *)
(* "controlplane-ingest", inserts each one into ClickHouse and acks it, or *)
(* naks it when it cannot be decoded or inserted, while calls fail,        *)
(* replies get lost, redelivery timers run out and the process is stopped, *)
(* killed and started again.                                               *)
(*                                                                         *)
(* The JetStream server is modelled as far as the consumer relies on it,   *)
(* with the settings PullSubscribe leaves at their defaults: every message *)
(* from the beginning, explicit acks, redelivery before new messages, no   *)
(* limit on redeliveries, a limit on unacknowledged messages.              *)
(***************************************************************************)
EXTENDS Naturals, Sequences, SequencesExt, FiniteSets

CONSTANTS
    Msgs,           \* the results POPs publish
    Malformed,      \* those json.Unmarshal rejects
    FetchSize,      \* Consumer.fetchSize (64)
    MaxAckPending,  \* the server's limit on unacknowledged messages (1000)
    Faults,         \* what the environment does
    MaxRows         \* bound: copies of a row are counted up to this many

FaultKinds == {"crash", "subscribe", "fetch", "insert", "reply", "slow"}

ASSUME IngestAssumption ==
    /\ Malformed \subseteq Msgs
    /\ FetchSize \in Nat \ {0}
    /\ MaxAckPending \in Nat \ {0}
    /\ Faults \subseteq FaultKinds
    /\ MaxRows \in Nat \ {0, 1}

VARIABLES
    \* the JetStream server
    stream,     \* the messages of NETSITE_CANARY_RESULTS, oldest first
    consumer,   \* whether the durable consumer exists
    lastSeq,    \* the last stream sequence it has delivered
    pending,    \* its messages that were delivered and not acknowledged
    rdq,        \* the pending messages waiting to be delivered again
    \* the connection
    replies,    \* acks and naks on their way to the server
    \* the control plane process
    pc,         \* where Run is
    ctxDone,    \* SIGTERM has canceled the context
    created,    \* the subscription created the durable consumer
    batch,      \* the fetched messages not handled yet
    \* ClickHouse
    rows,       \* message -> its rows in canary_results, counted up to MaxRows
    \* history, read by no step
    disturbed   \* the messages something unusual happened to

serverVars  == <<consumer, lastSeq, pending, rdq>>
processVars == <<pc, ctxDone, created, batch>>
vars        == <<stream, serverVars, replies, processVars, rows, disturbed>>

Reply == [msg : Msgs, kind : {"ack", "nak"}]
Ack(m) == [msg |-> m, kind |-> "ack"]
Nak(m) == [msg |-> m, kind |-> "nak"]

Least(a, b) == IF a < b THEN a ELSE b

\* The messages the consumer has delivered, and those of them it is done with.
Delivered == {stream[i] : i \in 1 .. lastSeq}
Acked     == Delivered \ pending

-----------------------------------------------------------------------------
(***************************************************************************)
(* The server.                                                             *)
(***************************************************************************)

\* A POP publishes a result.
Publish(m) ==
    /\ m \notin ToSet(stream)
    /\ stream' = Append(stream, m)
    /\ UNCHANGED <<serverVars, replies, processVars, rows, disturbed>>

\* What the next pull takes: redeliveries first, then new messages in stream order as
\* far as the limit on unacknowledged ones leaves room.
Again == Least(FetchSize, Len(rdq))
Room  == IF Cardinality(pending) < MaxAckPending THEN MaxAckPending - Cardinality(pending) ELSE 0
New   == Least(Least(FetchSize - Again, Room), Len(stream) - lastSeq)
Taken == SubSeq(rdq, 1, Again) \o SubSeq(stream, lastSeq + 1, lastSeq + New)

\* The server side of a pull.
Hand ==
    /\ Taken # <<>>
    /\ lastSeq' = lastSeq + New
    /\ pending' = pending \cup ToSet(Taken)
    /\ rdq' = SubSeq(rdq, Again + 1, Len(rdq))
    /\ UNCHANGED consumer

\* An acknowledged message leaves the redelivery queue, too.
Without(q, m) ==
    IF m \in ToSet(q) THEN RemoveAt(q, CHOOSE i \in 1 .. Len(q) : q[i] = m) ELSE q

AckArrives(m) ==
    /\ Ack(m) \in replies
    /\ replies' = replies \ {Ack(m)}
    /\ pending' = pending \ {m}
    /\ rdq' = Without(rdq, m)
    /\ UNCHANGED <<stream, consumer, lastSeq, processVars, rows, disturbed>>

\* m goes to the end of the redelivery queue unless it is there or was acknowledged.
Requeue(m) ==
    rdq' = IF m \in pending /\ m \notin ToSet(rdq) THEN Append(rdq, m) ELSE rdq

NakArrives(m) ==
    /\ Nak(m) \in replies
    /\ replies' = replies \ {Nak(m)}
    /\ Requeue(m)
    /\ UNCHANGED <<stream, consumer, lastSeq, pending, processVars, rows, disturbed>>

ReplyLost(r) ==
    /\ "reply" \in Faults
    /\ r \in replies
    /\ replies' = replies \ {r}
    /\ UNCHANGED <<stream, serverVars, processVars, rows, disturbed>>

\* Still with the process, or its answer still on the way.
UnderWay(m) ==
    \/ pc \in {"handle", "ack"} /\ m \in ToSet(batch)
    \/ Ack(m) \in replies \/ Nak(m) \in replies

\* AckWait (30s) runs out: nobody is going to answer, or the answer is slow.
AckWaitExpires(m) ==
    /\ m \in pending /\ m \notin ToSet(rdq)
    /\ ~UnderWay(m) \/ "slow" \in Faults
    /\ Requeue(m)
    /\ disturbed' = disturbed \cup {m}
    /\ UNCHANGED <<stream, consumer, lastSeq, pending, replies, processVars, rows>>

-----------------------------------------------------------------------------
(***************************************************************************)
(* Run and handle.                                                         *)
(***************************************************************************)

\* PullSubscribe binds to the durable consumer, creating it where there is none.
Subscribe ==
    /\ pc = "subscribe"
    /\ pc' = "fetch"
    /\ consumer' = TRUE
    /\ created' = ~consumer
    /\ UNCHANGED <<stream, lastSeq, pending, rdq, replies, ctxDone, batch, rows, disturbed>>

\* Run returns its error; main logs it and the process goes on without ingest.
SubscribeFails ==
    /\ "subscribe" \in Faults
    /\ pc = "subscribe"
    /\ pc' = "dead"
    /\ UNCHANGED <<stream, serverVars, replies, ctxDone, created, batch, rows, disturbed>>

\* A pull that times out or fails before the server sees it changes nothing.
Fetch ==
    /\ pc = "fetch"
    /\ ~ctxDone
    /\ Hand
    /\ batch' = Taken
    /\ pc' = "handle"
    /\ UNCHANGED <<stream, replies, ctxDone, created, rows, disturbed>>

\* The server answers and the process does not get it.
FetchLost ==
    /\ "fetch" \in Faults
    /\ pc = "fetch"
    /\ ~ctxDone
    /\ Hand
    /\ UNCHANGED <<stream, replies, processVars, rows, disturbed>>

\* handle returns; the loop goes on to the next message of the batch or to Fetch.
Handled ==
    /\ batch' = Tail(batch)
    /\ pc' = IF Tail(batch) = <<>> THEN "fetch" ELSE "handle"

\* A plausible mistake: a decode error ends Run.
DecodeFails_EndsRun ==
    /\ pc = "handle"
    /\ Head(batch) \in Malformed
    /\ replies' = replies \cup {Nak(Head(batch))}
    /\ batch' = <<>>
    /\ pc' = "drain"
    /\ UNCHANGED <<stream, serverVars, ctxDone, created, rows, disturbed>>

\* A plausible mistake: what cannot be decoded is acked, to be rid of it.
DecodeFails_Acks ==
    /\ pc = "handle"
    /\ Head(batch) \in Malformed
    /\ replies' = replies \cup {Ack(Head(batch))}
    /\ Handled
    /\ UNCHANGED <<stream, serverVars, ctxDone, created, rows, disturbed>>

DecodeFails ==
    /\ pc = "handle"
    /\ Head(batch) \in Malformed
    /\ replies' = replies \cup {Nak(Head(batch))}
    /\ Handled
    /\ UNCHANGED <<stream, serverVars, ctxDone, created, rows, disturbed>>

Inserted(m) == [rows EXCEPT ![m] = IF @ < MaxRows THEN @ + 1 ELSE @]

Insert ==
    /\ pc = "handle"
    /\ ~ctxDone
    /\ Head(batch) \notin Malformed
    /\ rows' = Inserted(Head(batch))
    /\ pc' = "ack"
    /\ UNCHANGED <<stream, serverVars, replies, ctxDone, created, batch, disturbed>>

\* A plausible mistake: the message is acked although its insert failed.
InsertFails_Acked ==
    /\ "insert" \in Faults \/ ctxDone
    /\ pc = "handle"
    /\ Head(batch) \notin Malformed
    /\ replies' = replies \cup {Ack(Head(batch))}
    /\ Handled
    /\ UNCHANGED <<stream, serverVars, ctxDone, created, rows, disturbed>>

\* Exec fails, before ClickHouse has the row or after. Once the context is canceled it
\* always fails, and the rest of the batch is nacked.
InsertFails ==
    /\ "insert" \in Faults \/ ctxDone
    /\ pc = "handle"
    /\ Head(batch) \notin Malformed
    /\ replies' = replies \cup {Nak(Head(batch))}
    /\ \/ UNCHANGED <<rows, disturbed>>
       \/ /\ "insert" \in Faults
          /\ rows' = Inserted(Head(batch))
          /\ disturbed' = disturbed \cup {Head(batch)}
    /\ Handled
    /\ UNCHANGED <<stream, serverVars, ctxDone, created>>

\* A plausible mistake: a stored message is nacked.
SendAck_Nak ==
    /\ pc = "ack"
    /\ replies' = replies \cup {Nak(Head(batch))}
    /\ Handled
    /\ UNCHANGED <<stream, serverVars, ctxDone, created, rows, disturbed>>

\* Ack only puts the message on the wire. One that fails to is as good as lost.
SendAck ==
    /\ pc = "ack"
    /\ replies' = replies \cup {Ack(Head(batch))}
    /\ Handled
    /\ UNCHANGED <<stream, serverVars, ctxDone, created, rows, disturbed>>

-----------------------------------------------------------------------------
(***************************************************************************)
(* Stopping and starting.                                                  *)
(***************************************************************************)

Sigterm ==
    /\ "crash" \in Faults
    /\ pc # "down"
    /\ ~ctxDone
    /\ ctxDone' = TRUE
    /\ UNCHANGED <<stream, serverVars, replies, pc, created, batch, rows, disturbed>>

\* Run sees the canceled context between two batches and returns; the deferred Drain
\* starts to unsubscribe.
Return ==
    /\ pc = "fetch"
    /\ ctxDone
    /\ pc' = "drain"
    /\ UNCHANGED <<stream, serverVars, replies, ctxDone, created, batch, rows, disturbed>>

\* Draining a subscription deletes the durable consumer it created, if the process lives
\* long enough.
DeleteConsumer ==
    /\ pc = "drain"
    /\ created
    /\ consumer' = FALSE
    /\ lastSeq' = 0
    /\ pending' = {}
    /\ rdq' = <<>>
    /\ created' = FALSE
    /\ disturbed' = disturbed \cup Delivered
    /\ UNCHANGED <<stream, replies, pc, ctxDone, batch, rows>>

\* A plausible mistake: the next process finds a batch it never fetched.
Exit_KeepsBatch ==
    /\ pc # "down"
    /\ ctxDone \/ "crash" \in Faults
    /\ pc' = "down"
    /\ ctxDone' = FALSE
    /\ created' = FALSE
    /\ UNCHANGED <<stream, serverVars, replies, batch, rows, disturbed>>

\* The process ends: killed, or main returned, which does not wait for the goroutine.
Exit ==
    /\ pc # "down"
    /\ ctxDone \/ "crash" \in Faults
    /\ pc' = "down"
    /\ ctxDone' = FALSE
    /\ created' = FALSE
    /\ batch' = <<>>
    /\ UNCHANGED <<stream, serverVars, replies, rows, disturbed>>

Boot ==
    /\ pc = "down"
    /\ pc' = "subscribe"
    /\ UNCHANGED <<stream, serverVars, replies, ctxDone, created, batch, rows, disturbed>>

-----------------------------------------------------------------------------
Init ==
    /\ stream = <<>>
    /\ consumer = FALSE
    /\ lastSeq = 0
    /\ pending = {}
    /\ rdq = <<>>
    /\ replies = {}
    /\ pc = "down"
    /\ ctxDone = FALSE
    /\ created = FALSE
    /\ batch = <<>>
    /\ rows = [m \in Msgs |-> 0]
    /\ disturbed = {}

Handle == DecodeFails \/ Insert \/ InsertFails

Next ==
    \/ \E m \in Msgs : Publish(m)
    \/ \E m \in Msgs : AckArrives(m)
    \/ \E m \in Msgs : NakArrives(m)
    \/ \E r \in Reply : ReplyLost(r)
    \/ \E m \in Msgs : AckWaitExpires(m)
    \/ Subscribe
    \/ SubscribeFails
    \/ Fetch
    \/ FetchLost
    \/ DecodeFails
    \/ Insert
    \/ InsertFails
    \/ SendAck
    \/ Sigterm
    \/ Return
    \/ DeleteConsumer
    \/ Exit
    \/ Boot

Spec == Init /\ [][Next]_vars

(***************************************************************************)
(* Fairness. A process that is down is started and one that was told to    *)
(* stop ends; in the end it is left running. Its loop never stops. The     *)
(* pulls with a given message are not all lost, nor all its acks, nor do   *)
(* all its inserts fail. The server's timers run out, and a nak reaches    *)
(* the server or is lost.                                                  *)
(***************************************************************************)
Fairness ==
    /\ <>[][~Sigterm]_vars
    /\ <>[][Exit => ctxDone]_vars
    /\ WF_vars(Boot)
    /\ WF_vars(ctxDone /\ Exit)
    /\ WF_vars(Subscribe \/ SubscribeFails)
    /\ WF_vars(Fetch \/ FetchLost)
    /\ WF_vars(Handle)
    /\ WF_vars(SendAck)
    /\ \A m \in Msgs :
         /\ []<><<FetchLost /\ m \in ToSet(Taken)>>_vars => []<><<Fetch /\ m \in ToSet(Taken)>>_vars
         /\ SF_vars(Insert /\ Head(batch) = m)
         /\ WF_vars(AckWaitExpires(m))
         /\ SF_vars(AckArrives(m))
         /\ WF_vars(NakArrives(m) \/ ReplyLost(Nak(m)))

LiveSpec == Spec /\ Fairness

-----------------------------------------------------------------------------
TypeOK ==
    /\ stream \in Seq(Msgs)
    /\ consumer \in BOOLEAN
    /\ lastSeq \in 0 .. Len(stream)
    /\ pending \subseteq Delivered
    /\ rdq \in Seq(Msgs)
    /\ replies \subseteq Reply
    /\ pc \in {"down", "subscribe", "dead", "fetch", "handle", "ack", "drain"}
    /\ ctxDone \in BOOLEAN
    /\ created \in BOOLEAN
    /\ batch \in Seq(Msgs)
    /\ pc \in {"handle", "ack"} <=> batch # <<>>
    /\ rows \in [Msgs -> 0 .. MaxRows]
    /\ disturbed \subseteq Msgs

\* At least once: a message JetStream will not deliver again has its row in ClickHouse,
\* whatever was lost, late or killed in between (handle acks only after insert,
\* consumer.go:143-153).
AckedIsStored == \A m \in Acked : rows[m] > 0

\* ... and at most once unless something went wrong: canary_results does not remove
\* duplicates, so a second row of a message must be due to an expired AckWait, an
\* insert that failed after it was applied, or a durable consumer that was deleted.
\* No order of acks, naks, redeliveries and pulls alone counts a result twice.
OneRowUnlessDisturbed == \A m \in Msgs : rows[m] > 1 => m \in disturbed

\* What the stream, the consumer and ClickHouse hold, as ResultLog sees it.
Log == INSTANCE ResultLog WITH
         Results  <- Msgs,
         accepted <- ToSet(stream),
         owed     <- ToSet(stream) \ Acked,
         stored   <- {m \in Msgs : rows[m] > 0}

\* The stream, the consumer and ClickHouse together implement ResultLog: through every
\* redelivery, lost reply, crash and deleted consumer, an accepted result stays owed until
\* it is stored.
ImplementsResultLog == Log!Spec

\* doc.go: "the loop continues so a single bad message does not stop ingestion". Every
\* well-formed result is stored in the end, whatever failures delay it, unless the
\* process could not subscribe at all.
WellFormedIngested ==
    \A m \in Msgs \ Malformed : m \in ToSet(stream) ~> (rows[m] > 0 \/ pc = "dead")

-----------------------------------------------------------------------------
\* The comment on DurableName (consumer.go:40-43): "a controlplane restart resumes from
\* the right position rather than starting over". What was acknowledged stays so.
RestartResumes == [][Acked \subseteq Acked']_vars
=============================================================================
