------------------------------ MODULE Pipeline ------------------------------
(***************************************************************************)
(* A POP agent and the control plane's ingest consumer with the stream     *)
(* between them: the way of a result from the probe to ClickHouse. Results *)
(* the consumer cannot decode come from somebody else.                     *)
(***************************************************************************)
EXTENDS Ingest, POPAgent

ingestVars   == <<stream, serverVars, replies, processVars, rows, disturbed>>
pipelineVars == <<ingestVars, agentVars>>

ASSUME PipelineAssumption == Samples = Msgs \ Malformed

\* NATSPublisher.Publish: the server has stored the result and says so ...
PublishResult(t) ==
    /\ Published(t)
    /\ Publish(sample[t])
    /\ UNCHANGED dropped

\* ... or the call fails, before the server has it or after.
PublishFails(t) ==
    /\ "publish" \in AgentFaults
    /\ Published(t)
    /\ dropped' = dropped \cup {sample[t]}
    /\ \/ UNCHANGED ingestVars
       \/ Publish(sample[t])

OtherPublishes(m) ==
    /\ m \in Malformed
    /\ Publish(m)
    /\ UNCHANGED agentVars

\* Ingest's steps other than a publish.
Consumes ==
    \/ \E m \in Msgs : AckArrives(m) \/ NakArrives(m) \/ AckWaitExpires(m)
    \/ \E r \in Reply : ReplyLost(r)
    \/ Subscribe \/ SubscribeFails \/ Fetch \/ FetchLost
    \/ DecodeFails \/ Insert \/ InsertFails \/ SendAck
    \/ Sigterm \/ Return \/ DeleteConsumer \/ Exit \/ Boot

PipelineInit == Init /\ AgentInit

PipelineNext ==
    \/ Consumes /\ UNCHANGED agentVars
    \/ AgentNext /\ UNCHANGED ingestVars
    \/ \E t \in TestIDs : PublishResult(t) \/ PublishFails(t)
    \/ \E m \in Msgs : OtherPublishes(m)

PipelineSpec == PipelineInit /\ [][PipelineNext]_pipelineVars

(***************************************************************************)
(* The agent is restarted, its goroutines go on, a probe ends by its       *)
(* deadline, a select whose cases are both ready takes each of them some   *)
(* time, and in the end a connection is made and nothing stops or kills    *)
(* the agent but itself.                                                   *)
(***************************************************************************)
AgentFairness ==
    /\ WF_pipelineVars((StartAgent \/ ConnectAgent \/ AgentReturns) /\ UNCHANGED ingestVars)
    /\ \A t \in TestIDs :
         /\ WF_pipelineVars((Jittered(t) \/ TickerPanics(t)) /\ UNCHANGED ingestVars)
         /\ WF_pipelineVars((BeginProbe(t) \/ PhaseFails(t)) /\ UNCHANGED ingestVars)
         /\ WF_pipelineVars(PublishResult(t) \/ PublishFails(t))
         /\ SF_pipelineVars(Canceled(t) /\ UNCHANGED ingestVars)
    /\ <>[][~AgentSigterm /\ ~ConnectAgentFails]_pipelineVars
    /\ <>[][AgentKilled => \E t \in TestIDs : TickerPanics(t)]_pipelineVars

PipelineLiveSpec == PipelineSpec /\ Fairness /\ AgentFairness

-----------------------------------------------------------------------------
\* Every result of a probe is in the stream, about to be published, or was lost for one of
\* two reasons: its publish failed, or the process died under it. A shutdown in the
\* middle of a probe loses nothing (Run waits, scheduler.go:95-96).
NoSampleUnaccounted == taken \subseteq ToSet(stream) \cup InHand \cup dropped \cup killed

\* The promise of the whole way: a result that was measured is in ClickHouse in the end,
\* unless one of those two things happened to it or ingest never got to subscribe.
MeasuredIsStored ==
    \A m \in Samples : m \in taken ~> rows[m] > 0 \/ m \in dropped \cup killed \/ pc = "dead"
=============================================================================
