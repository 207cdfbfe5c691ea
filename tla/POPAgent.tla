------------------------------ MODULE POPAgent ------------------------------
(***************************************************************************)
(* The POP agent (cmd/ns-pop, pkg/popagent): it loads its configuration,   *)
(* connects to NATS and runs one goroutine per test, which waits for a     *)
(* random time and then, at every tick, runs the test and publishes the    *)
(* result, until the process is told to stop. Pipeline puts a JetStream    *)
(* stream at the other end of its publishes.                               *)
(***************************************************************************)
EXTENDS Canary

CONSTANTS
    Self,           \* this POP's id
    TestIDs,        \* the entries of its list of tests, declared and generated
    MeshID,         \* peer -> the entry GenerateMeshTests makes for it
    Configs,        \* configurations it may be started with
    Samples,        \* a probe takes a fresh one (bound on the number of probes followed)
    NoSample,       \* not a sample
    AgentFaults     \* what the environment does

Durations == {"", "bad", "-5s", "30s"}
TestDefinition == [id : BOOLEAN, tenant : BOOLEAN, kind : Kinds \cup {"other"},
                   target : Targets, interval : Durations, timeout : Durations]
Peer == [name : DOMAIN MeshID \cup {Self}, url : BOOLEAN]

ASSUME POPAgentAssumption ==
    /\ NoSample \notin Samples
    /\ MeshID \in [DOMAIN MeshID -> TestIDs]
    /\ Self \notin DOMAIN MeshID
    /\ AgentFaults \subseteq {"connect", "publish", "kill", "sigterm"}
    /\ \A c \in Configs :
         /\ c.pop \in BOOLEAN /\ c.nats \in BOOLEAN
         /\ DOMAIN c.tests \subseteq TestIDs \ {MeshID[p] : p \in DOMAIN MeshID}
         /\ \A t \in DOMAIN c.tests : c.tests[t] \in TestDefinition
         /\ c.mesh.interval \in Durations /\ c.mesh.timeout \in Durations
         /\ c.mesh.peers \subseteq Peer

VARIABLES
    config,     \* what the configuration file holds
    agent,      \* where run is
    popCtx,     \* its context was canceled
    g,          \* test -> where its goroutine is
    expired,    \* test -> the deadline of its running probe has passed
    sample,     \* test -> the sample its goroutine is about to publish
    result,     \* test -> and what the runner returned
    \* history, read by no step
    taken,      \* the results of finished probes
    dropped,    \* those whose publish failed
    killed      \* those that died with the process

agentVars == <<config, agent, popCtx, g, expired, sample, result, taken, dropped, killed>>

-----------------------------------------------------------------------------
(***************************************************************************)
(* The configuration.                                                      *)
(***************************************************************************)
parses(text) == text # "bad"

\* A plausible mistake: the default is forgotten.
parseDuration_NoDefault(text, def) == CASE text = "" -> 0 [] text = "-5s" -> -5 [] text = "30s" -> 30

parseDuration(text, def) == CASE text = "" -> def [] text = "-5s" -> -5 [] text = "30s" -> 30

\* A duration has to parse; nothing asks for a positive one.
Validate(c) ==
    /\ c.pop /\ c.nats
    /\ \A t \in DOMAIN c.tests :
         /\ c.tests[t].id /\ c.tests[t].tenant
         /\ c.tests[t].kind \in Kinds
         /\ parses(c.tests[t].interval) /\ parses(c.tests[t].timeout)

\* Of a definition, what canary.Test keeps; its HTTP options are not among it.
ToCanaryTest(td) ==
    [kind |-> td.kind, target |-> td.target, interval |-> parseDuration(td.interval, 30), timeout |-> parseDuration(td.timeout, 5)]

\* None at all where a duration does not parse: main logs that and goes on.
MeshPeers(mesh) ==
    IF parses(mesh.interval) /\ parses(mesh.timeout)
      THEN {p.name : p \in {q \in mesh.peers : q.url /\ q.name # Self}} ELSE {}

GenerateMeshTests(mesh) ==
    [t \in {MeshID[p] : p \in MeshPeers(mesh)} |->
       [kind |-> "http", target |-> "ok", interval |-> parseDuration(mesh.interval, 30),
        timeout |-> parseDuration(mesh.timeout, 5)]]

\* main appends the generated tests to the declared ones. Every entry of the list gets a
\* goroutine, two that have one id in common included: no step looks at the id.
\* DefaultRunners has a runner for every valid kind.
Scheduled(c) == DOMAIN c.tests \cup DOMAIN GenerateMeshTests(c.mesh)
TestOf(c, t) == IF t \in DOMAIN c.tests THEN ToCanaryTest(c.tests[t]) ELSE GenerateMeshTests(c.mesh)[t]

-----------------------------------------------------------------------------
(***************************************************************************)
(* The process.                                                            *)
(***************************************************************************)
InHand == {sample[t] : t \in TestIDs} \ {NoSample}

AgentGone ==
    /\ agent' = "down"
    /\ popCtx' = FALSE
    /\ g' = [t \in TestIDs |-> "none"]
    /\ expired' = [t \in TestIDs |-> FALSE]
    /\ sample' = [t \in TestIDs |-> NoSample]
    /\ result' = [t \in TestIDs |-> NoResult]
    /\ UNCHANGED <<config, taken, dropped>>

StartAgent ==
    /\ agent = "down"
    /\ agent' = IF Validate(config) THEN "connect" ELSE "down"
    /\ UNCHANGED <<config, popCtx, g, expired, sample, result, taken, dropped, killed>>

\* Scheduler.Run starts the goroutines.
ConnectAgent ==
    /\ agent = "connect"
    /\ agent' = "running"
    /\ g' = [t \in TestIDs |-> IF t \in Scheduled(config) THEN "jitter" ELSE "none"]
    /\ UNCHANGED <<config, popCtx, expired, sample, result, taken, dropped, killed>>

ConnectAgentFails ==
    /\ "connect" \in AgentFaults
    /\ agent = "connect"
    /\ AgentGone /\ UNCHANGED killed

AgentSigterm ==
    /\ "sigterm" \in AgentFaults
    /\ agent # "down" /\ ~popCtx
    /\ popCtx' = TRUE
    /\ UNCHANGED <<config, agent, g, expired, sample, result, taken, dropped, killed>>

\* A plausible mistake: Run does not wait for the goroutines.
AgentReturns_NoWait ==
    /\ agent = "running" /\ popCtx
    /\ AgentGone /\ UNCHANGED killed

\* Run returns once every goroutine has.
AgentReturns ==
    /\ agent = "running" /\ popCtx
    /\ \A t \in TestIDs : g[t] \in {"none", "done"}
    /\ AgentGone /\ UNCHANGED killed

AgentKilled ==
    /\ "kill" \in AgentFaults
    /\ agent # "down"
    /\ killed' = killed \cup InHand
    /\ AgentGone

-----------------------------------------------------------------------------
(***************************************************************************)
(* runOne and fire. A select with both its cases ready takes either.       *)
(***************************************************************************)
At(t, place) == g[t] = place /\ UNCHANGED <<config, agent, popCtx, dropped, killed>>

\* The random wait is over: the first probe.
Jittered(t) ==
    /\ At(t, "jitter")
    /\ TestOf(config, t).interval > 0
    /\ g' = [g EXCEPT ![t] = "begin"]
    /\ UNCHANGED <<expired, sample, result, taken>>

\* NewTicker panics on an interval that is not positive, and the whole process with it.
TickerPanics(t) ==
    /\ g[t] = "jitter"
    /\ TestOf(config, t).interval <= 0
    /\ killed' = killed \cup InHand
    /\ AgentGone

\* The ticker's channel has a tick, of now or, at most one, from during the probe.
Ticked(t) ==
    /\ At(t, "select")
    /\ g' = [g EXCEPT ![t] = "begin"]
    /\ UNCHANGED <<expired, sample, result, taken>>

\* The runner returns r, as a fresh sample. When all are used up, the results of later
\* probes are not followed any further.
Returns(t, r) ==
    /\ expired' = [expired EXCEPT ![t] = FALSE]
    /\ \/ \E m \in Samples \ taken :
            /\ sample' = [sample EXCEPT ![t] = m]
            /\ taken' = taken \cup {m}
            /\ result' = [result EXCEPT ![t] = r]
            /\ g' = [g EXCEPT ![t] = "publish"]
       \/ /\ Samples \subseteq taken
          /\ g' = [g EXCEPT ![t] = "select"]
          /\ UNCHANGED <<sample, result, taken>>

BeginProbe(t) ==
    /\ At(t, "begin")
    /\ LET kind == TestOf(config, t).kind
           target == TestOf(config, t).target
       IN IF badTarget(kind, target) THEN Returns(t, BadConfig)
          ELSE IF unsendable(kind, target) THEN Returns(t, Unsent)
          ELSE /\ g' = [g EXCEPT ![t] = Phases[kind][1]]
               /\ UNCHANGED <<expired, sample, result, taken>>

\* context.WithTimeout: the test's, or the runner's own where that is not positive.
DeadlinePasses(t) ==
    /\ g[t] \in Phase
    /\ ~expired[t] /\ ~popCtx
    /\ expired' = [expired EXCEPT ![t] = TRUE]
    /\ UNCHANGED <<config, agent, popCtx, g, sample, result, taken, dropped, killed>>

ctxErr(t) == IF expired[t] THEN "deadline" ELSE IF popCtx THEN "canceled" ELSE "none"

PhaseSucceeds(t) ==
    /\ g[t] \in Phase /\ At(t, g[t])
    /\ ctxErr(t) = "none"
    /\ LET kind == TestOf(config, t).kind IN
       IF g[t] = Last(Phases[kind]) THEN \E status \in Statuses(kind) : Returns(t, Completed(kind, status))
       ELSE /\ g' = [g EXCEPT ![t] = After(kind, g[t])]
            /\ UNCHANGED <<expired, sample, result, taken>>

\* Something goes wrong, be it that the deadline has passed or the agent is told to stop.
PhaseFails(t) ==
    /\ g[t] \in Phase /\ At(t, g[t])
    /\ LET kind == TestOf(config, t).kind IN
       \E f \in Failures(g[t], ctxErr(t)) : \E timed \in Timings(kind, f) : Returns(t, Failed(kind, f, timed))

\* The sample is out of hand, one way or the other; a publish that fails is logged.
Published(t) ==
    /\ g[t] = "publish"
    /\ g' = [g EXCEPT ![t] = "select"]
    /\ sample' = [sample EXCEPT ![t] = NoSample]
    /\ result' = [result EXCEPT ![t] = NoResult]
    /\ UNCHANGED <<config, agent, popCtx, expired, taken, killed>>

\* A plausible mistake: a result under way is given up.
Canceled_MidPublish(t) ==
    /\ popCtx
    /\ g[t] \in {"jitter", "publish", "select"}
    /\ g' = [g EXCEPT ![t] = "done"]
    /\ UNCHANGED <<config, agent, popCtx, expired, sample, result, taken, dropped, killed>>

Canceled(t) ==
    /\ popCtx
    /\ g[t] \in {"jitter", "select"}
    /\ g' = [g EXCEPT ![t] = "done"]
    /\ UNCHANGED <<config, agent, popCtx, expired, sample, result, taken, dropped, killed>>

-----------------------------------------------------------------------------
AgentInit ==
    /\ config \in Configs
    /\ agent = "down"
    /\ popCtx = FALSE
    /\ g = [t \in TestIDs |-> "none"]
    /\ expired = [t \in TestIDs |-> FALSE]
    /\ sample = [t \in TestIDs |-> NoSample]
    /\ result = [t \in TestIDs |-> NoResult]
    /\ taken = {} /\ dropped = {} /\ killed = {}

\* What the agent does by itself; its publishes are Pipeline's.
AgentNext ==
    \/ StartAgent \/ ConnectAgent \/ ConnectAgentFails
    \/ AgentSigterm \/ AgentReturns \/ AgentKilled
    \/ \E t \in TestIDs :
         \/ Jittered(t) \/ TickerPanics(t) \/ Ticked(t) \/ Canceled(t)
         \/ BeginProbe(t) \/ DeadlinePasses(t) \/ PhaseSucceeds(t) \/ PhaseFails(t)

AgentTypeOK ==
    /\ config \in Configs
    /\ agent \in {"down", "connect", "running"}
    /\ popCtx \in BOOLEAN /\ (popCtx => agent # "down")
    /\ g \in [TestIDs -> Phase \cup {"none", "jitter", "begin", "publish", "select", "done"}]
    /\ \A t \in TestIDs : g[t] # "none" <=> agent = "running" /\ t \in Scheduled(config)
    /\ expired \in [TestIDs -> BOOLEAN]
    /\ \A t \in TestIDs : expired[t] => g[t] \in Phase
    /\ sample \in [TestIDs -> Samples \cup {NoSample}]
    /\ \A t \in TestIDs : sample[t] # NoSample <=> g[t] = "publish"
    /\ \A t \in TestIDs : g[t] # "publish" => result[t] = NoResult
    /\ taken \subseteq Samples /\ dropped \subseteq taken /\ killed \subseteq taken

\* The contract of Runner (canary.go:93-105) for the results about to be published,
\* wherever a failure, the deadline or a shutdown met the probe: a failure has a label and
\* a success has none; one that ran out of time says so, whatever error the network
\* library made of it; the phases gone through are timed, all of them, and none that was
\* not reached. The failing one is timed too, save where the http client was told to stop
\* in the middle of it.
RunnerContract ==
    \A t \in TestIDs : g[t] = "publish" =>
      LET r == result[t]
          kind == TestOf(config, t).kind
      IN \/ r.err = "bad_config" /\ r.timed = {}
         \/ /\ r.err = "" <=> r.failed = "none"
            /\ r.failed # "none" /\ r.ctxErr = "deadline" => r.err = "timeout"
            /\ r.err = "timeout" => r.ctxErr = "deadline" \/ r.failed = "dns"
            /\ r.failed \in {"none", "status"} => r.timed = ToSet(Phases[kind])
            /\ r.failed \in Phase =>
                 /\ UpTo(kind, r.failed) \ {"answer", r.failed} \subseteq r.timed
                 /\ r.timed \subseteq UpTo(kind, r.failed) \ {"answer"}
                 /\ r.timed # UpTo(kind, r.failed) \ {"answer"} => kind = "http" /\ r.ctxErr # "none"

\* A configuration that loads and asks for no interval the ticker panics on.
Healthy(c) ==
    /\ Validate(c)
    /\ "-5s" \notin {c.tests[t].interval : t \in DOMAIN c.tests}
    /\ MeshPeers(c.mesh) # {} => c.mesh.interval # "-5s"

\* "the operator wants data within ~Interval of POP boot" (scheduler.go:114-115): every
\* test of such a configuration is probed after any number of stops, kills and failures.
EveryTestFires ==
    \A t \in TestIDs : Healthy(config) /\ t \in Scheduled(config) => <>(g[t] = "begin")
=============================================================================
