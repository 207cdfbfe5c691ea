# A TLA+ model of NetSite

NetSite probes targets from points of presence (POPs), streams the results
through NATS JetStream into ClickHouse, scores service-level objectives and
anomalies on them, and answers queries about them, with Postgres for what
operators configure. This directory holds TLA+ modules of its logic, TLC
configurations for small instances and TLAPS proofs. Paths are relative to the
repository root.

## 1. The system

| part | state | operations | talks to |
|---|---|---|---|
| POP agent (`cmd/ns-pop`, `pkg/popagent`) | one goroutine and ticker per test | load the configuration, run a probe at every tick, publish the result | JetStream |
| canary runners (`pkg/canary/{dns,http,tls}`) | none | one probe, one `Result` | the network |
| JetStream stream and durable consumer | stream (7 days), position, unacknowledged messages, redelivery queue | publish, pull, ack, nak, ack timer | POP agent, ingest |
| ingest consumer (`pkg/canary/ingest`) | the batch in hand | subscribe, fetch, decode, insert, ack or nak, drain | JetStream, ClickHouse |
| SLO evaluator (`pkg/slo`) | the tick in hand; `slos`, `slo_state` | tick, query four windows, classify, notify, upsert | ClickHouse, Postgres, webhooks |
| anomaly evaluator and detector (`pkg/anomaly`) | the tick in hand; `anomaly_state` | tick, read a series, detect, upsert, log a transition | ClickHouse, Postgres |
| API (`pkg/api`, `pkg/auth`, `pkg/workspaces`, `pkg/annotations`) | users, sessions, workspaces and their links, annotations, tests, POPs | login, logout, authenticate, authorize, one handler per route | Postgres |
| netql (`pkg/netql`) | none | lex, parse, check, translate, complete | ClickHouse, Prometheus |
| control plane process (`cmd/ns-controlplane`, `pkg/store`) | the phase of its boot, its context; the applied schema files | migrate, ensure the stream, apply the schema, spawn, listen, stop | everything |
| `ns seed admin` (`cmd/ns`) | none | migrate, create a tenant and a user | Postgres |

The data path is POP → stream → ingest → `canary_results` → evaluators →
receivers. The parts share no memory: they meet in JetStream, ClickHouse and
Postgres, each reading what another wrote at some earlier time.

What is hard here:

* **Loops and requests that span several calls.** The ingest loop, a tick of an
  evaluator, a boot and an API request hold a batch, a list, a decision or a
  session between calls to remote systems. Others act in between, calls fail
  before or after they took effect, and the process dies.
* **At-least-once delivery** with timers, lost acks and no deduplication.
* **Shutdown.** The control plane's `main` cancels one context and returns when the HTTP server
  has stopped; it waits for no loop. The agent's `Run` does wait.
* **Several processes at once** migrating the same databases.
* **Arithmetic at the edge**: empty windows, objectives close to 1, durations
  that overflow, intervals that are not positive, periods at the ends of a series.
* **A language that is read in four places**: parser, checker, translators and
  completer each have their own idea of it.

`PROJECT.json` lists the parts as `components` and what is hard to test in them as
`hazards`, each at its line.

## 2. Modules

| module | models |
|---|---|
| `Canary` | the phases of the three runners and the result they make of a failure |
| `POPAgent` (extends `Canary`) | configuration, mesh, process and goroutines of the agent |
| `Ingest` | the ingest goroutine, the JetStream server, the connection between them, the process |
| `ResultLog` | abstract: a result accepted by the stream is owed until it is stored; `Ingest` refines it |
| `Pipeline` (extends `Ingest`, `POPAgent`) | the two composed: the agent's publishes are the stream's |
| `BurnRate` | `SLI`, `burnRate`, `classify`, statuses and windows, on exact fractions |
| `SLOWindows` (extends `BurnRate`) | results arriving and growing old through the four trailing windows |
| `SLOEvaluator` (extends `BurnRate`) | the evaluator goroutine over Postgres, the SLO API, notifiers, crashes |
| `Detector` | `Decompose`, `HoltWinters`, `MAD`, `Suppresses`, `Detect` |
| `Anomaly` (extends `Detector`) | the anomaly evaluator over the catalog, the series and its table |
| `Auth`, `Workspaces`, `Annotations` | sessions and roles; workspaces and links; annotations |
| `Api` (extends all three) | the routes: concurrent requests through the middlewares and handlers |
| `NetQL` | lexer, parser, checker, both translators, the completer, the translate handler |
| `NetQLMeaning` (extends `NetQL`) | the reference: the grammar as derivations, and which rows a query, an SQL text and a PromQL selector mean |
| `Boot` | several processes booting, serving and stopping over shared databases |
| `…Proofs` | the theorems of the module they are named after (`AnomalyProofs` has those of `Detector` too) |
| `MC…` | values of the constants for TLC |

`MC` modules define constants only. A definition whose name ends in `_` and a word
(`AgentReturns_NoWait`) is a plausible mistake kept beside the definition it is
one of; no specification uses it.

### Canary, POPAgent

A probe is a sequence of phases (`dns`, `connect`, `tls`, `answer`), each of which
succeeds or fails while the deadline passes or the agent is told to stop.
`classifyDNSError`, `classifyHTTPError` and `classifyTLSError` decide on the label of a
failure from what the network library and the context say. A target is what may be wrong
with it. `Validate`, `ToCanaryTest` and `GenerateMeshTests` are the configuration; a
duration is one that is absent, does not parse, is negative or is 30 s.
`Timings` says what a failure leaves timed. Each phase before the failing one is timed,
and so is the failing one, except by the http runner when the context ended in it:
`client.Do` then returns while its dial goes on, and whether the hook at the end of the
phase has run by the time the timings are read is a race. That a hook runs between two
of those reads is left out.

| code | action |
|---|---|
| `main`: load, validate, connect; its failures | `StartAgent`, `ConnectAgent`, `ConnectAgentFails` |
| `Scheduler.Run` waiting for its goroutines | `AgentReturns` |
| SIGTERM; kill | `AgentSigterm`; `AgentKilled` |
| `runOne`: jitter, `NewTicker`, `select` | `Jittered`, `TickerPanics`, `Ticked`, `Canceled` |
| `fire`: `Runner.Run` | `BeginProbe`, `PhaseSucceeds`, `PhaseFails`, `DeadlinePasses` |
| `fire`: `Publish`, its error logged and dropped | `PublishResult`, `PublishFails` (in `Pipeline`) |

Connections that are reused or plaintext skip phases; they are not told apart. A test in
the configuration with the id of a mesh test is assumed away (the code runs both). `taken`,
`dropped` and `killed` are history.

### Ingest

| code | action |
|---|---|
| `PullSubscribe` | `Subscribe`, `SubscribeFails` |
| `Fetch` | `Fetch`, `FetchLost` (a timeout changes nothing) |
| `handle`: `json.Unmarshal`, `Nak` | `DecodeFails` |
| `handle`: `insert` | `Insert`, `InsertFails` (before or after ClickHouse took the row) |
| `handle`: `Ack` | `SendAck` |
| `ctx.Err() != nil`, deferred `Drain` | `Return`, `DeleteConsumer` |
| `main` | `Boot`, `Sigterm`, `Exit` |
| `NATSPublisher.Publish` | `Publish(m)` |

The server is external and modelled from the settings the code leaves at their
defaults: deliver all, explicit ack, `AckWait` 30 s, `MaxDeliver` unlimited,
`MaxAckPending` 1000, redeliveries before new messages. `Drain` deletes a durable
consumer that the same subscription created, as the nats.go version in `go.mod`
does. Acks and naks are messages of their own that arrive in any order or not at
all. The seven days after which the stream drops a message are not modelled.
`disturbed` is history: the messages whose timer ran out, whose insert failed
after it was applied or whose consumer was deleted.

`ResultLog` has three sets, `accepted`, `owed` and `stored`, and no stream, consumer,
ack, timer or process. The refinement mapping reads them off the stream, the
consumer's position and its unacknowledged messages, and the rows.

### BurnRate, SLOWindows, SLOEvaluator

A ratio is `[num, den]`, an objective a number of `1/Unit`, a threshold a number
of tenths; comparisons multiply out, so nothing is rounded. The code's `float64`
differs only where a rate equals a threshold to the last bit. `SLI` returns zero
for an empty window as the code does. `FitsColumn` is the limit of
`last_burn_rate NUMERIC(10, 4)`, with `MaxRate` for 10^6. In `SLOWindows` the four
queries see one moment; an age band stands for all ages between two window widths,
and `GrowOld` moves a row of a band on.

| code | action of `SLOEvaluator` |
|---|---|
| `createSLOHandler`, `Store.CreateSLO` | `CreateSLO(s, d)` with `WithDefaults`, `Validate` |
| `Store.DeleteSLO`, `ON DELETE CASCADE` | `DeleteSLO(s)` |
| `tick`: `ListEnabled`, `time.Now`, the end of the loop | `Tick`, `TickDone` |
| `EvaluateOne`: four `SLI` calls, rates, `classify` | `ReadWindows(s)`, `ReadFails(s)` |
| `GetState`, the decision to notify, the check of the URL | `ReadState`, `ReadStateFails` |
| `Notify` | `NotifyOK`, `NotifyFails` |
| `UpsertState` | `WriteState`, `WriteFails` |
| SIGTERM, kill, boot | `Crash`, `Restart` |

`pc` is the call the goroutine is about to make. Everything between two calls is
part of the step of the first one. `Crash` is possible everywhere: a shutdown
cancels the context under a running call, so it is a crash to that call. The
answers of the four queries are unrelated to each other in this module (rows
arrive in between); `SLOWindows` studies them taken together. Identifiers are
numbers because `ListEnabled` orders by them; a listing whose read fails on the way
contains those before the failure, without an error (the fault `list`). `sent`, `lastAlert`, `excused` and
`late` are history: `excused[s]` says that the record of the last alert was lost
or that the SLO has had another status since.

### Detector, Anomaly

The detector works on integers that are multiples of a unit which every division of
the code divides, so that `Decompose`, `HoltWinters`, the median and the MAD are the
code's formulas without its rounding; `Fit` is what they say of the latest point. `Fits`
puts the rounding back: residual and MAD may each be off by up to `Noise`, and `Detect`
may give any verdict that follows from that. Where both are far from zero this decides
ties; where both are zero it decides everything. `NewCalendar` and `Suppresses` are modelled as
they search: by start, then back over the windows before.

| code | action of `Anomaly` |
|---|---|
| `tick`: `ListEnabledTests` | `ListEnabledTests` (a listing that fails ends the tick: no step) |
| `EvaluateOne`: `Series`, `Detect` | `EvaluateOne`, `SeriesFails` |
| `recordTransition`: `GetVerdict` | `GetVerdict`, `GetVerdictFails` (counts as none) |
| `UpsertVerdict` | `UpsertVerdict`, `UpsertVerdictFails` (before or after the commit) |
| the log line | `LogTransition` |
| kill and boot | `Crash` |

`Bucket` and `Gap` let an hour go by with results or without; `Disable` pauses or
deletes a test. `announced` and `missed` are history: the severity last logged for a
test, and the tests whose row was committed without the log being reached.

### Auth, Workspaces, Annotations, Api

A request is idle, has verified a password and not yet stored its session
(`LoginVerify`, `LoginCreate`), or is past `Authenticate`, which read its session once;
then one handler runs, which executes one SQL statement with the tenant it got from
the session and answers. `Permitted` and `Refused` are the `Authorize` middleware.
Every route of the table in `pkg/api/server.go` that reads or writes these tables is
an action with its handler's name. A statement may fail before it took effect
(`Rejects`, `CreateSessionFails`) or after (`Applied`), and a listing may be cut short by
a read that fails on the way: none of these stores asks `rows.Err()`, so the rows read so
far are answered 200 (`CutShort`). Names, texts and lists are
their lengths; `Duration` keeps the 64 bits of `time.Duration(ttl) * time.Second`.
`minted` and `grants` are history: ids are random and issued once; a grant is what the
caller of a share was told. `answer` is the answer of the last step, for the properties.

### NetQL, NetQLMeaning

A word is a string whose characters are looked at only by the lexer; the lexer is
modelled by the token it makes of a word: `Overflows` are the numbers beyond a
`float64`, `AtoiFails` those beyond an `int`, `OtherNames` the words that name nothing.
The parser is the code's recursive
descent, token by token; what can be parsed from a place is a function of the place
(`Exprs`), in terms of the places behind it. A filter is the sequence of the nodes of
its tree, each behind its terms; `writeExpr` goes along it and keeps the texts that no
node has taken up, so that the SQL comes out as a sequence of words and conditions with
numbered arguments, and `collectLabels` looks at every node. The state
is a query typed phrase by phrase: as long as it is `Viable`, meaning that the parser
accepts all of it so far and would only like more, another phrase is typed or the
query submitted. `NetQLMeaning` knows nothing of the parser. `Documented` is the EBNF of
`docs/algorithms/netql-language.md:84-120`, rule by rule, over the lexer's tokens;
`Refused` is what the parser has against single tokens that the EBNF allows, and
`Derivations` is the grammar without those. `Readings` says which rows a span selects,
one set of rows for every way to derive it (the same for netql and SQL).

### Boot

| code | action |
|---|---|
| `postgres.Open`, `Migrate` (`loadAppliedSet`, `applyOne`) | `Open`, `LoadApplied`, `ApplyMigration`, `MigrationConflict` |
| `ns seed admin`: `EnsureTenant`, `CreateUser` | `EnsureTenant`, `CreateUser` |
| `nats.Connect`, `EnsureStream` | `Connect`, `StreamInfo`, `EnsureStream` |
| `clickhouse.Open`, `Apply` | `LoadSchema`, `ExecSchema`, `RecordSchema` |
| the three goroutines | `Spawn` |
| `AutoTLS`, `api.New`, `validateTLSConfig`, `Run` | `Listen`, `Return` |
| an error, SIGTERM, kill, restart | `Fails`, `Sigterm`, `Crash`, `Start` |

A migration and its record are one transaction; a ClickHouse file and its record are
two statements. What is in a file is left out except that it may run again. `Settle`
is the moment from which on calls succeed and nobody stops a process.

## 3. Runs

| run | instance | checks |
|---|---|---|
| `windows` | 3 definitions (ordinary, thresholds swapped, low objective), 5 rows | the burn-rate rule over nested windows |
| `evaluator` | 1 SLO, 6 definitions, 4 answers per window, all faults, clock to 4 with a cooldown of 2 | alerts, their record, deletes |
| `slo_liveness` | 2 SLOs, the calls of one may fail for ever | `HealthyIsEvaluated`, `FirstBurnIsAnnounced` |
| `ingest` | a good and a bad message, pulls of 2, all faults | at least once, once unless disturbed, in the end, refinement of `ResultLog` |
| `pipeline` | 6 configurations, 2 tests, 1 sample and 1 bad message, kills, stops, failing connects, publishes and inserts | results accounted for, `RunnerContract`, every test fires, what is measured is stored |
| `api` | 2 tenants, 3 users of 3 roles, 2 requests at a time, 2 sessions, 1 workspace, 2 slugs, 2 annotations, 1 test, 1 POP; 2 rows at a time, of one table | sessions, tenants, links, paging |
| `boot` | 2 processes, 6 environments for one of them and 2 for the other, 2 files in each schema, 2 stream versions, all faults | schemas, readiness, TLS, `ServesInTheEnd` |
| `anomaly` | every series of two levels over 8 hours with one gap, period 2, nested windows out of order, rounding up to `Critical` | suppression, what regular series and drifts leave either method, announcements |
| `netql` | 2 metrics, 31 phrases, up to 6 of them, 64 rows | the documented EBNF and what is refused of it, both translations, suggestions |
| `resume`, `poison`, `execute` | the smallest instance that shows it | a statement of the repository that the code does not keep (section 6) |

Why these bounds are enough for the cases to happen:

* *windows*: five rows fill all four bands with one left to make a ratio other than 0
  and 1 in one of them.
* *evaluator*: an SLO's actions touch only its own entries, and two SLOs meet only in
  `todo`, which the liveness run covers with two and the proofs for any number. Two
  cooldowns let an alert repeat twice. With a clock that stands still (`slo_liveness`)
  no cooldown ever ends, which makes a retry hardest.
* *ingest*: one good and one bad message fill a pull together and each can be
  redelivered in front of the other. `MaxRows` stops counting copies at 2, which is all
  the properties tell apart.
* *pipeline*: one sample is followed through every fault; when it is taken, later
  probes go on without one, so that loops and shutdowns are not cut off. `Faults` has
  only failing inserts, since `ingest` has the others.
* *api*: a request that read its session and another one that ends it or shares,
  unshares or deletes what the first is about are the interleavings there are. No
  statement touches two of the four tables, so that `MaxTables` = 1 leaves out only
  products of what one table can do with what another can; the theorems are for any
  `MaxTables`. With
  `Int64Half` = 4, 4 seconds overflow to a negative duration, 8 to zero and −7 to a
  positive one. `Symmetry` permutes requests, sessions, slugs and annotations, which no
  definition tells apart; `View` leaves out `answer`, which no step reads; the properties are
  invariants and action properties, which keeps both sound.
* *boot*: two files and two processes give one process a stale applied set in the middle
  of the other's work.
* *anomaly*: eight hours at a period of 2 and a minimum of 5 samples reach all three
  methods (fewer than 5, 5 to 7, 8) and the edges of the moving average; `49152` makes
  all divisions exact up to there. With `Noise` = `Critical` = 3 rounding
  alone gives a regular series any severity.
* *netql*: six phrases, some of several tokens, make a filter with brackets, a
  negation and both connectives, a list, and combinations of clauses. Each disjunct of
  `Refused` meets a phrase: a list behind `=`, an `in` without one, a duration of zero and
  one too long, a limit too large, a number beyond a `float64`.

Deadlock is checked where the modelled loops may not stop. It is not in `anomaly`
(time is bounded, and without tests nothing is left to do), `boot` (all serve) and
`netql` (an answered query is done).

### Fairness

`SLOEvaluator`: the ticker fires and every call returns, well or not, because each
ends in the end (weak fairness of each step as a disjunction of its outcomes): a
webhook after the 5 seconds of its client, a call to a store, which has only the
context of the process, when its connection is given up; a process that is down is
started by its supervisor; in the end it stays up. For the SLOs in `Healthy` only, each
kind of call succeeds again and again if it is made again and again, and a listing
reaches them again and again (strong fairness).
Nothing is assumed of the other SLOs, which is the point of `HealthyIsEvaluated`.

`Ingest`: the process is restarted, told to stop only finitely often, and ends
when told to; its loop does not stop. Of infinitely many pulls with a message, or
inserts or acks of it, not all fail. Server timers run out. The server's order
(redeliveries first) and everything else is unconstrained.

`Pipeline` adds of the agent: it is restarted, its goroutines go on, and a probe ends by
its deadline (`context.WithTimeout`); a `select` with both cases ready takes each of them
some time, as the Go runtime's random choice does (strong fairness of `Canceled`); in
the end a connection is made and nobody stops or kills the agent but itself. A publish
may fail for ever: `MeasuredIsStored` has that as its exception.

`Boot`: `restart: unless-stopped` starts what went down, a process goes on with its calls,
and at some time the servers are up and nobody stops or kills a process. Conflicts
between the processes are not assumed away.

## 4. Proofs

All theorems hold for every value of the constants that satisfies the assumptions of
their modules, which TLC evaluates on every run.

**`SLOEvaluatorProofs`** (`EvaluatorAssumption`, `BurnRateAssumption`). The invariants
speak of stored rows or of the moment before `Notify`, while the goroutine carries a
decision from `ReadState` to `WriteState`. `IInv` adds what is true of that decision in
flight. `Delivered`: an alert time about to be written is that of an alert the receiver
got. `Late`: no alert has gone out late for an SLO that exists, or that is still listed
and not past its notification. `Recorded`: the last alert of an SLO, unless excused, is
in its row (`OnRecord`) or in the evaluation about to write it (`InFlight`).

**`SLOWindowsProofs`** (`BurnRateAssumption`). `AboveMeans` clears the fractions of a
comparison; `ShareGrows` and its counterparts say what one more row does to a window's
rate. The properties follow by cases over the windows a row lies in, for every
objective, threshold and number of rows.

**`PipelineProofs`**, of `Ingest` (`IngestAssumption`). `AckedIsStored` is about the server; what makes
it true is in the connection and the process. `IInv` has five parts: `TypeOK`; `Queues`
(no queue holds a message twice, what waits for redelivery is unacknowledged, what is in
the batch was delivered); `AckedIsStored` itself; `AcksAreEarned` (an ack on its way, or
about to be sent, is of a message with a row); and `Quiet` for every message that nothing
disturbed: it is in one place at a time, and once it has a row it is in none, except as
the message whose ack is about to be sent. `Refinement` shows that every step is a step
of `ResultLog` or a stutter.

Of `Pipeline` (also `POPAgentAssumption`, `PipelineAssumption`): `AgentIInv`: a
probe is in a phase of its own kind of test, which has a runner because the
configuration was validated before anything started; a sample in hand was measured; and
`RunnerContract`. `PipelineIsIngest` (`PipelineSpec => Spec`) shows that the composition
implements ingest's specification, so that its theorems hold of the whole: stored at
least once, once unless disturbed, and the log of results refined from the probe to the
row (`PipelineStores`, `PipelineStoresOnce`, `PipelineRefinesLog`).
`NothingUnaccounted` rests on both: the stream only grows, and `Run` returns only when
no goroutine has a sample in hand.

**`BootProofs`** (`BootAssumption`). `Knows(p)`, for each process: a file it does not hold
as still to apply is recorded, by whoever recorded it, and past each phase of the boot
what the phase was for is there. This is why a stale applied set does no harm: the next
file in order of a stale set lies at most one past what is applied.

**`ApiProofs`** (`ApiAssumption` and those of the parts). `AuthOK` and `DataOK` type the
tables; `LinkOK` ties the slug of a row to its grant: the grant is not over, the row
expires no later than it, and no two rows carry one slug. `NoLongerThanAsked` is the
arithmetic: what overflows and is accepted is never longer than what was asked.
`PagingIsComplete` follows from `DataOK` alone. Rows come in order of their instants, so
that what a page leaves out is not before its last row, be it cut by the limit or by a
failing read. If all of a page cut by the limit has the instant asked for, at least
`limit` notes share it. It needs the set
of identifiers in use to be finite, which any table is.

**`AnomalyProofs`**, of `Detector` (`DetectorAssumption`). What the two methods and the calendar compute,
as facts about the operators. Each is an induction over a series or a list of windows.
The library's induction principles take the predicate as a parameter, which the provers
cannot instantiate; `LeastOf` (a set of naturals has a least element) and
`BoundedInduction` put the set of numbers a claim holds of in its place.

* `SuppressesIsCoverage`: any windows can be sorted (`AllSortable`), in a sorted calendar
  the windows that have started are the first ones (`StartedPrefix`), so that the search
  and the walk back see all that could cover the time.
* `DriftLeavesResiduals`: a sum over an interval is a difference of two prefix sums
  (`SumInterval`); a straight line adds `c·k(k−1)` to the prefix sum of k (`DriftPre`), and so
  exactly its own value at the centre to the moving average, for even periods and odd
  ones (`DriftTrend`). `DriftShowsInFit`: `Detect` compares the latest point with the trend
  of half a period before, so that the line moves that residual by its rise since then.
* `RegularFitsExactly`: any period in a row of a regular series sums to the same
  (`RegularWindow`), so its trend is its level, its season what is left (`RegularDecompose`);
  Holt-Winters starts with that level, no trend and that season and stays there
  (`SteadyStart`, `SteadyStep`).

`Drifted` adds multiples of twice the period, for which the divisions of the moving
average come out even. `\div` is the floor where the code has a `float64`; of the rounding the theorems
about the evaluator assume only that `Noise` bounds what it adds to a fit.

Of `Anomaly` (also `AnomalyAssumption`): `Shape` adds to `TypeOK` that
histories are sequences of points and that the verdict in hand is of no later one than
now. `SoundInv` says of the stored verdicts, and of the one about to be stored, what
`SuppressedStaysBelow` says of the stored ones; `SuppressesIsCoverage` makes it true of a
new one. `Memory`, for `EveryTransitionAnnounced`: the severity taken for the last one is
the stored one or none, so that where no transition is seen the stored severity had been
announced or missed before. `RegularSeriesLeaveRounding` and `DriftShowsAtTheEdge` are the
detector's theorems, applied to the series a test may have in a state that has its
`Shape`. The first does not say that a regular series is quiet: in `float64` it need not be
(section 6).

**`NetQLProofs`** (`NetQLAssumption`, `TokensAssumption`, `RegistryAssumption`). The
recursion of `Readings` and that of the parser are functions over spans and places;
that they have solutions is proved (`ReadingsExist`, `ExprsExist`) by induction over a set
of naturals.

* `ReadInOneWay`: whether a word is the end of what starts at a place does not depend on
  where the span ends, because behind a term a rule goes on at its own connective only
  (`GoesOn`). So a span has one reading at most, and of two expressions that start at one
  place and end where the rule cannot go on, one is not longer than the other.
* `AcceptsTheGrammarHolds`: `Right` says of a parse from a place that it read a reading of
  the grammar and that every reading which ends where the rule cannot go on is the one it
  read. `RightTerm`, `RightUnary`, `RightAnd` and `RightOr` prove it of one function each,
  from the parses behind the place; `ExprsRight` closes the induction. `PhraseRight` says
  the same of what stands behind the word of a clause; a clause ends where the word of a
  later one or the end of the query is (`Rest`), which makes the six clauses fit
  (`ClauseSound`, `ClauseComplete`). That is the parser against `Derivations`;
  `DocumentedGrammar` compares `Derivations` with the EBNF: what the EBNF derives from a
  query without a refused token the rules derive too (`AllDocumented` for expressions,
  `ClauseDerived`), and what the rules derive has no refused token.
* `PromSelectsTheAskedHolds`: a tree and a set of rows go together (`Composed`) in a
  relation that holds of the predicates and is kept by all that the parser composes;
  `FilterMeans` proves, again by induction over places, that the tree of `parseExpr` then
  goes with a reading of its words, which is the only one. The relation for Prometheus is
  `Faithful`: if the tree has nothing but ands of predicates that have a matcher, it selects
  what its predicates select together. `TranslatePrometheus` refuses all other trees, and
  `MatcherMeans` is one matcher against one predicate, the values of the type check included.
* `SQLSelectsTheAskedHolds`: the relation for ClickHouse is `WritesOne`: behind whatever
  was written and bound before, the tree writes one text more, and that text `Says` its
  rows. A text says something if it has that reading wherever it stands in a longer one, and
  whatever is bound behind its own arguments. That is what makes texts compose:
  `SaysBracket`, `SaysNot`, `SaysAnd` and `SaysOr` are the words that `writeJoin` and the
  negation add, `PredicateIsOne` is a condition with its placeholders. The terms of a join
  are several texts until its node takes them up (`WritesMany`), glued with its word, in
  brackets (`ManyAreOne`). In front of the filter stand the tenant and the range
  (`WhereSays`). That there is no other reading is `ReadInOneWay` again, for the words of
  SQL (`SqlAtomic`).

**`NetQLCompletionProofs`** (also `WordsAssumption`: keywords, punctuation and the
registry's keys are strings). `SuggestionsAreAcceptedHolds` compares two parses, of the
query `s` and of `t`, which is `s` with the offered word behind it (`Extends`).

* `Steady`: a parse of `s` that stops within `s` saw nothing of the new word, so that of
  `t` is the same (`Settled`), and it passed only tokens of its own rule (`Takes`). From
  `expect` (`ExpectSteady`) through the lists and values upwards; `ItemsSteady` is the loop
  over a list, which cannot end in two places.
* `Grows`: an expression that got to the end of `s` gets to the end of `t` if the word
  `Fits` there, a field where a condition may begin or an operator behind a field.
  `PredicateGrows`, `UnaryGrows`, `AndGrows` and `OrGrows` say it of one function each;
  `ExprGrows` closes the induction over places.
* `Continues` says the same of each clause and of what the completer offers behind its
  last token (`Offered`); the exception is a finished `order by`, where `limit` is left to
  the next clause. `EndG` to `EndL` are where the six clauses together end; a word at the
  end of the query either goes on with the clause that reached it or opens a later one
  (`ClauseOpens`), so that the end moves one further (`EndGGrows`).
* `Suggested` is what the completer offers, as a case distinction on the last tokens
  (`LaterWords`). The completer looks at two tokens and the list before them and not at a
  parse; `OfferedIsViable` shows that for a query the parser has not refused this is
  enough. Metrics and the words of clauses, offered to an empty query and behind the
  metric, are `MetricIsViable` and `ClauseIsViable`.

## 5. Only model-checked

* Liveness: `HealthyIsEvaluated`, `FirstBurnIsAnnounced`, `WellFormedIngested`,
  `EveryTestFires`, `MeasuredIsStored`, `ServesInTheEnd`. Fairness and `ENABLED` are out of
  the prover's reach.

Every other property of a passing run is a theorem.

## 6. Where the code and its documentation disagree

With a run:

1. `resume`: a comment says that a restart resumes where it was; a clean shutdown
   deletes the durable consumer its subscription created.
2. `poison`: a comment relies on a default limit of redeliveries, which is none. As many
   undecodable messages as one pull takes stop ingestion.
3. `execute`: the route of `POST /v1/netql/execute` asks for the verb `execute`, which
   `verbLevel` does not know; every role is answered 403.

Met while modelling; the models contain the behaviour and the properties are stated so
that they allow for it:

4. The recovery branch clears `LastAlertedAt` "so the next burn fires immediately"
   (`pkg/slo/evaluator.go:289`); `UpsertState`'s `COALESCE` (`pkg/slo/store.go:326`) keeps
   the old time. The next burn still fires by its change of status, but when that alert
   fails it is not retried before the old cooldown ends.
5. The burn rate of an objective of 0.999999 does not fit `NUMERIC(10, 4)`: no state is
   ever written, and the alert is sent on every tick, against the comment at
   `pkg/slo/evaluator.go:129-131`.
6. An empty 5-minute window counts as all bad (`pkg/slo/evaluator.go:87`); the comment at
   302-303 says otherwise.
7. A negative `ttl_seconds` can wrap to a positive duration and pass the check for "ttl
   must be non-negative" (`pkg/api/workspaces.go:223`, `pkg/workspaces/service.go`).
8. `matches` is anchored in PromQL and not in ClickHouse. PromQL drops `order by`, `limit`
   and `step`, ClickHouse drops `step`. Line 138 of `docs/algorithms/netql-language.md`
   gives `latency_p95 by error_kind` as an example, which the registry does not allow. The
   "locked" EBNF of lines 84-120 has lists behind every operator, single values behind
   `in`, durations of zero and numbers of any length, which the parser refuses (`Refused`;
   `pkg/netql/parser.go:170-173`, 353-374, 466-469). The other way round the lexer takes
   `7.` for a number, which the EBNF does not.
9. The completer offers, behind `order by`, columns that `Check` accepts only where they
   are selected, and operators whatever the kind of the field. Both parse, which is what
   `SuggestionsAreAccepted` asks.
10. `Method` and `ExpectedStatus` of a test definition are parsed and not passed on by
    `ToCanaryTest`.
11. `docs/algorithms/anomaly-detection.md:255-256` and `pkg/anomaly/detector_test.go:99`
    expect severity none or watch of a clean series. In exact numbers both methods leave
    it a residual and a MAD of zero (`RegularFitsExactly`); in `float64` both are rounding
    errors, nothing bounds their ratio, and `pkg/anomaly/evaluator_test.go:111-116` says
    that it explodes. The hourly values of a sine of amplitude 5, mean 10 and period 24,
    repeated exactly for a week and decomposed in doubles by the formulas of `stl.go`, end
    with a residual of 3.6e-15 over a MAD of 8.3e-17, 42 times as much, which is critical.
    The model leaves that ratio open.
12. The residual of the latest point is taken against the trend of half a period before
    (`pkg/anomaly/detector.go:123-132`), so that a steady drift shows in it, with the MAD
    as it was. `docs/algorithms/anomaly-detection.md:281-288` calls the bias small unless the
    series changes fast at that moment; it is the rise of half a period at any moment
    (`DriftShowsAtTheEdge`), which a long drift with little noise makes an anomaly.
13. "A point inside any of these intervals is reported with Suppressed=true"
    (`pkg/anomaly/types.go:83-84`): not with a series below `MinSamples`, for which `Detect`
    returns before it looks at the calendar (`pkg/anomaly/detector.go:68-78`).
    `SuppressedStaysBelow` has the other half of the sentence, that such a point stays below
    anomaly, and that none is called suppressed that is not.
14. "grep the controlplane log for 'anomaly transition' and find every detection"
    (`pkg/anomaly/evaluator.go:238-241`): not after a crash between the commit and the log,
    nor after a write that is reported failed although it was committed (257-259).
15. The listings of annotations, workspaces, tests, POPs and SLOs do not ask `rows.Err()`
    (`pkg/annotations/store.go:126-134`, `pkg/workspaces/store.go:103`, `pkg/api/tests.go:93`,
    `pkg/api/pops.go:87`, `pkg/slo/store.go:145` and 279; the anomaly stores do): a
    read that fails on the way answers what it has so far as if it were all. A client
    that pages until a page is short may stop too early.

## 7. Not modelled

* Telemetry, metrics, the logging, recovery and HSTS middlewares, the health endpoint
  and the web shell: they keep no state the rest depends on.
* `ja3`/`ja4` fingerprints: string formats without a caller.
* Reads that change nothing and that no property is about: the anomaly API, the query
  of results, the list and get of SLOs, the execution of a netql query in ClickHouse.
* `RotatePassword` and `EnsureConsumer`: no caller in this version.
* `ns seed demo`: idempotent inserts of example rows.
* The contents of the files AutoTLS writes for development: two processes that write
  them at once may leave a pair that does not match; `ListenAndServeTLS` then fails and
  the process is restarted.
* bcrypt, TLS, SQL and PromQL themselves; of floating-point rounding in the detector
  everything but a bound on what it adds to a fit. What the phases shifted by a gap in a
  series do to its verdict is in the runs, but no property is about it.
