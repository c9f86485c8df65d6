# INCH in TLA+

INCH is a pipeline for host security events: agents collect events, a
collector deduplicates them and writes them to Kafka, a processor evaluates
detection rules, an alert manager suppresses and throttles alerts and passes
them to NATS, a dispatcher delivers them to channels.  This directory holds a
TLA+ model of the parts whose correctness depends on order, failure or
concurrency, the configurations with which TLC checks them, and proofs for the
TLA+ proof system.

`PROJECT.json` lists components, runs, mutants, the map from every definition
to the source lines it stands for, findings, hazards and theorems.

## 1. The system

| Component (source) | State it keeps | Operations | Interacts with |
|---|---|---|---|
| Agent sources (`inch/internal/agent/tailer.go`, `procwatch.go`) | file position, known processes | read, diff, emit | bounded events channel |
| Batcher (`inch/internal/agent/batcher.go`) | `batch`, ticker | receive, size / timer / final flush | channel, gRPC `IngestEvents` |
| Collector (`inch/internal/collector`) | none of its own; Redis keys, Kafka topic | per event: id check, SET NX, publish | gRPC, Redis, Kafka |
| Consume loop (`pkg/kafkautil/consumer.go`) | client's marks, committed offset | poll, handle, automatic commit | Kafka |
| Worker pool (`inch/internal/processor/worker.go`, `cmd/event-processor`) | `workCh`, workers | submit, evaluate, persist, shutdown | loop, rules, alerts topic, PostgreSQL |
| Rule engine (`inch/internal/processor/rules`) | threshold windows, sequence states | match, count, advance, reload, clean up | shared by all workers |
| Severity, enrichment (`severity.go`, `enrichment/`) | lookup tables, caches | score, enrich | worker |
| Alert manager (`inch/internal/alertmgr`, `cmd/alert-manager`) | suppression map | suppress, throttle, publish | Kafka, bucket, breaker, NATS |
| Token bucket (`pkg/ratelimiter`) | atomic token count | Allow, Wait, refill | alert manager |
| Circuit breaker (`pkg/circuitbreaker`) | state, failures, last failure | Execute, callbacks | alert manager |
| Dispatcher (`inch/internal/dispatcher`) | in-flight messages | fetch, send with retry, DLQ, ack | JetStream, webhook |
| Retry (`pkg/retry`), dead letter queue (`pkg/dlq`) | attempt counter; bounded list | Do; Push, Drain | dispatcher |
| Replay (`inch/internal/replay`) | one consumer per request | stream records of a time span | Kafka, gRPC stream |
| Config, health, connection factories, observability | none after start | set-up | every service |

What is hard in each of them, and what must hold:

* **Batcher and collector.** A request fails on the client while its handler
  runs on, and the whole batch is sent again.  Key, publish and response are
  three systems with no transaction around them.  Correct means: an event is
  forgotten by its agent only when the topic has it or will have it; no
  repetition is written twice; the order of a host is kept; a stop hands the
  batch over; an outage ends with the events delivered.
* **Consume loop and pool.** Offsets follow the handler, and the handler only
  fills a channel.  Correct means: offsets never pass the handler; the loss at a
  crash is bounded; a living process loses nothing, waits for no one for ever
  and ends when told to.
* **Circuit breaker.** The lock is released during the protected call, so a
  result may be applied to another state than the one the call was admitted
  in.  Correct means: half-open is never stuck, one recovery test runs at a
  time, and only documented transitions happen.
* **Rule engine.** Windows and sequences are keyed state shared by workers
  that see one host's events in either order.
* **Agent sources.** Files are truncated and moved while they are read, scans of
  the process table fail, and the channel is full when the signal comes.
  Correct means: no line is reported twice, what the tailer sees it reports, the
  picture of the process table becomes right again, and everything ends.
* **Replay.** The topic grows while it is read, and its partitions come in any
  order.  Correct means: the range is evaluated in order and to its end, finds
  what the processor found, and the request ends.
* **Alert path.** A suppression key is set before the limiter, the breaker and
  the publish have had their say; a message is redelivered while its retries
  still run.

The hazards, each at its line, are in `PROJECT.json`.

## 2. Modules

```
 SecurityEvents       LogTailer  ProcessWatcher       RawRecords             CircuitBreaker -------------+
   |        \             |       /                     /     \                   |                     |
Batcher   Collector       |      /              KafkaConsumer  WorkerPool         |     AtomicBucket   PkgProofs
   |  \      /            |     /                  |      \      /                |       |       \ refined by |
   |  Ingestion --- IngestionProofs                |     Processor                |       |     TokenBucket
   +----------------- Agent                        +---------- AlertManager ------+-------+

WindowTracker  SequenceTracker     LogLines  Enrichment  RuleMatching        DeadLetters
     |   \      /   |                  \         |         /                      |
     |  RuleEngine  |                   \        |        /                   Dispatcher --- DispatcherProofs
     |      |       |                    \       |       /
     |  RuleEngineProofs                  \      |      /
     +------|-------+---------------------- Replay
            |                                 |
            +-------------------------- ReplayProofs
```

`ProcessorProofs`, `AlertManagerProofs` and `AgentProofs` extend the component
they are named after, `PkgProofs` the two components under `pkg`.
`ReplayProofs` also extends `RuleEngineProofs`, for its lemmas about the
sequence tracker: they hold for every sequence of steps and say nothing of the
rule engine's own constants, whose assumptions the module inherits and does not
use.

A line down is `EXTENDS`, except that `AlertManager` takes the breaker and the
bucket by `INSTANCE`, and `TokenBucket` instantiates `AtomicBucket` as the
specification it implements.  `MC*` modules give TLC constants that a `.cfg`
cannot write, and symmetry sets.

### CircuitBreaker (`pkg/circuitbreaker/breaker.go`)

`state`, `failures`, `lastFailure` are the fields of `Breaker`; `pc` and
`started` say where each caller is, `pending` and `reported` are the callback
goroutines.  One action is one critical section: `ExecuteClosed`,
`ExecuteProbe` and `ExecuteReject` are `Execute` up to its unlock, `ClosedOk`,
`ClosedFail`, `ProbeOk` and `ProbeFail` the section that follows `fn()` in
`tryClosed` and `tryHalfOpen`.  `fn()` itself is the time between the two.
Time is discrete; `CallTime` is the longest `fn()` may take.  The code bounds
nothing, so which promises hold depends on how `CallTime` compares with
`Timeout`.

### Batcher, Collector, Ingestion (`internal/agent`, `internal/collector`)

An agent's events are numbered; since channel and batch are first-in
first-out, the counters `sent`, `taken` and `cleared` give their contents.
`mode` says whether `Run` is in its select or in the RPC of a flush.  In the
collector each request has a handler that goes event by event through `check`
(SET NX) and `publish`; `keys` is Redis, `log` the topic.  `dedup` says whether
there was a Redis at start.  `Ingestion` joins them: `Send` turns a flush into
a handler, `Respond` and `ReportFailure` end it, `Disconnect` makes the client
give up while the handler goes on, `LoseClient`/`NoticeLoss` separate the two
moments at which client and server learn of it.

Faults: `send` (request lost), `disconnect`, `redis` (SET NX fails, before or
after the key is set), `publish` (fails, before or after the write), `retry`
(the producer writes twice; idempotence is disabled in `producer.go`),
`expire`, `crash`, `stop`.  `StopServer`, `ServerStopped` and `StartServer` are
the process around the handlers: a stop drains them, a start takes what Redis
it finds.  A batch larger than `MaxMessage`, or with a string that is not UTF-8
(`Broken`), is not `Sendable`: it reaches no handler and stays.

### LogTailer, ProcessWatcher, Agent (`internal/agent`, `cmd/inch-agent`)

`LogTailer` has the disk (`content`, `path`) and the reader (`handle`, `pos`,
`buffer`, `eof`).  `ReadChunk` is what `bufio.Scanner` (external) reads at
once, `SkipBlank` and `EmitLine` the body of the loop, `EndOfScan` the scanner's
`false` and `checkRotation` behind it.  The position is the scanner's, which
runs ahead of the lines handed out, as `Seek` reports it.  `ProcessWatcher`
lists the pids (`ReadDir`, `ReadDirFails`) and reads one process after the other
(`ReadCmdline`, `ReadCmdlineFails`), while processes end and pids are used again;
then it compares with the previous map and makes one report after the other.
The first scan is the initial `previous`: any part of the table, as reads may
have failed.  `Agent` puts both and the `Batcher` around the channel; `Signal`
cancels the context they share.  A flush of a batch that is not `Sendable` fails
whenever it is tried, any other one at most `MaxFaults` times.

### LogLines, Enrichment, RuleMatching (`tailer.go`, `enrichment/`, `severity.go`, `rules/`)

Operators: `ParseLine` makes an event of a line, `Processed` is what a worker
adds before it evaluates, `MatchesConditions`, `GroupKey`, `Valid` and
`LoadFromDir` are the rules.  A line is what the parser can tell apart: the
phrases in it, the service each word names, what stands behind `from`.
Substrings and regular expressions are relations given as constants, `With` is
an assignment to entries of an event's metadata, and the rules directory is a
set of entries, since the order of its files decides nothing.  `raw_message` and
`agent_id` are left out: no property depends on them.  `Replay` uses and checks
these operators: its properties compare what a raw event matches with what the
processed one matches.

### Replay (`internal/replay/replay.go`)

`clock` is the wall clock.  A record has two times: `read`, which the agent gave
the event, and `time`, which a collector gave the record.  Agents and collectors
have clocks of their own and batches wait, so both may differ from `clock` by
the pairs in the host's `Lags`, which are any; nothing makes the times of a
partition ascend.  The range selects by `time` (`replay.go:166`), a threshold
window counts `read` (`engine.go:63`), and a sequence is timed by `clock`, which
goes on while the replay polls and between two records (`sequence.go:64`).

`topic` grows by `Produce` while `PollReturns` hands out records of all
partitions, in an order of its choice; `HandleRecord` is the function given to
`EachRecord`, which is at `visited` in each partition and goes through one of
them (`turn`) to the end of the fetch before it takes the next; `done` is the
partition whose record behind the range ended the replay.  The engine of the
replay is one window and one sequence state for the group followed, the same
modules as in `RuleEngine`; the directory may hold any rules, of which at most
one threshold and one sequence rule are enabled (`ReplayAssumption`), as rules
share no state.

### KafkaConsumer, WorkerPool, Processor (`pkg/kafkautil`, `internal/processor`)

One partition, records numbered by offset.  `fetched`, `handled`, `mark` and
`committed` order the four moments of a record's offset; the mark moves when
the loop polls again (franz-go's automatic commit, modelled from its use).
The pool's `workCh`, `closed`, and per worker `hand` and `stage` follow
`worker.go`; enrichment, severity, rules and alerts are the one step
`Evaluate`.  `Processor` joins them and adds what `main` does: the signal, the
goroutine that closes the channel, the exit that waits for nobody, the
restart.  Faults: `stop`, `crash`, `fetch`, `persist`.

### WindowTracker, SequenceTracker, RuleEngine (`internal/processor/rules`)

`WindowTracker` is `AddAndCheck` and `Cleanup` of `temporal.go` for one key,
`SequenceTracker` is `Evaluate` and `Cleanup` of `sequence.go` for one group;
keys share nothing but a lock.  Steps of a rule are sets of event kinds with a
count.  A window is a set of entries, each an event's number and timestamp.
The trackers' histories (`counted`, `added`, `consumed`, `chain`,
`detected`) feed the reference definitions: a window that forgets nothing, and
`Fulfils`, a history of which some division (`Divides`) into one part for each
step has in every part the events its step asks for.  `RuleEngine` has
the workers: `Start` is the copy of the rules under the read lock,
`EvalThreshold` and `EvalSequence` the two locked calls; between them other
workers, `Reload` and the two halves of the cleanup may act.  Thresholds go by
the events' timestamps, sequences by the wall clock, as in the code.

### AtomicBucket, TokenBucket (`pkg/ratelimiter/bucket.go`)

`TokenBucket` has one action per atomic operation: `FindEmpty` and
`LoadTokens` are the load in `Allow`, `SwapTake` and `SwapTakeFails` its
compare-and-swap; `LoadRoom`, `FindFull`, `SwapAdd`, `SwapAddFails` the same in
the refill goroutine, `PollAgain` and `WaitCancelled` the select of `Wait`, `due` the
ticker's one-place channel.  `AtomicBucket` is what a user of the package may
think of: `Take` and `Add` in one step.

### AlertManager (`internal/alertmgr`, `cmd/alert-manager`)

`KafkaConsumer` with `Handle` as its handler.  `stage` is the place in
`Handle`: `dedup` (`Suppress`, `Admit`), `limit` (`Throttle`, `TakeToken`),
`breaker` (`BreakerRejects`, `BeginPublish`), `publish` (`PublishOk`,
`PublishFail`), or `doomed` for a publish begun with a cancelled context.
`seen` is the suppression map, cleaned up lazily by each check.  The bucket is
`AtomicBucket`, which `TokenBucket` implements; the breaker is `CircuitBreaker`
with the consuming goroutine as its only caller.

### DeadLetters, Dispatcher (`internal/dispatcher`, `pkg/retry`, `pkg/dlq`)

Instances share a JetStream consumer.  `stored` and `available` are the stream
(external): an alert that is out and not acknowledged comes back when AckWait
ends, with nobody working on it (`Expire`) or, for an instance slower than
AckWait, under its hands (`ExpireInHand`).  `at` is where an instance is in
`Run` and `handleMessage`: which alert, channel and attempt.  `SendOk`,
`SendFails`, `PauseOver` and `PauseCancelled` are the loop of `retry.Do`,
`GiveUp` the branch that pushes a dead letter, `Ack` the acknowledgement that
follows whatever happened.  Faults: `stop`, `crash`, `ack`, `slow`.

## 3. Runs

| Run | Checks | Bounds | Result |
|---|---|---|---|
| `CircuitBreaker` | two invariants, three action properties | 2 callers, threshold 2, timeout = call time = 2, clock to 6, callbacks | hold |
| `Ingestion_safety` | four invariants | 1 agent, 3 events (the second anonymous), batch 2, 2 handlers, any 3 of 8 kinds of fault | hold |
| `Ingestion_NothingLost` | `NothingLost` | one failed publish | violated |
| `Agent` | two invariants, four liveness properties | 4 lines (1 old, 1 empty), 2 files, 2 pids, one in use at the start, one spawn, channel 1, batch 2, message of 2 events, third event not UTF-8, one fault, load 4 | hold |
| `Agent_LikeTail` | `LikeTail` | two lines, no fault | violated |
| `Processor` | three invariants, two liveness properties | 5 records, 2 workers, channel of 1, one incident | hold |
| `Processor_NeverPanics` | `NeverPanics` | one stop | violated |
| `RuleEngine` | two invariants, three action properties | 2 workers, 4 events, delays up to 1, clock to 4, 1 reload among 4 rule sets | hold |
| `Replay` | three invariants, one liveness property | 2 partitions, 4 records, time to 2, range 1..1, windows of 1, one host with a collector ahead, one with a late agent and a collector behind, rules of each type | hold |
| `TokenBucket` | `TokensConserved`, refinement `IsAtomic` | 2 goroutines and the refill, burst 2, 3 tokens added | hold |
| `AlertManager` | one invariant, two action properties, one liveness property | 5 records (one undecodable), two keys, burst 1, threshold 2, clock to 4, one incident | hold |
| `Dispatcher` | three invariants, two liveness properties | 2 instances, 3 alerts (one unreadable), 2 channels, 2 attempts, queue of 2, any 2 of 4 faults | hold |

Why the bounds are enough.

* Breaker: two callers give every pair of an admitted call and a recovery test,
  and the clock runs long enough for two open periods and a call between them.
* Ingestion: three events with a batch of two give a full batch, a batch grown
  by one after a failure and a partial final one; two handlers are a request
  and its repetition; three faults are one that causes the repetition, one that
  hits it and one that hits the next.
* Agent: one line before the start and three after it, one of them empty,
  make chunks of one and of more lines; a channel of one is full with every
  event; the fault is a rotation, a failed read of `/proc` (of the list or of one
  process, in the first scan or later) or a failed flush, and a truncation
  leaves the position behind the end of the file.  The third event cannot be
  marshalled and a message holds two events, so a batch gets stuck both for its
  content and, after one failure, for its size.  One pid is in use at the start
  and one process may start later, under the same pid or the other: with the
  process that ended unnoticed, in the middle of a scan, or seen to have ended.
  `MaxLoad` bounds the product of the two sources: three lines, or two and a
  change of the process table, or two changes, of which the second may be the
  reuse of a pid.
* Replay: four records in one partition are a chain with an event between and
  the record that ends the replay, or a burst; over two partitions they are
  records before, in and behind the range in any order.  With a window of one, a
  clock to two and a first host whose collector is ahead, a chain may be evaluated
  within its window and outside; on the second host, whose agent may be late and
  its collector behind, times do not ascend.  The rules directory has a rule of
  each type, one that reads the enriched event, a disabled one and a file that is
  none.
* Processor: five records over a channel of one and two workers fill every
  place a record can be in (polled, channel, both hands), with one left to poll.
* Rule engine: a threshold of three, and a sequence of two events and a third,
  need at most three events; the fourth is the one too early, too late, in
  between or after the reset.  Windows of two units, a clock of four and a
  cleanup age of three put every event inside, on the edge of and outside a
  window, and the cleanup before, on and after it.  The rule sets lower the
  counts, add a step, and disable a rule.
* Token bucket: two takers and the adder meet at an empty, a half full and a
  full bucket; more goroutines only repeat a failed swap.
* Alert manager: both keys return, with the other in between; two failures
  open the breaker, the next alert is the recovery test, and one more meets
  the circuit that the test has closed or opened again; a burst of one is
  empty after each publish.
* Dispatcher: two instances are the one that is slow and the one that gets the
  alert meanwhile; three alerts with two channels push up to three letters of
  one channel, one more than the queue holds.

What the failing runs show:

* `Ingestion_NothingLost`: the key outlives a failed publish, and the agent
  clears rejected events (`server.go:72`).
* `Agent_LikeTail`: the scanner that met the end of the file never scans again,
  so a line written after the first tick is not read while the file only grows
  (`tailer.go:21`, "works like `tail -f`").
* `Processor_NeverPanics`: a channel is closed under its sender
  (`ARCHITECTURE.md:267`).

Each property of a passing run has a mutant, an altered definition (named
`<definition>_<change>`, just above the original) under which the run fails.

**Properties under a condition.**  Some promises hold only in part of the
state space, and say so in their formula: `PerHostOrder` without a request
repeated beside the first, `ThresholdIsExact` for timestamps in order, events
the cleanup leaves time for and rules that stay, `SequenceIsComplete` for
histories that fit one window, `ReloadIsSafe` for reloads that keep the number
of steps, `ReplayMatchesLive` for rules that read nothing the processor adds,
`WrittenIsDelivered` unless the batch can never be sent (`Stuck`),
`FreshLinesAreEmitted` for lines found before the scanner has met the end.
`EndIsComplete` claims the end of the range only for the partition whose record
ended the replay, and only if the collectors' times ascend there (`InTimeOrder`);
`PatternsAreFound` also wants ascending times of the agent for a burst
(`ReadInOrder`), and for a chain a replay that got from the group's first event
to its last within the window (`Quick`).  Without `InTimeOrder` or `Quick` TLC
refutes `PatternsAreFound`; `ReadInOrder` matters for thresholds above two only,
which the theorem covers and the run does not have.  What happens outside the
conditions is listed in section 5.

**Fairness.**  Goroutines keep running (`WF` on the steps of a worker, a main
loop, a dispatcher instance, the refill, the agent's sources and batcher, the
replay handler), every RPC, request and send returns, the orchestrator restarts
a process, and JetStream's AckWait ends for an alert that nobody works on.  No
fault, signal, clock or commit timer is fair, and no publish or send ever has to
succeed.  Faults are bounded in number: in `Agent` a flush of a batch that can be
sent fails at most `MaxFaults` times while the agent runs, and then succeeds; one
of a batch that cannot be sent never does.  `Agent` needs `SF` where a select has
two ways to go, since Go picks one of them at random: for the end of a source
(`TailerEnds`, `WatcherEnds`), whose ticker may be ready together with the
cancelled context, and for the batcher's receive (`BatcherTakes`), which a
flush that fails for ever interrupts and the ticker competes with.  `CircuitBreaker`, `Ingestion`,
`RuleEngine` and `TokenBucket` are checked for safety and state no fairness.

**Deadlock** is checked in the breaker.  The other systems end: all events
delivered, agents stopped, the stream empty, a replay completed, the bounds of clock,
events or refills reached.

## 4. Proofs

All theorems hold for every value of the constants that the assumptions of the
modules admit.

**`PkgProofs`: the breaker.**  `TypeCorrect`, `HalfOpenTested` and
`ClosedMeansBelowThreshold` hold for every `CallTime`: types, a half-open
breaker has a caller testing it, a closed one has counted fewer failures than
the threshold.  They need only the types as strengthening.  `SingleProbe` and
`OnlyDocumentedTransitions` assume `CallTime <= Timeout` and rest on an
invariant (`ShortCalls`) that speaks of time: a call that runs was begun at
most `CallTime` ago, so a call begun while the breaker was closed is over when
the open period is; hence in half-open no such call is left, and nothing but
the one test can change the state.  From the same invariant follow
`OnlyTheTestDecides` (`TestDecidesRecovery`) and, with
`ClosedMeansBelowThreshold`, `OpensExactlyOnThreshold` (`OpensOnThreshold`).

**`PkgProofs`: the bucket.**  `BucketTypeCorrect` (no goroutine takes the counter
below zero), `Conservation` (`TokensConserved`) and `Implementation`: the
loops of loads and swaps implement `AtomicBucket`.  The invariant behind the
three, `SwapsAreJustified`, says what the loaded value is worth when the swap
comes: it is positive for who takes and below the burst for the refill, so a
swap that finds the counter unchanged is a `Take` or an `Add`, and every other
step a stutter.

**`DispatcherProofs`.**  `DispatcherTypeCorrect` includes that no dead letter
queue outgrows its capacity.  `NothingSettlesUnsent` (`SettledMeansOutcome`)
rests on `DispatchInv`: who handles an alert has one in hand (`HandsFull`), and
every channel it has left behind took the alert or has a letter for it
(`ChannelsBehind`), so at the acknowledgement all have.  It needs neither that
only one instance has an alert nor that letters survive.  `OnlyFaultsRepeat`
(`RepeatedOnlyByFaults`) is a counting argument: for an alert and a channel,
`Chances` adds up the sends that succeeded, the instances that may still send,
and one if the stream may hand the alert out.  It is one at the start; a fetch
turns the stream's chance into an instance's, a send an instance's into a
success, giving up and acknowledging throw chances away, and only a late or
lost acknowledgement, a crash or a stop may raise it, each of which is a fault.
The sum can only be kept because channels have different names (part of
`DispatcherAssumption`; `main` registers `log` and `webhook`) and instances are
finitely many.  `QueueKeepsNewestLetters` (`NewestLettersKept`) needs only the
types: pushing to a list of the newest letters gives one (`PushKeepsNewest`).

**`ProcessorProofs`.**  `ConsumerInv` (offsets ordered, a
record in hand while the handler runs) is kept by every step of `ConsumeLoop`
and its client.  From it follow `OffsetsStayOrdered` and, with the pool's
types and `HandsInv` (a worker has a record in hand exactly while it works on
one), `ProcessorTypeCorrect`.  `BackpressureLosesNothing`
(`SteadyLosesNothing`) adds `SteadyInv`: as long as nobody stops or kills the
process, what the handler returned for is settled or held, because the pool
moves records from channel to hand to result and the loop puts them nowhere
else.  `OncePerDelivery` (`EvaluatedPerDelivery`) counts: a record is evaluated
once per life of the process at most, and not yet in this life if this life may
still hand it to the rules; every life but the first has an incident of its own
(`PastLives`), which a life that is ending has already had.  `CrashesLoseLittle`
(`CrashLossBounded`) adds up the losses: what a living process has handled and
not committed it still accounts for, so a death takes only what is in the
channel and in hands, and deaths are incidents.  That is where workers have to
be finitely many (`PoolAssumption`; `worker.go` starts a number of them).

**`AlertManagerProofs`.**  `CommittedIsDecided` needs only `ConsumerInv` and
that decisions follow the handler.  `RateStaysBounded` is inductive with the
bucket's bound: a token moves from tick to goroutine to bucket to `level`, and
only a new tick adds one, which it cannot do twice in the ticker's channel.
`SuppressionStaysExact`, an action property, rests on `SuppressInv`: the map
agrees with the history of each key, and has forgotten no key that is still
within its window.  `AlertManagerTypeCorrect` takes the three invariants together
and adds the types of the breaker, whose steps it follows through `INSTANCE`.
`OutagesAreSpared` (`OutageIsSpared`) says that the breaker's failure count and
time are those of the publishes (`OutageInv`), whatever restarts and the clock
do between a publish and its result; it needs threshold and timeout to be
positive, which `breaker.go:98` sees to.

**`AgentProofs`.**  `StopLosesOnlyTheChannel` (`StopLossBounded`): `Run` returns
with an empty batch unless a flush has failed (`LossInv`), so only the channel
is left.  `OnlyNewLinesOnce` (`NewLinesOnce`) rests on `LinesInv`: later files
have later lines (`DiskInv`), and every line the tailer may still read, behind
its position, in a file that the rotation check will reopen, or in a later one
(`Ahead`), is newer than all it has reported or found (`OrderInv`).  The
interesting step is the reopening of a truncated file, whose old content the
position has passed.

**`IngestionProofs`.**  `IngestionTypeCorrect`, `KeysAreAccounted`
(`KeyIsAccounted`) and `ForgetsOnlyAccounted` (`ForgottenIsAccounted`) hold for
any agents, handlers, capacities and combination of failures.  The two facts need
each other and two more.  `Passed`: a handler has accounted for every event of
its agent below the one in hand, those below its request included, since the
agent had forgotten them.  `Joined`: an agent that waits for a response waits for
one handler, whose request ends where the batch ends.  So when a finished handler
answers, everything the agent forgets is accounted for.  The steps of handlers
and of the process have one thing in common, `Carries`: nothing that is in the
topic, about to be published or unsettled leaves that set, a key is set only for an
event in it, and a handler that goes on leaves an event in it behind.  A
duplicate is the interesting case: it may be passed over because its key is
accounted for.  An agent's step is quiet (it waits for no handler), a request
(`RequestKeeps`) or an answer (`AnswerKeeps`).

Three more theorems have invariants of their own.  `SetNxPublishesOnce`
(`PublishedOnce`): while keys live, what is in the topic or in a publisher's hand
has its key and no two hands hold the same event (`Exclusive`), so only the one
that set the key publishes.  `StoppingIsClean` (`PlannedRestartIsClean`): as long
as collectors are only told to stop, every call keeps its connection and has
left nothing behind that is not in the topic (`Clean`).  `HostOrderIsKept`
(`PerHostOrder`): either the keys are intact, and then everything a call has
passed is known to Redis (`Known`), or no crash has happened, and then the call
is beyond all that is in the topic (`Behind`); under either the part of the
topic is ascending and the event about to be written is none of the earlier
(`Ascending`).

**`RuleEngineProofs`.**  `RuleEngineTypeCorrect`, `NoEventCountsTwice`
(`CountedOnce`) and `ReloadsKeepEvaluationsSafe` (`ReloadIsSafe`) hold for any
workers, rule sets, delays and cleanup age.  The window is a set of numbered
entries, so an event is new to it, pruning removes from it, and an alert takes
out no more than was put in.  For the reload the invariant ties the counters of
an open sequence to the rule sets: as long as the number of steps never changed,
every evaluation in flight has rules as long as the counters.

The next three compare what the trackers decide with the whole history, until
the first reload.  `ThresholdStaysExact` (`ThresholdIsExact`, `ExactInv`): what
pruning or a cleanup took out of the window is older than the window's latest
timestamp less its length, or than the cleanup's cutoff, so it counts for no
later event.  `DetectedSequencesHappened` (`SequenceIsSound`) carries a witness
along (`SoundState`): the events since the state was started divide into parts
for the steps passed, and the open part has what the counter says.  An event
counts into the open part; a full part is closed with a cut (`SoundCut`); at the
last step the cuts are the division the reference asks for.
`ChainsAreDetected` (`SequenceIsComplete`) is the converse and an argument about
a greedy algorithm (`GreedyState`): no division of a prefix gets past the step at
which the tracker stands (`GreedyIsAhead`), because each of them needs at least
the event with which the tracker began that step.  So a division of the whole
history, with the event at hand last, meets a tracker at the last step that
lacks no other event (`GreedyDetects`).  A state that expires or is cleaned up has
left an event in the chain that is too old for the window (`StaleChain`), and the
property speaks of no such chain; for the cleanup this is where
`CleanupAge >= FirstRules.seqWindow` is needed.  `NoProgressAssumption` says that
the absent entry is no state, as in Go's map.  The lemmas behind `ChainsAreDetected`
(`Proper`, `Greedy`, `GreedyReacts`) are stated for any steps whose counts are
positive, so the replay can use them for the steps of a rule from a file.

**`ReplayProofs`.**  `ReplayTypeCorrect`, `ReplayIsComplete` (`EndIsComplete`),
`ReplayFindsWhatTheProcessorFinds` (`ReplayMatchesLive`) and
`ReplayFindsPatterns` (`PatternsAreFound`) hold for any hosts, lines, ranges and
rules directories, for any `Lags` of the clocks.  Six invariants carry them, each resting on those before.

* `TopicInv`: the types, and that the three positions in each partition are
  ordered (`Positions`).
* `SeenInv`: the history of a partition is exactly the records of the range up
  to some place (`UptoSeen`), which is `visited` until a later record is met and
  stays so in the partition that has it, where the next record is that one; a
  record after the range has then been visited (`Ended`).  If the times of the
  partition ascend, nothing of the range is behind it.
* `MatchInv`: a single rule is matched with the records whose raw event meets
  its conditions, and no others; an alert of the window or of the tracker was
  sent.  `ReplayMatchesLive` then follows from a fact
  about the operators: a condition on a field that neither the enrichers nor
  the classifier write has the same value before and after (`AddedOutOfSight`,
  `MatchedAlike`).
* `WindowInv`: if the group has its events in one partition, in the order of
  their times, and the rule has fired nowhere, the window holds, after every cutoff at which a later hit may
  prune, as many entries as the partition has hits after it (`WindowCounts`),
  and the hits so far contain no burst.  It has to be said of all these cutoffs
  at once: the next hit prunes at a time that depends on it.  A burst completed by
  the next hit makes the window as large as the threshold (`WindowReacts`).
* `StartedInv`: an open sequence was started when one of the events of `chain`
  was evaluated.  So while all of `chain` was evaluated within the
  window (`Quick`), the tracker's expiry test, which reads the wall clock, fails.
* `SequenceInv`: if the group has its events in one partition, the collectors'
  times ascend there and the replay is `Quick`, the tracker is in the greedy state
  (`Greedy`) of `GroupHistory`, the partition as the rule reads it, and no
  prefix of it fulfils the steps.  A record that is none of the group's stands
  there as `Garbage`, which meets no step; a division remains one when
  such a record is put behind it or taken away (`GarbageIsIgnored`), and the
  tracker's reaction to the others is that of the rule engine's proof
  (`TrackerReacts`).

`BurstIsFound` and `ChainIsFound` put them together: if the rule had not been
found, the whole partition would contain no burst and no chain.

`OffsetsOrdered`, `CommittedWasDecided`, `KeyIsAccounted` and the type
invariants of the breaker, bucket, dispatcher, processor, alert manager,
ingestion, rule engine and replay are proved and in no run.

Every invariant and every action property of a passing run is a theorem, and
so is the refinement `IsAtomic`.  Only model-checked are the liveness
properties, since tlapm proves neither `ENABLED` nor fairness: `AgentEnds`,
`FreshLinesAreEmitted`, `PictureConverges`, `WrittenIsDelivered`,
`EveryAlertIsDecided`, `EveryAlertSettles`, `StopEnds` (of the processor and of
the dispatcher), `EverythingIsProcessed` and `ReplayEnds`.

## 5. What is not modelled, and what else was seen

* Producer options, configuration, health endpoints, connection set-up, metrics
  and tracing: options, one flag, or I/O, and no state that a property is about.
* Kafka rebalances between group members; several partitions of one group
  (`Replay` has several, without a group).
* Lines longer than the scanner's buffer, and lines written in parts.  Lower
  case is taken to keep a line's length, which the search for `from` relies on (`tailer.go:134`).
* In `Replay` a `|` in a group value, which could join two groups, does not occur.
* `Drain` of the dead letter queue, which nothing calls; the alerts topic, and
  with it a failed publish of an alert.
* Deployment files, dashboards, the load test and generated code.

Divergences that no run is spent on:

* Breaker: with `CallTime > Timeout` a call admitted before the circuit opened
  fails during the recovery test and re-opens it, and after the timeout a
  second test joins the first, against "only one request at a time"
  (`breaker.go:141`).  TLC finds it for `AtMostOneProbe` with
  threshold 1, timeout 1 and call time 4.  The alert manager calls its breaker
  from one goroutine and does not meet this.
* Breaker: callbacks may report transitions out of order (`breaker.go:224`);
  nothing in the repository registers one.
* Batcher: a batch kept after failures grows beyond `BatchSize`
  (`agent/config.go:33`) until no gRPC message can carry it, and then stays
  for ever (`batcher.go:83`, `batcher.go:129`); so does one with an event whose
  strings are not UTF-8, which a log line may be, as protobuf refuses to marshal
  it.  This is `Stuck` in `Agent`, which `WrittenIsDelivered` excuses; without that
  TLC refutes it.
* Batcher: events still in the channel when `Run` sees the cancellation are
  dropped (`batcher.go:70`); `StopLossBounded` says how many.
* Sources: a full channel blocks them, where `source.go:20` asks them not to
  block; a renamed file is followed to its end and not left (`tailer.go:23`); a
  file that is not there when the agent starts is never looked for again.
* Rules directory: one file that does not parse or validate leaves the engine
  without any rule (`parser.go`), and the process starts all the same.
* `lateral_movement` groups by `source_ip`, which the tailer's sudo lines seldom
  have, so its last step falls into another group.
* Collector: a handler whose client is gone and the handler of the repeated
  request share the events between them and may publish a later one first
  (`publisher.go:38`).
* Processor: a redelivered event is evaluated and alerted on again
  (`consumer.go:114` names a Redis check that lies before the topic); an event
  whose insert fails is only logged (`ARCHITECTURE.md:270`); the process does
  not wait for its pool (`ARCHITECTURE.md:249`); a crash loses what the pool
  held, since offsets are committed before (`AtLeastOnce`, which
  `consumer.go:112` promises and no run checks, fails with one crash); an alert
  that cannot be published is only logged, and its window is already reset
  (`worker.go:146`).
* Rules: timestamps out of order leave the window unsorted, and it may then
  fire on events further apart than its length (`temporal.go:67`); the cleanup
  after ten minutes forgets events that a longer window still needs; a reload
  that adds a step while a group is on its way makes the index run past the
  counters (`sequence.go:89`, `OutOfRange`); nothing in the program calls
  `Reload` or `StartCleanup`, so idle state is never removed.
* Alert manager: the key is remembered before limiter, breaker and publish
  have decided (`handler.go:174`), so an alert that is throttled or fails to
  be published suppresses the next ones; a rate below 1 gives a burst of 0 and
  throttles everything (`handler.go:49`); alerts handled after SIGTERM are
  published with a cancelled context, fail, and are committed.
* Bucket: the refill interval is at least one millisecond, so a rate above
  1000 is not reached, against "exactly `rate` tokens per second"
  (`bucket.go:129`).
* Dispatcher: three attempts of 10 s and their pauses may outlast the default
  AckWait of 30 s, so another instance sends the alert again; a letter says
  three attempts also when a stop ended them after one; letters are in the
  memory of the process (`notification-dispatcher/main.go:69`), where
  `ARCHITECTURE.md:270` promises a topic, so a restart drops them.
* Replay: the first record behind the range, of whatever partition, ends the
  replay, and what other partitions of the same fetch or later ones have in the
  range is left out (`replay.go:169`); without such a record it does not end.
  It reads raw events, so rules on severity, threat or geo fields (the shipped
  `tor-auth-attempt`) find nothing.  Two collectors (`replicas` in the helm
  values) give records times by clocks of their own: a record behind the range
  may then come before records of it in the same partition, which are left out.
  A sequence's window is measured by the wall clock (`sequence.go:64`): hours of
  events pass within it, although "if the window expires before completion, the
  state resets" (`sequence.go:26`), and a chain whose events lie close together
  expires while a poll waits.  `ARCHITECTURE.md:210` describes a
  seek by timestamp and a consumer group of its own; the code reads every
  partition from its start without a group.  No `main` registers the handler.
* Collector: a gRPC server that fails to serve is only logged and leaves the
  process ready (`event-collector/main.go:126`, against `health.go:6`).

## 6. Plan

1. Done: every component with state of its own has a module and a run; every
   invariant, action property and refinement of the runs is proved.
2. Next to model: the alerts topic between processor and alert manager, with a
   publish that fails; a second member of a consumer group.
3. Next to prove: the invariants of those.  Liveness stays with TLC.
