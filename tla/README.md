# A TLA+ verification of the B70 serving stack

The repository serves Qwen3.8-27B (EXL3) with a patched vLLM on one Intel Arc
B70, promotes releases of that service, and measures it. This project models
and checks the logic the repository itself adds: the cache of compiled
attention partitions, the routing of a mixed batch to the attention kernels, the promotion of a release with its recovery, the
systemd service and its strict launcher, the web-coding campaign that shares
the GPU with the service, the benchmark whose rates are published, and the
drivers and clients of `scripts/` that measure everything else: about fifty
programs that contend for one GPU and leave records for each other.

Paths below are relative to the repository. "The patch" is
`engine/exl3xpu/migration.patch`.

## 1. Inventory

| Component | Source | State it keeps | Operations | What is hard |
|---|---|---|---|---|
| Bounded partition cache | the patch: `bounded_partition_cache.h`, `exl3_ops.sycl` | partitions with recency ticks and last-use events, counters, scale constants | look up, compile, evict, wait under pressure, submit | kernels complete in any order while the host scans; a partition destroyed under a running kernel |
| Production service | `scripts/run-server-exl3.py`, `scripts/run-server.sh`, `systemd/*.service.in` | four configuration files, the unit, one named container | start, read, refuse, launch, restart on failure, stop | the files are read one by one and rewritten one by one; a stop that leaves its container behind; power loss |
| Promotion | `scripts/promote-exl3-review-release.py` | captured configuration, promotion receipt, start receipt | stop, rewrite, start, verify, restart, verify again, recover | exceptions at any step, kills, a second run after a killed one |
| Web-coding campaign | `scripts/run-web-coding-campaign.py` | `run.lock`, `campaign.json`, the EXL3 container, the service | lock, start and stop either worker, measure, restore or leave offline | signals in every clause, `docker run --rm` removing the container late, `--restore-production` beside it |
| Current-profile benchmark | `scripts/current-profile-benchmark.py`, `scripts/decode_overlap.py` | threads, barrier, engine counters before and after, monitor samples | idle wait, submit, release, collect, account, cut the overlap window | other clients of the same engine, a failed thread at a barrier, two clocks |
| Attention metadata and dispatch | the patch: `attention_metadata.py`, `attention_dispatch.py`, `shared_kv_verify.py` | a host plan per step, a context variable per layer call | segment a mixed batch, select a route, dispatch the segments | segments must cover every row once with its own lengths |
| Sparse GDN retirement | the patch: `cache_retirement.py` | block table of a request, pool | free processed states across null holes | a state freed twice, or one in flight |
| Checkpoint inventory, loader audit | the patch: `checkpoint.py`, `loader_audit.py`, `vllm_plugin.py` | names seen, tensors loaded | inventory, load by shard, audit | a tensor missed or loaded twice |
| GDN rows, traces, memory audit | the patch: the remaining Python files | row indices, recorders | select rows, rewrite vLLM's builder, record | indices used after the batch changed |
| Global SDPA cache (experiment) | `benchmarks/experiments/onednn-prefill/native_sdpa.cpp` | contexts, shapes, one mutex | look up, evict a context or a shape, submit | waiting for the device under the mutex |
| Request defaults | `runtime/request_defaults.py` | a buffered body per request | buffer, rewrite, replay once | disconnects, later events |
| Restart after an experiment | `scripts/restore-production.py`, `scripts/release_integrity.py` | none | preflight, start, wait, compare | no lock shared with a promotion, run by hand, by drivers and by systemd |
| Study drivers, GPTQ era | `scripts/run-diagnostics.py`, `run-target-head-int4-serving.py`, `run-decode-investigation.py`, ... | `run.lock`, a record, containers | preconditions, lock, stop, measure, record, clean up, restore; an `ExecStopPost` that restores again | exceptions and signals at every line of nested clauses, containers created late, resumed records |
| Study drivers, EXL3 | `scripts/exl3_candidate_worker.py`, `scripts/run-exl3-*.py`, `scripts/merge-exl3-row-gates.py` | the same, and evidence handed from driver to driver | the same | evidence of another image, tags rebuilt under a run, drivers without the lock |
| Serving workloads | `scripts/run-integrated-serving*.py`, `run-readme-benchmarks.py`, `run-heldout-quality.py`, `run-coding-benchmark.py`, `context-benchmark.py`, `benchmark.py` | a record, the identity of a worker | identify, ask, compare, record | the worker replaced between two answers |
| Web-coding request runner | `scripts/run-web-coding-benchmark.py`, `run-web-coding-replay.py`, `run-web-coding-cold-diagnostic.py` | engine counters around a request, a record | send, wait until the counters settle, compare the worker, run tools | as above; another client's request in the same window |
| Web-coding graders | `scripts/grade-web-coding-output.py`, `benchmarks/web-coding-harness/` | none | grade pages | - |
| Source patches, older shims, operators | `docker/`, `b70_ops/` | none at run time | rewrite files, compute | numerical |
| Recorders, rendering, evidence | `scripts/*`, `benchmarks/`, `config/` | files | single passes | - |

How they interact: the engine is a child of the service; a promotion rewrites
the service's files and drives its unit; a campaign and the study drivers stop
and start the same unit, and most of them exclude one another, not the unit, by
`run.lock`; the records of one driver are the preconditions of others; the
benchmarks are clients of the engine and take no lock.
What makes each component correct is stated with its runs in section 4; the
hazards, each at its line with the properties that would catch it, are in
`PROJECT.json`.

## 2. The modules

### PartitionCache (with PartitionLifetime, MCPartitionCache)

The cache of one worker thread and one device queue, which is what the
`thread_local` map of contexts isolates. `entries`, `tick`, `stats` and
`scales` are the C++ members. A call is a program counter: `Hit` or `Miss`
begins it, `Visit` is one iteration of the loop over a full cache in map
order, `EvictReady`, `PressureWait` and `EvictWaited` are its two ways out,
`Compile` is `factory()` and the insertion, `Execute` the rest of `sdpa_impl`.
`WaitThrows`, `CompileThrows` and `ExecuteThrows` leave by an exception and
keep what the C++ has already changed. The queue is the set `inflight`;
`GpuComplete` takes any kernel whose dependency is complete, between any two
host steps, also between two iterations of the scan.

`PartitionLifetime` is the contract: a set of live partitions, a set of
running kernels, and no partition dies while a kernel of it runs. A
partition is named by the tick it was born at, so that a shape that is evicted
and compiled again is a new one.

### AttentionRouting (with MCAttentionRouting)

One step of the engine: `prepare()` and `host_segments()` make the plan
(`Prepare`, `Extend` and `Cut` are the loops, `Planned` the return), then any
layers attend (`Enter`, and `AttendWhole` or `AttendSegment` until `Attended`),
and a step that was captured is replayed with other lengths (`Refill`, `Replay`,
`Replayed`). A layer is what the guard tells apart: whether it is the attention
the guard is for, whether its scales are known, and which kernels its tensors fit;
the long lists of checks in `prefill_eligible()` and `eligible()` are that set,
except for the conditions on counts and lengths, which are as in the code.

A batch is a record of what vLLM's metadata says: bounds and lengths on the
device, bounds and lengths of the host, and who is prefilling. `Contract` is what
the docstrings of the three files say of it: the host's lengths are exact on
prefilling rows and upper bounds on the others, and its bounds are those of the
device unless the verification is adaptive. The output is a function from
positions to what attention there depends on, a row of the block table and the
last key seen. `Computed` is a kernel: each serves the requests of its call, with
the offsets and lengths it is given, and writes what it was launched for and nothing else.

### ProductionService and Promotion

Only the release a file belongs to matters: `old`, `new`, `torn` (its
rewriting was cut short), `absent`. `ProductionService` is the launcher's four
reads, its agreement check, its refusal, `docker run --name`, the restart
after a failure without a start limit, `systemctl stop`, whose failing
`ExecStop` may leave the container, and the boot after a power loss.
`Promotion` EXTENDS it. `main()` is a sequence of named steps (`Body`), the
finally clause another (`Recovery`); each step is an action, and rewriting a
file in place is two of them. A step that asserts or waits raises by itself
when what it looks for is not there (`Refused`), any step may raise by
accident, and a kill or a power loss ends the script without its clauses. A
new run may begin afterwards, in whatever was left.

The content of the reviewed receipts, which are checked before the first
change, is reduced to the check later steps depend on. Artifact, checkpoint
and power-cap checks of the launcher are one refusal.

### Campaign

One program counter per process over the commands of `main()` and
`restore()`: `stop_exl()` is two commands, `systemctl restart` two halves.
`Throw` is Python's rule for the three clauses: from the try body to the
except clause, from there to the finally clause, from there out.
`Interrupt` is a signal whose handler raises; the finally clause ignores
SIGTERM, not SIGINT. A stopped container is `removing` until the daemon has
removed it. The unit ends with every `systemctl stop` (`EndUnit`), but its
`ExecStop` may have failed: then the service's container stays (`leftover`),
answers the next health check in place of a new one (`ServiceAnswers`), and keeps
the launcher from its name. Nothing in the campaign looks for it, so the
properties speak of the unit. The benchmark child and the warm-up are one step that succeeds, is
too short or raises. Lines 166-172 compare the pinned release with the one
configured; the model covers a machine on which they agree.

### BenchmarkWave

`run_once()`: the main thread's labels, one thread per request, a barrier of
all of them and the main thread, the pool, the engine's phases and its counter
of finished requests. `Others` are foreign requests that arrive at any time
and wait for their answers. `beside` is a history variable: the foreign
requests that were in the batch together with one of the wave. One failure
may hit anything between the snapshot and the last answer. A client that
disconnects, an engine that restarts within a wave and a second Ctrl-C are not
modelled.

### OverlapWindow (with MCOverlapWindow)

The clocks of the same benchmark. The monitor stamps a sample after it was
taken, with the time since `monitor_start`; `ttft_s` and `wall_s` count from
the start of each request. `Window` and `CounterWindowValid` are
`summarize_overlap()`. A snapshot is what its counters tell apart: the phase
of each request and the rounds drafted. A prefill is counted when its request
finishes, as the engine does. The engine takes any time for anything; the
client and the monitor may see or stamp late. Only the wave's own requests
are here, which is what `AcceptedAlone` allows.

### DriverSteps, Drivers and their programs (ServingClients, GptqStudies, Exl3Studies, DriverTable, MCDrivers)

The drivers of `scripts/` do the same things in different orders, and the
order is where they go wrong. `DriverSteps` names the things: one step for a
refused directory, a record demanded of an earlier driver, an inspected tag,
`flock` with and without `LOCK_NB`, `systemctl stop` and `start`, a wait for
health, `docker run` (detached, in the foreground, or as a `Popen` whose
container appears later), `docker rm -f` by name, a saved record, a request.
`Try(body, clauses)` is Python's `try: ... finally:`: every step of `body` that
has no nearer clause gets in `h` its distance to the first clause, and the
`reraise` behind the clauses sends a pending exception on to the next ones.
`Except` and `ExceptSave` mark the record FAILED for the kinds of exception the
`except` names (a signal passes an `except Exception`), `Swallow` ends the
exception, `Maybe` is a branch on data, `Each` two rounds for a list of arms,
and `Unit(body, post)` a transient systemd unit with its `ExecStopPost`.

`GptqStudies`, `Exl3Studies` and `ServingClients` are then the programs: one
definition for each `main()`, and one for each function it calls, in the order
of the source. `Work` stands for requests to a container of the experiment,
comparisons, files and computation: a step that may only raise. The clients of
the production port have steps of their own for a request and for the container
they identified.

`Drivers` gives the steps their meaning for processes beside each other. A
step is atomic, but a strike in it (an exception, a signal) leaves it done or
not done (`Halfway`), and a kill leaves everything but the lock where it is.
The daemon creates what a `docker run` asked for in its own time, the service
comes up in its own time, crashes and is restarted as another container
(`worker` says whether the one a process identified still answers), and the
tag of the candidate may be rebuilt at any moment. Only the records of drivers
in the instance change; those of others are final and of the first image.
`DriverTable` lists the programs by name, and the instances that `MCDrivers`
joins to the model.

Limits: SIGTERM is a `KeyboardInterrupt` or `InterruptedError` raised at a step,
as the handlers do, or a kill where no handler is installed; a record cut short
in its write reads like one that is not final; a wait polls once, when there is
something to see; the power cap is not state. A stop of the service is taken to
remove its container (`Stops`, and the stop in a restart). The unit ignores a
failing `ExecStop`, which would leave the container on the GPU, and no driver looks for
that: `MeasuresAlone` says that the drivers stop and start in the right order,
not that `docker stop` works. `ProductionService` and `Campaign` have the failing
`ExecStop`.

### The composition

`Promotion` composes the script with the service. `Campaign` has the service
as its own three-state abstraction (off, starting, up) and the container that a
failed `ExecStop` left, and `Drivers` has the three states beside every other driver. `OverlapWindow` takes
up where `BenchmarkWave` ends. `PartitionCache` is refined against
`PartitionLifetime`. An operator marked as a mutant in a module is not used by
the specification: it is a plausible bug that the listed property must catch.

## 3. Runs, bounds and what they show

| Run | Instance | What it shows |
|---|---|---|
| `partition` | 3 shapes, 2 slots, 2 scales, 5 calls | no partition is destroyed under a kernel; `last_use` covers earlier uses; scale constants are retained; the counters balance through every exception; the host waits only if every partition was in use; the victim is the least recent of those that were ready; every call returns; the cache implements `PartitionLifetime`, its capacity included |
| `attention` | thresholds of 3 queries and 4 keys, tables of 6 keys; every batch of up to 3 requests of 7 kinds and of 4 of 2 kinds; captured ones of up to 2; guessed host metadata of up to 2 of 3 kinds; 16 kinds of layers | every position attends to its own keys up to itself, after a replay too; no kernel overwrites another's result |
| `promotion` | 2 attempts, 2 accidental exceptions, 1 kill or power loss, 1 stop that leaves its container, 1 crash | the unit never runs a mixture; a pass was verified in two containers and leaves the new release whole; "recovered" means what was captured is back; a failed promotion serves the saved release again; every attempt ends |
| `promotion_reported_failure` | 1 attempt, 1 exception | violation, see section 6 |
| `promotion_captured_mixture` | 2 attempts, 1 exception, 1 kill, 1 stuck stop | violation, see section 6 |
| `campaign_safety` | 2 campaigns, both engine orders, no unlocked restoration, 2 signals or kills, 2 failing commands, an `ExecStop` included | the unit and the container never together on the GPU; measurements under the lock and undisturbed; receipts say what is left |
| `campaign_live` | 1 campaign, 1 unlocked restoration, 1 signal, 1 failure | every process ends and the lock is free |
| `campaign_restoration` | 1 campaign, no signal and no failure | violation, see section 6 |
| `wave` | 3 requests, 2 foreign ones, 1 failure | an accepted wave was alone; a wave ends unless the main thread leaves before the barrier, and then it never does |
| `overlap` | 2 requests, interval 2, setup below 2, time to 4, 2 drafted rounds of one request, 1 failing snapshot | a window the counters vouch for is fully overlapped |
| `overlap_measured` | the same, no failing snapshot | violation, see section 6 |
| `drivers` | two processes; each of 53 programs alone, and 12 pairs; 1 or 2 faults alone, 1 or none in a pair; 2 images | one driver on the card; measured without production; nothing left behind; evidence of one image, that stands; one worker per vouched session; production back; statuses told; every driver ends |

Why the bounds are enough. Three shapes over two slots is the smallest full
cache that a third shape meets, and five calls fill it, evict, come back to
the evicted shape and put the cache under pressure again. Three
requests have a run before, between and after long prefills, and two neighbours
of either kind; four fill the verification kernel, whose limit the batches of
four meet. The kinds of request are one of each that a condition tells apart: a long
prefill, a short one, a decode, a verification short and long, one whose upper
bound is beyond the table, and one with no query. Two promotion
attempts are needed for one to start in what a killed one left; two accidents
let the body and its recovery both fail. Two campaigns contend for one lock;
two signals hit the body and the clause it led to. Three requests have one
that is neither first nor last at the barrier. Two requests and an interval of
two time units distinguish before, within and after an interval; the horizon
holds two samples of a window and one on each side. Each cfg gives the bounds
their values; the modules name them. The requests of `overlap` are
interchangeable and no property names one, so symmetry is sound there. The
runs turn the deadlock check off because every one of these systems comes to
an end: the calls, attempts, campaigns or time run out. `attention` keeps it
on, where a layer can always follow, and so does `drivers`:
`Over` is the only state in which nothing is left to do.

For `drivers`: one fault reaches every step of a program and with it every
clause, done or not done; two faults, for the six programs with the deepest
clauses, reach a clause from a failing clause. The pairs are those that share
something: four programs beside themselves (a client, one that waits for the
lock, one that is resumed, one that takes no lock) and eight pairs of different
ones (evidence handed over, a polled record, a restoration by hand beside a
study, two generations of studies, two studies that try the lock, a client
beside a study that stops its worker). Four pairs have no faults, because the
interleavings alone are what they are for. Two images are what a comparison of
image ids tells apart. Two rounds of a loop meet what the first round leaves.

## 4. Properties

Every module has a type invariant. The others are aimed at the hazards:

* `LifetimeSafe`, `LastUseCoversPriorUses`, `LifetimeSpec`: the chain of
  dependencies on an out-of-order queue is what lets eviction ask about one
  event. `EvictsLeastRecentReady` compares the victim with what was ready when
  the miss began, although readiness changes during the scan.
* `RowsExact` compares what the kernels wrote, call by call, with attention to each
  row by itself, although the calls are sized by the host and masked by the
  device, and a captured one is launched again when the lengths are others.
  `WrittenOnce` says that the slices of a layer do not overlap at any moment.
* `RunningMatchesConfig` relates what runs to what is on disk now, through
  kills, crashes, boots and stuck stops. `PassMeansRestarted` says that the
  comparison of container ids, not the health check, catches a stop that did
  nothing. `RecoveredMeansRestored` and `FailureServesSaved` are the recovery;
  the latter is conditional on no further accident, kill or stuck stop, and on
  a captured configuration that was whole.
* `OneWorker`, `MeasuredAlone`, `LeftAsSaid`: the GPU's exclusion is not by a
  lock on the GPU but by the order of stops and starts of whoever holds
  `run.lock`. `--restore-production` takes no lock and may start the service
  beside the container: the three are claimed until such a restoration begins
  (`Locked`), except that whoever measures holds the lock in any case.
* `AcceptedAlone`: a count of finished requests alone tells that no foreign
  request shared the batch, because the wave begins and ends idle.
  `WaveEnds` and `StrandedForever`: what the barrier costs when it never opens.
* `ValidWindowIsOverlapped`: two clocks, stale stamps and counters that lag
  still give a true window, if the requests start within one sampling interval
  of the monitor.
* `OneDriverOnTheCard` and `MeasuresAlone` are what `run.lock` is for:
  the first is about any driver that takes it before its first container, the
  second needs that the others touch the service under the lock only (`Tame`).
  `NothingLeftBehind` asks the clauses to reach what the body started, and
  names the three places where no clause can: a container still to be created,
  one without a name, a clause that was struck itself.
* `EvidenceOfTheSameImage`, `RanWhatItRecords` and `EvidenceStands` are the
  records: drivers that hand evidence on compare image ids over a tag that may
  be rebuilt, over a wait for the lock of hours. `OneWorkerMeasured` says that
  comparing the container after the last answer, not before, is what makes
  a session one worker's.
* `ProductionComesBack`: however often the drivers are struck inside a try, the
  service is started again by the last to end, its hook included; what makes it
  hard is a second exception in the clause that restores.
* `StatusIsTold`: the status a driver came to in memory is on disk when its
  process is over, also where its unit goes on to a hook that knows nothing of
  it. Between the two lie the restoration, the removals and further exceptions;
  the property leaves out a driver struck where no clause of its own lies ahead,
  in the write itself, or by SIGKILL, and one that shares its record with
  another process (`Owns`).

Each property states in its hypotheses which programs the code makes the
promise for (`Orderly`, `Tame`, `StopsFirst`, `Guarded`, `InspectsOnce`,
`Restores`), by the structure of the program and not by its name; only
`Attesting` is a list. What the programs have in common beyond that, and what
makes the properties true, is said once, in the named assumptions of `Drivers`
(section 7), which TLC evaluates for every program and every instance of the table.

## 5. Fairness

`partition`: the host thread keeps running (weak fairness of each of its
steps; a call is not obliged to begin) and the device finishes what it was
given. The submission is fair, and its exception is not: a call that throws
has returned as well. `promotion`: the script's next step, and the launcher
and systemd, which restart a failed unit for ever (`Restart=on-failure`,
`StartLimitIntervalSec=0`). Accidents, crashes, kills and new attempts are
never fair. A wait has a deadline in the code; in the model it passes when the
service is not coming, so that a wait is neither cut short by slowness nor
endless. `campaign_live`: each process, the coming up of the service and the
removal by the daemon. `drivers`: while a process can move, or the daemon or the
service owes an answer, something of it happens (`WF_vars(Goes)`), no process
being favoured; errors, signals, kills, crashes and rebuilds are never fair.
`wave`: main thread, pool threads and engine; foreign
requests need not arrive, and the failure need not happen.

## 6. Where the code and its words differ

1. `promotion_reported_failure`: `success` is set before the last print inside
   the try; an exception there rewrites a passing receipt as
   `FAILED_RECOVERY_REQUIRED` and skips the recovery.
2. `promotion_captured_mixture`: the recovery restores what the run found, of
   which only the image was compared with the saved release; after a killed
   run that may be a mixture, reported as the saved release recovered.
3. `campaign_restoration`: with no failure at all, the finally clause may
   inspect the container before the daemon has removed it, fail to stop it, and
   so never start production.
4. `overlap_measured`: the published overlapped rate uses every window with two
   samples, validated or not; such a window can hold samples from before a
   first token or after an end.

The quotations and lines are in `PROJECT.json`.

## 7. Proofs

All theorems hold for every value of the constants under the named
assumptions of the modules. TLAPS checks every leaf.

* `PartitionCacheProofs`: `TypeCorrect`, `NeverOverCapacity`,
  `RecencyIsTotal`, `EvictionIsLifetimeSafe`, `LastUseIsEnough`,
  `ScalesOutliveKernels`, `ImplementsLifetime`. The invariant is built in
  layers, each inductive relative to the ones below: `CallInv` (types, and what
  a program point knows about its key), `ScanInv` (the loop's victim is in the
  cache and still ready, since nothing is submitted during a miss; the cache is
  full), `NameInv` (births, ticks and kernel ids are fresh and distinct) and
  `ChainInv` (the kernels of a partition in flight form a chain of dependencies
  that ends in `last`). `LifetimeSafe` alone is not inductive: an eviction asks
  about one event, and only the chain connects it to the older kernels. The
  refinement maps each step to a step of `PartitionLifetime` or a stutter.
  Assumptions: a positive capacity, a finite set of keys.
* `AttentionRoutingProofs`: `TypeCorrect`, `RowsAreExact`, `NothingOverwritten` and
  `RunsStayLongest`, for every batch within `Contract`, any thresholds and table
  size, and any number of requests, layers and replays. The argument has three
  parts. A call whose bounds and lengths are right gets its positions right and
  touches no other (`Exact`, `KernelWrites`, `KernelSpares`). Every call a layer
  makes is exact (`NativeIsExact`, `VerificationIsExact`, `SegmentIsExact`): the
  verification kernel is given a matrix, and at most four requests of at most `rows` queries
  that fill `requests * rows` rows have `rows` each (`UniformBounds`); a long prefill takes
  the host's length, which is exact there. The plan's segments follow one
  another from the first request to the last (`PlanInv`: `Fits`, `Chained`,
  `Open`), so the layer has right what is before the next segment and has not
  touched the rest (`AttendInv`). That `max()` of a slice is an element of it
  (`LargestIs`) needs an induction over its length; it is done on the
  set of the numbers that fail, which is empty or has a least element (`Least`,
  from the library's `WFMin`), so no induction rule with an operator parameter is needed.
* `PromotionProofs`: `NeverRunsAMixture`, that is `RunningMatchesConfig`.
  The launcher's earlier reads must still be what is on disk (`ReadsCurrent`),
  and they are because the script is at a step that writes only while the unit
  is inactive (`WritesOffline`); `FilesInv` and `UnitInv` are the types needed.
  It holds for any number of attempts, exceptions, kills, stuck stops and
  crashes.
* `CampaignProofs`: `NeverTwoWorkers` and `MeasuresUndisturbed`, for any
  number of campaigns, restorations, engine lists, signals and failures, until an unlocked
  restoration begins (`Locked`, a hypothesis of the properties): `--restore-production` calls
  `restore()` before the lock is taken, so it can start the service beside a
  campaign's container. The invariant says of each
  campaign what it has established at its label (`Established`): who is on the
  GPU, and that it holds the lock, which makes every other one inactive. It is
  kept while no restoration has begun, and none that has begun is ever back at its
  start (`NobodyReturns`). That a campaign under way holds the lock (`Held`) is
  invariant beside restorations too.
* `BenchmarkWaveProofs`: `AcceptedWavesAreAlone` and
  `WavesAreReleasedTogether`, for any concurrency, foreign load and failures.
  `Gate` is the barrier; `Accounting` says that since the first snapshot the
  engine has finished at least the wave's served requests and the finished
  ones of those beside them. When the engine is found idle nobody of either
  kind is left in it, so a difference of exactly `Concurrency` leaves no room
  for the second kind. `StrandedStays` adds `Stranding` (who leaves with a
  thread still before the barrier has not released it and never arrives) and
  `TypeCorrect` the bounds of the counters (`Loose`). `FaultsAssumption`: the
  bound on failures is a number.
* `OverlapWindowProofs`: `TypeCorrect` and `BelievedWindowsAreOverlapped`, for any wave and any
  delays, from `SetupAssumption` (the requests start within one sampling
  interval of the monitor). The last sample of a window was read an interval
  after the first was stamped, so it shows every first token; the token
  residual says the first sample shows as many, and full occupancy that no
  request was done. `Reading` and `Sampled` are the clock part of the
  invariant, `Clocks` the request part.
* `DriversProofs`, for any programs that `ProgramsAssumption` calls well-formed
  (a handler distance and the length of a skip are numbers, a note is a set of
  statuses), any number of processes, faults and images. Each action is
  summarised once by what it does to places and lock (`Steady`), to the card
  and the service (`Hauls`), and what is preserved is proved from the summaries.
  `TypeCorrect` is `TypeOK`. The rest:
  * `LockExcludes`, that is `OneDriverOnTheCard`. The invariant is `HoldsLock`: a
    process of an `Orderly` program that is past its gate, the `flock` before
    its first container, holds the lock. A step leads on to the next, over a skip
    or to a clause (`Leads`), and none of these can jump over the gate
    (`GateFacts`, `DrivesOn`).
  * `CardIsCleared`, that is `NothingLeftBehind`, for any number of faults. The
    invariant `CardInv` says of each container on the card that its driver is at a
    place from which every way comes to its removal (`Due`), or was struck where
    no clause could follow (`Gone`). `CleanupAssumption` says that the programs
    have such a removal behind every `docker run`.
  * `ProductionIsOff`, that is `MeasuresAlone`. The invariant `AloneInv` has two
    parts: who is past the first step that touches production holds the lock
    (`Tolled`), and who is between its stop and its start has the service off
    (`Zoned`). The property is not inductive without the second, which is also
    true of a driver that has no container yet.
  * `ProductionReturns`, that is `ProductionComesBack`, again for any number of
    faults. The invariant `BackInv`: if the service is off, some process is
    between its stop and a start that every way leads past (`Away`), or was
    struck where no clause follows (`Lost`). `RestorationAssumption` says that the
    hook of a unit is reached from all of its body and takes no lock, and that
    in one instance whoever stops production restores it.
* `DriverRecordsProofs`, about the records of the same drivers, summarised by `Tale`
  (what a step writes, notes, inspects and runs) and `Attends` (what becomes of
  the container it identified):
  * `RecordsStand`, that is `EvidenceStands`. `RecordsInv`: only a process past its
    own guarded `open` writes the record (`OpenedOnce`), and where it is complete
    its author is past its result and comes to nothing that could change it
    (`Settled`). `RecordsAssumption` is about what follows a result in a program.
  * `EvidenceAgrees`, that is `EvidenceOfTheSameImage`. `EvidenceInv`: a process
    past a demand for a record, and not yet ended, carries the image that this record settled
    (`Relied`), and so does its own complete record (`Grounded`).
    `EvidenceAssumption` has the demand between inspection and result.
  * `RanAsRecorded`, that is `RanWhatItRecords`. `ImagesInv`: past its one
    inspection a driver knows its image and has run no other.
  * `WorkersVouchedFor`, that is `OneWorkerMeasured`. `WorkersInv`: until the last
    comparison a strayed container leaves no way to a result; after it no
    question is asked. `AttestingAssumption` says where the comparison is.
  * `OutcomesAreTold`, that is `StatusIsTold`. `ReportInv`: a driver that has an
    outcome in memory has it on disk, in a record nobody else will write, or
    every way from its step comes to the `save`, or to the clause that records
    whatever it catches (`Owed`). One step on those ways may fail with no clause
    ahead, the wait for the service that was just begun; it does not, because
    nobody but the holder of the lock stops the service (`Assured`, from
    `Tolled`). `ReportAssumption` has such ways behind every step that comes to
    an outcome, and such neighbours beside a driver that waits.
* `PartitionCacheProofs` also has `StatsAddUp` (`StatsBalance`, relative to
  `CallInv` and `ScanInv`), `BlocksOnlyUnderPressure` and the action property
  `EvictsTheRightOne`, both from `PressureInv`: what the scan has passed over was
  in use when the miss began, and every candidate is at least as old as what it has left.
* `PromotionProofs` also has `TypeCorrect`, `PassIsEarned` and `RecoveryIsReal`.
  `PromotionInv` has three layers: the types and which labels go with which mode
  (`Typed`), the invariant above (what is written is
  written offline), and `ReceiptInv`: what the steps of the body behind the current one
  have put on disk and verified (`BodySoFar`), the same for the recovery
  (`RecoverySoFar`), and what a written receipt says (`Told`). The two
  properties speak of the end of an attempt only, so each step must know what the
  earlier ones achieved.
* `CampaignProofs` also has `TypeCorrect` (with any restorations; `BoundsAssumption`: the bounds on
  signals and failures are numbers) and `ReceiptsAreTrue`, the action property `LeftAsSaid`,
  from the same `Established`.

The assumptions on programs and instances are conjunctions over a finite table;
they say what the drivers of `scripts/` have in common, and a driver changed so that it breaks
one is found by the run, before any proof is asked.

Only model-checked: all liveness (`CallsReturn`, `FailureServesSaved`,
`AttemptEnds`, `CampaignsEnd`, `WaveEnds`, `EveryDriverEnds`), which needs fairness and ENABLED.
The violations of section 6 are TLC's.

Only proved: `NeverOverCapacity` and `RecencyIsTotal` (no two partitions share a
tick, so the least recent one is unique), `WavesAreReleasedTogether` (no request
is sent before every thread and the main thread are at the barrier) and
`RunsStayLongest` (the work is batched as the comment at line 567 of the patch
says). Runs ask for what depends on them: the contract with its capacity, the
choice of the victim, the accounting, the rows.

## 8. What is left, in order

1. `SparseRetirement`: tables with holes, the processed boundary and the block
   pool. Theorem: no block is freed twice.
2. `SharedSdpaCache`: the experiment's mutex, contexts and shapes; it should
   implement `PartitionLifetime` as well.
3. `RequestDefaults`, and the window of `wait_accounted()` beside foreign
   requests, which `Drivers` takes as one request.
4. Proofs: the theorems of the modules above.

Not planned: numerical kernels (agreement of floating-point results),
build-time rewrites of vLLM's files, recorders, rendering and publication
(single passes over files), the coding fixtures, recorded evidence and the
third-party sources kept beside it.
