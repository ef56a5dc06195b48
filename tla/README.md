# TLA+ models of the TPU micro-benchmarks

This directory holds TLA+ models of the concurrent parts of the repository and of its traffic plan, the TLC
configurations that check them on small instances, and proofs that TLAPS checks for every
value of the constants. Paths below are relative to the repository's root.

## The system

The repository measures TPU interconnect (ICI), HBM, VMEM, PCIe, matrix-multiply and host
network performance. Each benchmark is a Python program; bash scripts start it on many hosts.

| Component | State | Operations | Interacts with |
|---|---|---|---|
| ICI runner (`src/ici/runner.py`) | case list, compiled cache, `case_results`, JSONL files | per case: start barrier, compile and upload, phases, completion key, complete barrier; after the loop: HLO dumps, aggregation | JAX coordination service, phases, kernels |
| Phase runners (`src/ici/phases.py`, `src/utils/profiling.py`) | durations | warmup calls and timed calls, with and without recording | device calls, traces, metrics |
| ICI kernels (`src/ici/kernels.py`) | device buffers | ragged exchange, self copy, remote DMA, all-to-all, all-reduce | the same call on the other hosts |
| Traffic (`src/ici/traffic.py`) | none (pure) | topology, block ranges, matrices, pairs, cases, bytes, distances | runner |
| `main` (`src/ici/test_ici.py`) | results | run, `sync_global_devices`, emit metric lines | runner, launcher (reads the lines) |
| ICI launcher (`scripts/ici/test_multinode_ici.sh`) | directories of logs, child pids, failed flags | split the host list, ssh, local rank, wait, unpack, judge, next mode | ssh, `main` |
| Memory kernels (`src/memory/kernels.py`) | VMEM banks, DMA semaphores | start, wait, touch, restart of each bank | DMA engine |
| Memory benchmark (`src/memory/benchmark.py`, `test_hbm.py`, `test_vmem.py`) | per-device results | warmup, timed iterations, device after device | kernels, profiling |
| PCIe benchmark (`src/pcie/test_pcie.py`) | host arrays, device buffers, a thread pool | H2D and D2H, one target after the other or all at once | JAX transfers |
| GEMM and tpubandwidth launchers (`scripts/gemm`, `scripts/tpubandwidth`) | as the ICI launcher, no process group | the same binary tree | ssh, the single-host benchmarks |
| Trace timing (`src/utils/profiling.py`) | a trace, durations | profiled and synchronized loops, assignment of trace events to iterations | devices, Xprof files |
| iperf suite (`scripts/iperf`) | the current server, a log | per device and direction: start a server, wait, measure, end it | ssh, iperf on two hosts |
| OSS upload (`scripts/oss`) | lists of testcases and logs | copy, count, remove logs and empty directories | ossutil, the writers of logs |
| Cleanup (`scripts/cleanup_tpu_tests.sh`, `src/ici/cleanup.py`) | none of its own | find and end processes that hold the chips | operating system |

What is hard about it: hosts that must stay in step without a common scheduler; calls that
block without a timeout until a peer makes the same call; processes that raise between two
barriers; ssh connections that die under a running script; asynchronous DMA with hand-unrolled
banks; buffers that a worker thread reads while the main thread gives up; a trace whose events
bear no iteration; servers and logs that outlive the script that made them. `PROJECT.json` lists each hazard at its line, with the property that covers it, or the
reason why none does.

What makes each component correct: the hosts never work on two cases at once, a case counts
when everybody did its part and is recorded once, and metric lines come from whole runs only
(runner, phases, main); the launcher passes a mode only if all ranks succeeded and keeps all
logs otherwise (script); each chunk is moved once through a bank that nobody else uses
(memory kernels); offsets of a ragged exchange do not overlap and bytes are counted as moved
(kernels, traffic); events are charged to the iteration they belong to (trace timing); rounds of
transfers do not mix and buffers live as long as they are read (PCIe); no server outlives its run
and a metric comes from the server that was started for it (iperf); no log is removed that is not
in the bucket (upload).

## Modules

| Module | What it is |
|---|---|
| `CaseRounds` | abstract: a group of processes works through rounds and publishes when all are over |
| `IciCaseSync` | the case protocol of the runner, phases and `main`, in slice scope |
| `MCIciCaseSync` | small slices for TLC |
| `IciCaseSyncProofs` | the inductive invariant, the safety theorems and the refinement of `CaseRounds` |
| `LaunchTree` | the ssh tree of the three launchers and the loop over the modes |
| `MCLaunchTree`, `LaunchTreeProofs` | small clusters; the invariant and the safety theorems |
| `TrafficCases` | what one process makes of a request: topology, block, matrix, cases, ragged windows, bytes |
| `OrderedSets` | finite sets of integers in increasing order, in a form that can be reasoned about |
| `MCTrafficCases`, `TrafficCasesProofs` | device lists and requests for TLC; the invariant and the theorems |
| `WindowedStreams` | abstract: lanes of chunks with a bounded window |
| `HbmPipeline` | the three HBM kernels, parameterised by banks, lanes and chunks |
| `MCHbmPipeline`, `HbmPipelineProofs` | a small kernel; invariant, safety theorems, refinement of `WindowedStreams` |
| `PcieTransfers` | the cases and rounds of the PCIe benchmark, its worker pool and its buffers |
| `MCPcieTransfers`, `PcieTransfersProofs` | a small host; the invariant and the safety theorems |
| `TraceTiming` | the profiled loop on asynchronous devices and the cutting of its trace |
| `MCTraceTiming`, `TraceTimingProofs` | two devices, three iterations; the invariant and the theorems |
| `IperfSuite` | the iperf script, its servers, and what one run leaves to the next |
| `MCIperfSuite`, `IperfSuiteProofs` | two runs; the invariant and the safety theorems for `--batch-test` |
| `LogUpload` | the upload script beside the scripts that write logs |
| `MCLogUpload`, `LogUploadProofs` | three logs of two testcases; the invariant and the safety theorems |

### IciCaseSync

`pc[p]` names the place of process `p` in the case loop and `idx[p]` is its `case_index`.

| Place | Code |
|---|---|
| `loop` | head of the loop, runner.py:713 and 729 |
| `start` | in the barrier `ici_case_<c>_start`, 714 and 731 |
| `prepare` | compile and upload, 744-894 |
| `ready`, `incall` | between and in the calls of phases.py |
| `signal` | phases over, 1048 |
| `poll` | idle process in `_wait_for_case_completion`, 100-125 |
| `complete` | in the barrier `ici_case_<c>_complete`, 716 and 1051 |
| `sync`, `done` | test_ici.py:286 and the end of `main` |

`FinishPhases` contains the trace parsing, the statistics and the JSONL append of the owner of
the case, because nothing of another process happens in between that could tell them apart.
`SignalAndArrive` is one step for the same reason: the key and the arrival are both only read by
processes that wait. The two barriers and their timeouts are the external actions `Release`
and `Expire`; an expired barrier raises in every process that has arrived or arrives later. Any
process may raise while it compiles, uploads, calls, records, collects HLO dumps, polls or waits
(`Faults` chooses which of these an instance has). A process that raised stays where it was: its
peers see only that it does not arrive.

A device call returns when the processes it takes data from have entered the same call
(`Feeders`): everybody for the dense collectives, the process of the source chiplet for the
pairs of a traffic matrix or a remote DMA. This is the weakest assumption that the code itself
makes; a real collective may wait for more.

Left out: the numbers in the records, device buffers, and what the compiled cache holds.

### LaunchTree

A script's list of ranks is an interval `r .. last[r]`, its head is the script's own rank.
`Spawn` is the computation of the two halves and both ssh clients (257-301), `StartRank` the
local rank (303-305), `WaitLocal` and `CollectChild` the waits (306-321), `Exit` the archive and
the status of `run_subtree` (325-342), `Judge` the checks of `run_slice_mode` (355-386) and
`NextMode` the loop (409). ssh is external: a connection may fail, or die at any time with any
part of the archive through. A rank is a process of test_ici.py, of which two outcomes matter here: `RankFails`, it
raises or is killed, and `RankSucceeds`, which in a group needs that no other rank failed, as
each waits for all at `sync_global_devices` (test_ici.py:283-286). What happens before that is `IciCaseSync`. A script that lost its connection goes on.

`setup` chooses the script. With `group` it is the ICI launcher. Without, it is that of GEMM or
tpubandwidth, whose `subtree_execute_node`, `run_subtree` and `run_all_hosts` are line by line the
same but for three things: the ranks do not depend on each other, all modes run in one go on each
host (`Launches`), and the root neither takes an empty archive for a failure nor looks into the
logs (`ChildFailed`, `LogsPass`). They take a hostfile of one line, the ICI launcher wants two (396). `ident` is what `detect_node_identity` answers on each host;
two hosts may answer the same, and `Unpack` then writes one log over the other. Left out:
options, environment, the text of the logs beyond the three things the root greps for.

### TrafficCases

One process, from the arguments of `run_ici` and the coordinates JAX reports to the last case.
The stages are the stretches of `run_ici` between its raises: `Validate` (269-310), `Infer`
(`infer_tpu_topology`), `SelectBlock` (318-346), `BuildMatrix` (354-505), `BuildCases`
(`build_traffic_cases`), one `RunCase` per case (the ragged buffers and the accounting of
865-962; the protocol around it is `IciCaseSync`), `Finish`. A step whose checks fail goes to
`refused`, where the code raises. Nothing is interleaved here: the initial states range over
all listings and requests, and each property compares the outcome with a definition of its own.
Loops that keep some places of a list (the selected chips, the active pairs) are written with
`Ascending`: a set of places, read in order.

A 0/1 matrix is the set of its pairs, bytes are payload rows of 4096 bytes, a bandwidth
numerator is a fraction. `Int32` wraps at `IndexMax`, which stands for 2^31-1 and is small, so
that the requests reach it. The redundant checks of `infer_tpu_topology` (unique coordinates,
two devices per coordinate) and of the two maximal offsets are implied by the ones written
out. `jax.make_mesh` is taken to keep the order of the devices, so the two groups of a parallel
collective are the even and the odd chiplets. Left out: formats of labels and matrix strings,
averages over groups of results, payload values, and the alignment checks of the data size.

### HbmPipeline

The three kernels are one program with `NumBanks` banks and a list of lanes: `<<"read">>` or
`<<"write">>` with four banks, `<<"read", "write">>` with two. `Fill` is a first copy, `Wait` a
`copy.wait()`, `Touch` a `pltpu.touch`, `Restart` the next `make_async_copy(...).start()` with
its guard and the unrolled `if chunk_base + j < n_iters`. The DMA engine is the external action
`Complete`; it finishes copies in any order. `sem` counts completions as the hardware does, so
a wait for the wrong copy is possible in the model and excluded by a theorem.

### PcieTransfers

`case` runs over the one-to-one case of each target and the one-to-many case behind them
(`run_pcie`, 705-722); `pc` is the main thread's place in a case:

| Place | Code (test_pcie.py) |
|---|---|
| `prepare` | `prepare_d2h_source_batch`, 255-278 |
| `round`, `collect` | `run_once`: submit and `future.result()`, 479-488 and 542-553; the one call of a one-to-one case |
| `block` | `block_until_ready` in 312-326 and profiling.py:383-408, then the release of the result |
| `shutdown` | leaving the pool, `finally`, append of the result |
| `write` | `write_case_metrics` of all cases |

`xfer[<<t, r>>]` is the transfer of target `t` in round `r`: queued in the pool, running in a
worker, returned (an array that is still being filled, for `device_put`), ready, failed, broken
or deleted. `PrepareRaises` leaves the batches of the targets before as they are, because the
comprehension at 526 is outside of the `try`. The statistics and the choice of targets are left
out, and so is the profiled way of timing, which is `TraceTiming`.

### TraceTiming

The host's loop is `Prepare`, `Call`, `Block` (profiling.py:336-354); `Run` is a kernel of a device and
the event the profiler writes for it, in any interleaving of the devices. `Extract` is
`marker_durations_ms_from_trace`: filter, check that the number of events divides, cut and reduce. An event
carries its device and the number of its kernel there for the properties' sake; `Extract` does not look at them. An event may have
lost its duration, and then only the divisibility stands between a run and shifted
durations; the property is stated for traces that lost nothing.

### IperfSuite

`run_direction` is cut at each of its ssh commands, and each may fail: `Validate`, `StartServer`,
`WaitForServer` / `Retry` / `WaitGivesUp`, `RunClient`, `ReadLog`, `EndServer`, `EmitMetric`. A
remote command whose connection fails has run as a whole or not at all by the time ssh returns;
a start that the other host carries out after the cleanup, when there was no pidfile yet, is
excluded. `Fail` is the end of the shell under
`set -e`; `ExitTrap` is what comes then, and depends on `--batch-test`: `run_suite` alone shares
its shell with the trap, in a pipeline it does not. Servers are kept per run, because a server
left behind holds the port of its device and direction for the runs that follow. Left out: options, the
formats of iperf's CSV and of the metric line. Two runs at the same time are not modelled.

### LogUpload

The script's loop is `ListLogs`, `Copy` and `EndTestcase` per testcase, then `EndUploads`,
`RemoveLog` and `RemoveDirectory`. The writers are `MakeDirectory` and `Place`, the `mkdir -p` and `mv`
that end a launcher, and `Extend` and `Close` for the iperf log that `tee` writes in place. `torn`
remembers logs that were copied while they grew. All testcases are asked for; the default,
those that have a directory at the start, asks for fewer. Left out: the destination's names, which
are made of the base name only (two logs of one name in subdirectories would collide), and credentials.

The `find` of line 175 runs in a process substitution, whose status neither errexit nor pipefail
sees. With the fault `find` a listing may leave out any of its logs, and the upload goes on. `missed` remembers them;
`SuccessIsComplete` cannot hold of them and is stated for all others. They are not
removed either, since only what was copied is, which is what `NothingLost` checks.

## Runs

| Run | Question | Bounds |
|---|---|---|
| `case_protocol` | all safety properties of the protocol, refinement of `CaseRounds`, `NobodyStrandedOnHost` | three active hosts and an idle one, two p2p cases of which the recorder owns none, one warmup and one timed call, every fault |
| `split_completes` | without faults a run of split pairs ends on every host: the timeouts, which would hide a missing signal, are off | as `case_protocol` with p2p-rdma |
| `owner_claim` | a comment the code does not keep (see below) | as `case_protocol`, without faults |
| `launch_tree` | honesty of a pass, logs after a failure, a lost log is noticed, the partition of the ranks, ends and passes | four hosts (a root with an inner node and two leaves), two modes; the ICI launcher against every fault and, with two hosts of one name, against failing ranks; the others against failing ranks and, with two hosts of one name, against dropped connections |
| `traffic_plan` | is each good device list accepted and each bad one refused, is each link of the block measured once, do ragged windows tile, are the credited bytes those exchanged | columns of 1 to 5 chips, a 2x2 plane, a shifted pair and one below the origin, seven malformed lists; four block ranges; all benchmarks; inputs of 1 to 12 rows with `IndexMax` 7 |
| `mesh_distance` | are chips at a reported distance of one neighbours (they are not) | scans of a column of four chips |
| `hbm_copy` | the pipeline against its abstraction, and it ends | two lanes, two banks, five chunks: three rounds, the last one short |
| `pcie_transfers` | buffers against workers, rounds against each other, whole measurements, release, end | three targets, one warmup and two timed rounds, both subcommands and all modes, failing uploads and transfers |
| `trace_timing` | is chunk i of the trace the kernels of call i | two devices (max) or two events a call (median), three iterations, two durations, events of input copies, lost durations |
| `iperf_suite` | servers left behind, metrics of the wrong server, end | two runs with `--batch-test`, two devices in both directions, failing ssh, server and client |
| `iperf_leak` | the same server property without `--batch-test` (it fails) | one run, one device, no faults: a server that is slow to come up is enough |
| `log_upload` | loss by cleanup, complete success | two uploads, two testcases, three logs of which one grows in place, two prefixes, failing copies and listings |

Why these are enough to meet the interesting cases: two cases are what overlapping and stale
keys need; the owners of both cases are not the recorder, so recording, signalling and polling
are done by different hosts; four hosts are the smallest tree with an inner node other than the
root; five chunks on two banks restart each bank and end in a short round; a block of three chips in
a column of four tells slice from block coordinates and links from wraparound, a column of five
passes the neighbour mode's limit, and eight rows into one chiplet pass `IndexMax` while each
link stays below it; three targets let one transfer fail between one that is done and one that is
queued, and three rounds have a warmup round, a first and a last timed one; three iterations have an inner
chunk; a second run of iperf meets what the first one left; a second upload repeats one that
failed half-way. The safety properties of all modules with a `...Proofs` module are proved for
all values anyway. `MCIperfSuite_batch` takes about 68 000 states, `MCLaunchTree_faults` about
670 000 and `MCTraceTiming_trace` 1.2 million, which bounds the hosts at four and the iterations at three.

A mutant stands beside each definition it changes, marked `Mutant`: a version of that
definition with a plausible bug, which makes one of the properties fail. None is part of a
specification.

### Where the code and its comments disagree

* `SplitOwnerIsSource`. traffic.py:199 gives "P2P/raw" split pairs to the process of the source.
  runner.py:982 asks for p2p and p2p-rdma only, a raw pair is recorded by the recorder.
* `ReportedNeighborsAreLinked`. traffic.py:30 and README.md:168 say that axes of up to four
  chips do not wrap, and the neighbour mode measures no such link. `torus_axis_distances` wraps
  every axis of the selected block, so the two ends of an axis of three or four chips are
  reported at distance one and averaged with real neighbours.
* `NoServerLeft` without `--batch-test`. test_multinode_iperf.sh:189 sets an EXIT trap that ends
  the current server. Line 355 runs the suite as the first command of a pipeline, in a subshell
  that resets the trap and is the only one that knows the server. A step that fails there after
  the start leaves `iperf -s` running: in TLC's trace the wait for a server that is slow to come up
  (die, line 267), and in the same way a client or a read of the server's log.
  With `--batch-test` the property holds, and is proved.

Two more comments are wrong without any run hanging on it. runner.py:93 says that the completion
key means "all participants completed one case"; it is set after the recorder's own work
(`SignalAndArrive`). traffic.py:210-212 excludes hosts without an endpoint from execution; all
active hosts execute (`EnterCall`), and the function this comment is in has no caller.

## Fairness

`IciCaseSync`: each process goes on with its own steps (`Work`), the poll ends at its deadline
(runner.py:114-123) and the coordination service either releases or expires a barrier (its
timeout is given at runner.py:84). No fairness for failures, and none for JAX ending the peers
of a dead process: `NobodyStrandedOnHost` says that the code's own timeouts are enough to leave
every host-side wait. A device call has no timeout, and neither has the final device
collective, so a process may stay in these two after a peer raised; the property says so.

`LaunchTree`: scripts go on, ssh connects or gives up (`ConnectTimeout`), and a rank ends. The
last is an assumption about the benchmark process; `wait` in the script has no timeout.
A connection need not die.

`TrafficCases`: none, it has safety properties only.

`HbmPipeline`: the program goes on, and each copy in flight completes.

`PcieTransfers`: the main thread goes on, and each submitted transfer is taken by a worker,
returns or raises, and lands or breaks. A worker thread without work takes the next call, and JAX
has no transfer that never ends short of a broken device.

`IperfSuite`: the script goes on, so every ssh command returns, and a started server binds or gives
up. The first is an assumption: the script's ssh has `ConnectTimeout` and no keep-alive, so a
connection that dies silently can hold it. `Retry` changes nothing, so fairness of the script's
changing steps bounds it, as the counter of twenty attempts does in the code.

`TraceTiming`, `LogUpload`: none, they have safety properties only.

## Proofs

Each `...Proofs` module states one inductive invariant as a conjunction of named parts, shows
that `Init` implies it, that each action preserves it (one step per action), and derives the
theorems. The assumptions are those named in the modules: process indices are numbers, the
recorder is the least active one, cases are numbered from 0, a split case has one pair, there is
at least one timed call, a p2p scan has more than one case; at
least one host, two for the ICI launcher, and one mode; at
least one bank and one lane; at least one target and one timed round; at least one device, run,
testcase and upload; coordinates are integers, block ranges and sizes are natural numbers (they are
parsed from digits) and flags are flags; a profiled call runs at least one kernel on at least one
device for at least one iteration, and is reduced by maximum or median; foreign events are not
kernels of the call. The theorems about `IperfSuite` are for `--batch-test`
(`ASSUME Batches \subseteq {TRUE}`); without it they are false, as `iperf_leak` shows.

* `IciCaseSync`. Without the strengthening, `CasesDoNotOverlap` is not inductive: what a process
  may do next depends on which barriers have been passed. The invariant says what a passed
  barrier means (everybody has arrived at it, so everybody is there or further on), where a
  process can be by the barriers it passed, that a set key means the recorder is through, that
  a recorded case is one the process owns and has finished its calls of, and that nobody is
  `done` before all are at `sync`. Proved: `TypeOK`, `CasesDoNotOverlap`,
  `IdleReleasedByRecorder`, `ResultsAreComplete`, `PublishedRunIsWhole`, `OneOwnerPerCase`, and
  that each step is a step of `CaseRounds` or a stutter. `CallsNeverStarve` follows once a process
  in a call is known to be past the start barrier, which its feeders have passed or stand at.
  `EveryCaseReportedOnce` has an invariant of its own on top (`RecordInv`): what an owner has
  recorded of the cases behind it is all of what it owns, so `done` everywhere means all of them.
* `LaunchTree`. The invariant is about intervals: lists of scripts that have yet to hand out
  ranks are disjoint and cover what was not handed out; an ok status of a connection implies
  that all ranks of that script's list succeeded. Proved: `TypeOK`, `FreshChildren`,
  `NobodyForgotten`, `PassMeansAllRanksSucceeded`, `PassMeansAllLogs`, `FailureKeepsLogs`,
  `ModesDoNotOverlap`, for both kinds of launcher.
* `HbmPipeline`. The invariant says of each chunk, from the position of the program, whether it
  is unstarted, in flight in its own bank, landed and not waited for, or used. Proved: all
  safety properties and the refinement of `WindowedStreams`, for every number of chunks, banks
  and lanes.

* `PcieTransfers`. The invariant ties the main thread's place to the transfers: those of rounds
  that are over are deleted, those of rounds to come are not there, nothing is queued or running
  when the run has raised, the sources of all targets stand behind the rounds of a D2H case, and
  what is measured are exactly the timed rounds that are over. Proved: `SourcesOutliveReads`, `RoundsApart`, `MeasuredWhole`,
  `ReleasedOutsideCases`.
* `IperfSuite`. A server that is starting or listening is unreached, or is the one the shell has
  written down; a server can only be met by another run if it is unreached. Proved:
  `NoServerLeft` and `MetricsAreSound`, for every number of devices and of runs.
* `LogUpload`. What the current upload has in `uploaded` is in the bucket at the size the file has, or is
  torn; a log leaves its directory only while it is in `uploaded`; what was finished at the start and has
  been passed by is in the bucket, so long as the upload has not failed. Proved: `NothingLost` and
  `SuccessIsComplete`.

* `TrafficCases`. `PlanInv` says of each variable what it is as a function of those before it, once
  the stage that sets it is past, and that the buffers are those of the case that ran last. It is
  inductive with little work; the properties are then facts about the operators, for every list of
  devices, every request, every width of an index. Proved: `TypeOK`, `TopologyIsExact`, `EveryLinkOnce`,
  `RaggedWindowsTile`, `ExchangeMatchesMatrix`, `BisectionIsTheCut`. The lemmas they rest on:
  a sum over a part of a row is the sum over the rest plus one term and grows with the part, so
  windows that begin at partial sums are disjoint, and no offset wraps because the whole row was
  checked against the index; `Ascending` lists each member once, in order; `cells \div n` and
  `cells % n` give back the pairs of a matrix, so a split scan has each pair once; the map from a
  chiplet of the mesh to its device is one to one; the pairs of an all-to-all are counted by
  products, and so is its cut; a set of integers is `0 .. n - 1` iff it has 0, no negative member and
  no gap; points fill the cuboid of their axes iff there are as many as the axes' extents multiply to.
* `TraceTiming`. The events of one call are not a stretch of the trace until the host has blocked on
  it. The invariant says that each kernel that ran is in the trace once, that between calls all of
  them ran, and that events of an earlier call come before those of a later one. With nothing lost
  there are `devices * ops` events per call, so place `n` of the filtered trace belongs to call
  `(n - 1) \div (devices * ops)`: the chunks are the calls. Proved: `DurationsAreTheirOwn`, with the
  reduction of a chunk left opaque, because equal chunks have equal reductions.

What these proofs needed of the models: the filters of a list used `SelectSeq` and the sums a
recursive definition, of which the prover knows nothing; they are now written with `Ascending` and
with the folds of the community modules. `TotalUnfolds` to `TotalEquation` show that such a fold
obeys its recursion equation, by induction over sizes; the principle itself is `NatSetInduction`, stated for a
set that has 0 and all successors and proved by the pigeonhole principle. One proof failed for a good reason:
`PairedCuboid` once asked for the chip at the origin only, while a list with a chip at a negative
coordinate has that too and is refused by `infer_tpu_topology`, rightly. The definition asks for no
negative coordinate now, and the run has such a list.

Only model-checked: everything under fairness (`RunCompletes`, `NobodyStrandedOnHost`,
`LauncherEnds`, `AllModesPass`, `KernelEnds`, `RunEnds`, `SuiteEnds`), which is outside of what
the prover does. Every invariant and every action property of a passing run is a theorem.
`RunCompletes` is run for remote DMA only; the safety theorems of `IciCaseSync` are for every benchmark, the dense
collectives included.

## Not modelled

* Averages of results by distance and core pair (traffic.py:244-333), metrics, units: arithmetic
  on measured values.
* The VMEM copy kernel, the memory driver, the GEMM benchmark, the runtime helpers: sequential,
  no state shared with anybody.
* Loading of trace files and HLO dumps (profiling.py): files of one process.
* Cleanup of stale TPU processes: run by hand; its outcome is the operating system's process table
  and lock files, of which the code has the text only.
* Of what is modelled: the JSONL file of an aborted run holds cases other hosts did not finish
  (phases.py:172); a parallel all-reduce on one chip is credited with 0 bytes (traffic.py:445);
  logs with one base name in two directories of a testcase meet at one destination
  (upload-logs-to-oss.sh:169), which `LogUpload` does not tell apart.

## Plan

1. Compose `TrafficCases` with `IciCaseSync`, so that `Pairs` is the plan of a request.
2. `IciCaseSync` as the rank of `LaunchTree`: a mode passes only with metric lines of a whole run.
3. Device buffers of the ICI benchmark (payloads that outlive an exception, runner.py:837).
