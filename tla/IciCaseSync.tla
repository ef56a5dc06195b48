---------------------------- MODULE IciCaseSync -----------------------------
(***************************************************************************)
(* The multi-process case protocol of run_ici (src/ici/runner.py) in slice *)
(* scope.  Every JAX process walks the same list of traffic cases.  Around *)
(* each case stand two coordination-service barriers.  Between them the    *)
(* active processes (those that own chiplets of the selected block)        *)
(* compile, upload a payload and make the same number of device calls;     *)
(* the idle ones poll a completion key that the metrics recorder sets.     *)
(* After the last case all meet in sync_global_devices and emit metrics.   *)
(*                                                                         *)
(* A process that raises stays where it was and joins `failed`.            *)
(***************************************************************************)
EXTENDS Integers, FiniteSets

CONSTANTS
  Procs,       \* JAX process indices of the slice
  Home,        \* Home[ch]: the process that chiplet ch of the block is local to
  Recorder,    \* metrics_recorder_process_index
  Benchmark,   \* the subcommand
  SplitPairs,  \* execution_shape == "split_pairs"
  Pairs,       \* Pairs[c]: active_pairs of traffic case c, as a set
  Warmup,      \* --warmup
  Iteration,   \* --iteration
  Faults       \* which things may go wrong in this instance

Cases == DOMAIN Pairs
NumCases == Cardinality(Cases)
Chiplets == DOMAIN Home
Active == {Home[ch] : ch \in Chiplets}
Idle == Procs \ Active
Calls == Warmup + Iteration

Phases == {"start", "complete"}
FaultKinds == {"prepare", "call", "record", "hlo", "barrier", "poll", "service"}

ASSUME ProcsAssumption == Procs \subseteq Nat
ASSUME HomeAssumption == \A ch \in Chiplets : Home[ch] \in Procs
ASSUME RecorderAssumption ==
  /\ Recorder \in Active
  /\ \A p \in Active : Recorder <= p
ASSUME CasesAssumption == NumCases \in Nat /\ Cases = 0 .. NumCases - 1
ASSUME CallsAssumption == Warmup \in Nat /\ Iteration \in Nat \ {0}
ASSUME PairsAssumption ==
  \A c \in Cases : /\ Pairs[c] \subseteq Chiplets \X Chiplets
                   /\ IsFiniteSet(Pairs[c])
                   /\ SplitPairs => Cardinality(Pairs[c]) = 1
ASSUME ModeAssumption ==
  /\ Benchmark \in {"raw", "p2p", "p2p-rdma", "a2a", "ar"}
  /\ SplitPairs \in BOOLEAN
  \* The p2p matrices are symmetric: each link is scanned in both directions.
  /\ Benchmark \in {"p2p", "p2p-rdma"} => SplitPairs /\ NumCases > 1
  /\ Faults \subseteq FaultKinds

VARIABLES
  pc,        \* pc[p]: where p stands in the case loop
  idx,       \* idx[p]: its case_index, NumCases once the loop is over
  ncalls,    \* ncalls[p]: device calls p has entered in its current case
  barrier,   \* verdict of the barrier ici_case_<c>_<phase>
  key,       \* cases whose completion key is set
  written,   \* written[p]: cases whose metrics p appended to its JSONL file
  results,   \* results[p]: cases in p's case_results list
  emitted,   \* emitted[p]: cases p emitted a metric line for
  failed     \* processes that raised

vars == <<pc, idx, ncalls, barrier, key, written, results, emitted, failed>>

PCs == {"loop", "start", "prepare", "ready", "incall", "signal", "poll",
        "complete", "sync", "done"}

TypeOK ==
  /\ pc \in [Procs -> PCs]
  /\ idx \in [Procs -> 0 .. NumCases]
  /\ ncalls \in [Procs -> 0 .. Calls]
  /\ barrier \in [Cases \X Phases -> {"open", "passed", "expired"}]
  /\ key \in SUBSET Cases
  /\ written \in [Procs -> SUBSET Cases]
  /\ results \in [Procs -> SUBSET Cases]
  /\ emitted \in [Procs -> SUBSET Cases]
  /\ failed \in SUBSET Procs

Init ==
  /\ pc = [p \in Procs |-> "loop"]
  /\ idx = [p \in Procs |-> 0]
  /\ ncalls = [p \in Procs |-> 0]
  /\ barrier = [b \in Cases \X Phases |-> "open"]
  /\ key = {}
  /\ written = [p \in Procs |-> {}]
  /\ results = [p \in Procs |-> {}]
  /\ emitted = [p \in Procs |-> {}]
  /\ failed = {}

-----------------------------------------------------------------------------
(* Who records a case, and whose data a device call of it waits for.       *)

ShouldRecordSplitCase(p, c) ==
  \/ Cardinality(Pairs[c]) # 1
  \/ \E pair \in Pairs[c] : Home[pair[1]] = p

\* Mutant: a source that is not the recorder's keeps its metrics to itself.
RecordsAtRecorder(p, c) == p = Recorder /\ ShouldRecordSplitCase(p, c)

Records(p, c) ==
  IF Benchmark \in {"p2p", "p2p-rdma"} /\ SplitPairs
    THEN ShouldRecordSplitCase(p, c)
    ELSE p = Recorder

\* The dense collectives take data from every rank.  Of a traffic-matrix or
\* remote-DMA case only this is relied on: a chiplet that receives waits for
\* the chiplet that sends (wait_recv, the rows of the ragged exchange), and
\* one that does neither waits for nobody.
Feeders(p, c) ==
  IF Benchmark \in {"a2a", "ar"}
    THEN Active
    ELSE {Home[pair[1]] : pair \in {x \in Pairs[c] : Home[x[2]] = p}}

\* q has entered its n-th device call of case c.
HasEntered(q, c, n) == idx[q] = c /\ ncalls[q] >= n

-----------------------------------------------------------------------------
(* The coordination service (external).                                    *)

\* wait_at_barrier is called without a list of processes.
\* Mutant: the barrier is one of the active processes only.
ActiveOnly == Active
Participants == Procs

Arrived(p, c, ph) == idx[p] = c /\ pc[p] = ph

Release(c, ph) ==
  /\ barrier[<<c, ph>>] = "open"
  /\ \A p \in Participants : Arrived(p, c, ph) /\ p \notin failed
  /\ barrier' = [barrier EXCEPT ![<<c, ph>>] = "passed"]
  /\ UNCHANGED <<pc, idx, ncalls, key, written, results, emitted, failed>>

\* The timeout of the first process to arrive runs out before the last one.
Expire(c, ph) ==
  /\ "barrier" \in Faults
  /\ barrier[<<c, ph>>] = "open"
  /\ \E p \in Participants : Arrived(p, c, ph)
  /\ \E p \in Participants : ~ Arrived(p, c, ph) \/ p \in failed
  /\ barrier' = [barrier EXCEPT ![<<c, ph>>] = "expired"]
  /\ UNCHANGED <<pc, idx, ncalls, key, written, results, emitted, failed>>

-----------------------------------------------------------------------------
(* What a process waits for, and how long it goes on.                      *)

\* Mutant: the process does not wait at the barrier.
ArrivedAt(p, ph) == pc[p] = ph

PassedBarrier(p, ph) == pc[p] = ph /\ barrier[<<idx[p], ph>>] = "passed"

KeyIsSet(c) == c \in key

\* Mutant: the recorder signals only the cases it records.
SignalsOwn(p) == p = Recorder /\ Records(p, idx[p])

Signals(p) == p = Recorder

\* Mutants: one call too many; no warmup for who records.
CallsLeftInclusive(p) == ncalls[p] <= Calls
CallsLeftUnwarmed(p) ==
  ncalls[p] < IF Records(p, idx[p]) THEN Iteration ELSE Calls

\* Both phase runners make the warmup calls and then the timed calls.
CallsLeft(p) == ncalls[p] < Calls

\* sync_global_devices is a collective over the devices of every process.
\* Mutant: main emits at once.
NoSync == TRUE
AllAtSync == \A q \in Procs : pc[q] \in {"sync", "done"}

-----------------------------------------------------------------------------
(* Steps of one process.                                                   *)

Goto(p, l) == pc' = [pc EXCEPT ![p] = l]

Fail(p) ==
  /\ failed' = failed \union {p}
  /\ UNCHANGED <<pc, idx, ncalls, barrier, key, written, results, emitted>>

ArriveStart(p) ==
  /\ p \notin failed
  /\ pc[p] = "loop" /\ idx[p] < NumCases
  /\ Goto(p, "start")
  /\ ncalls' = [ncalls EXCEPT ![p] = 0]
  /\ UNCHANGED <<idx, barrier, key, written, results, emitted, failed>>

LeaveStart(p) ==
  /\ p \notin failed
  /\ PassedBarrier(p, "start")
  /\ Goto(p, IF p \in Active THEN "prepare" ELSE "poll")
  /\ UNCHANGED <<idx, ncalls, barrier, key, written, results, emitted, failed>>

\* Compile, or take the executable from the cache, and upload the payload.
Prepare(p) ==
  /\ p \notin failed
  /\ pc[p] = "prepare"
  /\ Goto(p, "ready")
  /\ UNCHANGED <<idx, ncalls, barrier, key, written, results, emitted, failed>>

EnterCall(p) ==
  /\ p \notin failed
  /\ pc[p] = "ready" /\ CallsLeft(p)
  /\ Goto(p, "incall")
  /\ ncalls' = [ncalls EXCEPT ![p] = @ + 1]
  /\ UNCHANGED <<idx, barrier, key, written, results, emitted, failed>>

\* block_until_ready returns once the data the call needs has been sent.
ReturnFromCall(p) ==
  /\ p \notin failed
  /\ pc[p] = "incall"
  /\ \A q \in Feeders(p, idx[p]) : HasEntered(q, idx[p], ncalls[p])
  /\ Goto(p, "ready")
  /\ UNCHANGED <<idx, ncalls, barrier, key, written, results, emitted, failed>>

\* End of the phases: the owner of the case parses its trace and appends the
\* record; the others only drop their payload.
FinishPhases(p) ==
  /\ p \notin failed
  /\ pc[p] = "ready" /\ ~ CallsLeft(p)
  /\ written' = IF Records(p, idx[p])
                  THEN [written EXCEPT ![p] = @ \union {idx[p]}]
                  ELSE written
  /\ Goto(p, "signal")
  /\ UNCHANGED <<idx, ncalls, barrier, key, results, emitted, failed>>

\* Only the recorder sets the completion key, and only for its own work.
SignalAndArrive(p) ==
  /\ p \notin failed
  /\ pc[p] = "signal"
  /\ key' = IF Signals(p) THEN key \union {idx[p]} ELSE key
  /\ Goto(p, "complete")
  /\ UNCHANGED <<idx, ncalls, barrier, written, results, emitted, failed>>

PollSucceeds(p) ==
  /\ p \notin failed
  /\ pc[p] = "poll" /\ KeyIsSet(idx[p])
  /\ Goto(p, "complete")
  /\ UNCHANGED <<idx, ncalls, barrier, key, written, results, emitted, failed>>

LeaveComplete(p) ==
  /\ p \notin failed
  /\ PassedBarrier(p, "complete")
  /\ Goto(p, "loop")
  /\ idx' = [idx EXCEPT ![p] = @ + 1]
  /\ results' = [results EXCEPT ![p] = @ \union (written[p] \intersect {idx[p]})]
  /\ UNCHANGED <<ncalls, barrier, key, written, emitted, failed>>

\* After the loop: collect HLO dumps, aggregate, return to main, which enters
\* sync_global_devices.
ReturnResults(p) ==
  /\ p \notin failed
  /\ pc[p] = "loop" /\ idx[p] = NumCases
  /\ Goto(p, "sync")
  /\ UNCHANGED <<idx, ncalls, barrier, key, written, results, emitted, failed>>

\* The cases main prints a metric line for.  A run of one case returns the
\* bare case, without the per_case list that the p2p lines are read from.
MetricLines(p) ==
  CASE Benchmark \in {"a2a", "ar"} -> results[p]
    [] Benchmark = "p2p" /\ NumCases > 1 -> results[p]
    [] OTHER -> {}

EmitMetrics(p) ==
  /\ p \notin failed
  /\ pc[p] = "sync" /\ AllAtSync
  /\ Goto(p, "done")
  /\ emitted' = [emitted EXCEPT ![p] = MetricLines(p)]
  /\ UNCHANGED <<idx, ncalls, barrier, key, written, results, failed>>

-----------------------------------------------------------------------------
(* What may go wrong.                                                      *)

\* Mutant: no timeout, the exception of wait_at_barrier never comes (the
\* same for the deadline of the poll).
NeverRaises(p) == FALSE

BarrierRaises(p) ==
  /\ p \notin failed
  /\ pc[p] \in Phases /\ barrier[<<idx[p], pc[p]>>] = "expired"
  /\ Fail(p)

PollRaises(p) ==
  /\ "poll" \in Faults
  /\ p \notin failed
  /\ pc[p] = "poll"
  /\ Fail(p)

PrepareRaises(p) ==
  /\ "prepare" \in Faults
  /\ p \notin failed
  /\ pc[p] = "prepare"
  /\ Fail(p)

CallRaises(p) ==
  /\ "call" \in Faults
  /\ p \notin failed
  /\ pc[p] = "incall"
  /\ Fail(p)

\* marker_durations_ms_from_trace rejects the trace of the case's owner.
RecordingRaises(p) ==
  /\ "record" \in Faults
  /\ p \notin failed
  /\ pc[p] = "ready" /\ ~ CallsLeft(p) /\ Records(p, idx[p])
  /\ Fail(p)

CollectRaises(p) ==
  /\ "hlo" \in Faults
  /\ p \in Active \ failed
  /\ pc[p] = "loop" /\ idx[p] = NumCases
  /\ Fail(p)

\* JAX's distributed service terminates the peers of a process that died.
ServiceTerminates(p) ==
  /\ "service" \in Faults
  /\ failed # {}
  /\ p \notin failed /\ pc[p] # "done"
  /\ Fail(p)

-----------------------------------------------------------------------------
Work(p) ==
  \/ ArriveStart(p) \/ LeaveStart(p) \/ Prepare(p) \/ EnterCall(p)
  \/ ReturnFromCall(p) \/ FinishPhases(p) \/ SignalAndArrive(p)
  \/ PollSucceeds(p) \/ LeaveComplete(p) \/ ReturnResults(p)
  \/ EmitMetrics(p) \/ BarrierRaises(p)

Mishap(p) ==
  \/ PollRaises(p) \/ PrepareRaises(p) \/ CallRaises(p)
  \/ RecordingRaises(p) \/ CollectRaises(p) \/ ServiceTerminates(p)

Service == \E c \in Cases, ph \in Phases : Release(c, ph) \/ Expire(c, ph)

\* Every process has returned from main or has raised.
Terminated == \A p \in Procs : pc[p] = "done" \/ p \in failed

Next ==
  \/ \E p \in Procs : Work(p) \/ Mishap(p)
  \/ Service
  \/ Terminated /\ UNCHANGED vars

\* Nothing is assumed of JAX's service: it may never end anybody.
Fairness ==
  /\ \A p \in Procs : WF_vars(Work(p)) /\ WF_vars(PollRaises(p))
  /\ \A c \in Cases, ph \in Phases : WF_vars(Release(c, ph) \/ Expire(c, ph))

Spec == Init /\ [][Next]_vars
FairSpec == Spec /\ Fairness

-----------------------------------------------------------------------------
(* Properties.                                                             *)

\* p is past the start barrier of its case and not yet at the complete one.
InCase(p) == pc[p] \in {"prepare", "ready", "incall", "signal", "poll"}

\* p has done its part of case c: its own calls, or its wait for the key.
WorkDone(p, c) == idx[p] > c \/ (idx[p] = c /\ pc[p] = "complete")

\* Two processes are never inside two different traffic cases: the barriers
\* of runner.py:731 and :1051 keep compilation, payload and timed calls of
\* one case apart from those of the next, also when some process raises.
CasesDoNotOverlap ==
  \A p, q \in Procs : InCase(p) /\ InCase(q) => idx[p] = idx[q]

\* A device call never waits for a peer that is through with its calls: the
\* recording and the non-recording phase runner make the same calls.
CallsNeverStarve ==
  \A p \in Procs : pc[p] = "incall" =>
    \A q \in Feeders(p, idx[p]) :
      \/ HasEntered(q, idx[p], ncalls[p])
      \/ idx[q] = idx[p] /\ pc[q] \in {"start", "prepare", "ready", "incall"}

\* An idle host leaves its poll only when the recorder is through with the
\* calls of that very case: no key of an earlier case lets it go.
IdleReleasedByRecorder ==
  \A p \in Idle : pc[p] = "complete" => WorkDone(Recorder, idx[p])

\* A case enters case_results (and so every average) only when each process
\* has done its part of it.
ResultsAreComplete ==
  \A p, q \in Procs : \A c \in results[p] : WorkDone(q, c)

\* No two processes append the record of the same case.
OneOwnerPerCase ==
  \A p, q \in Procs : written[p] \intersect written[q] # {} => p = q

\* Metric lines are a statement about the whole run: once one process has
\* emitted, no process has raised or will, and every case is over everywhere.
PublishedRunIsWhole ==
  (\E p \in Procs : pc[p] = "done") =>
    failed = {} /\ \A q \in Procs : idx[q] = NumCases

\* When a run of an emitting benchmark ends without an exception, each case
\* has been reported by exactly one process: none is lost between the owner's
\* list and main, none is printed twice.
EveryCaseReportedOnce ==
  (\A p \in Procs : pc[p] = "done") /\ Benchmark \in {"p2p", "a2a", "ar"} =>
    \A c \in Cases : Cardinality({p \in Procs : c \in emitted[p]}) = 1

\* Without mishaps every process returns from main.
RunCompletes == <>(\A p \in Procs : pc[p] = "done")

\* After an exception no peer waits for ever in a barrier or in the poll:
\* only a device call or the final device collective can still hold one.
NobodyStrandedOnHost ==
  failed # {} ~> \A p \in Procs : p \in failed \/ pc[p] \in {"incall", "sync"}

-----------------------------------------------------------------------------
(* The protocol implements CaseRounds.                                     *)

startedBar ==
  [p \in Procs |-> IF InCase(p) \/ pc[p] = "complete" THEN idx[p] + 1 ELSE idx[p]]
finishedBar ==
  [p \in Procs |-> IF pc[p] = "complete" THEN idx[p] + 1 ELSE idx[p]]

CR == INSTANCE CaseRounds WITH
  Rounds <- NumCases, started <- startedBar, finished <- finishedBar,
  raised <- failed, published <- {p \in Procs : pc[p] = "done"}

\* Each step of a process or of the service is a step of CaseRounds or
\* leaves what CaseRounds sees unchanged.
ImplementsCaseRounds == CR!Spec

-----------------------------------------------------------------------------
(* What the comments of the repository say.                                *)

\* traffic.py:199-201: the process of the source chiplet owns the metrics of
\* a split-pair p2p/raw case.
SplitOwnerIsSource ==
  SplitPairs => \A p \in Procs : \A c \in written[p] :
                  \A pair \in Pairs[c] : Home[pair[1]] = p
=============================================================================
