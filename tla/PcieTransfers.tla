--------------------------- MODULE PcieTransfers ----------------------------
(***************************************************************************)
(* run_pcie (src/pcie/test_pcie.py): warmup and timed rounds of transfers  *)
(* between the host and its local chiplets.  A one-to-one case makes its   *)
(* transfers from the main thread; the one-to-many case submits one        *)
(* transfer per target to a thread pool, waits for the futures in order    *)
(* and blocks on what they returned.                                       *)
(*                                                                         *)
(* Case number t < NumTargets is the one-to-one case of target t, case     *)
(* NumTargets is the one-to-many case.                                     *)
(***************************************************************************)
EXTENDS Integers, FiniteSets

CONSTANTS
  NumTargets,  \* --target-devices
  Warmup,      \* --warmup
  Iteration,   \* --iteration
  Faults       \* "prepare": uploading a D2H source fails; "transfer": a transfer

Targets == 0 .. NumTargets - 1
OneToMany == NumTargets
LastRound == Warmup + Iteration - 1
Rounds == 0 .. LastRound

ASSUME TargetsAssumption == NumTargets \in Nat \ {0}
ASSUME RoundsAssumption == Warmup \in Nat /\ Iteration \in Nat \ {0}
ASSUME FaultsAssumption == Faults \subseteq {"prepare", "transfer"}

VARIABLES
  request,   \* the subcommand and --pcie-mode
  case,      \* the case under way
  pc,        \* where the main thread stands
  cause,     \* what raised, if anything
  sources,   \* targets whose batch of D2H source arrays is on the device
  round,     \* rounds of the case that are over
  xfer,      \* xfer[<<t, r>>]: the transfer of round r to or from target t
  measured,  \* rounds of the case with a duration
  results    \* cases in the list of results

vars == <<request, case, pc, cause, sources, round, xfer, measured, results>>

Requests == [benchmark : {"h2d", "d2h"}, mode : {"one_to_one", "one_to_many", "both"}]
PCs == {"idle", "prepare", "round", "collect", "block", "shutdown", "write",
        "done", "raised"}
Causes == {"none", "prepare", "transfer", "exhausted"}

\* "returned": the call is back and its device array still being filled;
\* "broken": an array whose copy failed; "dropped": deleted while being filled.
XferStates == {"none", "queued", "running", "returned", "ready", "failed",
               "broken", "deleted", "dropped"}

TypeOK ==
  /\ request \in Requests
  /\ case \in Targets \cup {OneToMany}
  /\ pc \in PCs
  /\ cause \in Causes
  /\ sources \in SUBSET Targets
  /\ round \in 0 .. LastRound + 1
  /\ xfer \in [Targets \X Rounds -> XferStates]
  /\ measured \in SUBSET Rounds
  /\ results \in SUBSET (Targets \cup {OneToMany})

H2D == request.benchmark = "h2d"
Pooled == case = OneToMany
CaseTargets == IF Pooled THEN Targets ELSE {case}

RequestedCases ==
  (IF request.mode \in {"one_to_one", "both"} THEN Targets ELSE {}) \cup
  (IF request.mode \in {"one_to_many", "both"} THEN {OneToMany} ELSE {})

NoTransfers == [x \in Targets \X Rounds |-> "none"]

Init ==
  /\ request \in Requests
  /\ case = IF request.mode = "one_to_many" THEN OneToMany ELSE 0
  /\ pc = "idle" /\ cause = "none"
  /\ sources = {} /\ round = 0 /\ xfer = NoTransfers
  /\ measured = {} /\ results = {}

-----------------------------------------------------------------------------
(* The input of a case.                                                    *)

\* Mutant: the batch covers the timed rounds only.
BatchOfTimed == Iteration

\* Buffers per target, prepared for the warmup and the timed rounds.
BatchSize == Warmup + Iteration

BeginCase ==
  /\ pc = "idle"
  /\ pc' = IF H2D THEN "round" ELSE "prepare"
  /\ round' = 0 /\ xfer' = NoTransfers /\ measured' = {}
  /\ UNCHANGED <<request, case, cause, sources, results>>

\* prepare_d2h_source_batch of one target after the other.
PrepareSources ==
  /\ pc = "prepare"
  /\ \E t \in CaseTargets \ sources :
       /\ \A u \in CaseTargets \ sources : t <= u
       /\ sources' = sources \cup {t}
       /\ pc' = IF CaseTargets \subseteq sources \cup {t} THEN "round" ELSE "prepare"
  /\ UNCHANGED <<request, case, cause, round, xfer, measured, results>>

\* It deletes what it uploaded to this target.  The batches of the targets
\* before are not in reach of a finally yet.
PrepareRaises ==
  /\ "prepare" \in Faults
  /\ pc = "prepare"
  /\ pc' = "raised" /\ cause' = "prepare"
  /\ UNCHANGED <<request, case, sources, round, xfer, measured, results>>

-----------------------------------------------------------------------------
(* One round: run_once, and block_transfer_result on what it returns.      *)

\* Without a pool the main thread makes the call itself.
Submit ==
  /\ pc = "round"
  /\ IF round < BatchSize
       THEN /\ xfer' = [x \in Targets \X Rounds |->
                          IF x \in CaseTargets \X {round}
                            THEN IF Pooled THEN "queued" ELSE "running"
                            ELSE xfer[x]]
            /\ pc' = "collect" /\ cause' = cause
       ELSE xfer' = xfer /\ pc' = "shutdown" /\ cause' = "exhausted"
  /\ UNCHANGED <<request, case, sources, round, measured, results>>

Got(t) == xfer[<<t, round>>] \in {"returned", "ready", "broken"}

\* The futures' results, in the order of the targets.
Collect ==
  /\ pc = "collect"
  /\ \A t \in CaseTargets : Got(t)
  /\ pc' = "block"
  /\ UNCHANGED <<request, case, cause, sources, round, xfer, measured, results>>

\* The first failed future raises; nobody looks at those behind it.
CollectRaises ==
  /\ pc = "collect"
  /\ \E t \in CaseTargets :
       /\ xfer[<<t, round>>] = "failed"
       /\ \A u \in CaseTargets : u < t => Got(u)
  /\ pc' = "shutdown" /\ cause' = "transfer"
  /\ UNCHANGED <<request, case, sources, round, xfer, measured, results>>

\* Mutant: dispatch is taken for completion.
Dispatched == \A t \in CaseTargets : Got(t)

Synchronized == \A t \in CaseTargets : xfer[<<t, round>>] = "ready"

\* Mutant: the results of warmup rounds are kept.
DiscardTimed(x) ==
  IF x[2] = round /\ x[1] \in CaseTargets
    THEN IF round < Warmup THEN xfer[x] ELSE "deleted"
    ELSE xfer[x]

\* delete_device_object on the list a round returned: device arrays for H2D,
\* for D2H host arrays, of which nothing is left.
Discard(x) ==
  IF x[2] = round /\ x[1] \in CaseTargets
    THEN IF xfer[x] = "returned" THEN "dropped" ELSE "deleted"
    ELSE xfer[x]

FinishRound ==
  /\ pc = "block"
  /\ Synchronized
  /\ measured' = IF round < Warmup THEN measured ELSE measured \cup {round}
  /\ xfer' = [x \in Targets \X Rounds |-> Discard(x)]
  /\ round' = round + 1
  /\ pc' = IF round = LastRound THEN "shutdown" ELSE "round"
  /\ UNCHANGED <<request, case, cause, sources, results>>

BlockRaises ==
  /\ pc = "block"
  /\ \E t \in CaseTargets : xfer[<<t, round>>] = "broken"
  /\ xfer' = [x \in Targets \X Rounds |-> Discard(x)]
  /\ pc' = "shutdown" /\ cause' = "transfer"
  /\ UNCHANGED <<request, case, sources, round, measured, results>>

-----------------------------------------------------------------------------
(* The end of a case and of the run.                                       *)

Busy == {x \in Targets \X Rounds : xfer[x] \in {"queued", "running"}}

\* Mutant: the pool is left without waiting (shutdown(wait=False)).
NotWaited == TRUE

\* Leaving `with ThreadPoolExecutor` waits for every submitted call.
WorkersDone == Busy = {}

\* Mutant: the sources are deleted when the case succeeded.
FreedOnSuccess == IF cause = "none" THEN {} ELSE sources

\* finally: delete_device_object(source_batches)
AfterFinally == {}

MoreCases == case + 1 \in RequestedCases

EndCase ==
  /\ pc = "shutdown"
  /\ WorkersDone
  /\ sources' = AfterFinally
  /\ results' = IF cause = "none" THEN results \cup {case} ELSE results
  /\ IF cause # "none" THEN pc' = "raised" /\ case' = case
     ELSE IF MoreCases THEN pc' = "idle" /\ case' = case + 1
     ELSE pc' = "write" /\ case' = case
  /\ UNCHANGED <<request, cause, round, xfer, measured>>

\* write_case_metrics of all cases, then the metric lines.
Write ==
  /\ pc = "write"
  /\ pc' = "done"
  /\ UNCHANGED <<request, case, cause, sources, round, xfer, measured, results>>

Main == BeginCase \/ PrepareSources \/ PrepareRaises \/ Submit \/ Collect
          \/ CollectRaises \/ FinishRound \/ BlockRaises \/ EndCase \/ Write

-----------------------------------------------------------------------------
(* The pool and the runtime (external).                                    *)

\* ThreadPoolExecutor(max_workers=len(targets))
Workers == NumTargets

SetTransfer(x, state) ==
  /\ xfer' = [xfer EXCEPT ![x] = state]
  /\ UNCHANGED <<request, case, pc, cause, sources, round, measured, results>>

Start(x) ==
  /\ xfer[x] = "queued"
  /\ Cardinality({y \in Busy : xfer[y] = "running"}) < Workers
  /\ SetTransfer(x, "running")

\* device_put returns before the copy is over, device_get after it.
Return(x) ==
  /\ xfer[x] = "running"
  /\ \/ SetTransfer(x, IF H2D THEN "returned" ELSE "ready")
     \/ "transfer" \in Faults /\ SetTransfer(x, "failed")

Land(x) ==
  /\ xfer[x] = "returned"
  /\ \/ SetTransfer(x, "ready")
     \/ "transfer" \in Faults /\ SetTransfer(x, "broken")

Over == pc \in {"done", "raised"}

Next ==
  \/ Main
  \/ \E x \in Targets \X Rounds : Start(x) \/ Return(x) \/ Land(x)
  \/ Over /\ UNCHANGED vars

Spec == Init /\ [][Next]_vars

Fairness ==
  /\ WF_vars(Main)
  /\ \A x \in Targets \X Rounds : WF_vars(Start(x) \/ Return(x) \/ Land(x))
FairSpec == Spec /\ Fairness

-----------------------------------------------------------------------------
(* Properties.                                                             *)

\* No source array is deleted while a worker has yet to read it, also when
\* another target's transfer has failed and the main thread is on its way out
\* (run_d2h_one_to_many, run_d2h_one_to_one).
SourcesOutliveReads ==
  ~ H2D => \A x \in Busy : x[1] \in sources

\* Every round has the links to itself: nothing of an earlier round is queued,
\* on its way or holding device memory (run_transfer_warmup,
\* run_synchronized_iterations).
RoundsApart ==
  \A t \in Targets, r \in Rounds : r # round => xfer[<<t, r>>] \in {"none", "deleted"}

\* "At roughly the same time" (run_once): no transfer of the one-to-many case
\* waits for the worker of another one.
WorkerForEach == Cardinality(Busy) <= Workers

\* A duration belongs to a timed round all of whose transfers were complete;
\* a case is reported with one duration per iteration, and a run that ends well
\* reports all cases asked for.
MeasuredWhole ==
  /\ pc # "idle" => \A r \in measured :
       r >= Warmup /\ \A t \in CaseTargets : xfer[<<t, r>>] = "deleted"
  /\ pc = "shutdown" /\ cause = "none" => measured = Warmup .. LastRound
  /\ pc = "done" => results = RequestedCases

\* Between two cases nothing of the first is left on the devices, and a case
\* that got past its preparation gives back its sources however it ends.
ReleasedOutsideCases ==
  /\ pc \in {"idle", "write", "done"} =>
       sources = {} /\ \A x \in Targets \X Rounds : xfer[x] \in {"none", "deleted"}
  /\ pc = "raised" /\ cause # "prepare" => sources = {}

\* Whatever fails, the run ends, and it never runs out of buffers.
RunEnds == <>(pc = "done" \/ (pc = "raised" /\ cause # "exhausted"))
=============================================================================
