------------------------- MODULE IciCaseSyncProofs --------------------------
(***************************************************************************)
(* What holds of IciCaseSync for every slice, block, list of cases, number *)
(* of calls and choice of faults.  IInv is inductive: it ties the verdict  *)
(* of each barrier to where the processes stand, the completion keys to    *)
(* the recorder, and the results to the barriers.                          *)
(***************************************************************************)
EXTENDS IciCaseSync, FiniteSetTheorems, TLAPS

\* A process that finds no fault with its environment is at one of these
\* places only if it is active, or only if it is idle.
RoleInv ==
  \A p \in Procs : /\ pc[p] \in {"prepare", "ready", "incall", "signal"} => p \in Active
                   /\ pc[p] = "poll" => p \notin Active

\* A passed start barrier has been reached by all.
StartInv ==
  \A c \in Cases : barrier[<<c, "start">>] = "passed" =>
    \A p \in Procs : c < idx[p] \/ (idx[p] = c /\ pc[p] # "loop")

\* A passed complete barrier has been reached by all.
CompleteInv ==
  \A c \in Cases : barrier[<<c, "complete">>] = "passed" =>
    \A p \in Procs : WorkDone(p, c)

\* A process inside or behind a case has seen its barriers pass.
PositionInv ==
  \A p \in Procs :
    /\ InCase(p) \/ pc[p] \in Phases => idx[p] \in Cases
    /\ InCase(p) \/ pc[p] = "complete" => barrier[<<idx[p], "start">>] = "passed"
    /\ \A c \in Cases : c < idx[p] => barrier[<<c, "complete">>] = "passed"
    /\ pc[p] \in {"sync", "done"} => idx[p] = NumCases

\* A key is set by a recorder that is through, and needed by idle hosts.
KeyInv ==
  /\ \A c \in key : WorkDone(Recorder, c)
  /\ \A p \in Idle : pc[p] = "complete" => idx[p] \in key

\* Records are written by their owner and become results behind the barrier.
ResultInv ==
  /\ \A p \in Procs : \A c \in written[p] : Records(p, c)
  /\ \A p \in Procs : \A c \in results[p] : c < idx[p]

\* A failed run has a failed process short of the final collective.
FailInv ==
  /\ failed # {} => \E p \in failed : pc[p] \notin {"sync", "done"}
  /\ (\E p \in Procs : pc[p] = "done") => \A q \in Procs : pc[q] \in {"sync", "done"}

IInv ==
  /\ TypeOK /\ RoleInv /\ StartInv /\ CompleteInv /\ PositionInv
  /\ KeyInv /\ ResultInv /\ FailInv

-----------------------------------------------------------------------------
LEMMA ConstantFacts ==
  /\ NumCases \in Nat /\ Cases = 0 .. NumCases - 1
  /\ Calls \in Nat
  /\ Recorder \in Active /\ Active \subseteq Procs /\ Recorder \in Procs
BY CasesAssumption, CallsAssumption, RecorderAssumption, HomeAssumption
DEF Calls, Active

\* The steps that only mark a process as failed.
Failing(p) == BarrierRaises(p) \/ Mishap(p)

LEMMA FailingStep ==
  ASSUME NEW p \in Procs, Failing(p)
  PROVE  /\ p \notin failed
         /\ failed' = failed \union {p}
         /\ UNCHANGED <<pc, idx, ncalls, barrier, key, written, results, emitted>>
         /\ pc[p] # "done"
         /\ failed = {} => pc[p] # "sync"
<1> USE DEF Fail, Phases
<1>1. CASE BarrierRaises(p)
  BY <1>1 DEF BarrierRaises
<1>2. CASE PollRaises(p)
  BY <1>2 DEF PollRaises
<1>3. CASE PrepareRaises(p)
  BY <1>3 DEF PrepareRaises
<1>4. CASE CallRaises(p)
  BY <1>4 DEF CallRaises
<1>5. CASE RecordingRaises(p)
  BY <1>5 DEF RecordingRaises, CallsLeft
<1>6. CASE CollectRaises(p)
  BY <1>6 DEF CollectRaises
<1>7. CASE ServiceTerminates(p)
  BY <1>7 DEF ServiceTerminates
<1>8. QED
  BY <1>1, <1>2, <1>3, <1>4, <1>5, <1>6, <1>7 DEF Failing, Mishap

\* The invariant follows from the initial state.
LEMMA InitIInv == Init => IInv
<1> SUFFICES ASSUME Init PROVE IInv
  OBVIOUS
<1> USE ConstantFacts DEF Init, Phases
<1>1. TypeOK
  BY DEF TypeOK, PCs
<1>2. RoleInv /\ FailInv
  BY DEF RoleInv, FailInv
<1>3. StartInv /\ CompleteInv
  BY DEF StartInv, CompleteInv
<1>4. PositionInv
  BY DEF PositionInv, InCase
<1>5. KeyInv /\ ResultInv
  BY DEF KeyInv, ResultInv, Idle
<1>6. QED
  BY <1>1, <1>2, <1>3, <1>4, <1>5 DEF IInv

\* The variables keep their types.
LEMMA NextTypeOK == TypeOK /\ PositionInv /\ [Next]_vars => TypeOK'
<1> SUFFICES ASSUME TypeOK, PositionInv, [Next]_vars PROVE TypeOK'
  OBVIOUS
<1> USE ConstantFacts DEF TypeOK, PCs, Phases, Goto
<1>1. ASSUME NEW p \in Procs, ArriveStart(p) PROVE TypeOK'
  BY <1>1 DEF ArriveStart
<1>2. ASSUME NEW p \in Procs, LeaveStart(p) PROVE TypeOK'
  BY <1>2 DEF LeaveStart, PassedBarrier
<1>3. ASSUME NEW p \in Procs, Prepare(p) PROVE TypeOK'
  BY <1>3 DEF Prepare
<1>4. ASSUME NEW p \in Procs, EnterCall(p) PROVE TypeOK'
  BY <1>4 DEF EnterCall, CallsLeft
<1>5. ASSUME NEW p \in Procs, ReturnFromCall(p) PROVE TypeOK'
  BY <1>5 DEF ReturnFromCall
<1>6. ASSUME NEW p \in Procs, FinishPhases(p) PROVE TypeOK'
  BY <1>6 DEF FinishPhases, CallsLeft, PositionInv, InCase
<1>7. ASSUME NEW p \in Procs, SignalAndArrive(p) PROVE TypeOK'
  BY <1>7 DEF SignalAndArrive, Signals, PositionInv, InCase
<1>8. ASSUME NEW p \in Procs, PollSucceeds(p) PROVE TypeOK'
  BY <1>8 DEF PollSucceeds, KeyIsSet
<1>9. ASSUME NEW p \in Procs, LeaveComplete(p) PROVE TypeOK'
  <2>1. idx[p] \in Cases
    BY <1>9 DEF LeaveComplete, PassedBarrier, PositionInv
  <2>2. pc' \in [Procs -> PCs] /\ idx' \in [Procs -> 0 .. NumCases]
    BY <1>9, <2>1 DEF LeaveComplete, PassedBarrier
  <2>3. results' \in [Procs -> SUBSET Cases]
    BY <1>9, <2>1 DEF LeaveComplete, PassedBarrier
  <2>4. QED
    BY <1>9, <2>2, <2>3 DEF LeaveComplete, PassedBarrier
<1>10. ASSUME NEW p \in Procs, ReturnResults(p) PROVE TypeOK'
  BY <1>10 DEF ReturnResults
<1>11. ASSUME NEW p \in Procs, EmitMetrics(p) PROVE TypeOK'
  BY <1>11 DEF EmitMetrics, AllAtSync, MetricLines
<1>12. ASSUME NEW p \in Procs, Failing(p) PROVE TypeOK'
  BY <1>12, FailingStep
<1>13. ASSUME NEW c \in Cases, NEW ph \in Phases, Release(c, ph) \/ Expire(c, ph)
       PROVE TypeOK'
  BY <1>13 DEF Release, Participants, Expire, Participants
<1>14. CASE UNCHANGED vars
  BY <1>14 DEF vars
<1>15. QED
  BY <1>1, <1>2, <1>3, <1>4, <1>5, <1>6, <1>7, <1>8, <1>9, <1>10, <1>11, <1>12,
     <1>13, <1>14 DEF Next, Work, Service, Failing

-----------------------------------------------------------------------------
\* One lemma per action: the action preserves the rest of the invariant.

LEMMA ArriveStartIInv ==
  ASSUME IInv, NEW p \in Procs, ArriveStart(p) PROVE IInv'
<1> USE ConstantFacts DEF IInv, TypeOK, Goto
<1>1. TypeOK'
  BY NextTypeOK DEF Next, Work, Service
<1>2. RoleInv' /\ StartInv'
  BY DEF ArriveStart, RoleInv, StartInv
<1>3. CompleteInv'
  BY DEF ArriveStart, CompleteInv, WorkDone
<1>4. PositionInv'
  BY DEF ArriveStart, PositionInv, InCase, Phases
<1>5. KeyInv' /\ ResultInv'
  BY DEF ArriveStart, KeyInv, ResultInv, WorkDone, Idle
<1>6. FailInv'
  BY DEF ArriveStart, FailInv
<1>7. QED
  BY <1>1, <1>2, <1>3, <1>4, <1>5, <1>6

LEMMA LeaveStartIInv ==
  ASSUME IInv, NEW p \in Procs, LeaveStart(p) PROVE IInv'
<1> USE ConstantFacts DEF IInv, TypeOK, Goto
<1>1. TypeOK'
  BY NextTypeOK DEF Next, Work, Service
<1>2. RoleInv' /\ StartInv'
  BY DEF LeaveStart, PassedBarrier, RoleInv, StartInv
<1>3. CompleteInv'
  BY DEF LeaveStart, PassedBarrier, CompleteInv, WorkDone
<1>4. PositionInv'
  BY DEF LeaveStart, PassedBarrier, PositionInv, InCase, Phases
<1>5. KeyInv' /\ ResultInv'
  BY DEF LeaveStart, PassedBarrier, KeyInv, ResultInv, WorkDone, Idle
<1>6. FailInv'
  BY DEF LeaveStart, PassedBarrier, FailInv
<1>7. QED
  BY <1>1, <1>2, <1>3, <1>4, <1>5, <1>6

LEMMA PrepareIInv ==
  ASSUME IInv, NEW p \in Procs, Prepare(p) PROVE IInv'
<1> USE ConstantFacts DEF IInv, TypeOK, Goto
<1>1. TypeOK'
  BY NextTypeOK DEF Next, Work, Service
<1>2. RoleInv' /\ StartInv'
  BY DEF Prepare, RoleInv, StartInv
<1>3. CompleteInv'
  BY DEF Prepare, CompleteInv, WorkDone
<1>4. PositionInv'
  BY DEF Prepare, PositionInv, InCase, Phases
<1>5. KeyInv' /\ ResultInv'
  BY DEF Prepare, KeyInv, ResultInv, WorkDone, Idle
<1>6. FailInv'
  BY DEF Prepare, FailInv
<1>7. QED
  BY <1>1, <1>2, <1>3, <1>4, <1>5, <1>6

LEMMA EnterCallIInv ==
  ASSUME IInv, NEW p \in Procs, EnterCall(p) PROVE IInv'
<1> USE ConstantFacts DEF IInv, TypeOK, Goto
<1>1. TypeOK'
  BY NextTypeOK DEF Next, Work, Service
<1>2. RoleInv' /\ StartInv'
  BY DEF EnterCall, CallsLeft, RoleInv, StartInv
<1>3. CompleteInv'
  BY DEF EnterCall, CallsLeft, CompleteInv, WorkDone
<1>4. PositionInv'
  BY DEF EnterCall, CallsLeft, PositionInv, InCase, Phases
<1>5. KeyInv' /\ ResultInv'
  BY DEF EnterCall, CallsLeft, KeyInv, ResultInv, WorkDone, Idle
<1>6. FailInv'
  BY DEF EnterCall, CallsLeft, FailInv
<1>7. QED
  BY <1>1, <1>2, <1>3, <1>4, <1>5, <1>6

LEMMA ReturnFromCallIInv ==
  ASSUME IInv, NEW p \in Procs, ReturnFromCall(p) PROVE IInv'
<1> USE ConstantFacts DEF IInv, TypeOK, Goto
<1>1. TypeOK'
  BY NextTypeOK DEF Next, Work, Service
<1>2. RoleInv' /\ StartInv'
  BY DEF ReturnFromCall, RoleInv, StartInv
<1>3. CompleteInv'
  BY DEF ReturnFromCall, CompleteInv, WorkDone
<1>4. PositionInv'
  BY DEF ReturnFromCall, PositionInv, InCase, Phases
<1>5. KeyInv' /\ ResultInv'
  BY DEF ReturnFromCall, KeyInv, ResultInv, WorkDone, Idle
<1>6. FailInv'
  BY DEF ReturnFromCall, FailInv
<1>7. QED
  BY <1>1, <1>2, <1>3, <1>4, <1>5, <1>6

LEMMA FinishPhasesIInv ==
  ASSUME IInv, NEW p \in Procs, FinishPhases(p) PROVE IInv'
<1> USE ConstantFacts DEF IInv, TypeOK, Goto
<1>1. TypeOK'
  BY NextTypeOK DEF Next, Work, Service
<1>2. RoleInv' /\ StartInv'
  BY DEF FinishPhases, CallsLeft, RoleInv, StartInv
<1>3. CompleteInv'
  BY DEF FinishPhases, CallsLeft, CompleteInv, WorkDone
<1>4. PositionInv'
  BY DEF FinishPhases, CallsLeft, PositionInv, InCase, Phases
<1>5. KeyInv' /\ ResultInv'
  BY DEF FinishPhases, CallsLeft, KeyInv, ResultInv, WorkDone, Idle
<1>6. FailInv'
  BY DEF FinishPhases, CallsLeft, FailInv
<1>7. QED
  BY <1>1, <1>2, <1>3, <1>4, <1>5, <1>6

LEMMA SignalAndArriveIInv ==
  ASSUME IInv, NEW p \in Procs, SignalAndArrive(p) PROVE IInv'
<1> USE ConstantFacts DEF IInv, TypeOK, Goto
<1>1. TypeOK'
  BY NextTypeOK DEF Next, Work, Service
<1>2. RoleInv' /\ StartInv'
  BY DEF SignalAndArrive, Signals, RoleInv, StartInv, RoleInv
<1>3. CompleteInv'
  BY DEF SignalAndArrive, Signals, CompleteInv, WorkDone
<1>4. PositionInv'
  BY DEF SignalAndArrive, Signals, PositionInv, InCase, Phases
<1>5. KeyInv'
  <2>1. p \in Active
    BY DEF SignalAndArrive, Signals, RoleInv
  <2>2. \A c \in key' : WorkDone(Recorder, c)'
    BY DEF SignalAndArrive, Signals, KeyInv, WorkDone
  <2>3. \A q \in Idle : q # p
    BY <2>1 DEF Idle
  <2>4. ASSUME NEW q \in Idle, pc'[q] = "complete" PROVE idx'[q] \in key'
    BY <2>3, <2>4 DEF SignalAndArrive, Signals, KeyInv, Idle
  <2>5. QED
    BY <2>2, <2>4 DEF KeyInv
<1>6. ResultInv'
  BY DEF SignalAndArrive, Signals, ResultInv
<1>7. FailInv'
  BY DEF SignalAndArrive, Signals, FailInv
<1>8. QED
  BY <1>1, <1>2, <1>3, <1>4, <1>5, <1>6, <1>7

LEMMA PollSucceedsIInv ==
  ASSUME IInv, NEW p \in Procs, PollSucceeds(p) PROVE IInv'
<1> USE ConstantFacts DEF IInv, TypeOK, Goto
<1>1. TypeOK'
  BY NextTypeOK DEF Next, Work, Service
<1>2. RoleInv' /\ StartInv'
  BY DEF PollSucceeds, KeyIsSet, RoleInv, StartInv
<1>3. CompleteInv'
  BY DEF PollSucceeds, KeyIsSet, CompleteInv, WorkDone
<1>4. PositionInv'
  BY DEF PollSucceeds, KeyIsSet, PositionInv, InCase, Phases
<1>5. KeyInv' /\ ResultInv'
  BY DEF PollSucceeds, KeyIsSet, KeyInv, ResultInv, WorkDone, Idle
<1>6. FailInv'
  BY DEF PollSucceeds, KeyIsSet, FailInv
<1>7. QED
  BY <1>1, <1>2, <1>3, <1>4, <1>5, <1>6

LEMMA LeaveCompleteIInv ==
  ASSUME IInv, NEW p \in Procs, LeaveComplete(p) PROVE IInv'
<1> USE ConstantFacts DEF IInv, TypeOK, Goto
<1>1. TypeOK'
  BY NextTypeOK DEF Next, Work, Service
<1>2. RoleInv' /\ StartInv'
  BY DEF LeaveComplete, PassedBarrier, RoleInv, StartInv
<1>3. CompleteInv'
  BY DEF LeaveComplete, PassedBarrier, CompleteInv, WorkDone
<1>4. PositionInv'
  <2>1. idx[p] \in Cases /\ idx' = [idx EXCEPT ![p] = @ + 1] /\ barrier' = barrier
    BY DEF LeaveComplete, PassedBarrier, PositionInv, Phases
  <2>2. barrier[<<idx[p], "complete">>] = "passed" /\ pc' = [pc EXCEPT ![p] = "loop"]
    BY DEF LeaveComplete, PassedBarrier
  <2>3. ASSUME NEW q \in Procs, NEW c \in Cases, c < idx'[q]
        PROVE  barrier'[<<c, "complete">>] = "passed"
    <3>1. c < idx[q] \/ (q = p /\ c = idx[p])
      BY <2>1, <2>3
    <3>2. QED
      BY <2>1, <2>2, <3>1 DEF PositionInv
  <2>4. QED
    BY <2>1, <2>2, <2>3 DEF PositionInv, InCase, Phases
<1>5. KeyInv' /\ ResultInv'
  BY DEF LeaveComplete, PassedBarrier, KeyInv, ResultInv, WorkDone, Idle, PositionInv
<1>6. FailInv'
  BY DEF LeaveComplete, PassedBarrier, FailInv
<1>7. QED
  BY <1>1, <1>2, <1>3, <1>4, <1>5, <1>6

LEMMA ReturnResultsIInv ==
  ASSUME IInv, NEW p \in Procs, ReturnResults(p) PROVE IInv'
<1> USE ConstantFacts DEF IInv, TypeOK, Goto
<1>1. TypeOK'
  BY NextTypeOK DEF Next, Work, Service
<1>2. RoleInv' /\ StartInv'
  BY DEF ReturnResults, RoleInv, StartInv
<1>3. CompleteInv'
  BY DEF ReturnResults, CompleteInv, WorkDone
<1>4. PositionInv'
  BY DEF ReturnResults, PositionInv, InCase, Phases
<1>5. KeyInv' /\ ResultInv'
  BY DEF ReturnResults, KeyInv, ResultInv, WorkDone, Idle
<1>6. FailInv'
  BY DEF ReturnResults, FailInv
<1>7. QED
  BY <1>1, <1>2, <1>3, <1>4, <1>5, <1>6

LEMMA EmitMetricsIInv ==
  ASSUME IInv, NEW p \in Procs, EmitMetrics(p) PROVE IInv'
<1> USE ConstantFacts DEF IInv, TypeOK, Goto
<1>1. TypeOK'
  BY NextTypeOK DEF Next, Work, Service
<1>2. RoleInv' /\ StartInv'
  BY DEF EmitMetrics, AllAtSync, MetricLines, RoleInv, StartInv
<1>3. CompleteInv'
  BY DEF EmitMetrics, AllAtSync, MetricLines, CompleteInv, WorkDone
<1>4. PositionInv'
  BY DEF EmitMetrics, AllAtSync, MetricLines, PositionInv, InCase, Phases
<1>5. KeyInv' /\ ResultInv'
  BY DEF EmitMetrics, AllAtSync, MetricLines, KeyInv, ResultInv, WorkDone, Idle
<1>6. FailInv'
  BY DEF EmitMetrics, AllAtSync, MetricLines, FailInv
<1>7. QED
  BY <1>1, <1>2, <1>3, <1>4, <1>5, <1>6

LEMMA ReleaseIInv ==
  ASSUME IInv, NEW c \in Cases, NEW ph \in Phases, Release(c, ph) PROVE IInv'
<1> USE ConstantFacts DEF IInv, TypeOK, Goto
<1>1. TypeOK'
  BY NextTypeOK DEF Next, Work, Service
<1>2. RoleInv' /\ StartInv'
  BY DEF Release, Participants, RoleInv, StartInv, Phases, Arrived
<1>3. CompleteInv'
  BY DEF Release, Participants, CompleteInv, WorkDone, Phases, Arrived
<1>4. PositionInv'
  BY DEF Release, Participants, PositionInv, InCase, Phases
<1>5. KeyInv' /\ ResultInv'
  BY DEF Release, Participants, KeyInv, ResultInv, WorkDone, Idle
<1>6. FailInv'
  BY DEF Release, Participants, FailInv
<1>7. QED
  BY <1>1, <1>2, <1>3, <1>4, <1>5, <1>6

LEMMA ExpireIInv ==
  ASSUME IInv, NEW c \in Cases, NEW ph \in Phases, Expire(c, ph) PROVE IInv'
<1> USE ConstantFacts DEF IInv, TypeOK, Goto
<1>1. TypeOK'
  BY NextTypeOK DEF Next, Work, Service
<1>2. RoleInv' /\ StartInv'
  BY DEF Expire, Participants, RoleInv, StartInv
<1>3. CompleteInv'
  BY DEF Expire, Participants, CompleteInv, WorkDone
<1>4. PositionInv'
  BY DEF Expire, Participants, PositionInv, InCase, Phases
<1>5. KeyInv' /\ ResultInv'
  BY DEF Expire, Participants, KeyInv, ResultInv, WorkDone, Idle
<1>6. FailInv'
  BY DEF Expire, Participants, FailInv
<1>7. QED
  BY <1>1, <1>2, <1>3, <1>4, <1>5, <1>6

LEMMA FailingIInv ==
  ASSUME IInv, NEW p \in Procs, Failing(p) PROVE IInv'
<1> USE ConstantFacts, FailingStep DEF IInv
<1>1. TypeOK'
  BY NextTypeOK DEF Next, Work, Failing
<1>2. RoleInv' /\ StartInv' /\ CompleteInv' /\ PositionInv' /\ KeyInv' /\ ResultInv'
  BY DEF RoleInv, StartInv, CompleteInv, PositionInv, KeyInv, ResultInv, WorkDone, InCase
<1>3. FailInv'
  <2>1. CASE failed = {}
    BY <2>1 DEF FailInv, TypeOK
  <2>2. CASE failed # {}
    BY <2>2 DEF FailInv
  <2>3. QED
    BY <2>1, <2>2
<1>4. QED
  BY <1>1, <1>2, <1>3

LEMMA NextIInv == IInv /\ [Next]_vars => IInv'
<1> SUFFICES ASSUME IInv, [Next]_vars PROVE IInv'
  OBVIOUS
<1>1. ASSUME NEW p \in Procs, Work(p) \/ Mishap(p) PROVE IInv'
  BY <1>1, ArriveStartIInv, LeaveStartIInv, PrepareIInv, EnterCallIInv,
     ReturnFromCallIInv, FinishPhasesIInv, SignalAndArriveIInv, PollSucceedsIInv,
     LeaveCompleteIInv, ReturnResultsIInv, EmitMetricsIInv, FailingIInv
  DEF Work, Failing
<1>2. ASSUME NEW c \in Cases, NEW ph \in Phases, Release(c, ph) \/ Expire(c, ph)
      PROVE  IInv'
  BY <1>2, ReleaseIInv, ExpireIInv
<1>3. CASE UNCHANGED vars
  BY <1>3 DEF vars, IInv, TypeOK, RoleInv, StartInv, CompleteInv, PositionInv, KeyInv,
              ResultInv, FailInv, WorkDone, InCase
<1>4. QED
  BY <1>1, <1>2, <1>3 DEF Next, Service

\* The inductive invariant holds of every reachable state.
THEOREM Invariance == Spec => []IInv
BY InitIInv, NextIInv, PTL DEF Spec

-----------------------------------------------------------------------------
\* The variables of the case loop keep their types (runner.py:711-1056).
THEOREM TypeCorrect == Spec => []TypeOK
<1>1. IInv => TypeOK
  BY DEF IInv
<1>2. QED
  BY <1>1, Invariance, PTL

\* However many hosts, cases and calls there are and whatever raises, the two
\* barriers keep the cases apart.
THEOREM NoOverlap == Spec => []CasesDoNotOverlap
<1>1. IInv => CasesDoNotOverlap
  <2> SUFFICES ASSUME IInv, NEW p \in Procs, NEW q \in Procs, InCase(p), InCase(q)
               PROVE  idx[p] <= idx[q]
    BY ConstantFacts DEF CasesDoNotOverlap, IInv, TypeOK
  <2>1. idx[p] \in Cases /\ idx[q] \in Cases
    BY DEF IInv, PositionInv
  <2>2. SUFFICES ASSUME idx[q] < idx[p] PROVE FALSE
    BY <2>1, ConstantFacts
  <2>3. barrier[<<idx[q], "complete">>] = "passed"
    BY <2>1, <2>2 DEF IInv, PositionInv
  <2>4. WorkDone(q, idx[q])
    BY <2>1, <2>3 DEF IInv, CompleteInv
  <2>5. QED
    BY <2>1, <2>4, ConstantFacts DEF WorkDone, InCase
<1>2. QED
  BY <1>1, Invariance, PTL

\* An idle host passes its poll only behind the recorder.
THEOREM IdleBehindRecorder == Spec => []IdleReleasedByRecorder
<1>1. IInv => IdleReleasedByRecorder
  BY DEF IInv, KeyInv, IdleReleasedByRecorder
<1>2. QED
  BY <1>1, Invariance, PTL

\* A result that enters the averages belongs to a case all hosts finished.
THEOREM ResultsComplete == Spec => []ResultsAreComplete
<1>1. IInv => ResultsAreComplete
  <2> SUFFICES ASSUME IInv, NEW p \in Procs, NEW q \in Procs, NEW c \in results[p]
               PROVE  WorkDone(q, c)
    BY DEF ResultsAreComplete
  <2>1. c \in Cases /\ c < idx[p]
    BY DEF IInv, TypeOK, ResultInv
  <2>2. barrier[<<c, "complete">>] = "passed"
    BY <2>1 DEF IInv, PositionInv
  <2>3. QED
    BY <2>1, <2>2 DEF IInv, CompleteInv
<1>2. QED
  BY <1>1, Invariance, PTL

\* Once a metric line is out, the run is over everywhere and nothing raised.
THEOREM PublishedWhole == Spec => []PublishedRunIsWhole
<1>1. IInv => PublishedRunIsWhole
  <2> SUFFICES ASSUME IInv, NEW p \in Procs, pc[p] = "done"
               PROVE  failed = {} /\ \A q \in Procs : idx[q] = NumCases
    BY DEF PublishedRunIsWhole
  <2>1. \A q \in Procs : pc[q] \in {"sync", "done"}
    BY DEF IInv, FailInv
  <2>2. failed = {}
    BY <2>1 DEF IInv, FailInv, TypeOK
  <2>3. QED
    BY <2>1, <2>2 DEF IInv, PositionInv
<1>2. QED
  BY <1>1, Invariance, PTL

\* The rule of should_record_split_case names one owner per case.
LEMMA UniqueOwner ==
  ASSUME NEW p \in Procs, NEW q \in Procs, NEW c \in Cases, Records(p, c), Records(q, c)
  PROVE  p = q
<1>1. CASE Benchmark \in {"p2p", "p2p-rdma"} /\ SplitPairs
  <2>1. Cardinality(Pairs[c]) = 1 /\ IsFiniteSet(Pairs[c])
    BY <1>1, PairsAssumption
  <2>2. PICK pair : Pairs[c] = {pair}
    BY <2>1, FS_Singleton
  <2>3. Home[pair[1]] = p /\ Home[pair[1]] = q
    BY <1>1, <2>1, <2>2 DEF Records, ShouldRecordSplitCase
  <2>4. QED
    BY <2>3
<1>2. CASE ~ (Benchmark \in {"p2p", "p2p-rdma"} /\ SplitPairs)
  BY <1>2 DEF Records
<1>3. QED
  BY <1>1, <1>2

\* No case is written by two hosts, whatever the benchmark and the block.
THEOREM SingleOwner == Spec => []OneOwnerPerCase
<1>1. IInv => OneOwnerPerCase
  <2> SUFFICES ASSUME IInv, NEW p \in Procs, NEW q \in Procs,
                      written[p] \intersect written[q] # {}
               PROVE  p = q
    BY DEF OneOwnerPerCase
  <2>1. PICK c : c \in written[p] /\ c \in written[q]
    OBVIOUS
  <2>2. c \in Cases /\ Records(p, c) /\ Records(q, c)
    BY <2>1 DEF IInv, TypeOK, ResultInv
  <2>3. QED
    BY <2>2, UniqueOwner
<1>2. QED
  BY <1>1, Invariance, PTL

-----------------------------------------------------------------------------
(* What an owner records arrives in its results, and every active process  *)
(* that is through with a case has made all of its calls.                  *)

ThroughCalls(p, c) == idx[p] > c \/ (idx[p] = c /\ pc[p] \in {"signal", "complete"})

RecordInv ==
  \A p \in Procs :
    /\ results[p] \subseteq written[p]
    /\ \A c \in Cases : Records(p, c) /\ ThroughCalls(p, c) => c \in written[p]
    /\ \A c \in Cases : Records(p, c) /\ c < idx[p] => c \in results[p]
    /\ pc[p] = "done" => emitted[p] = MetricLines(p)
    /\ p \in Active /\ pc[p] \in {"signal", "complete"} => ncalls[p] = Calls

\* Whoever records a case owns chiplets of the block.
LEMMA OwnerIsActive ==
  ASSUME NEW p \in Procs, NEW c \in Cases, Records(p, c) PROVE p \in Active
<1>1. CASE Benchmark \in {"p2p", "p2p-rdma"} /\ SplitPairs
  <2>1. Cardinality(Pairs[c]) = 1
    BY <1>1, PairsAssumption
  <2>2. PICK pair \in Pairs[c] : Home[pair[1]] = p
    BY <1>1, <2>1 DEF Records, ShouldRecordSplitCase
  <2>3. QED
    BY <2>2, PairsAssumption DEF Active
<1>2. CASE ~ (Benchmark \in {"p2p", "p2p-rdma"} /\ SplitPairs)
  BY <1>2, RecorderAssumption DEF Records
<1>3. QED
  BY <1>1, <1>2

LEMMA NextRecordInv ==
  ASSUME IInv, RecordInv, [Next]_vars PROVE RecordInv'
<1> USE ConstantFacts DEF IInv, TypeOK, Goto
<1>1. ASSUME NEW p \in Procs,
             \/ ArriveStart(p) \/ LeaveStart(p) \/ Prepare(p) \/ EnterCall(p)
             \/ ReturnFromCall(p) \/ ReturnResults(p)
      PROVE  RecordInv'
  <2>1. UNCHANGED <<idx, written, results, emitted>>
    BY <1>1 DEF ArriveStart, LeaveStart, Prepare, EnterCall, ReturnFromCall, ReturnResults
  <2>2. /\ pc[p] \notin {"signal", "complete", "done"}
        /\ pc'[p] \notin {"signal", "complete", "done"}
        /\ \A q \in Procs : q # p => pc'[q] = pc[q] /\ ncalls'[q] = ncalls[q]
    BY <1>1 DEF ArriveStart, LeaveStart, Prepare, EnterCall, ReturnFromCall,
                ReturnResults, PassedBarrier
  <2>3. QED
    BY <2>1, <2>2 DEF RecordInv, ThroughCalls, Records, MetricLines
<1>2. ASSUME NEW p \in Procs, FinishPhases(p) PROVE RecordInv'
  <2>1. /\ pc[p] = "ready" /\ pc' = [pc EXCEPT ![p] = "signal"] /\ ncalls[p] >= Calls
        /\ UNCHANGED <<idx, ncalls, results, emitted>>
        /\ \A q \in Procs : q # p => written'[q] = written[q]
        /\ written[p] \subseteq written'[p]
        /\ Records(p, idx[p]) => idx[p] \in written'[p]
    BY <1>2 DEF FinishPhases, CallsLeft
  <2>2. ncalls[p] = Calls
    BY <2>1
  <2>3. QED
    BY <2>1, <2>2 DEF RecordInv, ThroughCalls, Records, MetricLines
<1>3. ASSUME NEW p \in Procs, SignalAndArrive(p) PROVE RecordInv'
  BY <1>3 DEF SignalAndArrive, Signals, RecordInv, ThroughCalls, Records, MetricLines
<1>4. ASSUME NEW p \in Procs, PollSucceeds(p) PROVE RecordInv'
  <2>1. \A c \in Cases : ~ Records(p, c)
    BY <1>4, OwnerIsActive DEF PollSucceeds, RoleInv
  <2>2. p \notin Active
    BY <1>4 DEF PollSucceeds, RoleInv
  <2>3. QED
    BY <1>4, <2>1, <2>2
    DEF PollSucceeds, KeyIsSet, RecordInv, ThroughCalls, Records, MetricLines
<1>5. ASSUME NEW p \in Procs, LeaveComplete(p) PROVE RecordInv'
  <2>1. /\ pc[p] = "complete" /\ pc' = [pc EXCEPT ![p] = "loop"]
        /\ idx' = [idx EXCEPT ![p] = @ + 1]
        /\ results' = [results EXCEPT ![p] = @ \union (written[p] \intersect {idx[p]})]
        /\ UNCHANGED <<ncalls, written, emitted>>
    BY <1>5 DEF LeaveComplete, PassedBarrier
  <2>2. ASSUME NEW c \in Cases, Records(p, c), c < idx'[p] PROVE c \in results'[p]
    <3>1. CASE c < idx[p]
      BY <2>1, <2>2, <3>1 DEF RecordInv
    <3>2. CASE c = idx[p]
      BY <2>1, <2>2, <3>2 DEF RecordInv, ThroughCalls
    <3>3. QED
      BY <2>1, <2>2, <3>1, <3>2
  <2>3. \A q \in Procs : results'[q] \subseteq written'[q]
    BY <2>1 DEF RecordInv
  <2>4. QED
    BY <2>1, <2>2, <2>3 DEF RecordInv, ThroughCalls, Records, MetricLines
<1>6. ASSUME NEW p \in Procs, EmitMetrics(p) PROVE RecordInv'
  BY <1>6 DEF EmitMetrics, AllAtSync, RecordInv, ThroughCalls, Records, MetricLines
<1>7. ASSUME NEW p \in Procs, Failing(p) PROVE RecordInv'
  BY <1>7, FailingStep DEF RecordInv, ThroughCalls, Records, MetricLines
<1>8. ASSUME NEW c \in Cases, NEW ph \in Phases, Release(c, ph) \/ Expire(c, ph)
      PROVE  RecordInv'
  BY <1>8 DEF Release, Expire, RecordInv, ThroughCalls, Records, MetricLines
<1>9. CASE UNCHANGED vars
  BY <1>9 DEF vars, RecordInv, ThroughCalls, Records, MetricLines
<1>10. QED
  BY <1>1, <1>2, <1>3, <1>4, <1>5, <1>6, <1>7, <1>8, <1>9
  DEF Next, Work, Service, Failing

\* What is recorded stays with its owner until main prints it.
THEOREM RecordInvariance == Spec => []RecordInv
<1>1. Init => RecordInv
  BY ConstantFacts DEF Init, RecordInv, ThroughCalls
<1>2. QED
  BY <1>1, NextRecordInv, Invariance, PTL DEF Spec

\* However the calls of the processes interleave, a device call never waits
\* for a peer that has left the phase runner: there is no process short of a
\* call that another one has made.
THEOREM NoStarvation == Spec => []CallsNeverStarve
<1>1. IInv /\ RecordInv => CallsNeverStarve
  <2> SUFFICES ASSUME IInv, RecordInv, NEW p \in Procs, pc[p] = "incall",
                      NEW q \in Feeders(p, idx[p])
               PROVE  \/ HasEntered(q, idx[p], ncalls[p])
                      \/ idx[q] = idx[p] /\ pc[q] \in {"start", "prepare", "ready", "incall"}
    BY DEF CallsNeverStarve
  <2> USE ConstantFacts DEF IInv, TypeOK
  <2>1. idx[p] \in Cases /\ barrier[<<idx[p], "start">>] = "passed"
    BY DEF PositionInv, InCase
  <2>2. q \in Active /\ q \in Procs
    BY <2>1, PairsAssumption DEF Feeders, Active
  <2>3. idx[p] < idx[q] \/ (idx[q] = idx[p] /\ pc[q] # "loop")
    BY <2>1, <2>2 DEF StartInv
  <2>4. ~ (idx[p] < idx[q])
    <3>1. idx[p] < idx[q] => barrier[<<idx[p], "complete">>] = "passed"
      BY <2>1, <2>2 DEF PositionInv
    <3>2. barrier[<<idx[p], "complete">>] = "passed" => WorkDone(p, idx[p])
      BY <2>1 DEF CompleteInv
    <3>3. ~ WorkDone(p, idx[p])
      BY <2>1 DEF WorkDone
    <3>4. QED
      BY <3>1, <3>2, <3>3
  <2>5. pc[q] \notin {"poll", "sync", "done"}
    <3>1. idx[q] # NumCases
      BY <2>1, <2>3, <2>4
    <3>2. QED
      BY <2>2, <3>1 DEF RoleInv, PositionInv
  <2>6. pc[q] \in {"signal", "complete"} => ncalls[q] >= ncalls[p]
    BY <2>2 DEF RecordInv
  <2>7. QED
    BY <2>2, <2>3, <2>4, <2>5, <2>6 DEF PCs, HasEntered
<1>2. QED
  BY <1>1, Invariance, RecordInvariance, PTL

\* A run that ends everywhere has printed each of its cases once, whatever
\* block is selected and wherever the ends of a pair are.
THEOREM ReportedOnce == Spec => []EveryCaseReportedOnce
<1>1. IInv /\ RecordInv => EveryCaseReportedOnce
  <2> SUFFICES ASSUME IInv, RecordInv, \A p \in Procs : pc[p] = "done",
                      Benchmark \in {"p2p", "a2a", "ar"}, NEW c \in Cases
               PROVE  Cardinality({p \in Procs : c \in emitted[p]}) = 1
    BY DEF EveryCaseReportedOnce
  <2> USE ConstantFacts DEF IInv, TypeOK
  <2>1. PICK r \in Procs : Records(r, c)
    <3>1. CASE Benchmark = "p2p" /\ SplitPairs
      <4>1. Cardinality(Pairs[c]) = 1 /\ IsFiniteSet(Pairs[c])
        BY <3>1, PairsAssumption
      <4>2. PICK pair : Pairs[c] = {pair}
        BY <4>1, FS_Singleton
      <4>3. Home[pair[1]] \in Procs
        <5>1. pair \in Chiplets \X Chiplets
          BY <4>2, PairsAssumption
        <5>2. QED
          BY <5>1, HomeAssumption
      <4>4. ShouldRecordSplitCase(Home[pair[1]], c)
        BY <4>2 DEF ShouldRecordSplitCase
      <4>5. QED
        BY <3>1, <4>3, <4>4 DEF Records
    <3>2. CASE ~ (Benchmark = "p2p" /\ SplitPairs)
      BY <3>2 DEF Records
    <3>3. QED
      BY <3>1, <3>2
  <2>2. \A p \in Procs : emitted[p] = results[p]
    BY ModeAssumption DEF RecordInv, MetricLines
  <2>3. c \in emitted[r]
    <3>1. idx[r] = NumCases
      BY DEF PositionInv
    <3>2. c < NumCases
      OBVIOUS
    <3>3. QED
      BY <2>1, <2>2, <3>1, <3>2 DEF RecordInv
  <2>4. ASSUME NEW p \in Procs, c \in emitted[p] PROVE p = r
    <3>1. c \in written[p]
      BY <2>2, <2>4 DEF RecordInv
    <3>2. Records(p, c)
      BY <3>1 DEF ResultInv
    <3>3. QED
      BY <2>1, <3>2, UniqueOwner
  <2>5. {p \in Procs : c \in emitted[p]} = {r}
    BY <2>3, <2>4
  <2>6. QED
    BY <2>5, FS_Singleton
<1>2. QED
  BY <1>1, Invariance, RecordInvariance, PTL

-----------------------------------------------------------------------------
(* Refinement of CaseRounds.                                               *)

publishedBar == {p \in Procs : pc[p] = "done"}
barVars == <<startedBar, finishedBar, failed, publishedBar>>

LEMMA LeaveStartRefines ==
  ASSUME IInv, NEW p \in Procs, LeaveStart(p) PROVE CR!Start(p)
<1> USE ConstantFacts DEF IInv, TypeOK, LeaveStart, PassedBarrier, Goto
<1>1. idx[p] \in Cases /\ pc[p] = "start" /\ pc'[p] \in {"prepare", "poll"}
  BY DEF PositionInv, Phases
<1>2. startedBar[p] = idx[p] /\ finishedBar[p] = idx[p]
  BY <1>1 DEF startedBar, finishedBar, InCase
<1>3. ASSUME NEW q \in Procs PROVE idx[p] <= finishedBar[q]
  <2>1. idx[p] < idx[q] \/ idx[p] = idx[q]
    BY <1>1 DEF StartInv
  <2>2. finishedBar[q] = idx[q] \/ finishedBar[q] = idx[q] + 1
    BY DEF finishedBar
  <2>3. QED
    BY <2>1, <2>2
<1>4. startedBar' = [startedBar EXCEPT ![p] = @ + 1]
  BY <1>1 DEF startedBar, InCase
<1>5. finishedBar' = finishedBar /\ publishedBar' = publishedBar
  BY <1>1 DEF finishedBar, publishedBar
<1>6. QED
  BY <1>1, <1>2, <1>3, <1>4, <1>5 DEF CR!Start, publishedBar

LEMMA FinishRefines ==
  ASSUME IInv, NEW p \in Procs, SignalAndArrive(p) \/ PollSucceeds(p)
  PROVE  CR!Finish(p)
<1> USE ConstantFacts DEF IInv, TypeOK, SignalAndArrive, Signals, PollSucceeds, KeyIsSet, Goto
<1>1. pc[p] \in {"signal", "poll"} /\ pc'[p] = "complete" /\ idx' = idx
  OBVIOUS
<1>2. startedBar[p] = idx[p] + 1 /\ finishedBar[p] = idx[p]
  BY <1>1 DEF startedBar, finishedBar, InCase
<1>3. p \in Active \/ idx[p] < finishedBar[Recorder]
  BY DEF RoleInv, KeyInv, WorkDone, finishedBar
<1>4. finishedBar' = [finishedBar EXCEPT ![p] = @ + 1]
  BY <1>1 DEF finishedBar
<1>5. startedBar' = startedBar /\ publishedBar' = publishedBar
  BY <1>1 DEF startedBar, publishedBar, InCase
<1>6. QED
  BY <1>2, <1>3, <1>4, <1>5 DEF CR!Finish, publishedBar

LEMMA EmitRefines ==
  ASSUME IInv, NEW p \in Procs, EmitMetrics(p) PROVE CR!Publish(p)
<1> USE ConstantFacts DEF IInv, TypeOK, EmitMetrics, AllAtSync, MetricLines, Goto
<1>1. \A q \in Procs : finishedBar[q] = NumCases
  BY DEF PositionInv, finishedBar
<1>2. startedBar' = startedBar /\ finishedBar' = finishedBar
  BY DEF startedBar, finishedBar, InCase
<1>3. publishedBar' = publishedBar \union {p}
  BY DEF publishedBar
<1>4. QED
  BY <1>1, <1>2, <1>3 DEF CR!Publish, publishedBar

LEMMA FailingRefines ==
  ASSUME IInv, NEW p \in Procs, Failing(p) PROVE CR!Raise(p)
<1>1. startedBar' = startedBar /\ finishedBar' = finishedBar /\ publishedBar' = publishedBar
  BY FailingStep DEF startedBar, finishedBar, publishedBar, InCase
<1>2. QED
  BY <1>1, FailingStep DEF CR!Raise, publishedBar

LEMMA SilentRefines ==
  ASSUME IInv, NEW p \in Procs,
         \/ ArriveStart(p) \/ Prepare(p) \/ EnterCall(p) \/ ReturnFromCall(p)
         \/ FinishPhases(p) \/ LeaveComplete(p) \/ ReturnResults(p)
  PROVE  UNCHANGED barVars
<1> USE ConstantFacts DEF IInv, TypeOK, Goto
<1>1. CASE LeaveComplete(p)
  BY <1>1 DEF LeaveComplete, PassedBarrier, startedBar, finishedBar, publishedBar, barVars, InCase
<1>2. CASE ArriveStart(p) \/ ReturnResults(p)
  BY <1>2 DEF ArriveStart, ReturnResults, startedBar, finishedBar, publishedBar, barVars, InCase
<1>3. CASE Prepare(p) \/ EnterCall(p) \/ ReturnFromCall(p) \/ FinishPhases(p)
  BY <1>3 DEF Prepare, EnterCall, ReturnFromCall, FinishPhases, startedBar, finishedBar,
              publishedBar, barVars, InCase
<1>4. QED
  BY <1>1, <1>2, <1>3

LEMMA StepRefines == IInv /\ [Next]_vars => [CR!Next]_barVars
<1> SUFFICES ASSUME IInv, [Next]_vars PROVE [CR!Next]_barVars
  OBVIOUS
<1>1. ASSUME NEW p \in Procs, Work(p) \/ Mishap(p) PROVE [CR!Next]_barVars
  BY <1>1, LeaveStartRefines, FinishRefines, EmitRefines, FailingRefines, SilentRefines
  DEF Work, Failing, CR!Next
<1>2. ASSUME NEW c \in Cases, NEW ph \in Phases, Release(c, ph) \/ Expire(c, ph)
      PROVE  UNCHANGED barVars
  BY <1>2 DEF Release, Expire, barVars, startedBar, finishedBar, publishedBar, InCase
<1>3. CASE UNCHANGED vars
  BY <1>3 DEF vars, barVars, startedBar, finishedBar, publishedBar, InCase
<1>4. QED
  BY <1>1, <1>2, <1>3 DEF Next, Service

LEMMA InitRefines == Init => CR!Init
BY DEF Init, CR!Init, startedBar, finishedBar, InCase

\* The case loop of run_ici implements CaseRounds for every slice and block.
THEOREM Refinement == Spec => ImplementsCaseRounds
<1>1. IInv /\ [Next]_vars => [CR!Next]_CR!avars
  BY StepRefines DEF CR!avars, barVars, publishedBar
<1>2. QED
  BY <1>1, InitRefines, Invariance, PTL DEF Spec, ImplementsCaseRounds, CR!Spec
=============================================================================
