------------------------- MODULE PcieTransfersProofs -------------------------
(***************************************************************************)
(* What holds of PcieTransfers for every number of targets, warmup and     *)
(* timed rounds, whatever fails.  PInv is inductive: it says, for each     *)
(* place of the main thread, which rounds' transfers may be alive, which   *)
(* sources stand behind them and what has been counted.                    *)
(***************************************************************************)
EXTENDS PcieTransfers, TLAPS

\* The main thread raises only where it leaves a case, and never because its
\* buffers have run out.
CauseInv ==
  /\ cause # "exhausted"
  /\ pc \notin {"shutdown", "raised"} => cause = "none"
  /\ pc = "raised" => cause # "none"

\* The round under way is one of the case's; a case that ends well has had all.
RoundInv ==
  /\ pc \in {"round", "collect", "block"} => round \in Rounds
  /\ pc = "prepare" => round = 0
  /\ pc = "shutdown" /\ cause = "none" => round = LastRound + 1

\* During the rounds of a D2H case all of its sources are there; outside of
\* a case there are none.
SourceInv ==
  /\ pc = "prepare" => ~ H2D
  /\ ~ H2D /\ pc \in {"round", "collect", "block", "shutdown"} => CaseTargets \subseteq sources
  /\ pc \in {"idle", "write", "done"} => sources = {}
  /\ pc = "raised" /\ cause # "prepare" => sources = {}

\* Transfers of other rounds are over or yet to come, and of a round that is
\* over all were made.
StateAt(t, r) ==
  /\ r # round => xfer[<<t, r>>] \in {"none", "deleted"}
  /\ pc # "idle" /\ (r > round \/ t \notin CaseTargets) => xfer[<<t, r>>] = "none"
  /\ pc # "idle" /\ r < round /\ t \in CaseTargets => xfer[<<t, r>>] = "deleted"
  /\ pc \in {"idle", "write", "done"} => xfer[<<t, r>>] \in {"none", "deleted"}
  /\ pc \in {"prepare", "round"} /\ r = round => xfer[<<t, r>>] = "none"
  /\ pc = "raised" => xfer[<<t, r>>] \notin {"queued", "running"}

StateInv == \A t \in Targets, r \in Rounds : StateAt(t, r)

CountInv ==
  /\ pc # "idle" => measured = {r \in Rounds : Warmup <= r /\ r < round}
  /\ case \in RequestedCases
  /\ pc \notin {"write", "done"} => results = {c \in RequestedCases : c < case}
  /\ pc \in {"write", "done"} => results = RequestedCases

PInv == TypeOK /\ CauseInv /\ RoundInv /\ SourceInv /\ StateInv /\ CountInv

-----------------------------------------------------------------------------
LEMMA RoundFacts ==
  /\ NumTargets \in Nat /\ NumTargets > 0
  /\ Warmup \in Nat /\ Iteration \in Nat /\ Iteration > 0
  /\ LastRound \in Nat /\ LastRound + 1 = BatchSize /\ Warmup <= LastRound
  /\ Rounds = 0 .. LastRound
BY TargetsAssumption, RoundsAssumption DEF LastRound, Rounds, BatchSize

\* The cases of a run are consecutive.
LEMMA CaseFacts ==
  ASSUME TypeOK, case \in RequestedCases
  PROVE  /\ CaseTargets \subseteq Targets
         /\ RequestedCases \subseteq 0 .. NumTargets
         /\ MoreCases => {c \in RequestedCases : c < case + 1}
                           = {c \in RequestedCases : c < case} \cup {case}
         /\ ~ MoreCases => RequestedCases = {c \in RequestedCases : c < case} \cup {case}
<1> USE RoundFacts DEF TypeOK, RequestedCases, Targets, OneToMany
<1>1. CaseTargets \subseteq Targets
  BY DEF CaseTargets, Pooled
<1>2. RequestedCases \subseteq 0 .. NumTargets
  OBVIOUS
<1>3. {c \in RequestedCases : c < case + 1} = {c \in RequestedCases : c < case} \cup {case}
  BY <1>2
<1>4. ASSUME ~ MoreCases, NEW c \in RequestedCases PROVE c <= case
  BY <1>4, <1>2 DEF MoreCases, Requests
<1>5. ~ MoreCases => RequestedCases = {c \in RequestedCases : c < case} \cup {case}
  BY <1>4, <1>2
<1>6. QED
  BY <1>1, <1>2, <1>3, <1>5

\* A step of a worker or of the runtime on transfer x.
Outside(x) == Start(x) \/ Return(x) \/ Land(x)

LEMMA OutsideStep ==
  ASSUME TypeOK, NEW x \in Targets \X Rounds, Outside(x)
  PROVE  /\ xfer[x] \in {"queued", "running", "returned"}
         /\ xfer'[x] \in {"running", "returned", "ready", "failed", "broken"}
         /\ xfer[x] = "returned" => xfer'[x] \notin {"queued", "running"}
         /\ xfer' \in [Targets \X Rounds -> XferStates]
         /\ \A y \in Targets \X Rounds : y # x => xfer'[y] = xfer[y]
         /\ UNCHANGED <<request, case, pc, cause, sources, round, measured, results>>
<1> USE DEF TypeOK, SetTransfer, XferStates
<1>1. CASE Start(x)
  BY <1>1 DEF Start
<1>2. CASE Return(x)
  BY <1>2 DEF Return
<1>3. CASE Land(x)
  BY <1>3 DEF Land
<1>4. QED
  BY <1>1, <1>2, <1>3 DEF Outside

-----------------------------------------------------------------------------
LEMMA InitPInv == Init => PInv
<1> SUFFICES ASSUME Init PROVE PInv
  OBVIOUS
<1> USE RoundFacts DEF Init
<1>1. case \in RequestedCases
  BY DEF RequestedCases, Targets, OneToMany, Requests
<1>2. TypeOK
  BY DEF TypeOK, NoTransfers, XferStates, PCs, Causes, Targets, OneToMany
<1>3. CauseInv /\ RoundInv /\ SourceInv
  BY DEF CauseInv, RoundInv, SourceInv
<1>4. StateInv
  BY DEF StateInv, StateAt, NoTransfers
<1>5. CountInv
  BY <1>1 DEF CountInv, RequestedCases, Targets, OneToMany, Requests
<1>6. QED
  BY <1>1, <1>2, <1>3, <1>4, <1>5 DEF PInv

LEMMA BeginCasePInv == ASSUME PInv, BeginCase PROVE PInv'
<1> USE RoundFacts DEF PInv, BeginCase, H2D, RequestedCases, Pooled, CaseTargets
<1>1. TypeOK'
  BY DEF TypeOK, NoTransfers, XferStates, PCs
<1>2. CauseInv' /\ RoundInv' /\ SourceInv'
  BY DEF CauseInv, RoundInv, SourceInv
<1>3. StateInv'
  <2>1. \A t \in Targets, r \in Rounds : xfer'[<<t, r>>] = "none" /\ ~ (r < 0)
    BY DEF NoTransfers
  <2>2. round' = 0 /\ pc' \in {"round", "prepare"}
    OBVIOUS
  <2>3. QED
    BY <2>1, <2>2 DEF StateInv, StateAt
<1>4. CountInv'
  BY DEF CountInv
<1>5. QED
  BY <1>1, <1>2, <1>3, <1>4

LEMMA PreparePInv == ASSUME PInv, PrepareSources \/ PrepareRaises PROVE PInv'
<1> USE RoundFacts DEF PInv, H2D, RequestedCases, Pooled, CaseTargets
<1>1. CASE PrepareSources
  <2> USE <1>1 DEF PrepareSources
  <2>1. TypeOK'
    BY CaseFacts DEF TypeOK, PCs, CountInv
  <2>2. CauseInv' /\ RoundInv' /\ SourceInv'
    BY DEF CauseInv, RoundInv, SourceInv
  <2>3. StateInv' /\ CountInv'
    BY DEF StateInv, StateAt, CountInv
  <2>4. QED
    BY <2>1, <2>2, <2>3
<1>2. CASE PrepareRaises
  <2> USE <1>2 DEF PrepareRaises
  <2>1. TypeOK'
    BY DEF TypeOK, PCs, Causes
  <2>2. CauseInv' /\ RoundInv' /\ SourceInv'
    BY DEF CauseInv, RoundInv, SourceInv
  <2>3. StateInv' /\ CountInv'
    BY DEF StateInv, StateAt, CountInv
  <2>4. QED
    BY <2>1, <2>2, <2>3
<1>3. QED
  BY <1>1, <1>2

\* There is a batch for every round.
LEMMA SubmitPInv == ASSUME PInv, Submit PROVE PInv'
<1> USE RoundFacts DEF PInv, H2D, RequestedCases, Pooled, CaseTargets
<1>1. round < BatchSize
  BY DEF Submit, RoundInv
<1>2. /\ pc = "round" /\ pc' = "collect"
      /\ UNCHANGED <<request, case, cause, sources, round, measured, results>>
  BY <1>1 DEF Submit
<1>3. /\ xfer' \in [Targets \X Rounds -> XferStates]
      /\ \A t \in Targets, r \in Rounds :
           r # round \/ t \notin CaseTargets => xfer'[<<t, r>>] = xfer[<<t, r>>]
  BY <1>1 DEF Submit, TypeOK, XferStates
<1>4. TypeOK'
  BY <1>2, <1>3 DEF TypeOK, PCs
<1>5. CauseInv' /\ RoundInv' /\ SourceInv' /\ CountInv'
  BY <1>2 DEF CauseInv, RoundInv, SourceInv, CountInv
<1>6. ASSUME NEW t \in Targets, NEW r \in Rounds PROVE StateAt(t, r)'
  <2>1. StateAt(t, r) /\ r \in Int /\ round \in Int
    BY DEF StateInv, TypeOK
  <2>2. QED
    BY <1>2, <1>3, <2>1 DEF StateAt
<1>7. QED
  BY <1>4, <1>5, <1>6 DEF StateInv

LEMMA CollectPInv == ASSUME PInv, Collect \/ CollectRaises PROVE PInv'
<1> USE RoundFacts DEF PInv, H2D, RequestedCases, Pooled, CaseTargets
<1>1. /\ pc = "collect"
      /\ (pc' = "block" /\ cause' = cause) \/ (pc' = "shutdown" /\ cause' = "transfer")
      /\ UNCHANGED <<request, case, sources, round, xfer, measured, results>>
  BY DEF Collect, CollectRaises
<1>2. TypeOK' /\ CauseInv' /\ RoundInv' /\ SourceInv'
  BY <1>1 DEF TypeOK, PCs, Causes, CauseInv, RoundInv, SourceInv
<1>3. StateInv' /\ CountInv'
  BY <1>1 DEF StateInv, StateAt, CountInv
<1>4. QED
  BY <1>2, <1>3

\* What Discard leaves of the round under way, and of the others.
LEMMA DiscardFacts ==
  ASSUME TypeOK, round \in Rounds, xfer' = [x \in Targets \X Rounds |-> Discard(x)]
  PROVE  /\ xfer' \in [Targets \X Rounds -> XferStates]
         /\ \A t \in Targets, r \in Rounds :
              /\ r # round \/ t \notin CaseTargets => xfer'[<<t, r>>] = xfer[<<t, r>>]
              /\ r = round /\ t \in CaseTargets => xfer'[<<t, r>>] \in {"deleted", "dropped"}
              /\ r = round /\ t \in CaseTargets /\ xfer[<<t, r>>] = "ready"
                   => xfer'[<<t, r>>] = "deleted"
<1>1. \A t \in Targets, r \in Rounds : xfer'[<<t, r>>] = Discard(<<t, r>>)
  OBVIOUS
<1>2. \A x \in Targets \X Rounds : Discard(x) \in XferStates
  BY DEF Discard, TypeOK, XferStates
<1>3. QED
  BY <1>1, <1>2 DEF Discard

LEMMA FinishRoundPInv == ASSUME PInv, FinishRound PROVE PInv'
<1> USE RoundFacts DEF PInv, RequestedCases, Pooled, CaseTargets
<1>1. /\ pc = "block" /\ pc' = (IF round = LastRound THEN "shutdown" ELSE "round")
      /\ round' = round + 1
      /\ UNCHANGED <<request, case, cause, sources, results>>
  BY DEF FinishRound
<1>2. round \in Rounds /\ cause = "none"
  BY <1>1 DEF RoundInv, CauseInv
<1>3. /\ xfer' \in [Targets \X Rounds -> XferStates]
      /\ \A t \in Targets, r \in Rounds :
           /\ r # round \/ t \notin CaseTargets => xfer'[<<t, r>>] = xfer[<<t, r>>]
           /\ r = round /\ t \in CaseTargets => xfer'[<<t, r>>] = "deleted"
  BY <1>2, DiscardFacts DEF FinishRound, Synchronized
<1>4. measured' = {r \in Rounds : Warmup <= r /\ r < round'}
  BY <1>1, <1>2 DEF FinishRound, CountInv
<1>5. TypeOK'
  BY <1>1, <1>2, <1>3, <1>4 DEF TypeOK, PCs
<1>6. CauseInv' /\ RoundInv' /\ SourceInv'
  BY <1>1, <1>2 DEF CauseInv, RoundInv, SourceInv, H2D
<1>7. ASSUME NEW t \in Targets, NEW r \in Rounds PROVE StateAt(t, r)'
  <2>1. StateAt(t, r) /\ r \in Int /\ round \in Int
    BY DEF StateInv, TypeOK
  <2>2. r # round => xfer'[<<t, r>>] = xfer[<<t, r>>]
    BY <1>3
  <2>3. r = round => IF t \in CaseTargets THEN xfer'[<<t, r>>] = "deleted"
                                         ELSE xfer'[<<t, r>>] = "none"
    BY <1>1, <1>3, <2>1 DEF StateAt
  <2>4. QED
    BY <1>1, <2>1, <2>2, <2>3 DEF StateAt
<1>8. CountInv'
  BY <1>1, <1>4 DEF CountInv
<1>9. QED
  BY <1>5, <1>6, <1>7, <1>8 DEF StateInv

LEMMA BlockRaisesPInv == ASSUME PInv, BlockRaises PROVE PInv'
<1> USE RoundFacts DEF PInv, RequestedCases, Pooled, CaseTargets
<1>1. /\ pc = "block" /\ pc' = "shutdown" /\ cause' = "transfer"
      /\ UNCHANGED <<request, case, sources, round, measured, results>>
  BY DEF BlockRaises
<1>2. round \in Rounds
  BY <1>1 DEF RoundInv
<1>3. /\ xfer' \in [Targets \X Rounds -> XferStates]
      /\ \A t \in Targets, r \in Rounds :
           r # round \/ t \notin CaseTargets => xfer'[<<t, r>>] = xfer[<<t, r>>]
  BY <1>2, DiscardFacts DEF BlockRaises
<1>4. TypeOK'
  BY <1>1, <1>3 DEF TypeOK, PCs, Causes
<1>5. CauseInv' /\ RoundInv' /\ SourceInv' /\ CountInv'
  BY <1>1 DEF CauseInv, RoundInv, SourceInv, H2D, CountInv
<1>6. ASSUME NEW t \in Targets, NEW r \in Rounds PROVE StateAt(t, r)'
  <2>1. StateAt(t, r) /\ r \in Int /\ round \in Int
    BY DEF StateInv, TypeOK
  <2>2. QED
    BY <1>1, <1>3, <2>1 DEF StateAt
<1>7. QED
  BY <1>4, <1>5, <1>6 DEF StateInv

LEMMA EndCasePInv == ASSUME PInv, EndCase PROVE PInv'
<1> USE RoundFacts DEF PInv, EndCase
<1>1. pc = "shutdown" /\ UNCHANGED <<request, cause, round, xfer, measured>> /\ sources' = {}
  BY DEF AfterFinally
<1>2. \A t \in Targets, r \in Rounds : xfer[<<t, r>>] \notin {"queued", "running"}
  BY DEF WorkersDone, Busy
<1>3. cause = "none" => \A t \in Targets, r \in Rounds : xfer[<<t, r>>] \in {"none", "deleted"}
  <2> SUFFICES ASSUME cause = "none", NEW t \in Targets, NEW r \in Rounds
               PROVE  xfer[<<t, r>>] \in {"none", "deleted"}
    OBVIOUS
  <2>1. r # round
    BY <1>1 DEF RoundInv
  <2>2. QED
    BY <2>1 DEF StateInv, StateAt
<1>4. UNCHANGED RequestedCases
  BY <1>1 DEF RequestedCases
<1>5. CASE cause # "none"
  <2>1. pc' = "raised" /\ UNCHANGED <<case, results>>
    BY <1>5
  <2>2. TypeOK' /\ CauseInv' /\ RoundInv' /\ SourceInv'
    BY <1>1, <1>5, <2>1 DEF TypeOK, PCs, CauseInv, RoundInv, SourceInv
  <2>3. StateInv'
    BY <1>1, <1>2, <2>1 DEF StateInv, StateAt, CaseTargets, Pooled
  <2>4. CountInv'
    BY <1>1, <1>4, <2>1 DEF CountInv
  <2>5. QED
    BY <2>2, <2>3, <2>4
<1>6. CASE cause = "none" /\ MoreCases
  <2>1. pc' = "idle" /\ case' = case + 1 /\ results' = results \cup {case}
    BY <1>6
  <2>2. case' \in RequestedCases /\ results' = {c \in RequestedCases : c < case'}
    BY <1>1, <2>1, <1>6, CaseFacts DEF CountInv, MoreCases
  <2>3. TypeOK'
    BY <1>1, <2>1, <2>2, CaseFacts DEF TypeOK, PCs, CountInv, RequestedCases, Targets, OneToMany
  <2>4. CauseInv' /\ RoundInv' /\ SourceInv'
    BY <1>1, <1>6, <2>1 DEF CauseInv, RoundInv, SourceInv
  <2>5. StateInv' /\ CountInv'
    BY <1>1, <1>3, <1>4, <1>6, <2>1, <2>2 DEF StateInv, StateAt, CountInv
  <2>6. QED
    BY <2>3, <2>4, <2>5
<1>7. CASE cause = "none" /\ ~ MoreCases
  <2>1. pc' = "write" /\ case' = case /\ results' = results \cup {case}
    BY <1>7
  <2>2. results' = RequestedCases
    BY <1>1, <2>1, <1>7, CaseFacts DEF CountInv
  <2>3. TypeOK'
    BY <1>1, <2>1, <2>2 DEF TypeOK, PCs, RequestedCases
  <2>4. CauseInv' /\ RoundInv' /\ SourceInv'
    BY <1>1, <1>7, <2>1 DEF CauseInv, RoundInv, SourceInv
  <2>5. StateInv'
    <3>1. CaseTargets' = CaseTargets
      BY <2>1 DEF CaseTargets, Pooled
    <3>2. QED
      BY <1>1, <1>3, <1>7, <2>1, <3>1 DEF StateInv, StateAt
  <2>6. CountInv'
    BY <1>1, <1>4, <2>1, <2>2 DEF CountInv
  <2>7. QED
    BY <2>3, <2>4, <2>5, <2>6
<1>8. QED
  BY <1>5, <1>6, <1>7

LEMMA WritePInv == ASSUME PInv, Write PROVE PInv'
<1> USE RoundFacts DEF PInv, Write, RequestedCases, Pooled, CaseTargets, H2D
<1>1. TypeOK' /\ CauseInv' /\ RoundInv' /\ SourceInv'
  BY DEF TypeOK, PCs, CauseInv, RoundInv, SourceInv
<1>2. StateInv' /\ CountInv'
  BY DEF StateInv, StateAt, CountInv
<1>3. QED
  BY <1>1, <1>2

\* A worker touches a transfer of the round under way only.
LEMMA OutsidePInv == ASSUME PInv, NEW x \in Targets \X Rounds, Outside(x) PROVE PInv'
<1> USE DEF PInv
<1>1. UNCHANGED <<request, case, pc, cause, sources, round, measured, results>>
  BY OutsideStep
<1>2. TypeOK'
  BY <1>1, OutsideStep DEF TypeOK
<1>3. CauseInv' /\ RoundInv' /\ SourceInv' /\ CountInv'
  BY <1>1 DEF CauseInv, RoundInv, SourceInv, CountInv, H2D, CaseTargets, Pooled, RequestedCases
<1>4. StateInv'
  <2>1. PICK t \in Targets, r \in Rounds : x = <<t, r>>
    OBVIOUS
  <2>2. xfer[<<t, r>>] \in {"queued", "running", "returned"}
    BY <2>1, OutsideStep
  <2>3. /\ r = round /\ t \in CaseTargets
        /\ pc \notin {"idle", "write", "done", "prepare", "round"}
        /\ pc = "raised" => xfer'[<<t, r>>] \notin {"queued", "running"}
    BY <2>1, <2>2, OutsideStep DEF StateInv, StateAt
  <2>4. \A u \in Targets, s \in Rounds : <<u, s>> # x => xfer'[<<u, s>>] = xfer[<<u, s>>]
    BY OutsideStep
  <2>5. CaseTargets' = CaseTargets
    BY <1>1 DEF CaseTargets, Pooled
  <2>6. ASSUME NEW u \in Targets, NEW s \in Rounds PROVE StateAt(u, s)'
    <3>1. StateAt(u, s) /\ s \in Int /\ round \in Int
      BY RoundFacts DEF StateInv, TypeOK
    <3>2. CASE u = t /\ s = r
      BY <1>1, <2>3, <2>5, <3>1, <3>2 DEF StateAt
    <3>3. CASE <<u, s>> # x
      BY <1>1, <2>4, <2>5, <3>1, <3>3 DEF StateAt
    <3>4. QED
      BY <2>1, <3>2, <3>3
  <2>7. QED
    BY <2>6 DEF StateInv
<1>5. QED
  BY <1>2, <1>3, <1>4

LEMMA NextPInv == PInv /\ [Next]_vars => PInv'
<1> SUFFICES ASSUME PInv, [Next]_vars PROVE PInv'
  OBVIOUS
<1>1. CASE Main
  BY <1>1, BeginCasePInv, PreparePInv, SubmitPInv, CollectPInv, FinishRoundPInv,
     BlockRaisesPInv, EndCasePInv, WritePInv DEF Main
<1>2. ASSUME NEW x \in Targets \X Rounds, Outside(x) PROVE PInv'
  BY <1>2, OutsidePInv
<1>3. CASE UNCHANGED vars
  BY <1>3 DEF vars, PInv, TypeOK, CauseInv, RoundInv, SourceInv, StateInv, StateAt, CountInv,
              H2D, CaseTargets, Pooled, RequestedCases
<1>4. QED
  BY <1>1, <1>2, <1>3 DEF Next, Outside

\* The inductive invariant holds of every reachable state.
THEOREM TransferInvariance == Spec => []PInv
BY InitPInv, NextPInv, PTL DEF Spec

-----------------------------------------------------------------------------
\* However many targets and rounds there are and whatever fails, a worker
\* finds its source array on the device (finally of run_pcie's D2H cases,
\* behind the pool).
THEOREM SourcesOutlive == Spec => []SourcesOutliveReads
<1>1. PInv => SourcesOutliveReads
  <2> SUFFICES ASSUME PInv, ~ H2D, NEW t \in Targets, NEW r \in Rounds,
                      xfer[<<t, r>>] \in {"queued", "running"}
               PROVE  t \in sources
    BY DEF SourcesOutliveReads, Busy
  <2>1. r = round /\ pc \notin {"idle", "prepare", "round", "write", "done", "raised"}
    BY DEF PInv, StateInv, StateAt, StateAt
  <2>2. t \in CaseTargets
    BY <2>1 DEF PInv, StateInv, StateAt, StateAt
  <2>3. QED
    BY <2>1, <2>2 DEF PInv, SourceInv, TypeOK, PCs
<1>2. QED
  BY <1>1, TransferInvariance, PTL

\* No two rounds share a link, however the transfers of one of them end.
THEOREM RoundsSeparate == Spec => []RoundsApart
<1>1. PInv => RoundsApart
  BY DEF PInv, StateInv, StateAt, RoundsApart
<1>2. QED
  BY <1>1, TransferInvariance, PTL

\* Each case has one duration per iteration, taken from finished transfers,
\* and a run that ends well reports every case.
THEOREM Whole == Spec => []MeasuredWhole
<1>1. PInv => MeasuredWhole
  <2> SUFFICES ASSUME PInv PROVE MeasuredWhole
    OBVIOUS
  <2> USE RoundFacts DEF PInv
  <2>1. pc # "idle" => \A r \in measured :
          r >= Warmup /\ \A t \in CaseTargets : xfer[<<t, r>>] = "deleted"
    BY CaseFacts DEF CountInv, StateInv, StateAt, TypeOK
  <2>2. pc = "shutdown" /\ cause = "none" => measured = Warmup .. LastRound
    <3> SUFFICES ASSUME pc = "shutdown", cause = "none" PROVE measured = Warmup .. LastRound
      OBVIOUS
    <3>1. measured = {r \in 0 .. LastRound : Warmup <= r /\ r < LastRound + 1}
      BY DEF CountInv, RoundInv
    <3>2. QED
      BY <3>1
  <2>3. pc = "done" => results = RequestedCases
    BY DEF CountInv
  <2>4. QED
    BY <2>1, <2>2, <2>3 DEF MeasuredWhole
<1>2. QED
  BY <1>1, TransferInvariance, PTL

\* A case leaves nothing on the devices for the next one.
THEOREM Released == Spec => []ReleasedOutsideCases
<1>1. PInv => ReleasedOutsideCases
  BY DEF PInv, StateInv, StateAt, SourceInv, ReleasedOutsideCases
<1>2. QED
  BY <1>1, TransferInvariance, PTL
=============================================================================
