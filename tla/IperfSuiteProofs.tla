-------------------------- MODULE IperfSuiteProofs ---------------------------
(***************************************************************************)
(* What holds of IperfSuite for every number of devices and runs when the  *)
(* suite runs in the script's own shell (--batch-test), which the EXIT     *)
(* trap belongs to.  SInv is inductive: a server is alive only while the   *)
(* shell remembers it or after its cleanup was lost.                       *)
(***************************************************************************)
EXTENDS IperfSuite, TLAPS

Alive(x) == server[x] \in {"starting", "listening"}

\* The shell remembers the server from before it starts until it is ended.
ServerInv ==
  /\ batch
  /\ current => pc \in {"wait", "client", "log", "cleanup", "exit"}
  /\ \A x \in Runs \X Tests :
       Alive(x) => x \in unreached \/ (current /\ x = <<run, test>>)

\* What a metric was measured against, before and after it is written.
AgainstInv ==
  /\ pc \in {"log", "cleanup", "parse"} => against = run \/ <<against, test>> \in unreached
  /\ \A m \in metrics : m[3] # m[1] => <<m[3], m[2]>> \in unreached

Measured(t) == \E m \in metrics : m[1] = run /\ m[2] = t

Before(t, u) == t[1] < u[1] \/ (t[1] = u[1] /\ t[2] = "forward" /\ u[2] = "reverse")

\* The suite has measured what is in front of it.
ProgressInv ==
  /\ \A t \in Tests : Before(t, test) => Measured(t)
  /\ pc \in {"exit", "over"} /\ status = "ok" => \A t \in Tests : Measured(t)

SInv == TypeOK /\ ServerInv /\ AgainstInv /\ ProgressInv

-----------------------------------------------------------------------------
LEMMA SuiteFacts ==
  /\ NumDevices \in Nat /\ NumDevices > 0 /\ NumRuns \in Nat /\ NumRuns > 0
  /\ Devices = 0 .. NumDevices - 1 /\ Runs = 1 .. NumRuns
  /\ First \in Tests
  /\ \A t \in Tests : ~ Before(t, First)
<1>1. NumDevices \in Nat /\ NumDevices > 0 /\ NumRuns \in Nat /\ NumRuns > 0
  BY DevicesAssumption, RunsAssumption
<1>2. First \in Tests
  BY <1>1 DEF First, Tests, Devices, Directions
<1>3. \A t \in Tests : ~ Before(t, First)
  BY <1>1 DEF First, Tests, Devices, Before
<1>4. QED
  BY <1>1, <1>2, <1>3 DEF Devices, Runs

LEMMA InitSInv == ASSUME Batches \subseteq {TRUE}, Init PROVE SInv
<1> USE SuiteFacts DEF Init
<1>1. TypeOK
  <2>1. batch = TRUE /\ current = FALSE
    OBVIOUS
  <2>2. server \in [Runs \X Tests -> {"none", "starting", "listening", "dead"}]
    OBVIOUS
  <2>3. run \in Runs /\ against \in Runs
    OBVIOUS
  <2>4. QED
    BY <2>1, <2>2, <2>3 DEF TypeOK
<1>2. ServerInv /\ AgainstInv
  BY DEF ServerInv, AgainstInv, Alive
<1>3. ProgressInv
  BY DEF ProgressInv
<1>4. QED
  BY <1>1, <1>2, <1>3 DEF SInv

-----------------------------------------------------------------------------
\* A step that starts, ends and binds no server and measures nothing.
Plain ==
  /\ pc' \in {"start", "wait", "client", "cleanup", "exit"}
  /\ pc' = "exit" => status' = "failed"
  /\ pc' # "exit" => status' = status
  /\ current => pc' # "start"
  /\ pc' = "cleanup" => pc = "log"
  /\ UNCHANGED <<run, batch, test, current, server, against, metrics, unreached>>

LEMMA PlainSInv == ASSUME SInv, Plain PROVE SInv'
<1> USE DEF SInv, Plain
<1>1. TypeOK'
  BY DEF TypeOK
<1>2. ServerInv'
  BY DEF ServerInv, Alive
<1>3. AgainstInv'
  BY DEF AgainstInv
<1>4. ProgressInv'
  BY DEF ProgressInv, Measured, Before
<1>5. QED
  BY <1>1, <1>2, <1>3, <1>4

LEMMA PlainSteps ==
  ASSUME SInv, Validate \/ WaitForServer \/ WaitGivesUp \/ ReadLog PROVE SInv'
<1> USE DEF SInv, ServerInv, Fail, Failed
<1>1. CASE Validate
  BY <1>1, PlainSInv DEF Validate, Plain
<1>2. CASE WaitForServer
  BY <1>2, PlainSInv DEF WaitForServer, Plain
<1>3. CASE WaitGivesUp
  BY <1>3, PlainSInv DEF WaitGivesUp, Plain
<1>4. CASE ReadLog
  BY <1>4, PlainSInv DEF ReadLog, Plain
<1>5. QED
  BY <1>1, <1>2, <1>3, <1>4

LEMMA StartServerSInv == ASSUME SInv, StartServer PROVE SInv'
<1> USE DEF SInv
<1>1. /\ pc = "start" /\ current' = TRUE
      /\ server' = server \/ server' = [server EXCEPT ![<<run, test>>] = "starting"]
      /\ (pc' = "wait" /\ status' = status) \/ (pc' = "exit" /\ status' = "failed")
      /\ UNCHANGED <<run, batch, test, against, metrics, unreached>>
  BY DEF StartServer, Remembered, Fail, Failed
<1>2. TypeOK'
  BY <1>1 DEF TypeOK
<1>3. ServerInv'
  <2>1. \A x \in Runs \X Tests : x # <<run, test>> => server'[x] = server[x]
    BY <1>1 DEF TypeOK
  <2>2. QED
    BY <1>1, <2>1 DEF ServerInv, Alive
<1>4. AgainstInv'
  BY <1>1 DEF AgainstInv
<1>5. ProgressInv'
  BY <1>1 DEF ProgressInv, Measured
<1>6. QED
  BY <1>2, <1>3, <1>4, <1>5

\* The client meets the server of this run or one whose cleanup was lost.
LEMMA RunClientSInv == ASSUME SInv, RunClient PROVE SInv'
<1> USE DEF SInv
<1>1. /\ pc = "client" /\ UNCHANGED <<run, batch, test, current, server, metrics, unreached>>
      /\ \/ pc' = "log" /\ against' \in Listening /\ status' = status
         \/ pc' = "exit" /\ against' = against /\ status' = "failed"
  BY DEF RunClient, Fail, Failed
<1>2. Listening \subseteq Runs
  BY DEF Listening
<1>3. TypeOK'
  BY <1>1, <1>2 DEF TypeOK
<1>4. ServerInv'
  BY <1>1 DEF ServerInv, Alive
<1>5. AgainstInv'
  <2>1. ASSUME pc' = "log" PROVE against' = run \/ <<against', test>> \in unreached
    <3>1. against' \in Runs /\ Alive(<<against', test>>)
      BY <1>1, <2>1 DEF Listening, Alive
    <3>2. <<against', test>> \in Runs \X Tests
      BY <3>1 DEF TypeOK
    <3>3. QED
      BY <3>1, <3>2 DEF ServerInv
  <2>2. QED
    BY <1>1, <2>1 DEF AgainstInv
<1>6. ProgressInv'
  BY <1>1 DEF ProgressInv, Measured
<1>7. QED
  BY <1>3, <1>4, <1>5, <1>6

\* After cleanup_server nothing is remembered and nothing unknown is alive.
LEMMA CleanupFacts ==
  ASSUME TypeOK, ServerInv, CleanupServer
  PROVE  /\ current' = FALSE
         /\ server' \in [Runs \X Tests -> {"none", "starting", "listening", "dead"}]
         /\ unreached \subseteq unreached' /\ unreached' \subseteq Runs \X Tests
         /\ \A x \in Runs \X Tests : Alive(x)' => x \in unreached'
<1> USE DEF CleanupServer, HasServer
<1>1. <<run, test>> \in Runs \X Tests
  BY DEF TypeOK
<1>2. CASE current /\ unreached' = unreached
                   /\ server' = [server EXCEPT ![<<run, test>>] = IF @ = "none" THEN @ ELSE "dead"]
  <2>1. \A x \in Runs \X Tests : x # <<run, test>> => server'[x] = server[x]
    BY <1>2 DEF TypeOK
  <2>2. server'[<<run, test>>] \in {"none", "dead"}
    BY <1>1, <1>2 DEF TypeOK
  <2>3. server' \in [Runs \X Tests -> {"none", "starting", "listening", "dead"}]
    BY <1>1, <1>2 DEF TypeOK
  <2>4. QED
    BY <1>2, <2>1, <2>2, <2>3 DEF ServerInv, Alive, TypeOK
<1>3. CASE current /\ unreached' = unreached \union {<<run, test>>} /\ server' = server
  BY <1>1, <1>3 DEF ServerInv, Alive, TypeOK
<1>4. CASE ~ current /\ UNCHANGED <<server, unreached>>
  BY <1>4 DEF ServerInv, Alive, TypeOK
<1>5. QED
  BY <1>2, <1>3, <1>4 DEF TypeOK

LEMMA CleanupSInv == ASSUME SInv, EndServer \/ ExitTrap PROVE SInv'
<1> USE DEF SInv
<1>1. /\ CleanupServer
      /\ (pc = "cleanup" /\ pc' = "parse") \/ (pc = "exit" /\ pc' = "over")
      /\ UNCHANGED <<run, batch, test, against, metrics, status>>
  BY DEF EndServer, ExitTrap, ServerInv
<1>2. TypeOK'
  BY <1>1, CleanupFacts DEF TypeOK
<1>3. ServerInv'
  BY <1>1, CleanupFacts DEF ServerInv
<1>4. AgainstInv'
  BY <1>1, CleanupFacts DEF AgainstInv
<1>5. ProgressInv'
  BY <1>1 DEF ProgressInv, Measured
<1>6. QED
  BY <1>2, <1>3, <1>4, <1>5

\* The suite goes through the tests in the order of Before.
LEMMA EmitMetricSInv == ASSUME SInv, EmitMetric PROVE SInv'
<1> USE SuiteFacts DEF SInv
<1>1. /\ pc = "parse" /\ UNCHANGED <<run, batch, current, server, against, unreached>>
      /\ current = FALSE
  BY DEF EmitMetric, ServerInv
<1>2. PICK d \in Devices, dir \in Directions : test = <<d, dir>>
  BY DEF TypeOK, Tests
<1>3. CASE pc' = "exit" /\ status' = "failed" /\ UNCHANGED <<metrics, test>>
  <2>1. TypeOK' /\ ServerInv'
    BY <1>1, <1>3 DEF TypeOK, ServerInv, Alive
  <2>2. AgainstInv' /\ ProgressInv'
    BY <1>1, <1>3 DEF AgainstInv, ProgressInv, Measured
  <2>3. QED
    BY <2>1, <2>2
<1>4. CASE /\ metrics' = metrics \union {<<run, test, against>>} /\ status' = status
           /\ \/ /\ dir = "forward"
                 /\ test' = <<d, "reverse">> /\ pc' = "start"
              \/ /\ dir = "reverse" /\ d + 1 \in Devices
                 /\ test' = <<d + 1, "forward">> /\ pc' = "validate"
              \/ /\ dir = "reverse" /\ d + 1 \notin Devices
                 /\ test' = test /\ pc' = "exit"
  <2>1. TypeOK'
    <3>1. test' \in Tests
      BY <1>2, <1>4 DEF Tests, Directions
    <3>2. metrics' \in SUBSET (Runs \X Tests \X Runs)
      BY <1>4 DEF TypeOK
    <3>3. QED
      BY <1>1, <1>4, <3>1, <3>2 DEF TypeOK
  <2>2. ServerInv'
    BY <1>1, <1>4 DEF ServerInv, Alive
  <2>3. AgainstInv'
    BY <1>1, <1>4 DEF AgainstInv
  <2>4. ProgressInv'
    <3>1. ASSUME NEW t \in Tests, Measured(t) \/ t = test PROVE Measured(t)'
      <4>1. CASE Measured(t)
        BY <1>1, <1>4, <4>1 DEF Measured
      <4>2. CASE t = test
        <5>1. <<run, test, against>> \in metrics'
          BY <1>4
        <5>2. QED
          BY <1>1, <4>2, <5>1 DEF Measured
      <4>3. QED
        BY <3>1, <4>1, <4>2
    <3>2. ASSUME NEW t \in Tests, Before(t, test') \/ pc' = "exit"
          PROVE  Before(t, test) \/ t = test
      <4>1. PICK e \in Devices, way \in Directions : t = <<e, way>>
        BY DEF Tests
      <4>2. QED
        BY <1>2, <1>4, <3>2, <4>1 DEF Before, Directions
    <3>3. QED
      BY <1>4, <3>1, <3>2 DEF ProgressInv
  <2>5. QED
    BY <2>1, <2>2, <2>3, <2>4
<1>5. test[1] = d /\ test[2] = dir
  BY <1>2
<1>6. QED
  BY <1>1, <1>3, <1>4, <1>5 DEF EmitMetric, Fail, Failed

LEMMA NextRunSInv == ASSUME Batches \subseteq {TRUE}, SInv, NextRun PROVE SInv'
<1> USE SuiteFacts DEF SInv, NextRun
<1>1. TypeOK'
  <2>1. batch' = TRUE
    OBVIOUS
  <2>2. run' \in Runs
    BY DEF TypeOK
  <2>3. QED
    BY <2>1, <2>2 DEF TypeOK
<1>2. ServerInv'
  BY DEF ServerInv, Alive
<1>3. AgainstInv'
  BY DEF AgainstInv
<1>4. ProgressInv'
  BY DEF ProgressInv
<1>5. QED
  BY <1>1, <1>2, <1>3, <1>4

LEMMA BindSInv == ASSUME SInv, NEW x \in Runs \X Tests, Bind(x) PROVE SInv'
<1> USE DEF SInv
<1>1. /\ server[x] = "starting"
      /\ server' = [server EXCEPT ![x] = "listening"] \/ server' = [server EXCEPT ![x] = "dead"]
      /\ UNCHANGED <<run, batch, test, pc, current, against, metrics, status, unreached>>
  BY DEF Bind
<1>2. TypeOK'
  BY <1>1 DEF TypeOK
<1>3. ServerInv'
  BY <1>1 DEF ServerInv, Alive, TypeOK
<1>4. AgainstInv' /\ ProgressInv'
  BY <1>1 DEF AgainstInv, ProgressInv, Measured
<1>5. QED
  BY <1>2, <1>3, <1>4

LEMMA NextSInv == ASSUME Batches \subseteq {TRUE}, SInv, [Next]_vars PROVE SInv'
<1>1. CASE Script /\ ~ UNCHANGED vars
  BY <1>1, PlainSteps, StartServerSInv, RunClientSInv, CleanupSInv, EmitMetricSInv, NextRunSInv
  DEF Script, Retry
<1>2. ASSUME NEW x \in Runs \X Tests, Bind(x) PROVE SInv'
  BY <1>2, BindSInv
<1>3. CASE UNCHANGED vars
  BY <1>3 DEF vars, SInv, TypeOK, ServerInv, Alive, AgainstInv, ProgressInv, Measured
<1>4. QED
  BY <1>1, <1>2, <1>3 DEF Next

\* The inductive invariant holds of every reachable state of batch runs.
THEOREM SuiteInvariance == ASSUME Batches \subseteq {TRUE} PROVE Spec => []SInv
<1>1. Init => SInv
  BY InitSInv
<1>2. SInv /\ [Next]_vars => SInv'
  BY NextSInv
<1>3. QED
  BY <1>1, <1>2, PTL DEF Spec

-----------------------------------------------------------------------------
\* With --batch-test no run leaves a server behind, whatever fails in it
\* (cleanup_server, trap ... EXIT).
THEOREM NoneLeft == ASSUME Batches \subseteq {TRUE} PROVE Spec => []NoServerLeft
<1>1. SInv => NoServerLeft
  BY DEF SInv, ServerInv, Alive, NoServerLeft
<1>2. QED
  BY <1>1, SuiteInvariance, PTL

\* With --batch-test each metric is about the server started for it, and a run
\* that ends well has reported every device both ways.
THEOREM SoundMetrics == ASSUME Batches \subseteq {TRUE} PROVE Spec => []MetricsAreSound
<1>1. SInv => MetricsAreSound
  BY DEF SInv, AgainstInv, ProgressInv, Measured, MetricsAreSound
<1>2. QED
  BY <1>1, SuiteInvariance, PTL
=============================================================================
