----------------------------- MODULE IperfSuite -----------------------------
(***************************************************************************)
(* scripts/iperf/test_multinode_iperf.sh: for each network device, and in  *)
(* both directions, an iperf server is started on one host over ssh, the   *)
(* other host measures against it, and the server is ended again.  A later *)
(* run of the script finds whatever servers this one has left behind.      *)
(*                                                                         *)
(* A test is a pair of a device, which has a port of its own, and a        *)
(* direction, which decides the host of the server: two servers are after  *)
(* the same address only if they belong to the same test of two runs.      *)
(***************************************************************************)
EXTENDS Integers, FiniteSets

CONSTANTS
  NumDevices,  \* --net-devices
  NumRuns,     \* runs of the script, one after the other
  Batches,     \* what --batch-test may be
  Faults       \* "ssh": a connection fails or dies; "server": iperf -s gives up;
               \* "client": iperf -c fails or prints nothing to parse

Devices == 0 .. NumDevices - 1
Directions == {"forward", "reverse"}
Tests == Devices \X Directions
Runs == 1 .. NumRuns

ASSUME DevicesAssumption == NumDevices \in Nat \ {0}
ASSUME RunsAssumption == NumRuns \in Nat \ {0}
ASSUME BatchesAssumption == Batches \subseteq BOOLEAN
ASSUME FaultsAssumption == Faults \subseteq {"ssh", "server", "client"}

VARIABLES
  run,        \* the run under way
  batch,      \* its --batch-test
  test,       \* the test it is at
  pc,         \* where the shell that runs run_suite stands
  current,    \* CURRENT_SERVER_HOST is set in that shell
  server,     \* server[<<r, t>>]: the iperf server of test t in run r
  against,    \* the run whose server the client measured against
  metrics,    \* metric lines: <<run, test, run of the server>>
  status,     \* exit status of the run
  unreached   \* servers whose cleanup was lost with its connection

vars == <<run, batch, test, pc, current, server, against, metrics, status, unreached>>

First == <<0, "forward">>

TypeOK ==
  /\ run \in Runs /\ batch \in BOOLEAN /\ test \in Tests
  /\ pc \in {"validate", "start", "wait", "client", "log", "cleanup", "parse", "exit", "over"}
  /\ current \in BOOLEAN
  /\ server \in [Runs \X Tests -> {"none", "starting", "listening", "dead"}]
  /\ against \in Runs
  /\ metrics \in SUBSET (Runs \X Tests \X Runs)
  /\ status \in {"ok", "failed"}
  /\ unreached \in SUBSET (Runs \X Tests)

Init ==
  /\ run = 1 /\ batch \in Batches /\ test = First
  /\ pc = "validate" /\ current = FALSE
  /\ server = [x \in Runs \X Tests |-> "none"]
  /\ against = 1 /\ metrics = {} /\ status = "ok" /\ unreached = {}

-----------------------------------------------------------------------------
(* run_direction, up to the measurement.                                   *)

\* Mutant: the shell ends with the status of its EXIT trap.
Swallowed == "ok"

\* set -e, pipefail and die: a step that fails ends the shell.
Failed == "failed"

Fail ==
  /\ pc' = "exit" /\ status' = Failed

\* validate_endpoint, device_ipv4 and device_numa_node of both hosts.
Validate ==
  /\ pc = "validate"
  /\ \/ pc' = "start" /\ UNCHANGED status
     \/ "ssh" \in Faults /\ Fail
  /\ UNCHANGED <<run, batch, test, current, server, against, metrics, unreached>>

\* Mutant: the server is written down when ssh has returned.
RememberedAfter(returned) == returned

\* CURRENT_SERVER_* are set before ssh starts the server.
Remembered(returned) == TRUE

\* The remote command has run as a whole when ssh returns or, if the connection
\* failed, never runs: that it runs later on is not modelled.
StartServer ==
  /\ pc = "start"
  /\ \E returned, started \in BOOLEAN :
       /\ returned => started
       /\ ~ returned => "ssh" \in Faults
       /\ server' = IF started THEN [server EXCEPT ![<<run, test>>] = "starting"] ELSE server
       /\ current' = Remembered(returned)
       /\ IF returned THEN pc' = "wait" /\ UNCHANGED status ELSE Fail
  /\ UNCHANGED <<run, batch, test, against, metrics, unreached>>

\* The runs whose server listens on the address of the test.
Listening == {r \in Runs : server[<<r, test>>] = "listening"}

WaitForServer ==
  /\ pc = "wait" /\ Listening # {}
  /\ pc' = "client"
  /\ UNCHANGED <<run, batch, test, current, server, against, metrics, status, unreached>>

\* An attempt that is not the last one.
Retry == pc = "wait" /\ Listening = {} /\ UNCHANGED vars

\* Mutant: the attempts are not counted.
NoAttemptIsLast == FALSE

\* Each of the 20 attempts asks over ssh.
MayGiveUp == Listening = {} \/ "ssh" \in Faults

WaitGivesUp ==
  /\ pc = "wait" /\ MayGiveUp
  /\ Fail
  /\ UNCHANGED <<run, batch, test, current, server, against, metrics, unreached>>

RunClient ==
  /\ pc = "client"
  /\ \/ \E r \in Listening : pc' = "log" /\ against' = r /\ UNCHANGED status
     \/ Listening = {} /\ Fail /\ UNCHANGED against
     \/ Faults \cap {"ssh", "client"} # {} /\ Fail /\ UNCHANGED against
  /\ UNCHANGED <<run, batch, test, current, server, metrics, unreached>>

\* cat of the server's log
ReadLog ==
  /\ pc = "log"
  /\ \/ pc' = "cleanup" /\ UNCHANGED status
     \/ "ssh" \in Faults /\ Fail
  /\ UNCHANGED <<run, batch, test, current, server, against, metrics, unreached>>

-----------------------------------------------------------------------------
(* cleanup_server, the metric, and the end of the run.                     *)

\* Mutant: the server is ended when its test is over, not when it fails.
OnlyAfterTest == current /\ pc = "cleanup"

\* cleanup_server has something to do.
HasServer == current

\* The remote kill of the process in the pidfile; a connection that fails is
\* ignored (|| true).
CleanupServer ==
  /\ IF HasServer
       THEN \/ /\ server' = [server EXCEPT ![<<run, test>>] = IF @ = "none" THEN @ ELSE "dead"]
               /\ UNCHANGED unreached
            \/ /\ "ssh" \in Faults
               /\ unreached' = unreached \union {<<run, test>>}
               /\ UNCHANGED server
       ELSE UNCHANGED <<server, unreached>>
  /\ current' = FALSE

EndServer ==
  /\ pc = "cleanup"
  /\ CleanupServer
  /\ pc' = "parse"
  /\ UNCHANGED <<run, batch, test, against, metrics, status>>

\* Parse the client's output, emit the metric, and go on with the suite.
EmitMetric ==
  /\ pc = "parse"
  /\ \/ /\ metrics' = metrics \union {<<run, test, against>>}
        /\ \/ /\ test[2] = "forward"
              /\ test' = <<test[1], "reverse">> /\ pc' = "start"
           \/ /\ test[2] = "reverse" /\ test[1] + 1 \in Devices
              /\ test' = <<test[1] + 1, "forward">> /\ pc' = "validate"
           \/ /\ test[2] = "reverse" /\ test[1] + 1 \notin Devices
              /\ test' = test /\ pc' = "exit"
        /\ UNCHANGED status
     \/ "client" \in Faults /\ Fail /\ UNCHANGED <<metrics, test>>
  /\ UNCHANGED <<run, batch, current, server, against, unreached>>

\* trap ... EXIT of the script's shell.  With --batch-test that is the shell of
\* run_suite; otherwise run_suite is a part of a pipeline and its shell, which
\* does not inherit the trap, takes CURRENT_SERVER_* with it.
ExitTrap ==
  /\ pc = "exit"
  /\ IF batch THEN CleanupServer ELSE current' = FALSE /\ UNCHANGED <<server, unreached>>
  /\ pc' = "over"
  /\ UNCHANGED <<run, batch, test, against, metrics, status>>

NextRun ==
  /\ pc = "over" /\ run < NumRuns
  /\ run' = run + 1 /\ batch' \in Batches
  /\ test' = First /\ pc' = "validate" /\ status' = "ok"
  /\ UNCHANGED <<current, server, against, metrics, unreached>>

Script ==
  \/ Validate \/ StartServer \/ WaitForServer \/ Retry \/ WaitGivesUp \/ RunClient
  \/ ReadLog \/ EndServer \/ EmitMetric \/ ExitTrap \/ NextRun

-----------------------------------------------------------------------------
(* iperf -s (external).                                                    *)

\* Binding fails when the server of another run has the address.
Bind(x) ==
  /\ server[x] = "starting"
  /\ \/ /\ \A r \in Runs : server[<<r, x[2]>>] # "listening"
        /\ server' = [server EXCEPT ![x] = "listening"]
     \/ /\ \E r \in Runs : server[<<r, x[2]>>] = "listening"
        /\ server' = [server EXCEPT ![x] = "dead"]
     \/ /\ "server" \in Faults
        /\ server' = [server EXCEPT ![x] = "dead"]
  /\ UNCHANGED <<run, batch, test, pc, current, against, metrics, status, unreached>>

Over == pc = "over" /\ run = NumRuns

Next ==
  \/ Script
  \/ \E x \in Runs \X Tests : Bind(x)
  \/ Over /\ UNCHANGED vars

Spec == Init /\ [][Next]_vars

FairSpec ==
  Spec /\ WF_vars(Script) /\ \A x \in Runs \X Tests : WF_vars(Bind(x))

-----------------------------------------------------------------------------
(* Properties.                                                             *)

\* Between runs no server is left on any host, however a run ended, unless the
\* connection of its cleanup was lost (cleanup_server and the EXIT trap).
NoServerLeft ==
  pc = "over" => \A x \in Runs \X Tests :
    server[x] \in {"starting", "listening"} => x \in unreached

\* Every metric was measured against the server the run started for it, unless
\* a lost cleanup left another one on the port; and a run that ends well has
\* reported each device in both directions.
MetricsAreSound ==
  /\ \A m \in metrics : m[3] # m[1] => <<m[3], m[2]>> \in unreached
  /\ pc = "over" /\ status = "ok" =>
       \A t \in Tests : \E m \in metrics : m[1] = run /\ m[2] = t

\* Every run ends, also when no server comes up.
SuiteEnds == <>[]Over
=============================================================================
