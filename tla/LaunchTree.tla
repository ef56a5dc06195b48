----------------------------- MODULE LaunchTree -----------------------------
(***************************************************************************)
(* scripts/ici/test_multinode_ici.sh, scripts/gemm/test_gemm.sh and        *)
(* scripts/tpubandwidth/test_tpubandwidth.sh launch a benchmark through a  *)
(* binary tree of ssh connections.  The script on a host receives a list   *)
(* of ranks whose head is its own; it gives the two halves of the tail to  *)
(* two children, starts its own rank, and then waits for the rank and for  *)
(* the children, whose archives of logs it unpacks.  The root judges by    *)
(* its own tree status and by the logs it got.                             *)
(*                                                                         *)
(* The ranks of the first script are one JAX process group per mode; those *)
(* of the other two measure each host on its own, all modes in one go.     *)
(*                                                                         *)
(* Ranks are 0 .. NumHosts-1 and every list is an interval r .. last[r].   *)
(***************************************************************************)
EXTENDS Integers, FiniteSets

CONSTANTS
  NumHosts,  \* lines of the hostfile
  NumModes,  \* modes of --mode
  Emitters,  \* the ranks that print a metric line when they succeed
  Setups     \* group: the ranks are one process group (ICI)
             \* ident: detect_node_identity on each host, part of the log's name
             \* faults: "connect", "drop": ssh; "rank": a rank exits non-zero

Hosts == 0 .. NumHosts - 1

ASSUME HostsAssumption == NumHosts \in Nat \ {0}
ASSUME ModesAssumption == NumModes \in Nat \ {0}
ASSUME EmittersAssumption == Emitters \subseteq Hosts /\ Emitters # {}
\* Only the ICI launcher demands two hosts.
ASSUME SetupsAssumption ==
  \A s \in Setups : /\ s.group \in BOOLEAN /\ s.faults \subseteq {"connect", "drop", "rank"}
                    /\ s.group => NumHosts > 1

VARIABLES
  setup,    \* the script that runs, where and against what
  mode,     \* index of the mode the root is at
  verdict,  \* of that mode: "none", "pass" or "fail"
  pc,       \* pc[r]: where the script of host r stands
  last,     \* last[r]: the end of the list it was given
  pending,  \* pending[r]: the children it has yet to wait for, left before right
  failed,   \* failed[r]: its failed flag
  rank,     \* rank[r]: the benchmark process of host r
  ssh,      \* ssh[r]: the connection that runs host r's script, as its parent sees it
  tar,      \* tar[r]: the logs in the archive that came back over it
  logs      \* logs[r]: the ranks whose log is in r's output directory

vars == <<setup, mode, verdict, pc, last, pending, failed, rank, ssh, tar, logs>>

TypeOK ==
  /\ setup \in Setups
  /\ mode \in 0 .. NumModes - 1
  /\ verdict \in {"none", "pass", "fail"}
  /\ pc \in [Hosts -> {"absent", "spawn", "start", "wait", "collect", "exited"}]
  /\ last \in [Hosts -> Hosts]
  /\ pending \in [Hosts -> SUBSET Hosts]
  /\ failed \in [Hosts -> BOOLEAN]
  /\ rank \in [Hosts -> {"none", "running", "ok", "raised", "killed"}]
  /\ ssh \in [Hosts -> {"none", "up", "ok", "failed", "lost"}]
  /\ tar \in [Hosts -> SUBSET Hosts]
  /\ logs \in [Hosts -> SUBSET Hosts]

\* A mode starts with the root holding the list of all hosts.
Each(v) == [r \in Hosts |-> v]
FreshPc == [r \in Hosts |-> IF r = 0 THEN "spawn" ELSE "absent"]
FreshLast == [r \in Hosts |-> IF r = 0 THEN NumHosts - 1 ELSE r]

Init ==
  /\ setup \in Setups
  /\ mode = 0 /\ verdict = "none"
  /\ pc = FreshPc /\ last = FreshLast /\ pending = Each({})
  /\ failed = Each(FALSE) /\ rank = Each("none") /\ ssh = Each("none")
  /\ tar = Each({}) /\ logs = Each({})

-----------------------------------------------------------------------------
(* The split of a list: r keeps its head, the tail is halved.              *)

LeftCount(r) == (last[r] - r + 1) \div 2
LeftLast(r) == r + LeftCount(r)

\* Mutant: a half of one rank is taken for empty.
ChildrenOffByOne(r) == {c \in {r + 1, LeftLast(r) + 1} : c < last[r]}

Children(r) == {c \in {r + 1, LeftLast(r) + 1} : c <= last[r]}

\* Mutant: both slices run to the end of the list.
LastOfUncut(r, c) == last[r]

LastOf(r, c) == IF c = r + 1 THEN LeftLast(r) ELSE last[r]

\* Unpacking writes over the log of another rank with the same identity.
Unpack(have, new) ==
  new \union {x \in have : \A y \in new : setup.ident[x] # setup.ident[y]}

\* Mutants: a script that failed sends no archive; or its own log only.
ArchiveOnSuccess(r) == IF failed[r] THEN {} ELSE logs[r]
ArchiveOwn(r) == {r}

\* run_subtree sends the archive whatever the status is.
Archive(r) == logs[r]

\* Mutant: a connection that died is never noticed.
ReturnedStatus(c) == ssh[c] \in {"ok", "failed"}

Returned(c) == ssh[c] # "up"

\* Mutant: the status of the child is lost (|| and errexit).
ArchiveMissing(c) == tar[c] = {}

\* Only the ICI launcher takes an empty archive for a failure of its own.
ChildFailed(c) == ssh[c] # "ok" \/ (setup.group /\ tar[c] = {})

-----------------------------------------------------------------------------
(* The script on host r.                                                   *)

\* Both ssh clients go to the background before the local rank starts.
Spawn(r) ==
  /\ pc[r] = "spawn"
  /\ ssh' = [c \in Hosts |-> IF c \in Children(r) THEN "up" ELSE ssh[c]]
  /\ last' = [c \in Hosts |-> IF c \in Children(r) THEN LastOf(r, c) ELSE last[c]]
  /\ pending' = [pending EXCEPT ![r] = Children(r)]
  /\ pc' = [pc EXCEPT ![r] = "start"]
  /\ UNCHANGED <<setup, mode, verdict, failed, rank, tar, logs>>

StartRank(r) ==
  /\ pc[r] = "start"
  /\ rank' = [rank EXCEPT ![r] = "running"]
  /\ logs' = [logs EXCEPT ![r] = {r}]
  /\ pc' = [pc EXCEPT ![r] = "wait"]
  /\ UNCHANGED <<setup, mode, verdict, last, pending, failed, ssh, tar>>

WaitLocal(r) ==
  /\ pc[r] = "wait" /\ rank[r] # "running"
  /\ failed' = [failed EXCEPT ![r] = rank[r] # "ok"]
  /\ pc' = [pc EXCEPT ![r] = "collect"]
  /\ UNCHANGED <<setup, mode, verdict, last, pending, rank, ssh, tar, logs>>

CollectChild(r) ==
  /\ pc[r] = "collect"
  /\ \E c \in pending[r] :
       /\ \A d \in pending[r] : c <= d
       /\ Returned(c)
       /\ failed' = [failed EXCEPT ![r] = @ \/ ChildFailed(c)]
       /\ logs' = [logs EXCEPT ![r] = Unpack(@, tar[c])]
       /\ pending' = [pending EXCEPT ![r] = @ \ {c}]
  /\ UNCHANGED <<setup, mode, verdict, pc, last, rank, ssh, tar>>

Exit(r) ==
  /\ r # 0
  /\ pc[r] = "collect" /\ pending[r] = {}
  /\ pc' = [pc EXCEPT ![r] = "exited"]
  /\ IF ssh[r] = "up"
       THEN /\ ssh' = [ssh EXCEPT ![r] = IF failed[r] THEN "failed" ELSE "ok"]
            /\ tar' = [tar EXCEPT ![r] = Archive(r)]
       ELSE UNCHANGED <<ssh, tar>>
  /\ UNCHANGED <<setup, mode, verdict, last, pending, failed, rank, logs>>

-----------------------------------------------------------------------------
(* The root's judgement, and the loop over the modes.                      *)

\* Mutant: nobody counts the logs.
Uncounted == TRUE

Counted == Cardinality(logs[0]) = NumHosts

\* The ICI launcher also searches the logs for tracebacks and for metrics.
LogsPass ==
  /\ Counted
  /\ setup.group =>
       /\ \A r \in logs[0] : rank[r] # "raised"
       /\ \E r \in logs[0] : r \in Emitters /\ rank[r] = "ok"

Judge ==
  /\ verdict = "none"
  /\ pc[0] = "collect" /\ pending[0] = {}
  /\ verdict' = IF ~ failed[0] /\ LogsPass THEN "pass" ELSE "fail"
  /\ pc' = [pc EXCEPT ![0] = "exited"]
  /\ UNCHANGED <<setup, mode, last, pending, failed, rank, ssh, tar, logs>>

\* Mutant: the loop over the modes goes on after a failure.
AnyVerdict == verdict # "none"

\* A failed mode ends the script (die).
MayGoOn == verdict = "pass"

\* A host on its own runs all modes in one benchmark process.
Launches == IF setup.group THEN NumModes ELSE 1

NextMode ==
  /\ MayGoOn /\ mode + 1 < Launches
  /\ mode' = mode + 1 /\ verdict' = "none"
  /\ pc' = FreshPc /\ last' = FreshLast /\ pending' = Each({})
  /\ failed' = Each(FALSE) /\ rank' = Each("none") /\ ssh' = Each("none")
  /\ tar' = Each({}) /\ logs' = Each({})
  /\ UNCHANGED setup

-----------------------------------------------------------------------------
(* ssh (external) and the ranks.                                           *)

Connect(c) ==
  /\ ssh[c] = "up" /\ pc[c] = "absent"
  /\ pc' = [pc EXCEPT ![c] = "spawn"]
  /\ UNCHANGED <<setup, mode, verdict, last, pending, failed, rank, ssh, tar, logs>>

ConnectFails(c) ==
  /\ "connect" \in setup.faults
  /\ ssh[c] = "up" /\ pc[c] = "absent"
  /\ ssh' = [ssh EXCEPT ![c] = "lost"]
  /\ UNCHANGED <<setup, mode, verdict, pc, last, pending, failed, rank, tar, logs>>

\* The connection dies under a running script, which goes on without it.  If
\* the archive was on its way, a part of it may have arrived.
Drop(c) ==
  /\ "drop" \in setup.faults
  /\ ssh[c] = "up" /\ pc[c] \notin {"absent", "exited"}
  /\ ssh' = [ssh EXCEPT ![c] = "lost"]
  /\ \E part \in IF pc[c] = "collect" /\ pending[c] = {} THEN SUBSET Archive(c) ELSE {{}} :
       tar' = [tar EXCEPT ![c] = part]
  /\ UNCHANGED <<setup, mode, verdict, pc, last, pending, failed, rank, logs>>

\* run_rank, run_local_benchmark: the benchmark exits with 0.  A rank of a group
\* gets there only with all the others: JAX's process group forms when every
\* rank is there, and none leaves sync_global_devices (test_ici.py) before all
\* have come through their cases.
RankSucceeds(r) ==
  /\ rank[r] = "running"
  /\ setup.group => \A q \in Hosts : rank[q] \in {"running", "ok"}
  /\ rank' = [rank EXCEPT ![r] = "ok"]
  /\ UNCHANGED <<setup, mode, verdict, pc, last, pending, failed, ssh, tar, logs>>

RankFails(r) ==
  /\ "rank" \in setup.faults
  /\ rank[r] = "running"
  /\ \E end \in {"raised", "killed"} : rank' = [rank EXCEPT ![r] = end]
  /\ UNCHANGED <<setup, mode, verdict, pc, last, pending, failed, ssh, tar, logs>>

-----------------------------------------------------------------------------
Script(r) == Spawn(r) \/ StartRank(r) \/ WaitLocal(r) \/ CollectChild(r) \/ Exit(r)

Root == Judge \/ NextMode

Outside(r) ==
  \/ Connect(r) \/ ConnectFails(r) \/ Drop(r) \/ RankSucceeds(r) \/ RankFails(r)

\* The launcher has exited; scripts it lost touch with may still be running.
Over == verdict = "fail" \/ (verdict = "pass" /\ mode + 1 = Launches)

Next ==
  \/ \E r \in Hosts : Script(r) \/ Outside(r)
  \/ Root
  \/ Over /\ UNCHANGED vars

Spec == Init /\ [][Next]_vars

Fairness ==
  /\ WF_vars(Root)
  /\ \A r \in Hosts : /\ WF_vars(Script(r))
                      /\ WF_vars(Connect(r) \/ ConnectFails(r))
                      /\ WF_vars(RankSucceeds(r) \/ RankFails(r))
FairSpec == Spec /\ Fairness

-----------------------------------------------------------------------------
(* Properties.                                                             *)

\* A mode passes only when every rank of the hostfile has exited with 0: the
\* status of each pipeline travels up the tree (run_rank, subtree_execute_node,
\* run_subtree, run_slice_mode), whatever || does to errexit.
PassMeansAllRanksSucceeded ==
  verdict = "pass" => \A r \in Hosts : rank[r] = "ok"

\* ... and only when the log of each rank is there, none written over by a
\* host that reports the same identity.
PassMeansAllLogs == verdict = "pass" => logs[0] = Hosts

\* With its connections intact the tree brings a log of every identity to the
\* root, also when ranks fail (tests/test_launchers.py).
FailureKeepsLogs ==
  verdict # "none" /\ (\A r \in Hosts : ssh[r] # "lost") =>
    \A h \in Hosts : \E x \in logs[0] : setup.ident[x] = setup.ident[h]

\* A script hands out ranks that nobody was given before.
FreshChildren ==
  \A r, c \in Hosts : pc[r] = "spawn" /\ c \in Children(r) =>
    ssh[c] = "none" /\ pc[c] = "absent" /\ rank[c] = "none"

\* r was given a list that it has not handed out yet (or never will).
Unspawned(r) == pc[r] = "spawn" \/ (ssh[r] # "none" /\ pc[r] = "absent")

Holds(r, h) == r < h /\ h <= last[r] /\ Unspawned(r)

\* No rank is forgotten: it is in the list of a script that has still to hand
\* it out, or it was handed out.
NobodyForgotten ==
  \A h \in Hosts \ {0} : ssh[h] # "none" \/ \E r \in Hosts : Holds(r, h)

\* The next mode never starts while a rank of this one holds its chips.
ModesDoNotOverlap ==
  [][mode' # mode => \A r \in Hosts : rank[r] # "running"]_vars

\* With intact connections, ranks that succeed and hosts that report names of
\* their own all modes pass.
AllModesPass ==
  [](/\ \A r \in Hosts : ssh[r] # "lost" /\ rank[r] \notin {"raised", "killed"}
     /\ \A q, r \in Hosts : setup.ident[q] = setup.ident[r] => q = r) =>
    <>(verdict = "pass" /\ mode + 1 = Launches)

\* Whatever happens to ssh and the ranks, the launcher comes to an end.
LauncherEnds == <>[]Over
=============================================================================
