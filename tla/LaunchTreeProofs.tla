-------------------------- MODULE LaunchTreeProofs --------------------------
(***************************************************************************)
(* For every number of hosts: the tree hands each rank out once and        *)
(* forgets none, and a mode that passes has had every rank exit with 0.    *)
(* The argument needs no induction over the tree: the invariant speaks of  *)
(* the interval of ranks a script was given.                               *)
(***************************************************************************)
EXTENDS LaunchTree, FiniteSetTheorems, TLAPS

Untouched(h) == h # 0 /\ ssh[h] = "none" /\ pc[h] = "absent" /\ rank[h] = "none"

\* The tail of a list nobody has split is untouched.
TailInv ==
  \A r \in Hosts : Unspawned(r) => \A h \in Hosts : r < h /\ h <= last[r] => Untouched(h)

ScriptInv ==
  /\ pc[0] # "absent" /\ ssh[0] = "none" /\ last[0] = NumHosts - 1
  /\ \A r \in Hosts :
       /\ r <= last[r]
       /\ pc[r] # "absent" => r = 0 \/ ssh[r] # "none"
       /\ pc[r] \in {"absent", "spawn", "start"} => rank[r] = "none"
       /\ ssh[r] \in {"ok", "failed"} => pc[r] = "exited"
       /\ pc[r] = "exited" => pending[r] = {}
       /\ pc[r] \in {"start", "wait"} => pending[r] = Children(r)

\* A script that has split its list stays the parent of the two halves.
ParentInv ==
  \A r \in Hosts : pc[r] \notin {"absent", "spawn"} =>
    \A c \in Children(r) : ssh[c] # "none" /\ last[c] = LastOf(r, c)

\* A clear flag vouches for the rank and for the children waited for.
FlagInv ==
  \A r \in Hosts : pc[r] \in {"collect", "exited"} /\ ~ failed[r] =>
    rank[r] = "ok" /\ \A c \in Children(r) \ pending[r] : ssh[c] = "ok"

\* A connection that returned 0 vouches for its whole list.
StatusInv ==
  \A c \in Hosts : ssh[c] = "ok" =>
    \A h \in Hosts : c <= h /\ h <= last[c] => rank[h] = "ok"

VerdictInv ==
  verdict = "pass" => pc[0] = "exited" /\ ~ failed[0] /\ logs[0] = Hosts

TreeInv ==
  /\ TypeOK /\ TailInv /\ ScriptInv /\ ParentInv /\ FlagInv /\ StatusInv
  /\ VerdictInv /\ NobodyForgotten

-----------------------------------------------------------------------------
\* Half of a list of at least two ranks is at least one and at most the tail.
LEMMA SplitFacts ==
  ASSUME TypeOK, ScriptInv, NEW r \in Hosts
  PROVE  /\ LeftLast(r) \in Int /\ r <= LeftLast(r) /\ LeftLast(r) <= last[r]
         /\ r < last[r] => r + 1 <= LeftLast(r)
         /\ Children(r) \subseteq Hosts
         /\ \A c \in Children(r) : r < c /\ c <= last[r]
         /\ \A c \in Children(r) :
              LastOf(r, c) \in Hosts /\ c <= LastOf(r, c) /\ LastOf(r, c) <= last[r]
         /\ \A c, d \in Children(r) : ~ (c < d /\ d <= LastOf(r, c))
         /\ \A h \in Hosts : r < h /\ h <= last[r] =>
              \E c \in Children(r) : c <= h /\ h <= LastOf(r, c)
<1> USE HostsAssumption DEF Hosts
<1>1. last[r] \in Int /\ r \in Int /\ r <= last[r] /\ last[r] < NumHosts
  BY DEF TypeOK, ScriptInv
<1>2. LeftLast(r) \in Int /\ r <= LeftLast(r) /\ LeftLast(r) <= last[r]
      /\ (r < last[r] => r + 1 <= LeftLast(r))
  BY <1>1 DEF LeftLast, LeftCount
<1>3. Children(r) \subseteq Hosts /\ \A c \in Children(r) : r < c /\ c <= last[r]
  BY <1>1, <1>2 DEF Children
<1>4. /\ \A c \in Children(r) :
           LastOf(r, c) \in Hosts /\ c <= LastOf(r, c) /\ LastOf(r, c) <= last[r]
      /\ \A c, d \in Children(r) : ~ (c < d /\ d <= LastOf(r, c))
  BY <1>1, <1>2 DEF Children, LastOf
<1>5. ASSUME NEW h \in Hosts, r < h, h <= last[r]
      PROVE  \E c \in Children(r) : c <= h /\ h <= LastOf(r, c)
  <2>1. CASE h <= LeftLast(r)
    <3>1. r + 1 \in Children(r) /\ LastOf(r, r + 1) = LeftLast(r)
      BY <1>1, <1>5 DEF Children, LastOf
    <3>2. QED
      BY <2>1, <3>1, <1>5
  <2>2. CASE LeftLast(r) < h
    <3>1. LeftLast(r) + 1 \in Children(r) /\ LastOf(r, LeftLast(r) + 1) = last[r]
      BY <1>1, <1>2, <1>5, <2>2 DEF Children, LastOf
    <3>2. QED
      BY <1>2, <2>2, <3>1, <1>5
  <2>3. QED
    BY <1>2, <2>1, <2>2
<1>6. QED
  BY <1>2, <1>3, <1>4, <1>5

LEMMA InitTreeInv == Init => TreeInv
<1> SUFFICES ASSUME Init PROVE TreeInv
  OBVIOUS
<1> USE HostsAssumption, ModesAssumption DEF Init, Each, FreshPc, FreshLast, Hosts
<1>1. TypeOK
  BY DEF TypeOK
<1>2. TailInv /\ ScriptInv
  BY DEF TailInv, ScriptInv, Unspawned, Untouched
<1>3. ParentInv /\ FlagInv /\ StatusInv /\ VerdictInv
  BY DEF ParentInv, FlagInv, StatusInv, VerdictInv
<1>4. NobodyForgotten
  BY DEF NobodyForgotten, Holds, Unspawned
<1>5. QED
  BY <1>1, <1>2, <1>3, <1>4 DEF TreeInv

-----------------------------------------------------------------------------
(* Splitting a list.                                                       *)

\* What the steps of a script on r cannot disturb: the children of r are
\* untouched, and none of them is in the list of another unspawned script.
LEMMA SpawnFacts ==
  ASSUME TreeInv, NEW r \in Hosts, pc[r] = "spawn"
  PROVE  /\ \A c \in Children(r) : c \in Hosts /\ Untouched(c) /\ c # r
         /\ \A q \in Hosts : Unspawned(q) /\ q # r =>
              \A c \in Children(r) : ~ (q < c /\ c <= last[q])
<1>1. \A c \in Children(r) : c \in Hosts /\ r < c /\ c <= last[r]
  BY SplitFacts DEF TreeInv
<1>2. \A c \in Children(r) : Untouched(c)
  BY <1>1 DEF TreeInv, TailInv, Unspawned
<1>3. ASSUME NEW q \in Hosts, Unspawned(q), q # r, NEW c \in Children(r),
             q < c, c <= last[q]
      PROVE  FALSE
  <2>1. q \in Int /\ r \in Int /\ c \in Int /\ last[q] \in Int /\ last[r] \in Int
    BY <1>1, HostsAssumption DEF Hosts, TreeInv, TypeOK
  <2>2. CASE q < r
    <3>1. r <= last[q]
      BY <2>1, <2>2, <1>1, <1>3
    <3>2. Untouched(r)
      BY <3>1, <2>2, <1>3 DEF TreeInv, TailInv
    <3>3. QED
      BY <3>2 DEF Untouched
  <2>3. CASE r < q
    <3>1. q <= last[r]
      BY <2>1, <2>3, <1>1, <1>3
    <3>2. Untouched(q)
      BY <3>1, <2>3 DEF TreeInv, TailInv, Unspawned
    <3>3. QED
      BY <3>2, <1>3 DEF Untouched, Unspawned
  <2>4. QED
    BY <2>1, <2>2, <2>3, <1>3
<1>4. QED
  BY <1>1, <1>2, <1>3, HostsAssumption DEF Hosts

LEMMA SpawnTreeInv ==
  ASSUME TreeInv, NEW r \in Hosts, Spawn(r)
  PROVE  TreeInv'
<1> DEFINE K == Children(r)
<1>1. /\ \A c \in K : c \in Hosts /\ Untouched(c) /\ c # r
      /\ \A q \in Hosts : Unspawned(q) /\ q # r =>
           \A c \in K : ~ (q < c /\ c <= last[q])
  BY SpawnFacts DEF Spawn
<1>2. /\ \A c \in K : /\ LastOf(r, c) \in Hosts /\ c <= LastOf(r, c)
                      /\ LastOf(r, c) <= last[r] /\ r < c
      /\ \A c, d \in K : ~ (c < d /\ d <= LastOf(r, c))
      /\ \A h \in Hosts : r < h /\ h <= last[r] =>
           \E c \in K : c <= h /\ h <= LastOf(r, c)
  BY SplitFacts DEF TreeInv
<1>3. /\ \A c \in K : ssh'[c] = "up" /\ last'[c] = LastOf(r, c)
      /\ \A q \in Hosts \ K : ssh'[q] = ssh[q] /\ last'[q] = last[q]
      /\ \A q \in Hosts : pc'[q] = IF q = r THEN "start" ELSE pc[q]
      /\ \A q \in Hosts : pending'[q] = IF q = r THEN K ELSE pending[q]
      /\ pc[r] = "spawn" /\ r \notin K
      /\ rank' = rank /\ failed' = failed /\ verdict' = verdict /\ logs' = logs
  BY <1>1 DEF Spawn, TreeInv, TypeOK
<1>4. TypeOK'
  BY <1>1, <1>2 DEF TreeInv, TypeOK, Spawn
<1>5. \A q \in Hosts \ K : Children(q)' = Children(q) /\ \A c : LastOf(q, c)' = LastOf(q, c)
  BY <1>3 DEF Children, LastOf, LeftLast, LeftCount
<1> HIDE DEF K
<1>6. \A c \in K : pc[c] = "absent" /\ ssh[c] = "none" /\ c # 0 /\ rank[c] = "none"
  BY <1>1 DEF Untouched
<1>7. TailInv'
  <2> SUFFICES ASSUME NEW q \in Hosts, Unspawned(q)', NEW h \in Hosts, q < h, h <= last'[q]
               PROVE  Untouched(h)'
    BY DEF TailInv
  <2>1. CASE q \in K
    <3>1. h \notin K /\ r < h /\ h <= last[r]
      <4>1. last[r] \in Int /\ r \in Int /\ q \in Int /\ h \in Int /\ LastOf(r, q) \in Int
        BY <2>1, <1>2, HostsAssumption DEF Hosts, TreeInv, TypeOK
      <4>2. QED
        BY <4>1, <2>1, <1>2, <1>3
    <3>2. Untouched(h)
      BY <3>1, <1>3 DEF TreeInv, TailInv, Unspawned
    <3>3. QED
      BY <3>1, <3>2, <1>3 DEF Untouched
  <2>2. CASE q \notin K
    <3>1. q # r /\ Unspawned(q) /\ last'[q] = last[q]
      BY <2>2, <1>3 DEF Unspawned
    <3>2. Untouched(h) /\ h \notin K
      BY <3>1, <1>1 DEF TreeInv, TailInv
    <3>3. h # r
      BY <3>2, <1>3 DEF Untouched
    <3>4. QED
      BY <3>2, <3>3, <1>3 DEF Untouched
  <2>3. QED
    BY <2>1, <2>2
<1>8. ScriptInv'
  <2>1. pc'[0] # "absent" /\ ssh'[0] = "none" /\ last'[0] = NumHosts - 1
    BY <1>3, <1>6, HostsAssumption DEF TreeInv, ScriptInv, Hosts
  <2>2. ASSUME NEW q \in Hosts
        PROVE  /\ q <= last'[q]
               /\ pc'[q] # "absent" => q = 0 \/ ssh'[q] # "none"
               /\ pc'[q] \in {"absent", "spawn", "start"} => rank'[q] = "none"
               /\ ssh'[q] \in {"ok", "failed"} => pc'[q] = "exited"
               /\ pc'[q] = "exited" => pending'[q] = {}
    BY <1>2, <1>3, <1>6 DEF TreeInv, ScriptInv
  <2>3. ASSUME NEW q \in Hosts, pc'[q] \in {"start", "wait"}
        PROVE  pending'[q] = Children(q)'
    <3>1. q \notin K
      BY <2>3, <1>3, <1>6
    <3>2. QED
      BY <3>1, <2>3, <1>3, <1>5 DEF TreeInv, ScriptInv, K
  <2>4. QED
    BY <2>1, <2>2, <2>3 DEF ScriptInv
<1>9. ParentInv'
  <2> SUFFICES ASSUME NEW q \in Hosts, pc'[q] \notin {"absent", "spawn"},
                      NEW c \in Children(q)'
               PROVE  ssh'[c] # "none" /\ last'[c] = LastOf(q, c)'
    BY DEF ParentInv
  <2>1. q \notin K
    BY <1>3, <1>6
  <2>2. CASE q = r
    BY <2>1, <2>2, <1>3, <1>5 DEF K
  <2>3. CASE q # r
    <3>1. c \in Children(q) /\ ssh[c] # "none" /\ last[c] = LastOf(q, c)
      BY <2>1, <2>3, <1>3, <1>5 DEF TreeInv, ParentInv
    <3>2. c \in Hosts
      BY <3>1, SplitFacts DEF TreeInv
    <3>3. QED
      BY <3>1, <3>2, <2>1, <1>3, <1>5, <1>6
  <2>4. QED
    BY <2>2, <2>3
<1>10. FlagInv'
  <2> SUFFICES ASSUME NEW q \in Hosts, pc'[q] \in {"collect", "exited"}, ~ failed'[q]
               PROVE  rank'[q] = "ok" /\ \A c \in Children(q)' \ pending'[q] : ssh'[c] = "ok"
    BY DEF FlagInv
  <2>1. q \notin K /\ q # r
    BY <1>3, <1>6
  <2>2. rank[q] = "ok" /\ \A c \in Children(q) \ pending[q] : ssh[c] = "ok" /\ c \in Hosts
    BY <2>1, <1>3, SplitFacts DEF TreeInv, FlagInv
  <2>3. QED
    BY <2>1, <2>2, <1>3, <1>5, <1>6
<1>11. StatusInv'
  BY <1>3 DEF TreeInv, StatusInv
<1>12. VerdictInv'
  BY <1>3, HostsAssumption DEF TreeInv, VerdictInv, Hosts
<1>13. NobodyForgotten'
  <2> SUFFICES ASSUME NEW h \in Hosts \ {0}, ssh'[h] = "none"
               PROVE  \E q \in Hosts : Holds(q, h)'
    BY DEF NobodyForgotten
  <2>1. ssh[h] = "none" /\ h \notin K
    BY <1>3
  <2>2. PICK q \in Hosts : Holds(q, h)
    BY <2>1 DEF TreeInv, NobodyForgotten
  <2>3. CASE q = r
    <3>1. \E c \in K : c <= h /\ h <= LastOf(r, c)
      <4>1. r < h /\ h <= last[r]
        BY <2>2, <2>3 DEF Holds
      <4>2. QED
        BY <4>1, <1>2
    <3>2. PICK c \in K : c <= h /\ h <= LastOf(r, c)
      BY <3>1
    <3>3. c \in Hosts /\ c < h
      BY <3>2, <2>1, <1>1, HostsAssumption DEF Hosts
    <3>4. Holds(c, h)'
      BY <3>2, <3>3, <1>3, <1>6 DEF Holds, Unspawned
    <3>5. QED
      BY <3>3, <3>4
  <2>4. CASE q # r
    <3>1. q \notin K
      BY <2>2, <1>6 DEF Holds, Unspawned
    <3>2. Holds(q, h)'
      BY <3>1, <2>2, <2>4, <1>3 DEF Holds, Unspawned
    <3>3. QED
      BY <3>2
  <2>5. QED
    BY <2>3, <2>4
<1>14. QED
  BY <1>4, <1>7, <1>8, <1>9, <1>10, <1>11, <1>12, <1>13 DEF TreeInv

-----------------------------------------------------------------------------
(* The steps that give nobody a list.                                      *)

\* Without a change of `last` every split stays what it was.
LEMMA SameSplit ==
  ASSUME last' = last
  PROVE  \A r : /\ Children(r)' = Children(r)
                /\ \A c : LastOf(r, c)' = LastOf(r, c)
BY DEF Children, LastOf, LeftLast, LeftCount

LEMMA LocalTreeInv ==
  ASSUME TreeInv, NEW r \in Hosts, StartRank(r) \/ WaitLocal(r) \/ CollectChild(r)
  PROVE  TreeInv'
<1> USE DEF TreeInv, StartRank, WaitLocal, CollectChild
<1>1. last' = last /\ ssh' = ssh /\ verdict' = verdict
  OBVIOUS
<1>2. /\ \A q : Children(q)' = Children(q)
      /\ \A q, c : LastOf(q, c)' = LastOf(q, c)
  BY <1>1, SameSplit
<1>3. \A q \in Hosts : q # r => /\ pc'[q] = pc[q] /\ pending'[q] = pending[q]
                               /\ failed'[q] = failed[q] /\ rank'[q] = rank[q]
                               /\ logs'[q] = logs[q]
  BY DEF TypeOK
<1>4. pc[r] \in {"start", "wait", "collect"} /\ pc'[r] \in {"wait", "collect"}
  BY DEF TypeOK
<1>5. TypeOK'
  <2>1. CASE StartRank(r)
    BY <2>1 DEF TypeOK
  <2>2. CASE WaitLocal(r)
    <3>1. (rank[r] # "ok") \in BOOLEAN
      OBVIOUS
    <3>2. failed' \in [Hosts -> BOOLEAN]
      BY <2>2, <3>1 DEF TypeOK
    <3>3. QED
      BY <2>2, <3>2 DEF TypeOK
  <2>3. CASE CollectChild(r)
    <3>1. PICK c \in pending[r] :
            /\ failed' = [failed EXCEPT ![r] = @ \/ ChildFailed(c)]
            /\ logs' = [logs EXCEPT ![r] = Unpack(@, tar[c])]
            /\ pending' = [pending EXCEPT ![r] = @ \ {c}]
      BY <2>3
    <3>2. c \in Hosts
      BY DEF TypeOK
    <3>3. Unpack(logs[r], tar[c]) \in SUBSET Hosts
      BY <3>2 DEF Unpack, TypeOK
    <3>4. (failed[r] \/ ChildFailed(c)) \in BOOLEAN
      OBVIOUS
    <3>5. failed' \in [Hosts -> BOOLEAN]
      BY <3>1, <3>4 DEF TypeOK
    <3>6. logs' \in [Hosts -> SUBSET Hosts] /\ pending' \in [Hosts -> SUBSET Hosts]
      BY <3>1, <3>3 DEF TypeOK
    <3>7. QED
      BY <2>3, <3>5, <3>6 DEF TypeOK
  <2>4. QED
    BY <2>1, <2>2, <2>3
<1>6. TailInv'
  <2> SUFFICES ASSUME NEW q \in Hosts, Unspawned(q)', NEW h \in Hosts, q < h, h <= last'[q]
               PROVE  Untouched(h)'
    BY DEF TailInv
  <2>1. q # r /\ Unspawned(q)
    BY <1>1, <1>3, <1>4 DEF Unspawned
  <2>2. Untouched(h) /\ h # r
    BY <2>1, <1>1, <1>4 DEF TailInv, Untouched
  <2>3. QED
    BY <2>2, <1>1, <1>3 DEF Untouched
<1>7. ScriptInv'
  <2>1. pc'[0] # "absent" /\ ssh'[0] = "none" /\ last'[0] = NumHosts - 1
    BY <1>1, <1>3, <1>4, HostsAssumption DEF ScriptInv, Hosts
  <2>2. ASSUME NEW q \in Hosts
        PROVE  /\ q <= last'[q]
               /\ pc'[q] # "absent" => q = 0 \/ ssh'[q] # "none"
               /\ pc'[q] \in {"absent", "spawn", "start"} => rank'[q] = "none"
               /\ ssh'[q] \in {"ok", "failed"} => pc'[q] = "exited"
               /\ pc'[q] = "exited" => pending'[q] = {}
    BY <2>2, <1>1, <1>3, <1>4 DEF ScriptInv
  <2>3. ASSUME NEW q \in Hosts, pc'[q] \in {"start", "wait"}
        PROVE  pending'[q] = Children(q)'
    <3>1. CASE q = r
      BY <2>3, <3>1, <1>2, <1>4 DEF ScriptInv, TypeOK
    <3>2. CASE q # r
      BY <2>3, <3>2, <1>2, <1>3 DEF ScriptInv
    <3>3. QED
      BY <3>1, <3>2
  <2>4. QED
    BY <2>1, <2>2, <2>3 DEF ScriptInv
<1>8. ParentInv'
  BY <1>1, <1>2, <1>3, <1>4 DEF ParentInv
<1>9. FlagInv'
  <2> SUFFICES ASSUME NEW q \in Hosts, pc'[q] \in {"collect", "exited"}, ~ failed'[q]
               PROVE  rank'[q] = "ok" /\ \A c \in Children(q) \ pending'[q] : ssh[c] = "ok"
    BY <1>1, <1>2 DEF FlagInv
  <2>1. CASE q # r
    BY <2>1, <1>3 DEF FlagInv
  <2>2. CASE q = r /\ StartRank(r)
    BY <2>2, <1>4 DEF TypeOK
  <2>3. CASE q = r /\ WaitLocal(r)
    <3>1. pending'[r] = Children(r)
      BY <2>3 DEF ScriptInv
    <3>2. rank'[r] = "ok"
      BY <2>3 DEF TypeOK
    <3>3. QED
      BY <2>3, <3>1, <3>2
  <2>4. CASE q = r /\ CollectChild(r)
    <3>1. PICK c \in pending[r] :
            /\ failed' = [failed EXCEPT ![r] = @ \/ ChildFailed(c)]
            /\ pending' = [pending EXCEPT ![r] = @ \ {c}]
      BY <2>4
    <3>2. pending'[r] = pending[r] \ {c}
      BY <3>1 DEF TypeOK
    <3>3. ~ failed[r] /\ ssh[c] = "ok"
      <4>1. failed'[r] = (failed[r] \/ ChildFailed(c))
        BY <3>1 DEF TypeOK
      <4>2. QED
        BY <4>1, <2>4 DEF ChildFailed
    <3>4. rank'[r] = "ok" /\ \A d \in Children(r) \ pending[r] : ssh[d] = "ok"
      BY <2>4, <3>3 DEF FlagInv
    <3>5. QED
      BY <2>4, <3>2, <3>3, <3>4
  <2>5. QED
    BY <2>1, <2>2, <2>3, <2>4
<1>10. StatusInv'
  <2>1. \A h \in Hosts : rank[h] = "ok" => rank'[h] = "ok"
    <3>1. CASE StartRank(r)
      BY <3>1, <1>3 DEF ScriptInv
    <3>2. CASE ~ StartRank(r)
      BY <3>2
    <3>3. QED
      BY <3>1, <3>2
  <2>2. QED
    BY <2>1, <1>1 DEF StatusInv
<1>11. VerdictInv'
  <2>1. verdict = "pass" => r # 0
    BY <1>4 DEF VerdictInv
  <2>2. QED
    BY <2>1, <1>1, <1>3, HostsAssumption DEF VerdictInv, Hosts
<1>12. NobodyForgotten'
  <2>1. \A q \in Hosts, h \in Hosts : Holds(q, h) => Holds(q, h)'
    BY <1>1, <1>3, <1>4 DEF Holds, Unspawned
  <2>2. QED
    BY <2>1, <1>1 DEF NobodyForgotten
<1>13. QED
  BY <1>5, <1>6, <1>7, <1>8, <1>9, <1>10, <1>11, <1>12

LEMMA ExitTreeInv ==
  ASSUME TreeInv, NEW r \in Hosts, Exit(r)
  PROVE  TreeInv'
<1> USE DEF TreeInv, Exit, Archive
<1>1. /\ last' = last /\ verdict' = verdict /\ rank' = rank /\ failed' = failed
      /\ pending' = pending /\ logs' = logs /\ r # 0 /\ pending[r] = {}
  OBVIOUS
<1>2. /\ \A q : Children(q)' = Children(q)
      /\ \A q, c : LastOf(q, c)' = LastOf(q, c)
  BY <1>1, SameSplit
<1>3. /\ \A q \in Hosts : q # r => pc'[q] = pc[q] /\ ssh'[q] = ssh[q]
      /\ pc[r] = "collect" /\ pc'[r] = "exited"
      /\ ssh'[r] # ssh[r] => ssh[r] = "up" /\ ssh'[r] = IF failed[r] THEN "failed" ELSE "ok"
  BY DEF TypeOK
<1>4. TypeOK'
  BY DEF TypeOK
<1>5. TailInv'
  BY <1>1, <1>3 DEF TailInv, Unspawned, Untouched, ScriptInv
<1>6. ScriptInv'
  <2>1. pc'[0] # "absent" /\ ssh'[0] = "none" /\ last'[0] = NumHosts - 1
    BY <1>1, <1>3, HostsAssumption DEF ScriptInv, Hosts
  <2>2. ASSUME NEW q \in Hosts
        PROVE  /\ q <= last'[q]
               /\ pc'[q] # "absent" => q = 0 \/ ssh'[q] # "none"
               /\ pc'[q] \in {"absent", "spawn", "start"} => rank'[q] = "none"
               /\ ssh'[q] \in {"ok", "failed"} => pc'[q] = "exited"
               /\ pc'[q] = "exited" => pending'[q] = {}
               /\ pc'[q] \in {"start", "wait"} => pending'[q] = Children(q)'
    BY <2>2, <1>1, <1>2, <1>3 DEF ScriptInv
  <2>3. QED
    BY <2>1, <2>2 DEF ScriptInv
<1>7. ParentInv'
  <2> SUFFICES ASSUME NEW q \in Hosts, pc[q] \notin {"absent", "spawn"}, NEW c \in Children(q)
               PROVE  ssh'[c] # "none" /\ last[c] = LastOf(q, c)
    BY <1>1, <1>2, <1>3 DEF ParentInv
  <2>1. c \in Hosts /\ ssh[c] # "none" /\ last[c] = LastOf(q, c)
    BY SplitFacts DEF ParentInv
  <2>2. QED
    BY <2>1, <1>3
<1>8. FlagInv'
  <2> SUFFICES ASSUME NEW q \in Hosts, pc[q] \in {"collect", "exited"}, ~ failed[q]
               PROVE  rank[q] = "ok" /\ \A c \in Children(q) \ pending[q] : ssh'[c] = "ok"
    BY <1>1, <1>2, <1>3 DEF FlagInv
  <2>1. rank[q] = "ok" /\ \A c \in Children(q) \ pending[q] : c \in Hosts /\ ssh[c] = "ok"
    BY SplitFacts DEF FlagInv
  <2>2. QED
    BY <2>1, <1>3
<1>9. StatusInv'
  <2> SUFFICES ASSUME NEW c \in Hosts, ssh'[c] = "ok", NEW h \in Hosts, c <= h, h <= last[c]
               PROVE  rank[h] = "ok"
    BY <1>1 DEF StatusInv
  <2>1. CASE ssh[c] = "ok"
    BY <2>1 DEF StatusInv
  <2>2. CASE ssh[c] # "ok"
    <3>1. c = r /\ ~ failed[r]
      BY <2>2, <1>3
    <3>2. rank[r] = "ok" /\ \A d \in Children(r) : ssh[d] = "ok"
      BY <3>1, <1>1, <1>3 DEF FlagInv
    <3>3. CASE h = r
      BY <3>2, <3>3
    <3>4. CASE h # r
      <4>1. r < h /\ h <= last[r]
        BY <3>1, <3>4, HostsAssumption DEF Hosts
      <4>2. PICK d \in Children(r) : d <= h /\ h <= LastOf(r, d)
        BY <4>1, SplitFacts
      <4>3. d \in Hosts /\ last[d] = LastOf(r, d)
        BY <1>3, SplitFacts DEF ParentInv
      <4>4. QED
        BY <4>2, <4>3, <3>2 DEF StatusInv
    <3>5. QED
      BY <3>3, <3>4
  <2>3. QED
    BY <2>1, <2>2
<1>10. VerdictInv'
  BY <1>1, <1>3, HostsAssumption DEF VerdictInv, Hosts
<1>11. NobodyForgotten'
  <2>1. \A q \in Hosts, h \in Hosts : Holds(q, h) => Holds(q, h)'
    BY <1>1, <1>3 DEF Holds, Unspawned
  <2>2. QED
    BY <2>1, <1>1, <1>3 DEF NobodyForgotten
<1>12. QED
  BY <1>4, <1>5, <1>6, <1>7, <1>8, <1>9, <1>10, <1>11

LEMMA OutsideTreeInv ==
  ASSUME TreeInv, NEW r \in Hosts, Outside(r)
  PROVE  TreeInv'
<1> USE DEF TreeInv
<1>1. /\ last' = last /\ verdict' = verdict /\ failed' = failed
      /\ pending' = pending /\ logs' = logs
      /\ \A q : Children(q)' = Children(q)
      /\ \A q, c : LastOf(q, c)' = LastOf(q, c)
  BY SameSplit DEF Outside, Connect, ConnectFails, Drop, RankSucceeds, RankFails
<1>2. CASE Connect(r) \/ ConnectFails(r) \/ Drop(r)
  <2> USE <1>2 DEF Connect, ConnectFails, Drop, Archive
  <2>1. /\ rank' = rank
        /\ \A q \in Hosts : q # r => pc'[q] = pc[q] /\ ssh'[q] = ssh[q]
        /\ ssh[r] = "up" /\ ssh'[r] \in {"up", "lost"}
        /\ pc'[r] = pc[r] \/ (pc[r] = "absent" /\ pc'[r] = "spawn")
    BY DEF TypeOK
  <2>2. TypeOK'
    BY DEF TypeOK
  <2>3. TailInv'
    BY <1>1, <2>1 DEF TailInv, Unspawned, Untouched
  <2>4. ScriptInv'
    BY <1>1, <2>1, HostsAssumption DEF ScriptInv, Hosts
  <2>5. ParentInv'
    <3> SUFFICES ASSUME NEW q \in Hosts, pc[q] \notin {"absent", "spawn"}, NEW c \in Children(q)
                 PROVE  ssh'[c] # "none" /\ last[c] = LastOf(q, c)
      BY <1>1, <2>1 DEF ParentInv
    <3>1. c \in Hosts /\ ssh[c] # "none" /\ last[c] = LastOf(q, c)
      BY SplitFacts DEF ParentInv
    <3>2. QED
      BY <3>1, <2>1
  <2>6. FlagInv'
    <3> SUFFICES ASSUME NEW q \in Hosts, pc[q] \in {"collect", "exited"}, ~ failed[q]
                 PROVE  rank[q] = "ok" /\ \A c \in Children(q) \ pending[q] : ssh'[c] = "ok"
      BY <1>1, <2>1 DEF FlagInv
    <3>1. rank[q] = "ok" /\ \A c \in Children(q) \ pending[q] : c \in Hosts /\ ssh[c] = "ok"
      BY SplitFacts DEF FlagInv
    <3>2. QED
      BY <3>1, <2>1
  <2>7. StatusInv' /\ VerdictInv'
    BY <1>1, <2>1, HostsAssumption DEF StatusInv, VerdictInv, Hosts
  <2>8. NobodyForgotten'
    <3>1. \A q \in Hosts, h \in Hosts : Holds(q, h) => Holds(q, h)'
      BY <1>1, <2>1 DEF Holds, Unspawned
    <3>2. QED
      BY <3>1, <1>1, <2>1 DEF NobodyForgotten
  <2>9. QED
    BY <2>2, <2>3, <2>4, <2>5, <2>6, <2>7, <2>8
<1>3. CASE RankSucceeds(r) \/ RankFails(r)
  <2>1. /\ pc' = pc /\ ssh' = ssh /\ rank[r] = "running"
        /\ \A q \in Hosts : q # r => rank'[q] = rank[q]
    BY <1>3 DEF RankSucceeds, RankFails, TypeOK
  <2>2. TypeOK'
    BY <1>3 DEF RankSucceeds, RankFails, TypeOK
  <2>3. TailInv'
    BY <1>1, <2>1 DEF TailInv, Unspawned, Untouched
  <2>4. ScriptInv'
    BY <1>1, <2>1 DEF ScriptInv
  <2>5. ParentInv' /\ VerdictInv'
    BY <1>1, <2>1 DEF ParentInv, VerdictInv
  <2>6. FlagInv' /\ StatusInv'
    BY <1>1, <2>1 DEF FlagInv, StatusInv
  <2>7. NobodyForgotten'
    BY <1>1, <2>1 DEF NobodyForgotten, Holds, Unspawned
  <2>8. QED
    BY <2>2, <2>3, <2>4, <2>5, <2>6, <2>7
<1>4. QED
  BY <1>2, <1>3 DEF Outside

\* Counting the logs is enough: they are a part of the ranks.
LEMMA AllLogs ==
  ASSUME TreeInv, LogsPass
  PROVE  logs[0] = Hosts
<1>1. logs[0] \subseteq Hosts
  BY HostsAssumption DEF TreeInv, TypeOK, Hosts
<1>2. IsFiniteSet(Hosts) /\ Cardinality(Hosts) = NumHosts
  BY FS_Interval, HostsAssumption DEF Hosts
<1>3. QED
  BY <1>1, <1>2, FS_Subset DEF LogsPass, Counted

LEMMA RootTreeInv ==
  ASSUME TreeInv, Root
  PROVE  TreeInv'
<1>1. CASE Judge
  <2> USE <1>1 DEF TreeInv, Judge
  <2>1. /\ last' = last /\ pending' = pending /\ failed' = failed /\ rank' = rank
        /\ ssh' = ssh /\ logs' = logs /\ pending[0] = {}
        /\ \A q : Children(q)' = Children(q)
        /\ \A q, c : LastOf(q, c)' = LastOf(q, c)
    BY SameSplit
  <2>2. /\ \A q \in Hosts : q # 0 => pc'[q] = pc[q]
        /\ pc[0] = "collect" /\ pc'[0] = "exited" /\ 0 \in Hosts
    BY HostsAssumption DEF TypeOK, Hosts
  <2>3. TypeOK'
    BY DEF TypeOK
  <2>4. TailInv' /\ ParentInv'
    BY <2>1, <2>2 DEF TailInv, ParentInv, Unspawned, Untouched
  <2>5. ScriptInv'
    BY <2>1, <2>2 DEF ScriptInv
  <2>6. FlagInv' /\ StatusInv'
    BY <2>1, <2>2 DEF FlagInv, StatusInv
  <2>7. VerdictInv'
    BY <2>1, <2>2, AllLogs DEF VerdictInv
  <2>8. NobodyForgotten'
    BY <2>1, <2>2 DEF NobodyForgotten, Holds, Unspawned
  <2>9. QED
    BY <2>3, <2>4, <2>5, <2>6, <2>7, <2>8
<1>2. CASE NextMode
  <2> USE <1>2, HostsAssumption, ModesAssumption
      DEF NextMode, MayGoOn, Launches, Each, FreshPc, FreshLast, Hosts
  <2>1. TypeOK'
    BY DEF TreeInv, TypeOK
  <2>2. TailInv' /\ ScriptInv'
    BY DEF TailInv, ScriptInv, Unspawned, Untouched
  <2>3. ParentInv' /\ FlagInv' /\ StatusInv' /\ VerdictInv'
    BY DEF ParentInv, FlagInv, StatusInv, VerdictInv
  <2>4. NobodyForgotten'
    BY DEF NobodyForgotten, Holds, Unspawned
  <2>5. QED
    BY <2>1, <2>2, <2>3, <2>4 DEF TreeInv
<1>3. QED
  BY <1>1, <1>2 DEF Root

LEMMA NextTreeInv == TreeInv /\ [Next]_vars => TreeInv'
<1> SUFFICES ASSUME TreeInv, [Next]_vars PROVE TreeInv'
  OBVIOUS
<1>1. ASSUME NEW r \in Hosts, Script(r) PROVE TreeInv'
  BY <1>1, SpawnTreeInv, LocalTreeInv, ExitTreeInv DEF Script
<1>2. ASSUME NEW r \in Hosts, Outside(r) PROVE TreeInv'
  BY <1>2, OutsideTreeInv
<1>3. CASE Root
  BY <1>3, RootTreeInv
<1>4. CASE UNCHANGED vars
  BY <1>4 DEF vars, TreeInv, TypeOK, TailInv, ScriptInv, ParentInv, FlagInv, StatusInv,
     VerdictInv, NobodyForgotten, Holds, Unspawned, Untouched, Children, LastOf, LeftLast,
     LeftCount
<1>5. QED
  BY <1>1, <1>2, <1>3, <1>4 DEF Next

-----------------------------------------------------------------------------
(* The way of the logs up the tree.                                        *)

\* Some log in L carries the identity of h.
Logged(L, h) == \E x \in L : setup.ident[x] = setup.ident[h]

\* ... of every rank in the list of c.
LoggedBelow(L, c) == \A h \in Hosts : c <= h /\ h <= last[c] => Logged(L, h)

Linked == \A r \in Hosts : ssh[r] # "lost"

\* With intact connections a directory has its own log and those of the
\* children waited for; an archive has those of the whole list.
DirectoryInv ==
  \A r \in Hosts : pc[r] \in {"wait", "collect", "exited"} =>
    Logged(logs[r], r) /\ \A c \in Children(r) \ pending[r] : LoggedBelow(logs[r], c)

ArchiveInv ==
  \A c \in Hosts : ssh[c] \in {"ok", "failed"} => LoggedBelow(tar[c], c)

KeepInv ==
  /\ verdict # "none" => pc[0] = "exited"
  /\ \A r \in Hosts : pc[r] \notin {"absent", "spawn"} => pending[r] \subseteq Children(r)
  /\ Linked => DirectoryInv /\ ArchiveInv

\* Unpacking loses no identity.
LEMMA UnpackKeeps ==
  ASSUME NEW have, NEW new, NEW h, Logged(have, h) \/ Logged(new, h)
  PROVE  Logged(Unpack(have, new), h)
BY DEF Logged, Unpack

LEMMA InitKeepInv == Init => KeepInv
BY HostsAssumption DEF Init, Each, FreshPc, Hosts, KeepInv, DirectoryInv, ArchiveInv

LEMMA SpawnKeepInv ==
  ASSUME TreeInv, KeepInv, NEW r \in Hosts, Spawn(r)
  PROVE  KeepInv'
<1> DEFINE K == Children(r)
<1>1. /\ \A c \in K : c \in Hosts /\ ssh[c] = "none" /\ pc[c] = "absent" /\ c # r
      /\ \A c \in K : ssh'[c] = "up" /\ last'[c] = LastOf(r, c)
      /\ \A q \in Hosts \ K : ssh'[q] = ssh[q] /\ last'[q] = last[q]
      /\ \A q \in Hosts : pc'[q] = IF q = r THEN "start" ELSE pc[q]
      /\ \A q \in Hosts : pending'[q] = IF q = r THEN K ELSE pending[q]
      /\ pc[r] = "spawn" /\ setup' = setup /\ logs' = logs /\ tar' = tar /\ verdict' = verdict
  BY SpawnFacts DEF Spawn, TreeInv, TypeOK, Untouched
<1>2. \A q \in Hosts \ K : Children(q)' = Children(q)
  BY <1>1 DEF Children, LeftLast, LeftCount
<1>3. \A q \in Hosts : pc[q] \notin {"absent", "spawn"} =>
        q \notin K /\ q # r /\ \A c \in Children(q) : c \in Hosts \ K
  BY <1>1, SplitFacts DEF TreeInv, ParentInv
<1> HIDE DEF K
<1>4. r \in Hosts \ K
  BY <1>1
<1>5. verdict' # "none" => pc'[0] = "exited"
  BY <1>1, HostsAssumption DEF KeepInv, Hosts
<1>6. ASSUME NEW q \in Hosts, pc'[q] \notin {"absent", "spawn"}
      PROVE  pending'[q] \subseteq Children(q)'
  <2>1. CASE q = r
    BY <2>1, <1>1, <1>2, <1>4 DEF K
  <2>2. CASE q # r
    <3>1. pc[q] \notin {"absent", "spawn"} /\ q \notin K
      BY <2>2, <1>1, <1>3, <1>6
    <3>2. QED
      BY <3>1, <2>2, <1>1, <1>2 DEF KeepInv
  <2>3. QED
    BY <2>1, <2>2
<1>7. ASSUME Linked'
      PROVE  DirectoryInv' /\ ArchiveInv'
  <2>1. Linked
    BY <1>7, <1>1 DEF Linked
  <2>2. DirectoryInv /\ ArchiveInv
    BY <2>1 DEF KeepInv
  <2>3. ASSUME NEW q \in Hosts, pc'[q] \in {"wait", "collect", "exited"}
        PROVE  /\ Logged(logs[q], q)'
               /\ \A c \in Children(q)' \ pending'[q] : LoggedBelow(logs[q], c)'
    <3>1. pc[q] \in {"wait", "collect", "exited"} /\ q # r /\ q \notin K
      BY <2>3, <1>1, <1>3
    <3>2. Logged(logs[q], q) /\ \A c \in Children(q) \ pending[q] : LoggedBelow(logs[q], c)
      BY <3>1, <2>2 DEF DirectoryInv
    <3>3. \A c \in Children(q) : c \in Hosts /\ last'[c] = last[c]
      BY <3>1, <1>1, <1>3
    <3>4. Logged(logs[q], q)'
      BY <3>2, <1>1 DEF Logged
    <3>5. ASSUME NEW c \in Children(q)' \ pending'[q]
          PROVE  LoggedBelow(logs[q], c)'
      <4>1. c \in Children(q) \ pending[q]
        BY <3>1, <3>5, <1>1, <1>2
      <4>2. LoggedBelow(logs[q], c) /\ last'[c] = last[c]
        BY <4>1, <3>2, <3>3
      <4>3. QED
        BY <4>2, <1>1 DEF LoggedBelow, Logged
    <3>6. QED
      BY <3>4, <3>5
  <2>4. ASSUME NEW c \in Hosts, ssh'[c] \in {"ok", "failed"}
        PROVE  LoggedBelow(tar[c], c)'
    <3>1. c \notin K /\ ssh[c] \in {"ok", "failed"} /\ last'[c] = last[c]
      BY <2>4, <1>1
    <3>2. LoggedBelow(tar[c], c)
      BY <3>1, <2>2 DEF ArchiveInv
    <3>3. QED
      BY <3>1, <3>2, <1>1 DEF LoggedBelow, Logged
  <2>5. QED
    BY <2>3, <2>4 DEF DirectoryInv, ArchiveInv
<1>8. QED
  BY <1>5, <1>6, <1>7 DEF KeepInv

LEMMA LocalKeepInv ==
  ASSUME TreeInv, KeepInv, NEW r \in Hosts, StartRank(r) \/ WaitLocal(r) \/ CollectChild(r)
  PROVE  KeepInv'
<1>1. /\ last' = last /\ ssh' = ssh /\ tar' = tar /\ verdict' = verdict /\ setup' = setup
      /\ \A q : Children(q)' = Children(q)
  BY SameSplit DEF StartRank, WaitLocal, CollectChild
<1>2. /\ \A q \in Hosts : q # r => pc'[q] = pc[q] /\ pending'[q] = pending[q] /\ logs'[q] = logs[q]
      /\ pc[r] \in {"start", "wait", "collect"} /\ pc'[r] \in {"wait", "collect"}
      /\ pending'[r] \subseteq pending[r]
  BY DEF StartRank, WaitLocal, CollectChild, TreeInv, TypeOK
<1>3. verdict' # "none" => pc'[0] = "exited"
  BY <1>1, <1>2, HostsAssumption DEF KeepInv, Hosts
<1>4. \A q \in Hosts : pc'[q] \notin {"absent", "spawn"} => pending'[q] \subseteq Children(q)'
  BY <1>1, <1>2 DEF KeepInv
<1>5. ASSUME Linked'
      PROVE  DirectoryInv' /\ ArchiveInv'
  <2>1. DirectoryInv /\ ArchiveInv /\ Linked
    BY <1>1, <1>5 DEF KeepInv, Linked
  <2>2. \A L : \A c : LoggedBelow(L, c) <=> \A h \in Hosts : c <= h /\ h <= last'[c] =>
                        \E x \in L : setup'.ident[x] = setup'.ident[h]
    BY <1>1 DEF LoggedBelow, Logged
  <2>3. ArchiveInv'
    BY <2>1, <2>2, <1>1 DEF ArchiveInv, LoggedBelow, Logged
  <2>4. /\ Logged(logs'[r], r)
        /\ \A c \in Children(r) \ pending'[r] : LoggedBelow(logs'[r], c)
    <3>1. CASE StartRank(r)
      <4>1. logs'[r] = {r} /\ pending'[r] = Children(r)
        BY <3>1 DEF StartRank, TreeInv, TypeOK, ScriptInv
      <4>2. QED
        BY <4>1 DEF Logged
    <3>2. CASE WaitLocal(r)
      <4>1. logs' = logs /\ pending' = pending /\ pc[r] = "wait"
        BY <3>2 DEF WaitLocal
      <4>2. QED
        BY <4>1, <2>1 DEF DirectoryInv
    <3>3. CASE CollectChild(r)
      <4>1. PICK c \in pending[r] :
              /\ Returned(c)
              /\ logs' = [logs EXCEPT ![r] = Unpack(@, tar[c])]
              /\ pending' = [pending EXCEPT ![r] = @ \ {c}]
        BY <3>3 DEF CollectChild
      <4>2. logs'[r] = Unpack(logs[r], tar[c]) /\ pending'[r] = pending[r] \ {c}
        BY <4>1 DEF TreeInv, TypeOK
      <4>3. c \in Children(r) /\ c \in Hosts /\ pc[r] = "collect"
        BY <3>3, <4>1, SplitFacts DEF CollectChild, KeepInv, TreeInv
      <4>4. ssh[c] \in {"ok", "failed"}
        <5>1. ssh[c] \notin {"none", "up", "lost"}
          BY <2>1, <4>1, <4>3 DEF Linked, Returned, TreeInv, ParentInv
        <5>2. QED
          BY <5>1, <4>3 DEF TreeInv, TypeOK
      <4>5. LoggedBelow(tar[c], c)
        BY <2>1, <4>3, <4>4 DEF ArchiveInv
      <4>6. Logged(logs'[r], r)
        BY <2>1, <4>2, <4>3, UnpackKeeps DEF DirectoryInv
      <4>7. ASSUME NEW d \in Children(r) \ pending'[r]
            PROVE  LoggedBelow(logs'[r], d)
        <5>1. CASE d = c
          BY <5>1, <4>2, <4>5, UnpackKeeps DEF LoggedBelow
        <5>2. CASE d # c
          <6>1. LoggedBelow(logs[r], d)
            BY <5>2, <4>2, <4>3, <4>7, <2>1 DEF DirectoryInv
          <6>2. QED
            BY <6>1, <4>2, UnpackKeeps DEF LoggedBelow
        <5>3. QED
          BY <5>1, <5>2
      <4>8. QED
        BY <4>6, <4>7
    <3>4. QED
      BY <3>1, <3>2, <3>3
  <2>5. DirectoryInv'
    <3> SUFFICES ASSUME NEW q \in Hosts, pc'[q] \in {"wait", "collect", "exited"}
                 PROVE  /\ Logged(logs'[q], q)
                        /\ \A c \in Children(q) \ pending'[q] : LoggedBelow(logs'[q], c)
      BY <1>1 DEF DirectoryInv, LoggedBelow, Logged
    <3>1. QED
      BY <2>1, <2>4, <1>2 DEF DirectoryInv
  <2>6. QED
    BY <2>3, <2>5
<1>6. QED
  BY <1>3, <1>4, <1>5 DEF KeepInv

LEMMA ExitKeepInv ==
  ASSUME TreeInv, KeepInv, NEW r \in Hosts, Exit(r)
  PROVE  KeepInv'
<1>1. /\ last' = last /\ verdict' = verdict /\ setup' = setup /\ logs' = logs
      /\ pending' = pending /\ r # 0 /\ pending[r] = {} /\ pc[r] = "collect"
      /\ \A q : Children(q)' = Children(q)
  BY SameSplit DEF Exit
<1>2. /\ \A q \in Hosts : q # r => pc'[q] = pc[q] /\ ssh'[q] = ssh[q] /\ tar'[q] = tar[q]
      /\ pc'[r] = "exited"
      /\ ssh[r] = "up" => ssh'[r] \in {"ok", "failed"} /\ tar'[r] = logs[r]
      /\ ssh[r] # "up" => ssh'[r] = ssh[r]
  BY DEF Exit, Archive, TreeInv, TypeOK
<1>3. verdict' # "none" => pc'[0] = "exited"
  BY <1>1, <1>2, HostsAssumption DEF KeepInv, Hosts
<1>4. \A q \in Hosts : pc'[q] \notin {"absent", "spawn"} => pending'[q] \subseteq Children(q)'
  BY <1>1, <1>2 DEF KeepInv
<1>5. ASSUME Linked'
      PROVE  DirectoryInv' /\ ArchiveInv'
  <2>1. DirectoryInv /\ ArchiveInv
    BY <1>2, <1>5 DEF KeepInv, Linked
  <2>2. DirectoryInv'
    <3> SUFFICES ASSUME NEW q \in Hosts, pc'[q] \in {"wait", "collect", "exited"}
                 PROVE  /\ Logged(logs[q], q)
                        /\ \A c \in Children(q) \ pending[q] : LoggedBelow(logs[q], c)
      BY <1>1 DEF DirectoryInv, LoggedBelow, Logged
    <3>1. QED
      BY <2>1, <1>1, <1>2 DEF DirectoryInv
  <2>3. ArchiveInv'
    <3> SUFFICES ASSUME NEW c \in Hosts, ssh'[c] \in {"ok", "failed"}
                 PROVE  LoggedBelow(tar'[c], c)
      BY <1>1 DEF ArchiveInv, LoggedBelow, Logged
    <3>1. CASE c # r
      BY <3>1, <2>1, <1>2 DEF ArchiveInv
    <3>2. CASE c = r
      <4>1. tar'[r] = logs[r]
        BY <3>2, <1>1, <1>2 DEF TreeInv, ScriptInv
      <4>2. Logged(logs[r], r) /\ \A d \in Children(r) : LoggedBelow(logs[r], d)
        BY <2>1, <1>1 DEF DirectoryInv
      <4>3. ASSUME NEW h \in Hosts, r < h, h <= last[r]
            PROVE  Logged(logs[r], h)
        <5>1. PICK d \in Children(r) : d <= h /\ h <= LastOf(r, d)
          BY <4>3, SplitFacts DEF TreeInv
        <5>2. last[d] = LastOf(r, d)
          BY <5>1, <1>1 DEF TreeInv, ParentInv
        <5>3. QED
          BY <4>2, <5>1, <5>2 DEF LoggedBelow
      <4>4. \A h \in Hosts : r <= h => h = r \/ r < h
        BY HostsAssumption DEF Hosts
      <4>5. QED
        BY <3>2, <4>1, <4>2, <4>3, <4>4 DEF LoggedBelow
    <3>3. QED
      BY <3>1, <3>2
  <2>4. QED
    BY <2>2, <2>3
<1>6. QED
  BY <1>3, <1>4, <1>5 DEF KeepInv

LEMMA OutsideKeepInv ==
  ASSUME TreeInv, KeepInv, NEW r \in Hosts, Outside(r)
  PROVE  KeepInv'
<1>1. /\ last' = last /\ verdict' = verdict /\ setup' = setup /\ logs' = logs
      /\ pending' = pending
      /\ \A q : Children(q)' = Children(q)
  BY SameSplit DEF Outside, Connect, ConnectFails, Drop, RankSucceeds, RankFails
<1>2. /\ \A q \in Hosts : pc'[q] # pc[q] => pc[q] = "absent" /\ pc'[q] = "spawn" /\ ssh'[q] = ssh[q]
      /\ \A q \in Hosts : q # r => pc'[q] = pc[q]
      /\ Linked' => ssh' = ssh /\ tar' = tar
      /\ pc[r] = "absent" \/ pc' = pc
  BY DEF Outside, Connect, ConnectFails, Drop, RankSucceeds, RankFails, Linked, TreeInv, TypeOK
<1>3. verdict' # "none" => pc'[0] = "exited"
  BY <1>1, <1>2, HostsAssumption DEF KeepInv, Hosts
<1>4. ASSUME NEW q \in Hosts, pc'[q] \notin {"absent", "spawn"}
      PROVE  pending'[q] \subseteq Children(q)'
  BY <1>1, <1>2, <1>4 DEF KeepInv
<1>5. ASSUME Linked'
      PROVE  DirectoryInv' /\ ArchiveInv'
  <2>1. DirectoryInv /\ ArchiveInv /\ ssh' = ssh /\ tar' = tar
    BY <1>2, <1>5 DEF KeepInv, Linked
  <2>2. ArchiveInv'
    BY <2>1, <1>1 DEF ArchiveInv, LoggedBelow, Logged
  <2>3. DirectoryInv'
    <3> SUFFICES ASSUME NEW q \in Hosts, pc'[q] \in {"wait", "collect", "exited"}
                 PROVE  /\ Logged(logs[q], q)
                        /\ \A c \in Children(q) \ pending[q] : LoggedBelow(logs[q], c)
      BY <1>1 DEF DirectoryInv, LoggedBelow, Logged
    <3>1. pc[q] = pc'[q]
      BY <1>2
    <3>2. QED
      BY <2>1, <3>1 DEF DirectoryInv
  <2>4. QED
    BY <2>2, <2>3
<1>6. QED
  BY <1>3, <1>4, <1>5 DEF KeepInv

LEMMA NextKeepInv == TreeInv /\ KeepInv /\ [Next]_vars => KeepInv'
<1> SUFFICES ASSUME TreeInv, KeepInv, [Next]_vars PROVE KeepInv'
  OBVIOUS
<1>1. ASSUME NEW r \in Hosts, Script(r) PROVE KeepInv'
  BY <1>1, SpawnKeepInv, LocalKeepInv, ExitKeepInv DEF Script
<1>2. ASSUME NEW r \in Hosts, Outside(r) PROVE KeepInv'
  BY <1>2, OutsideKeepInv
<1>3. CASE Judge
  <2>1. /\ last' = last /\ pending' = pending /\ ssh' = ssh /\ logs' = logs /\ tar' = tar
        /\ setup' = setup
        /\ \A q : Children(q)' = Children(q)
    BY <1>3, SameSplit DEF Judge
  <2>2. /\ \A q \in Hosts : q # 0 => pc'[q] = pc[q]
        /\ pc[0] = "collect" /\ pc'[0] = "exited" /\ 0 \in Hosts
    BY <1>3, HostsAssumption DEF Judge, TreeInv, TypeOK, Hosts
  <2>3. ArchiveInv => ArchiveInv'
    BY <2>1 DEF ArchiveInv, LoggedBelow, Logged
  <2>4. DirectoryInv => DirectoryInv'
    BY <2>1, <2>2 DEF DirectoryInv, LoggedBelow, Logged
  <2>5. QED
    BY <2>1, <2>2, <2>3, <2>4 DEF KeepInv, Linked
<1>4. CASE NextMode
  BY <1>4, HostsAssumption
     DEF NextMode, Each, FreshPc, Hosts, KeepInv, DirectoryInv, ArchiveInv
<1>5. CASE UNCHANGED vars
  BY <1>5 DEF vars, KeepInv, DirectoryInv, ArchiveInv, LoggedBelow, Logged, Linked, Children,
     LeftLast, LeftCount
<1>6. QED
  BY <1>1, <1>2, <1>3, <1>4, <1>5 DEF Next, Root

-----------------------------------------------------------------------------
(* The theorems.                                                           *)

\* TreeInv is an invariant of the launcher for every number of hosts and of
\* modes, every pattern of ssh and rank failures and every host identity.
THEOREM TreeInvariance == Spec => []TreeInv
<1>1. QED
  BY InitTreeInv, NextTreeInv, PTL DEF Spec

\* The variables of the launcher keep their types.
THEOREM TypeCorrect == Spec => []TypeOK
<1>1. TreeInv => TypeOK
  BY DEF TreeInv
<1>2. QED
  BY <1>1, TreeInvariance, PTL

\* The recursive halving of the rank list hands no rank out twice: the
\* children of a script that is about to connect are untouched.
THEOREM HandedOutOnce == Spec => []FreshChildren
<1>1. TreeInv => FreshChildren
  BY SpawnFacts DEF FreshChildren, Untouched
<1>2. QED
  BY <1>1, TreeInvariance, PTL

\* The recursive halving of the rank list drops no rank.
THEOREM HandedOut == Spec => []NobodyForgotten
<1>1. TreeInv => NobodyForgotten
  BY DEF TreeInv
<1>2. QED
  BY <1>1, TreeInvariance, PTL

LEMMA PassMeansSuccess == TreeInv => PassMeansAllRanksSucceeded
<1> SUFFICES ASSUME TreeInv, verdict = "pass", NEW h \in Hosts
             PROVE  rank[h] = "ok"
  BY DEF PassMeansAllRanksSucceeded
<1>1. 0 \in Hosts /\ pc[0] = "exited" /\ ~ failed[0] /\ pending[0] = {}
  BY HostsAssumption DEF Hosts, TreeInv, VerdictInv, ScriptInv
<1>2. rank[0] = "ok" /\ \A c \in Children(0) : ssh[c] = "ok" /\ last[c] = LastOf(0, c)
  BY <1>1 DEF TreeInv, FlagInv, ParentInv
<1>3. CASE h = 0
  BY <1>2, <1>3
<1>4. CASE h # 0
  <2>1. 0 < h /\ h <= last[0]
    BY <1>4, HostsAssumption DEF Hosts, TreeInv, ScriptInv
  <2>2. PICK c \in Children(0) : c \in Hosts /\ c <= h /\ h <= LastOf(0, c)
    BY <1>1, <2>1, SplitFacts DEF TreeInv
  <2>3. QED
    BY <1>2, <2>2 DEF TreeInv, StatusInv
<1>5. QED
  BY <1>3, <1>4

\* A mode that passes has had every rank of the hostfile exit with 0: no
\* failure is lost on its way up the tree.
THEOREM PassIsHonest == Spec => []PassMeansAllRanksSucceeded
<1>1. QED
  BY PassMeansSuccess, TreeInvariance, PTL

\* A mode that passes has the log of every rank, whoever shares a name.
THEOREM PassHasLogs == Spec => []PassMeansAllLogs
<1>1. TreeInv => PassMeansAllLogs
  BY DEF TreeInv, VerdictInv, PassMeansAllLogs
<1>2. QED
  BY <1>1, TreeInvariance, PTL

\* However the ranks end, the archives bring a log of every identity to the
\* root as long as no connection is lost.
THEOREM FailureIsLogged == Spec => []FailureKeepsLogs
<1>1. Spec => []KeepInv
  BY TreeInvariance, InitKeepInv, NextKeepInv, PTL DEF Spec
<1>2. TreeInv /\ KeepInv => FailureKeepsLogs
  <2> SUFFICES ASSUME TreeInv, KeepInv, verdict # "none", Linked, NEW h \in Hosts
               PROVE  Logged(logs[0], h)
    BY DEF FailureKeepsLogs, Linked, Logged
  <2>1. 0 \in Hosts /\ pc[0] = "exited" /\ pending[0] = {} /\ last[0] = NumHosts - 1
    BY HostsAssumption DEF Hosts, KeepInv, TreeInv, ScriptInv
  <2>2. Logged(logs[0], 0) /\ \A c \in Children(0) : LoggedBelow(logs[0], c)
    BY <2>1 DEF KeepInv, DirectoryInv
  <2>3. CASE h = 0
    BY <2>2, <2>3
  <2>4. CASE h # 0
    <3>1. 0 < h /\ h <= last[0]
      BY <2>1, <2>4, HostsAssumption DEF Hosts
    <3>2. PICK c \in Children(0) : c <= h /\ h <= LastOf(0, c)
      BY <2>1, <3>1, SplitFacts DEF TreeInv
    <3>3. last[c] = LastOf(0, c)
      BY <2>1, <3>2 DEF TreeInv, ParentInv
    <3>4. QED
      BY <2>2, <3>2, <3>3 DEF LoggedBelow
  <2>5. QED
    BY <2>3, <2>4
<1>3. QED
  BY <1>1, <1>2, TreeInvariance, PTL

\* The launcher goes on to the next mode only when all ranks are through.
THEOREM ModesApart == Spec => ModesDoNotOverlap
<1>1. TreeInv /\ [Next]_vars => [mode' # mode => \A r \in Hosts : rank[r] # "running"]_vars
  <2> SUFFICES ASSUME TreeInv, Next, mode' # mode, NEW r \in Hosts
               PROVE  rank[r] # "running"
    BY DEF vars
  <2>1. NextMode
    BY DEF Next, Script, Outside, Root, Spawn, StartRank, WaitLocal, CollectChild, Exit,
       Judge, Connect, ConnectFails, Drop, RankSucceeds, RankFails, vars
  <2>2. rank[r] = "ok"
    BY <2>1, PassMeansSuccess DEF NextMode, MayGoOn, PassMeansAllRanksSucceeded
  <2>3. QED
    BY <2>2
<1>2. QED
  BY <1>1, TreeInvariance, PTL DEF Spec, ModesDoNotOverlap
=============================================================================
