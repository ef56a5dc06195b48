-------------------------- MODULE TraceTimingProofs --------------------------
(***************************************************************************)
(* What holds of TraceTiming for every number of devices, kernels and      *)
(* iterations.  TInv is inductive: the trace has each kernel that ran      *)
(* once, and no kernel of a call before one of an earlier call.  That the  *)
(* chunks are the calls is then a matter of counting: the kernels before   *)
(* call i are as many as the events the code skips for it.                 *)
(***************************************************************************)
EXTENDS TraceTiming, FiniteSetTheorems, FunctionTheorems, TLAPS

\* The variables have the shapes the extraction relies on.
TypeOK ==
  /\ config \in Configs
  /\ pc \in {"input", "call", "block", "extract", "done", "raised"}
  /\ calls \in 0 .. Iterations
  /\ ran \in [Devices -> Nat]
  /\ trace \in Seq([run : Nat \X Nat, kind : Foreign \union {"op"},
                    dur : Durations \union {2}, lost : BOOLEAN])

OpPlaces == {k \in DOMAIN trace : trace[k].kind = "op"}

\* The call a kernel belongs to, counted from 0.
CallOf(k) == trace[k].run[2] \div config.ops

\* While the host is between two calls all kernels have run; while it waits,
\* those of the calls before.
HostInv ==
  /\ pc \in {"input", "call"} => calls < Iterations
  /\ pc = "block" => calls > 0
  /\ pc = "extract" => calls = Iterations
  /\ pc \in {"input", "call", "extract", "done"} =>
       \A d \in Devices : ran[d] = calls * config.ops
  /\ pc = "done" => calls = Iterations
  /\ pc = "block" =>
       \A d \in Devices : ran[d] \in (calls - 1) * config.ops .. calls * config.ops

\* The kernels that ran are in the trace, each once, call after call.
TraceInv ==
  /\ \A k \in OpPlaces : /\ trace[k].run[1] \in Devices
                         /\ trace[k].run[2] < ran[trace[k].run[1]]
  /\ \A d \in Devices : \A n \in 0 .. ran[d] - 1 :
       \E k \in OpPlaces : trace[k].run = <<d, n>>
  /\ \A j, k \in OpPlaces : trace[j].run = trace[k].run => j = k
  /\ \A j, k \in OpPlaces : j < k => CallOf(j) <= CallOf(k)

ResultInv ==
  pc = "done" =>
    durations = [i \in 1 .. Iterations |-> Reduce(Chunk(i), config.reducer)]

TInv == TypeOK /\ HostInv /\ TraceInv /\ ResultInv

-----------------------------------------------------------------------------
(* Lists in order and counting, apart from the model.                      *)

LEMMA RankIsBijective ==
  ASSUME NEW S \in SUBSET Int, IsFiniteSet(S)
  PROVE  /\ Cardinality(S) \in Nat
         /\ \A k \in S : Rank(S, k) \in 1 .. Cardinality(S)
         /\ \A j, k \in S : j < k => Rank(S, j) < Rank(S, k)
         /\ \A n \in 1 .. Cardinality(S) : \E k \in S : Rank(S, k) = n
<1> DEFINE Upto(k) == {j \in S : j <= k}
           c == Cardinality(S)
<1>1. c \in Nat
  BY FS_CardinalityType
<1>2. ASSUME NEW k \in S
      PROVE  /\ IsFiniteSet(Upto(k)) /\ Cardinality(Upto(k)) \in 1 .. c
  <2>1. /\ IsFiniteSet(Upto(k)) /\ Cardinality(Upto(k)) <= c
    BY FS_Subset, Upto(k) \in SUBSET S
  <2>2. k \in Upto(k)
    OBVIOUS
  <2>3. Cardinality(Upto(k)) \in Nat /\ Cardinality(Upto(k)) # 0
    BY <2>1, <2>2, FS_CardinalityType, FS_EmptySet
  <2> QED
    BY <2>1, <2>3, <1>1
<1>3. ASSUME NEW j \in S, NEW k \in S, j < k
      PROVE  Cardinality(Upto(j)) < Cardinality(Upto(k))
  <2>1. Upto(j) \in SUBSET Upto(k)
    <3>1. ASSUME NEW i \in Upto(j) PROVE i \in Upto(k)
      <4>1. i \in Int /\ j \in Int /\ k \in Int /\ i \in S /\ i <= j
        OBVIOUS
      <4> QED
        BY <4>1, <1>3
    <3> QED
      BY <3>1
  <2>2. Upto(j) # Upto(k)
    <3>1. k \in Upto(k) /\ k \notin Upto(j)
      BY <1>3
    <3> QED
      BY <3>1
  <2>3. /\ Cardinality(Upto(j)) <= Cardinality(Upto(k))
        /\ Cardinality(Upto(k)) # Cardinality(Upto(j))
    BY <1>2, <2>1, <2>2, FS_Subset
  <2>4. Cardinality(Upto(j)) \in Nat /\ Cardinality(Upto(k)) \in Nat
    BY <1>1, <1>2
  <2> QED
    BY <2>3, <2>4
<1>4. ASSUME NEW n \in 1 .. c
      PROVE  \E k \in S : Cardinality(Upto(k)) = n
  <2> DEFINE f == [k \in S |-> Cardinality(Upto(k))]
  <2>1. f \in [S -> 1 .. c]
    BY <1>2
  <2>2. ASSUME NEW j \in S, NEW k \in S, f[j] = f[k]
        PROVE  j = k
    <3>1. f[j] \in Int /\ f[j] = Cardinality(Upto(j)) /\ f[k] = Cardinality(Upto(k))
      BY <2>1, <1>1
    <3>2. ~ (j < k) /\ ~ (k < j)
      BY <1>3, <2>2, <3>1
    <3>3. j \in Int /\ k \in Int
      OBVIOUS
    <3> QED
      BY <3>2, <3>3
  <2>3. f \in Injection(S, 1 .. c)
    BY <2>1, <2>2 DEF Injection, IsInjective
  <2>4. IsFiniteSet(1 .. c) /\ Cardinality(1 .. c) = c
    BY <1>1, FS_Interval
  <2>5. f \in Surjection(S, 1 .. c)
    BY <2>3, <2>4, FS_Injection
  <2>6. PICK k \in S : f[k] = n
    BY <2>5 DEF Surjection
  <2> QED
    BY <2>6
<1> QED
  BY <1>1, <1>2, <1>3, <1>4 DEF Rank

LEMMA AscendingProperties ==
  ASSUME NEW S \in SUBSET Int, IsFiniteSet(S)
  PROVE  /\ Ascending(S) \in [1 .. Cardinality(S) -> S]
         /\ \A k \in S : Ascending(S)[Rank(S, k)] = k
         /\ \A m, n \in 1 .. Cardinality(S) : m < n => Ascending(S)[m] < Ascending(S)[n]
<1> DEFINE A == Ascending(S)
           c == Cardinality(S)
<1>1. ASSUME NEW n \in 1 .. c
      PROVE  A[n] \in S /\ Rank(S, A[n]) = n
  <2>1. A[n] = CHOOSE k \in S : Rank(S, k) = n
    BY DEF Ascending
  <2>2. \E k \in S : Rank(S, k) = n
    BY RankIsBijective
  <2> QED
    BY <2>1, <2>2
<1>2. A \in [1 .. c -> S]
  BY <1>1 DEF Ascending
<1>3. ASSUME NEW j \in S, NEW k \in S, Rank(S, j) = Rank(S, k)
      PROVE  j = k
  <2>1. j \in Int /\ k \in Int /\ Rank(S, j) \in Int
    BY RankIsBijective
  <2>2. ~ (j < k) /\ ~ (k < j)
    BY <1>3, <2>1, RankIsBijective
  <2> QED
    BY <2>1, <2>2
<1>4. ASSUME NEW k \in S
      PROVE  A[Rank(S, k)] = k
  <2>1. Rank(S, k) \in 1 .. c
    BY RankIsBijective
  <2> QED
    BY <2>1, <1>1, <1>3
<1>5. ASSUME NEW m \in 1 .. c, NEW n \in 1 .. c, m < n
      PROVE  A[m] < A[n]
  <2>1. A[m] \in S /\ A[n] \in S /\ Rank(S, A[m]) = m /\ Rank(S, A[n]) = n
    BY <1>1
  <2>2. ~ (A[n] < A[m]) /\ A[m] # A[n]
    <3>1. c \in Nat
      BY RankIsBijective
    <3>2. m \in Int /\ n \in Int
      BY <3>1
    <3>3. A[n] < A[m] => n < m
      BY <2>1, RankIsBijective
    <3> QED
      BY <2>1, <3>2, <3>3, <1>5
  <2>3. A[m] \in Int /\ A[n] \in Int
    BY <2>1
  <2> QED
    BY <2>2, <2>3
<1> QED
  BY <1>2, <1>4, <1>5

\* Where O is a stretch of K with B before it and C behind, the members of O
\* come in K at their place in O, shifted by the members of B.
LEMMA StretchOfAscending ==
  ASSUME NEW K \in SUBSET Int, IsFiniteSet(K),
         NEW B \in SUBSET K, NEW O \in SUBSET K,
         \A j \in B, k \in O : j < k,
         \A k \in O, j \in K : j <= k => j \in B \/ j \in O,
         NEW n \in 1 .. Cardinality(O)
  PROVE  Ascending(K)[Cardinality(B) + n] = Ascending(O)[n]
<1> DEFINE k == Ascending(O)[n]
           UptoO == {j \in O : j <= k}
<1>1. IsFiniteSet(B) /\ IsFiniteSet(O) /\ IsFiniteSet(UptoO)
  <2>1. UptoO \in SUBSET O
    OBVIOUS
  <2> QED
    BY <2>1, FS_Subset
<1>2. k \in O /\ Rank(O, k) = n
  <2>1. O \in SUBSET Int
    OBVIOUS
  <2>2. k \in O
    BY <1>1, <2>1, AscendingProperties
  <2>3. Ascending(O)[Rank(O, k)] = k /\ Rank(O, k) \in 1 .. Cardinality(O)
    BY <1>1, <2>1, <2>2, AscendingProperties, RankIsBijective
  <2>4. /\ Rank(O, k) < n => Ascending(O)[Rank(O, k)] < Ascending(O)[n]
        /\ n < Rank(O, k) => Ascending(O)[n] < Ascending(O)[Rank(O, k)]
    BY <1>1, <2>1, <2>3, AscendingProperties
  <2>5. Cardinality(O) \in Nat
    BY <1>1, FS_CardinalityType
  <2>6. k \in Int /\ Rank(O, k) \in Int /\ n \in Int
    <3>1. k \in Int
      BY <2>1, <2>2
    <3>2. n \in Int
      BY <2>5
    <3> HIDE DEF k
    <3>3. Rank(O, k) \in Int
      BY <2>3, <2>5
    <3> QED
      BY <3>1, <3>2, <3>3
  <2> QED
    BY <2>2, <2>3, <2>4, <2>6
<1>3. {j \in K : j <= k} = B \union UptoO
  <2>1. ASSUME NEW j \in B PROVE j <= k
    <3>1. j \in Int /\ k \in Int /\ j < k
      BY <1>2
    <3> QED
      BY <3>1
  <2>2. ASSUME NEW j \in K, j <= k PROVE j \in B \/ j \in UptoO
    BY <1>2, <2>2
  <2> HIDE DEF k
  <2> QED
    BY <2>1, <2>2
<1>4. B \intersect UptoO = {}
  <2>1. ASSUME NEW j \in B, j \in O PROVE FALSE
    <3>1. j \in Int /\ j < j
      BY <2>1
    <3> QED
      BY <3>1
  <2> QED
    BY <2>1
<1>5. Rank(K, k) = Cardinality(B) + n
  <2>1. Cardinality(B \union UptoO) = Cardinality(B) + Cardinality(UptoO) - 0
    BY <1>1, <1>4, FS_Union, FS_EmptySet
  <2>2. Cardinality(UptoO) = n
    BY <1>2 DEF Rank
  <2>3. Cardinality(B) \in Nat /\ n \in Int
    BY <1>1, FS_CardinalityType
  <2> HIDE DEF UptoO
  <2> QED
    BY <1>3, <2>1, <2>2, <2>3 DEF Rank
<1>6. k \in K
  BY <1>2
<1> QED
  BY <1>5, <1>6, AscendingProperties

LEMMA Quotient ==
  ASSUME NEW m \in Nat \ {0}, NEW n \in Nat, NEW c \in Nat
  PROVE  /\ n \div m = c <=> c * m <= n /\ n < (c + 1) * m
         /\ n \div m < c <=> n < c * m
         /\ n \div m \in Nat
<1> DEFINE q == n \div m
           r == n % m
<1>1. q \in Nat /\ r \in 0 .. m - 1 /\ n = m * q + r
  OBVIOUS
<1> HIDE DEF q, r
<1>2. q <= c => q * m <= c * m
  BY <1>1
<1>3. q >= c => q * m >= c * m
  BY <1>1
<1>4. q < c => (q + 1) * m <= c * m
  <2>1. q < c => q + 1 <= c
    BY <1>1
  <2> QED
    BY <2>1, <1>1
<1>5. q > c => q * m >= (c + 1) * m
  <2>1. q > c => q >= c + 1
    BY <1>1
  <2> QED
    BY <2>1, <1>1
<1>6. /\ q * m <= n /\ n < (q + 1) * m
  BY <1>1
<1>7. q = c \/ q < c \/ q > c
  BY <1>1
<1>8. q * m \in Nat /\ c * m \in Nat /\ (q + 1) * m \in Nat /\ (c + 1) * m \in Nat
  BY <1>1
<1> QED
  <2>1. q = c <=> c * m <= n /\ n < (c + 1) * m
    BY <1>4, <1>5, <1>6, <1>7, <1>8
  <2>2. q < c <=> n < c * m
    BY <1>1, <1>2, <1>3, <1>4, <1>6, <1>7, <1>8
  <2> QED
    BY <1>1, <2>1, <2>2 DEF q

LEMMA Multiples ==
  ASSUME NEW m \in Nat \ {0}, NEW t \in Nat \ {0}, NEW i \in 1 .. t
  PROVE  /\ i \in Nat /\ i >= 1 /\ i - 1 \in Nat /\ (i - 1) * m \in Nat /\ i * m \in Nat
         /\ (i - 1) * m <= i * m /\ i * m <= t * m /\ i * m - (i - 1) * m = m
         /\ (i - 1) + 1 = i
         /\ 0 <= (i - 1) * m /\ (i - 1) * m <= t * m
         /\ \A d \in Nat : d * ((i - 1) * m - 0) = (i - 1) * (d * m)
<1>1. i \in Nat /\ i >= 1 /\ i <= t /\ t - i \in Nat
  OBVIOUS
<1>2. i * m = (i - 1) * m + m /\ t * m = i * m + (t - i) * m
  BY <1>1
<1>3. (i - 1) * m \in Nat /\ (t - i) * m \in Nat /\ i * m \in Nat
  BY <1>1
<1>4. \A d \in Nat : d * ((i - 1) * m - 0) = (i - 1) * (d * m)
  BY <1>1
<1> QED
  BY <1>1, <1>2, <1>3, <1>4

-----------------------------------------------------------------------------
(* The invariant.                                                          *)

LEMMA ConfigFacts ==
  ASSUME TypeOK
  PROVE  /\ config.devices \in Nat \ {0} /\ config.ops \in Nat \ {0}
         /\ Iterations \in Nat \ {0}
         /\ calls \in Nat /\ calls <= Iterations
         /\ calls * config.ops \in Nat
BY ConfigsAssumption, IterationsAssumption DEF TypeOK

LEMMA TraceFacts ==
  ASSUME TypeOK
  PROVE  /\ Len(trace) \in Nat /\ DOMAIN trace = 1 .. Len(trace)
         /\ \A k \in DOMAIN trace : trace[k].run \in Nat \X Nat
<1> DEFINE EventSet == [run : Nat \X Nat, kind : Foreign \union {"op"},
                        dur : Durations \union {2}, lost : BOOLEAN]
<1>1. trace \in Seq(EventSet)
  BY DEF TypeOK
<1>2. \A e \in EventSet : e.run \in Nat \X Nat
  OBVIOUS
<1> HIDE DEF EventSet
<1> QED
  BY <1>1, <1>2

LEMMA InitTInv == Init => TInv
<1> SUFFICES ASSUME Init PROVE TInv
  OBVIOUS
<1>1. TypeOK
  BY IterationsAssumption DEF Init, TypeOK, Devices
<1>2. HostInv
  <2>1. 0 * config.ops = 0 /\ 0 < Iterations
    BY <1>1, ConfigFacts
  <2> QED
    BY <2>1 DEF Init, HostInv, Devices
<1>3. TraceInv /\ ResultInv
  BY DEF Init, TraceInv, ResultInv, OpPlaces, Devices
<1> QED
  BY <1>1, <1>2, <1>3 DEF TInv

\* An event that is no kernel disturbs no part of the invariant.
LEMMA PrepareTInv == ASSUME TInv, Prepare PROVE TInv'
<1> DEFINE EventSet == [run : Nat \X Nat, kind : Foreign \union {"op"},
                        dur : Durations \union {2}, lost : BOOLEAN]
<1>0. TypeOK /\ HostInv /\ TraceInv /\ ResultInv
  BY DEF TInv
<1>1. TypeOK' /\ OpPlaces' = OpPlaces /\ (\A k \in OpPlaces : trace'[k] = trace[k])
  <2>1. CASE trace' = trace
    BY <2>1, <1>0 DEF Prepare, TypeOK, Devices, OpPlaces
  <2>2. ASSUME NEW kind \in Foreign, trace' = Append(trace, Event(<<0, calls>>, kind, 2, FALSE))
        PROVE  TypeOK' /\ OpPlaces' = OpPlaces /\ (\A k \in OpPlaces : trace'[k] = trace[k])
    <3> DEFINE e == Event(<<0, calls>>, kind, 2, FALSE)
    <3>1. calls \in Nat
      BY <1>0, ConfigFacts
    <3>2. e \in EventSet
      BY <3>1 DEF Event
    <3>3. e.kind # "op"
      BY ForeignAssumption DEF Event
    <3>4. trace \in Seq(EventSet) /\ trace' = Append(trace, e)
      BY <1>0, <2>2 DEF TypeOK
    <3> HIDE DEF e, EventSet
    <3>5. /\ trace' \in Seq(EventSet) /\ Len(trace) \in Nat
          /\ DOMAIN trace = 1 .. Len(trace) /\ DOMAIN trace' = 1 .. Len(trace) + 1
          /\ \A k \in DOMAIN trace : trace'[k] = trace[k]
          /\ trace'[Len(trace) + 1] = e
      BY <3>2, <3>4
    <3>6. OpPlaces' = OpPlaces
      <4>1. OpPlaces' = {k \in DOMAIN trace' : trace'[k].kind = "op"}
        BY DEF OpPlaces
      <4>2. \A k : k \in DOMAIN trace' <=> k \in DOMAIN trace \/ k = Len(trace) + 1
        BY <3>5
      <4> QED
        BY <4>1, <4>2, <3>3, <3>5 DEF OpPlaces
    <3>7. TypeOK'
      BY <1>0, <3>5 DEF EventSet, TypeOK, Prepare, Devices
    <3> QED
      BY <3>5, <3>6, <3>7 DEF OpPlaces
  <2> QED
    BY <2>1, <2>2 DEF Prepare
<1>2. HostInv'
  BY <1>0 DEF HostInv, Prepare, Devices
<1>3. TraceInv'
  <2>1. Devices' = Devices /\ ran' = ran /\ (\A k \in OpPlaces : CallOf(k)' = CallOf(k))
    BY <1>1 DEF Prepare, Devices, CallOf
  <2>2. \A k \in OpPlaces : trace'[k].run = trace[k].run
    BY <1>1
  <2>3. OpPlaces' = OpPlaces
    BY <1>1
  <2>4. /\ (\A k \in OpPlaces : /\ trace[k].run[1] \in Devices
                                /\ trace[k].run[2] < ran[trace[k].run[1]])'
        /\ (\A d \in Devices : \A n \in 0 .. ran[d] - 1 :
             \E k \in OpPlaces : trace[k].run = <<d, n>>)'
        /\ (\A j, k \in OpPlaces : trace[j].run = trace[k].run => j = k)'
    BY <1>0, <2>1, <2>2, <2>3 DEF TraceInv
  <2>5. (\A j, k \in OpPlaces : j < k => CallOf(j) <= CallOf(k))'
    <3>1. \A j, k \in OpPlaces : j < k => CallOf(j)' <= CallOf(k)'
      BY <1>0, <2>1 DEF TraceInv
    <3> QED
      BY <2>3, <3>1
  <2> QED
    BY <2>4, <2>5 DEF TraceInv
<1>4. ResultInv'
  BY DEF ResultInv, Prepare
<1> QED
  BY <1>1, <1>2, <1>3, <1>4 DEF TInv

LEMMA CallTInv == ASSUME TInv, Call PROVE TInv'
<1>0. TypeOK /\ HostInv /\ TraceInv /\ ResultInv
  BY DEF TInv
<1>1. TypeOK' /\ TraceInv' /\ ResultInv'
  <2>1. calls + 1 \in 0 .. Iterations
    BY <1>0, ConfigFacts DEF HostInv, Call
  <2> QED
    BY <1>0, <2>1 DEF Call, TypeOK, Devices, TraceInv, CallOf, OpPlaces, ResultInv
<1>2. HostInv'
  <2>1. /\ config.ops \in Nat /\ calls \in Nat /\ calls * config.ops \in Nat
        /\ (calls + 1) * config.ops = calls * config.ops + config.ops
        /\ (calls + 1) - 1 = calls
    BY <1>0, ConfigFacts
  <2>2. calls * config.ops \in ((calls + 1) - 1) * config.ops .. (calls + 1) * config.ops
    BY <2>1
  <2>3. \A d \in Devices : ran[d] = calls * config.ops
    BY <1>0 DEF HostInv, Call
  <2>4. calls + 1 > 0
    BY <2>1
  <2> QED
    BY <2>2, <2>3, <2>4 DEF HostInv, Call, Devices
<1> QED
  BY <1>1, <1>2 DEF TInv

LEMMA BlockTInv == ASSUME TInv, Block PROVE TInv'
<1>0. TypeOK /\ HostInv /\ TraceInv /\ ResultInv
  BY DEF TInv
<1>1. TypeOK' /\ TraceInv' /\ ResultInv'
  BY <1>0 DEF Block, TypeOK, Devices, TraceInv, CallOf, OpPlaces, ResultInv
<1>2. HostInv'
  BY <1>0, ConfigFacts DEF HostInv, Block, ResultReady, Devices
<1> QED
  BY <1>1, <1>2 DEF TInv

LEMMA CallRaisesTInv == ASSUME TInv, CallRaises PROVE TInv'
BY DEF TInv, CallRaises, TypeOK, Devices, TraceInv, CallOf, OpPlaces, ResultInv, HostInv

LEMMA ExtractTInv == ASSUME TInv, Extract PROVE TInv'
<1>0. TypeOK /\ HostInv /\ TraceInv /\ ResultInv
  BY DEF TInv
<1>1. TypeOK' /\ TraceInv' /\ HostInv'
  BY <1>0 DEF Extract, TypeOK, Devices, TraceInv, CallOf, OpPlaces, HostInv
<1>2. ResultInv'
  <2>1. \A i \in 1 .. Iterations : Chunk(i)' = Chunk(i)
    BY DEF Chunk, PerIteration, Chosen, Extract
  <2>2. CASE Divisible
    BY <2>1, <2>2 DEF Extract, ResultInv
  <2>3. CASE ~ Divisible
    BY <2>3 DEF Extract, ResultInv
  <2> QED
    BY <2>2, <2>3
<1> QED
  BY <1>1, <1>2 DEF TInv

\* A kernel runs only while the host waits, so it is one of the current call:
\* no earlier than any kernel in the trace, and none that is there already.
LEMMA RunTInv == ASSUME TInv, NEW d \in Devices, Run(d) PROVE TInv'
<1> DEFINE EventSet == [run : Nat \X Nat, kind : Foreign \union {"op"},
                        dur : Durations \union {2}, lost : BOOLEAN]
           new == Len(trace) + 1
<1>0. TypeOK /\ HostInv /\ TraceInv /\ ResultInv
  BY DEF TInv
<1>1. PICK dur \in Durations, lost \in BOOLEAN :
        trace' = Append(trace, Event(<<d, ran[d]>>, "op", dur, lost))
  BY DEF Run
<1> DEFINE e == Event(<<d, ran[d]>>, "op", dur, lost)
<1>2. d \in Nat /\ ran[d] \in Nat /\ Devices' = Devices
  BY <1>0, ConfigFacts DEF TypeOK, Devices, Run
<1>3. e \in EventSet /\ e.kind = "op" /\ e.run = <<d, ran[d]>>
  BY <1>2 DEF Event
<1>4. /\ trace' \in Seq(EventSet) /\ Len(trace) \in Nat
      /\ DOMAIN trace = 1 .. Len(trace) /\ DOMAIN trace' = 1 .. Len(trace) + 1
      /\ \A k \in DOMAIN trace : trace'[k] = trace[k]
      /\ trace'[new] = e
  <2>1. trace \in Seq(EventSet) /\ trace' = Append(trace, e)
    BY <1>0, <1>1 DEF TypeOK
  <2> HIDE DEF e, EventSet
  <2> QED
    BY <1>3, <2>1
<1> HIDE DEF e
<1>5. /\ OpPlaces' = OpPlaces \union {new} /\ new \notin OpPlaces
      /\ \A k \in OpPlaces : trace'[k] = trace[k] /\ k < new /\ k \in Int
  <2>1. \A k : k \in DOMAIN trace' <=> k \in DOMAIN trace \/ k = new
    BY <1>4
  <2>2. new \notin DOMAIN trace
    BY <1>4
  <2>3. \A k \in DOMAIN trace : k < new /\ k \in Int
    BY <1>4
  <2>4. OpPlaces' = {k \in DOMAIN trace' : trace'[k].kind = "op"}
    BY DEF OpPlaces
  <2> QED
    BY <1>3, <1>4, <2>1, <2>2, <2>3, <2>4 DEF OpPlaces
<1>6. TypeOK'
  <2>1. [ran EXCEPT ![d] = @ + 1] \in [Devices -> Nat]
    BY <1>0, <1>2 DEF TypeOK
  <2> QED
    BY <1>0, <1>2, <1>4, <2>1 DEF TypeOK, Run
<1>7. ran[d] + 1 <= calls * config.ops /\ pc = "block"
  <2>1. calls * config.ops \in Nat /\ ran[d] < calls * config.ops
    BY <1>0, ConfigFacts DEF Run
  <2>2. pc = "block"
    BY <1>0, <2>1 DEF Run, HostInv, TypeOK
  <2> QED
    BY <1>2, <2>1, <2>2
<1>8. HostInv'
  <2>1. /\ (calls - 1) * config.ops \in Int /\ calls * config.ops \in Int
        /\ \A x \in Devices : ran[x] \in (calls - 1) * config.ops .. calls * config.ops
    BY <1>0, <1>7, ConfigFacts DEF HostInv
  <2>2. ran[d] + 1 \in (calls - 1) * config.ops .. calls * config.ops
    BY <1>2, <1>7, <2>1
  <2>3. \A x \in Devices : ran'[x] = IF x = d THEN ran[d] + 1 ELSE ran[x]
    BY <1>0 DEF Run, TypeOK
  <2>4. pc' = "block" /\ calls' = calls /\ config' = config
    BY <1>7 DEF Run
  <2>5. calls > 0
    BY <1>0, <1>7 DEF HostInv
  <2> QED
    BY <1>2, <2>1, <2>2, <2>3, <2>4, <2>5 DEF HostInv
<1>9. TraceInv'
  <2>1. \A x \in Devices : ran'[x] = IF x = d THEN ran[d] + 1 ELSE ran[x]
    BY <1>0 DEF Run, TypeOK
  <2>2. trace'[new].run = <<d, ran[d]>>
    BY <1>3, <1>4
  <2>3. \A k \in OpPlaces : /\ trace'[k].run = trace[k].run
                            /\ trace[k].run \in Nat \X Nat
                            /\ trace[k].run[1] \in Devices
                            /\ trace[k].run[2] < ran[trace[k].run[1]]
                            /\ ran[trace[k].run[1]] \in Nat
    <3>1. ASSUME NEW k \in OpPlaces
          PROVE  trace'[k].run = trace[k].run /\ trace[k].run \in Nat \X Nat
      <4>1. k \in DOMAIN trace
        BY DEF OpPlaces
      <4> QED
        BY <1>0, <1>5, <4>1, TraceFacts
    <3>2. \A k \in OpPlaces : /\ trace[k].run[1] \in Devices
                              /\ trace[k].run[2] < ran[trace[k].run[1]]
      BY <1>0 DEF TraceInv
    <3> QED
      BY <1>0, <3>1, <3>2 DEF TypeOK
  <2>4. (\A k \in OpPlaces : /\ trace[k].run[1] \in Devices
                             /\ trace[k].run[2] < ran[trace[k].run[1]])'
    <3>1. ASSUME NEW k \in OpPlaces
          PROVE  trace'[k].run[1] \in Devices /\ trace'[k].run[2] < ran'[trace'[k].run[1]]
      BY <1>2, <2>1, <2>3
    <3>2. trace'[new].run[1] \in Devices /\ trace'[new].run[2] < ran'[trace'[new].run[1]]
      BY <1>2, <2>1, <2>2
    <3> QED
      BY <1>2, <1>5, <3>1, <3>2
  <2>5. (\A x \in Devices : \A n \in 0 .. ran[x] - 1 : \E k \in OpPlaces : trace[k].run = <<x, n>>)'
    <3>1. ASSUME NEW x \in Devices, NEW n \in 0 .. ran'[x] - 1
          PROVE  \E k \in OpPlaces' : trace'[k].run = <<x, n>>
      <4>1. CASE x = d /\ n = ran[d]
        BY <4>1, <1>5, <2>2
      <4>2. CASE ~ (x = d /\ n = ran[d])
        <5>1. n \in 0 .. ran[x] - 1
          BY <1>2, <2>1, <4>2
        <5>2. PICK k \in OpPlaces : trace[k].run = <<x, n>>
          BY <1>0, <5>1 DEF TraceInv
        <5> QED
          BY <1>5, <2>3, <5>2
      <4> QED
        BY <4>1, <4>2
    <3> QED
      BY <1>2, <3>1
  <2>6. (\A j, k \in OpPlaces : trace[j].run = trace[k].run => j = k)'
    <3>1. ASSUME NEW k \in OpPlaces
          PROVE  trace'[k].run # trace'[new].run
      <4>1. trace[k].run[1] = d => trace[k].run[2] < ran[d]
        BY <2>3
      <4>2. trace'[k].run = trace[k].run
        BY <2>3
      <4> QED
        BY <1>2, <2>2, <4>1, <4>2
    <3> QED
      BY <1>0, <1>5, <2>3, <3>1 DEF TraceInv
  <2>7. (\A j, k \in OpPlaces : j < k => CallOf(j) <= CallOf(k))'
    <3>1. /\ config.ops \in Nat \ {0} /\ calls - 1 \in Nat /\ (calls - 1) + 1 = calls
      BY <1>0, <1>7, ConfigFacts DEF HostInv
    <3>2. ran[d] \div config.ops = calls - 1
      <4>1. (calls - 1) * config.ops <= ran[d] /\ ran[d] < ((calls - 1) + 1) * config.ops
        <5>1. ran[d] \in (calls - 1) * config.ops .. calls * config.ops
          BY <1>0, <1>7 DEF HostInv
        <5>2. (calls - 1) * config.ops \in Int /\ calls * config.ops \in Int
          BY <3>1
        <5> QED
          BY <1>2, <1>7, <3>1, <5>1, <5>2
      <4> QED
        BY <1>2, <3>1, <4>1, Quotient
    <3>3. ASSUME NEW k \in OpPlaces
          PROVE  CallOf(k) \in Nat /\ CallOf(k) <= calls - 1
      <4>1. trace[k].run[2] \in Nat
        BY <2>3
      <4>2. trace[k].run[2] < calls * config.ops
        <5>1. ran[trace[k].run[1]] \in (calls - 1) * config.ops .. calls * config.ops
          BY <1>0, <1>7, <2>3 DEF HostInv
        <5>2. (calls - 1) * config.ops \in Int /\ calls * config.ops \in Int
          BY <3>1
        <5> QED
          BY <2>3, <4>1, <5>1, <5>2
      <4>3. calls \in Nat
        BY <1>0, ConfigFacts
      <4>4. trace[k].run[2] \div config.ops < calls
        BY <3>1, <4>1, <4>2, <4>3, Quotient
      <4>5. trace[k].run[2] \div config.ops \in Nat
        BY <3>1, <4>1, <4>3, Quotient
      <4> QED
        BY <4>3, <4>4, <4>5 DEF CallOf
    <3>4. \A k \in OpPlaces : CallOf(k)' = CallOf(k)
      BY <2>3 DEF CallOf, Run
    <3>5. ASSUME NEW k, k = new
          PROVE  CallOf(k)' = calls - 1
      <4>1. CallOf(k)' = trace'[k].run[2] \div config'.ops
        BY DEF CallOf
      <4> QED
        BY <2>2, <3>2, <3>5, <4>1 DEF Run
    <3>6. \A j, k \in OpPlaces' : j < k => CallOf(j)' <= CallOf(k)'
      <4>1. ASSUME NEW j \in OpPlaces', NEW k \in OpPlaces', j < k
            PROVE  CallOf(j)' <= CallOf(k)'
        <5>1. j \in OpPlaces
          <6>1. j = new => k \notin OpPlaces /\ k # new
            BY <1>4, <1>5, <4>1
          <6> QED
            BY <1>5, <6>1
        <5>2. CASE k = new
          BY <3>3, <3>4, <3>5, <5>1, <5>2
        <5>3. CASE k \in OpPlaces
          BY <1>0, <3>4, <4>1, <5>1, <5>3 DEF TraceInv
        <5> QED
          BY <1>5, <5>2, <5>3
      <4> QED
        BY <4>1
    <3> QED
      BY <3>6
  <2> QED
    BY <2>4, <2>5, <2>6, <2>7 DEF TraceInv
<1>10. ResultInv'
  BY DEF ResultInv, Run
<1> QED
  BY <1>6, <1>8, <1>9, <1>10 DEF TInv

LEMMA StepTInv == TInv /\ [Next]_vars => TInv'
<1> SUFFICES ASSUME TInv, [Next]_vars PROVE TInv'
  OBVIOUS
<1>1. CASE UNCHANGED vars
  BY <1>1 DEF vars, TInv, TypeOK, HostInv, TraceInv, ResultInv, OpPlaces, CallOf, Devices,
     Chunk, PerIteration, Chosen
<1> QED
  BY <1>1, PrepareTInv, CallTInv, BlockTInv, CallRaisesTInv, ExtractTInv, RunTInv DEF Next

-----------------------------------------------------------------------------
(* From the invariant to the result.                                       *)

\* The kernels of all devices with numbers from a on and below b.
Stretch(a, b) == {k \in OpPlaces : a <= trace[k].run[2] /\ trace[k].run[2] < b}

\* When the host extracts, there are as many of them as b - a on each device.
LEMMA StretchCounts ==
  ASSUME TypeOK, HostInv, TraceInv, pc \in {"extract", "done"},
         NEW a \in Nat, NEW b \in Nat, a <= b, b <= Iterations * config.ops
  PROVE  /\ IsFiniteSet(Stretch(a, b))
         /\ Cardinality(Stretch(a, b)) = config.devices * (b - a)
<1> DEFINE S == Stretch(a, b)
           T == Devices \X (a .. b - 1)
           f == [k \in S |-> trace[k].run]
<1>1. IsFiniteSet(S)
  <2>1. S \in SUBSET (1 .. Len(trace))
    BY TraceFacts DEF Stretch, OpPlaces
  <2>2. IsFiniteSet(1 .. Len(trace))
    BY TraceFacts, FS_Interval
  <2> HIDE DEF S
  <2> QED
    BY <2>1, <2>2, FS_Subset
<1>2. \A k \in S : /\ trace[k].run \in Nat \X Nat /\ k \in OpPlaces
                   /\ a <= trace[k].run[2] /\ trace[k].run[2] < b
  BY TraceFacts DEF Stretch, OpPlaces
<1>3. f \in [S -> T]
  <2>1. ASSUME NEW k \in S PROVE trace[k].run \in T
    <3>1. trace[k].run[1] \in Devices
      BY <1>2 DEF TraceInv
    <3>2. trace[k].run[2] \in a .. b - 1
      BY <1>2
    <3>3. trace[k].run = <<trace[k].run[1], trace[k].run[2]>>
      BY <1>2
    <3> QED
      BY <3>1, <3>2, <3>3
  <2> QED
    BY <2>1
<1>4. \A j, k \in S : f[j] = f[k] => j = k
  BY <1>2 DEF TraceInv
<1>5. ASSUME NEW t \in T PROVE \E k \in S : f[k] = t
  <2>1. PICK d \in Devices, n \in a .. b - 1 : t = <<d, n>>
    OBVIOUS
  <2>2. ran[d] = Iterations * config.ops
    BY DEF HostInv
  <2>3. n \in 0 .. ran[d] - 1
    BY <2>1, <2>2, ConfigFacts
  <2>4. PICK k \in OpPlaces : trace[k].run = <<d, n>>
    BY <2>3 DEF TraceInv
  <2>5. k \in S
    BY <2>1, <2>4 DEF Stretch
  <2> QED
    BY <2>1, <2>4, <2>5
<1>6. f \in Bijection(S, T)
  BY <1>3, <1>4, <1>5 DEF Bijection, Injection, Surjection, IsInjective
<1>7. Cardinality(T) = Cardinality(S)
  <2>1. ExistsBijection(S, T)
    BY <1>6 DEF ExistsBijection
  <2> HIDE DEF S, T
  <2> QED
    BY <1>1, <2>1, FS_Bijection
<1>8. /\ IsFiniteSet(Devices) /\ Cardinality(Devices) = config.devices
      /\ IsFiniteSet(a .. b - 1) /\ Cardinality(a .. b - 1) = b - a
  <2>1. config.devices \in Int /\ config.devices >= 1
    BY ConfigFacts
  <2>2. IsFiniteSet(Devices) /\ Cardinality(Devices) = config.devices
    BY <2>1, FS_Interval DEF Devices
  <2>3. IsFiniteSet(a .. b - 1) /\ Cardinality(a .. b - 1) = b - a
    <3>1. a \in Int /\ b - 1 \in Int
      OBVIOUS
    <3>2. Cardinality(a .. b - 1) = IF a > b - 1 THEN 0 ELSE (b - 1) - a + 1
      BY <3>1, FS_Interval
    <3>3. IsFiniteSet(a .. b - 1)
      BY <3>1, FS_Interval
    <3> QED
      BY <3>2, <3>3
  <2> QED
    BY <2>2, <2>3
<1>9. Cardinality(T) = config.devices * (b - a)
  BY <1>8, FS_Product
<1> QED
  BY <1>1, <1>7, <1>9

\* The events of call i, in the order of the trace, are chunk i of the whole.
LEMMA ChunkIsCall ==
  ASSUME TypeOK, HostInv, TraceInv, pc \in {"extract", "done"}, Complete
  PROVE  Divisible /\ \A i \in 1 .. Iterations : Chunk(i) = OwnEvents(i)
<1> DEFINE m == config.ops
           P == config.devices * m
           K == OpPlaces
           Before(i) == Stretch(0, (i - 1) * m)
           Own(i) == Stretch((i - 1) * m, i * m)
<1>1. /\ m \in Nat \ {0} /\ config.devices \in Nat \ {0} /\ P \in Nat \ {0}
      /\ Iterations \in Nat \ {0} /\ Iterations * m \in Nat /\ Iterations * P \in Nat
  <2>1. m \in Nat \ {0} /\ config.devices \in Nat \ {0} /\ Iterations \in Nat \ {0}
    BY ConfigFacts
  <2> QED
    BY <2>1
<1>2. \A k \in K : trace[k].run[2] \in Nat /\ trace[k].run[2] < Iterations * m
  <2>1. ASSUME NEW k \in K PROVE trace[k].run[2] \in Nat /\ trace[k].run[2] < Iterations * m
    <3>1. trace[k].run \in Nat \X Nat
      BY TraceFacts DEF OpPlaces
    <3>2. trace[k].run[1] \in Devices /\ trace[k].run[2] < ran[trace[k].run[1]]
      BY DEF TraceInv
    <3>3. ran[trace[k].run[1]] = Iterations * m
      BY <3>2 DEF HostInv
    <3> QED
      BY <3>1, <3>2, <3>3
  <2> QED
    BY <2>1
<1>3. K = Stretch(0, Iterations * m) /\ K \in SUBSET Int
  BY <1>2, TraceFacts DEF Stretch, OpPlaces
<1>4. IsFiniteSet(K) /\ Cardinality(K) = Iterations * P
  <2>1. config.devices * (Iterations * m - 0) = Iterations * P
    BY <1>1
  <2>2. 0 <= Iterations * m
    BY <1>1
  <2> QED
    BY <1>1, <1>3, <2>1, <2>2, StretchCounts
<1>5. Chosen = Kept(trace, K)
  BY DEF Chosen, Selected, Complete, OpPlaces
<1>6. DOMAIN Chosen = 1 .. Iterations * P /\ Len(Chosen) = Iterations * P
  <2>1. Chosen = [n \in 1 .. Iterations * P |-> trace[Ascending(K)[n]]]
    BY <1>4, <1>5 DEF Kept
  <2>2. Iterations * P \in Nat
    BY <1>1
  <2> HIDE DEF P, K
  <2> QED
    BY <2>1, <2>2
<1>7. PerIteration = P /\ Divisible
  <2>1. Iterations * P > 0 /\ (Iterations * P) % Iterations = 0 /\ (Iterations * P) \div Iterations = P
    <3> HIDE DEF P
    <3>1. Iterations * P = P * Iterations + 0
      BY <1>1
    <3>2. (Iterations * P) \div Iterations = P
      <4>1. P * Iterations <= Iterations * P /\ Iterations * P < (P + 1) * Iterations
        BY <1>1
      <4>2. P \in Nat
        BY <1>1
      <4> QED
        BY <1>1, <4>1, <4>2, Quotient
    <3> QED
      BY <1>1, <3>1, <3>2
  <2> QED
    BY <1>6, <2>1 DEF PerIteration, Divisible
<1>8. ASSUME NEW i \in 1 .. Iterations
      PROVE  Chunk(i) = OwnEvents(i)
  <2>1. /\ i \in Nat /\ i >= 1 /\ i - 1 \in Nat /\ (i - 1) * m \in Nat /\ i * m \in Nat
        /\ (i - 1) * m <= i * m /\ i * m <= Iterations * m /\ i * m - (i - 1) * m = m
        /\ (i - 1) + 1 = i
    BY <1>1, Multiples
  <2>2. Cardinality(Before(i)) = (i - 1) * P /\ Cardinality(Own(i)) = P
    <3>1. /\ 0 <= (i - 1) * m /\ (i - 1) * m <= Iterations * m
          /\ config.devices * ((i - 1) * m - 0) = (i - 1) * P
      BY <1>1, Multiples
    <3> QED
      BY <1>1, <2>1, <3>1, StretchCounts
  <2>3. OwnPlaces(i) = Own(i)
    <3>1. ASSUME NEW k \in K
          PROVE  CallOf(k) = i - 1 <=> k \in Own(i)
      <4>1. trace[k].run[2] \in Nat /\ m \in Nat \ {0} /\ i - 1 \in Nat
        BY <1>1, <1>2, <2>1
      <4>2. CallOf(k) = i - 1 <=> (i - 1) * m <= trace[k].run[2] /\ trace[k].run[2] < ((i - 1) + 1) * m
        BY <4>1, Quotient DEF CallOf
      <4>3. (i - 1) + 1 = i
        BY <2>1
      <4> QED
        BY <4>2, <4>3 DEF Stretch
    <3>2. Own(i) \subseteq K
      BY DEF Stretch
    <3>3. OwnPlaces(i) = {k \in K : CallOf(k) = i - 1}
      BY DEF OwnPlaces, OpPlaces, CallOf
    <3> HIDE DEF Own, K
    <3> QED
      BY <3>1, <3>2, <3>3
  <2>4. /\ \A k \in Own(i) : k \in K /\ CallOf(k) = i - 1
        /\ \A k \in K : CallOf(k) < i - 1 <=> k \in Before(i)
        /\ \A k \in K : CallOf(k) = i - 1 => k \in Own(i)
    <3>1. ASSUME NEW k \in K
          PROVE  CallOf(k) < i - 1 <=> k \in Before(i)
      <4>1. trace[k].run[2] \in Nat /\ m \in Nat \ {0} /\ i - 1 \in Nat
        BY <1>1, <1>2, <2>1
      <4>2. CallOf(k) < i - 1 <=> trace[k].run[2] < (i - 1) * m
        BY <4>1, Quotient DEF CallOf
      <4> QED
        BY <4>1, <4>2 DEF Stretch
    <3>2. OwnPlaces(i) = {k \in K : CallOf(k) = i - 1}
      BY DEF OwnPlaces, OpPlaces, CallOf
    <3> HIDE DEF Own, K, Before
    <3> QED
      BY <2>3, <3>1, <3>2
  <2>5. \A k \in K : CallOf(k) \in Nat
    BY <1>1, <1>2, Quotient DEF CallOf
  <2>6. /\ \A j \in Before(i), k \in Own(i) : j < k
        /\ \A k \in Own(i), j \in K : j <= k => j \in Before(i) \/ j \in Own(i)
    <3>1. ASSUME NEW j \in K, NEW k \in K, j <= k
          PROVE  CallOf(j) <= CallOf(k)
      <4>1. CASE j = k
        BY <2>5, <4>1
      <4>2. CASE j # k
        <5>1. j < k
          BY <1>3, <3>1, <4>2
        <5> QED
          BY <5>1 DEF TraceInv
      <4> QED
        BY <4>1, <4>2
    <3>2. ASSUME NEW j \in Before(i), NEW k \in Own(i)
          PROVE  j < k
      <4>1. j \in K /\ k \in K /\ CallOf(j) < i - 1 /\ CallOf(k) = i - 1
        <5>1. j \in K
          BY DEF Stretch
        <5> QED
          BY <2>4, <5>1
      <4>2. ~ (k <= j)
        BY <2>5, <3>1, <4>1
      <4> QED
        BY <1>3, <4>1, <4>2
    <3>3. ASSUME NEW k \in Own(i), NEW j \in K, j <= k
          PROVE  j \in Before(i) \/ j \in Own(i)
      <4>1. k \in K /\ CallOf(k) = i - 1
        BY <2>4
      <4>2. CallOf(j) <= i - 1 /\ CallOf(j) \in Nat /\ i - 1 \in Nat
        BY <2>1, <2>5, <3>1, <3>3, <4>1
      <4>3. CallOf(j) < i - 1 \/ CallOf(j) = i - 1
        BY <4>2
      <4> QED
        BY <2>4, <4>3
    <3> QED
      BY <3>2, <3>3
  <2>7. ASSUME NEW n \in 1 .. P
        PROVE  Ascending(K)[(i - 1) * P + n] = Ascending(Own(i))[n]
    <3>1. Before(i) \in SUBSET K /\ Own(i) \in SUBSET K
      BY DEF Stretch
    <3> HIDE DEF K, Before, Own, P
    <3> QED
      BY <1>3, <1>4, <2>2, <2>6, <3>1, StretchOfAscending
  <2>8. OwnEvents(i) = [n \in 1 .. P |-> trace[Ascending(Own(i))[n]]]
    BY <2>2, <2>3 DEF OwnEvents, Kept
  <2>9. Chunk(i) = [n \in 1 .. P |-> Chosen[(i - 1) * P + n]]
    <3> DEFINE lo == (i - 1) * P + 1
               hi == i * P
    <3>1. lo \in Int /\ hi \in Int /\ hi - lo + 1 = P
      <4> HIDE DEF P
      <4>1. i \in Nat /\ P \in Nat
        BY <1>1, <2>1
      <4>2. i * P = (i - 1) * P + P /\ (i - 1) * P \in Int
        BY <4>1
      <4> QED
        BY <4>1, <4>2
    <3>2. Chunk(i) = SubSeq(Chosen, lo, hi)
      BY <1>7 DEF Chunk
    <3> DEFINE V == {Chosen[j] : j \in lo .. hi}
    <3>3. \A j \in lo .. hi : Chosen[j] \in V
      OBVIOUS
    <3> HIDE DEF lo, hi, P, V
    <3>4. SubSeq(Chosen, lo, hi) = [n \in 1 .. (hi - lo) + 1 |-> Chosen[lo + n - 1]]
      BY <3>1 
    <3>5. \A n \in 1 .. P : lo + n - 1 = (i - 1) * P + n
      BY <1>1, <2>1 DEF lo
    <3> QED
      BY <3>1, <3>2, <3>4, <3>5
  <2>10. ASSUME NEW n \in 1 .. P
         PROVE  Chosen[(i - 1) * P + n] = trace[Ascending(K)[(i - 1) * P + n]]
    <3>1. (i - 1) * P + n \in 1 .. Iterations * P
      <4> HIDE DEF P
      <4>1. i - 1 \in Nat /\ P \in Nat /\ Iterations - i \in Nat /\ n \in Nat /\ 1 <= n /\ n <= P
        BY <1>1, <2>1
      <4>2. (i - 1) * P \in Nat /\ (Iterations - i) * P \in Nat
        BY <4>1
      <4>3. Iterations * P = (i - 1) * P + P + (Iterations - i) * P
        BY <1>1, <2>1, <4>1
      <4> QED
        BY <4>1, <4>2, <4>3
    <3>2. Chosen = [q \in 1 .. Iterations * P |-> trace[Ascending(K)[q]]]
      BY <1>4, <1>5 DEF Kept
    <3> HIDE DEF P, K
    <3> QED
      BY <3>1, <3>2
  <2> HIDE DEF P, K, Own
  <2> QED
    BY <2>7, <2>8, <2>9, <2>10
<1> QED
  BY <1>7, <1>8

-----------------------------------------------------------------------------
(* Theorems.                                                               *)

\* The shapes of the variables, what has run and what the trace has of it, at
\* every step of run_profiled_iterations.
THEOREM TraceInvariance == Spec => []TInv
<1>1. Init => TInv
  BY InitTInv
<1>2. TInv /\ [Next]_vars => TInv'
  BY StepTInv
<1> QED
  BY <1>1, <1>2, PTL DEF Spec

\* For every number of devices, kernels and iterations: with a complete trace
\* the extraction succeeds and each duration comes from the kernels of its own
\* call (marker_durations_ms_from_trace cuts the sorted events into equal
\* chunks).
THEOREM OwnDurations == Spec => []DurationsAreTheirOwn
<1>1. TInv => DurationsAreTheirOwn
  <2> SUFFICES ASSUME TInv, Complete, pc \in {"extract", "done"}
               PROVE  /\ pc = "done" =>
                           \A i \in 1 .. Iterations :
                             durations[i] = Reduce(OwnEvents(i), config.reducer)
                      /\ pc = "extract" => Divisible
    BY DEF DurationsAreTheirOwn
  <2>1. Divisible /\ \A i \in 1 .. Iterations : Chunk(i) = OwnEvents(i)
    BY ChunkIsCall DEF TInv
  <2>2. pc = "done" => \A i \in 1 .. Iterations :
                         durations[i] = Reduce(Chunk(i), config.reducer)
    BY DEF TInv, ResultInv
  <2> QED
    BY <2>1, <2>2
<1> QED
  BY <1>1, TraceInvariance, PTL
=============================================================================
