-------------------------- MODULE TrafficCasesProofs -------------------------
(***************************************************************************)
(* What holds of TrafficCases for every list of devices, every request and *)
(* every width of the index.  PlanInv is inductive: it says what each      *)
(* variable is, as a function of the ones before it, once its stage is     *)
(* past.  The rest is counting, and sums over parts of a row.              *)
(***************************************************************************)
EXTENDS TrafficCases, FiniteSetTheorems, FunctionTheorems, TLAPS

\* Stages from the one that sets the variables in question on; a run that was
\* refused after a report has passed them all.
Since(stages) == stage \in stages \/ reports # <<>>
Inferred == Since({"inferred", "selected", "expanded", "listed", "done"})
Chose == Since({"selected", "expanded", "listed", "done"})
Expanded == Since({"expanded", "listed", "done"})
Listed == Since({"listed", "done"})

\* What no stage has set yet.
BlankInv ==
  /\ stage \in {"asked", "valid", "inferred"} => chosen = <<>>
  /\ stage \in {"asked", "valid", "inferred", "selected"} => matrix = {}
  /\ stage \in {"asked", "valid", "inferred", "selected", "expanded"} =>
       cases = <<>> /\ reports = <<>> /\ capacity = <<>>

MeshInv ==
  /\ Inferred => /\ Inferable /\ chips = ChipOrder
                 /\ topology = [a \in Axes |-> Cardinality(AxisValues(a))]
  /\ Chose => InSlice /\ block = Ranges /\ chosen = Selected

CaseInv ==
  /\ Inferred \/ stage = "valid" => ValidRequest(request)
  /\ Expanded => Expandable /\ matrix = ChipletMatrix
  /\ Listed => cases = IF request.split
                         THEN [i \in DOMAIN ActivePairs |-> {ActivePairs[i]}]
                         ELSE <<matrix>>

\* The buffers are those of the last case that ran.
ReportInv ==
  /\ cases \in Seq(SUBSET (Chiplets \X Chiplets))
  /\ reports \in Seq({Report(cases[k]) : k \in DOMAIN cases})
  /\ \A k \in DOMAIN reports : /\ k \in DOMAIN cases
                               /\ reports[k] = Report(cases[k]) /\ Runnable(cases[k])
  /\ reports # <<>> /\ Ragged(cases[Len(reports)]) =>
       capacity = <<MaxSend(cases[Len(reports)]), MaxRecv(cases[Len(reports)])>>

PlanInv == TypeOK /\ BlankInv /\ MeshInv /\ CaseInv /\ ReportInv

-----------------------------------------------------------------------------
(* Induction over numbers, in a form without operators: a set that has 0   *)
(* and all successors.  The members of B, which are not in S, would map    *)
(* one to one into those below k.                                          *)

LEMMA NatSetInduction ==
  ASSUME NEW S, 0 \in S, \A n \in Nat : n \in S => n + 1 \in S
  PROVE  Nat \subseteq S
<1> SUFFICES ASSUME NEW k \in Nat, k \notin S
             PROVE  FALSE
  OBVIOUS
<1> DEFINE B == {j \in 0 .. k : j \notin S}
           f == [j \in B |-> j - 1]
<1>1. ASSUME NEW j \in B
      PROVE  j - 1 \in B \ {k}
  <2>1. j \in Nat /\ j <= k /\ j \notin S /\ j # 0
    OBVIOUS
  <2>2. j - 1 \in Nat /\ j - 1 <= k /\ j - 1 # k /\ (j - 1) + 1 = j
    BY <2>1
  <2>3. j - 1 \notin S
    BY <2>1, <2>2
  <2> QED
    BY <2>2, <2>3
<1>2. IsFiniteSet(B) /\ k \in B
  <2>1. IsFiniteSet(0 .. k) /\ B \in SUBSET (0 .. k)
    BY FS_Interval
  <2>2. IsFiniteSet(B)
    BY <2>1, FS_Subset
  <2> QED
    BY <2>2
<1>3. /\ IsFiniteSet(B \ {k})
      /\ Cardinality(B) \in Nat
      /\ Cardinality(B \ {k}) = Cardinality(B) - 1
  BY <1>2, FS_RemoveElement, FS_CardinalityType
<1>4. f \in [B -> B \ {k}]
  BY <1>1
<1>5. PICK x \in B, y \in B : x # y /\ f[x] = f[y]
  <2>1. Cardinality(B \ {k}) < Cardinality(B)
    BY <1>3
  <2> HIDE DEF B, f
  <2> QED
    BY <2>1, <1>2, <1>3, <1>4, FS_PigeonHole
<1> QED
  BY <1>5

-----------------------------------------------------------------------------
(* Lists in order.                                                         *)

\* The members of a finite set of integers have the ranks from 1 to its size, each once.
LEMMA RankIsBijective ==
  ASSUME NEW S \in SUBSET Int, IsFiniteSet(S)
  PROVE  /\ Cardinality(S) \in Nat
         /\ \A k \in S : Rank(S, k) \in 1 .. Cardinality(S)
         /\ \A j, k \in S : j < k => Rank(S, j) < Rank(S, k)
         /\ \A n \in 1 .. Cardinality(S) : \E k \in S : Rank(S, k) = n
<1> DEFINE Upto(k) == {j \in S : j <= k}
           c == Cardinality(S)
<1>1. c \in Nat
  BY FS_CardinalityType
<1>2. ASSUME NEW k \in S
      PROVE  /\ IsFiniteSet(Upto(k)) /\ Cardinality(Upto(k)) \in 1 .. c
  <2>1. /\ IsFiniteSet(Upto(k)) /\ Cardinality(Upto(k)) <= c
    BY FS_Subset, Upto(k) \in SUBSET S
  <2>2. k \in Upto(k)
    OBVIOUS
  <2>3. Cardinality(Upto(k)) \in Nat /\ Cardinality(Upto(k)) # 0
    BY <2>1, <2>2, FS_CardinalityType, FS_EmptySet
  <2> QED
    BY <2>1, <2>3, <1>1
<1>3. ASSUME NEW j \in S, NEW k \in S, j < k
      PROVE  Cardinality(Upto(j)) < Cardinality(Upto(k))
  <2>1. Upto(j) \in SUBSET Upto(k)
    <3>1. ASSUME NEW i \in Upto(j) PROVE i \in Upto(k)
      <4>1. i \in Int /\ j \in Int /\ k \in Int /\ i \in S /\ i <= j
        OBVIOUS
      <4> QED
        BY <4>1, <1>3
    <3> QED
      BY <3>1
  <2>2. Upto(j) # Upto(k)
    <3>1. k \in Upto(k) /\ k \notin Upto(j)
      BY <1>3
    <3> QED
      BY <3>1
  <2>3. /\ Cardinality(Upto(j)) <= Cardinality(Upto(k))
        /\ Cardinality(Upto(k)) # Cardinality(Upto(j))
    BY <1>2, <2>1, <2>2, FS_Subset
  <2>4. Cardinality(Upto(j)) \in Nat /\ Cardinality(Upto(k)) \in Nat
    BY <1>1, <1>2
  <2> QED
    BY <2>3, <2>4
<1>4. ASSUME NEW n \in 1 .. c
      PROVE  \E k \in S : Cardinality(Upto(k)) = n
  <2> DEFINE f == [k \in S |-> Cardinality(Upto(k))]
  <2>1. f \in [S -> 1 .. c]
    BY <1>2
  <2>2. ASSUME NEW j \in S, NEW k \in S, f[j] = f[k]
        PROVE  j = k
    <3>1. f[j] \in Int /\ f[j] = Cardinality(Upto(j)) /\ f[k] = Cardinality(Upto(k))
      BY <2>1, <1>1
    <3>2. ~ (j < k) /\ ~ (k < j)
      BY <1>3, <2>2, <3>1
    <3>3. j \in Int /\ k \in Int
      OBVIOUS
    <3> QED
      BY <3>2, <3>3
  <2>3. f \in Injection(S, 1 .. c)
    BY <2>1, <2>2 DEF Injection, IsInjective
  <2>4. IsFiniteSet(1 .. c) /\ Cardinality(1 .. c) = c
    BY <1>1, FS_Interval
  <2>5. f \in Surjection(S, 1 .. c)
    BY <2>3, <2>4, FS_Injection
  <2>6. PICK k \in S : f[k] = n
    BY <2>5 DEF Surjection
  <2> QED
    BY <2>6
<1> QED
  BY <1>1, <1>2, <1>3, <1>4 DEF Rank

\* Ascending lists each member once, the smaller one first.
LEMMA AscendingProperties ==
  ASSUME NEW S \in SUBSET Int, IsFiniteSet(S)
  PROVE  /\ Ascending(S) \in [1 .. Cardinality(S) -> S]
         /\ \A k \in S : Ascending(S)[Rank(S, k)] = k
         /\ \A m, n \in 1 .. Cardinality(S) : m < n => Ascending(S)[m] < Ascending(S)[n]
<1> DEFINE A == Ascending(S)
           c == Cardinality(S)
<1>1. ASSUME NEW n \in 1 .. c
      PROVE  A[n] \in S /\ Rank(S, A[n]) = n
  <2>1. A[n] = CHOOSE k \in S : Rank(S, k) = n
    BY DEF Ascending
  <2>2. \E k \in S : Rank(S, k) = n
    BY RankIsBijective
  <2> QED
    BY <2>1, <2>2
<1>2. A \in [1 .. c -> S]
  BY <1>1 DEF Ascending
<1>3. ASSUME NEW j \in S, NEW k \in S, Rank(S, j) = Rank(S, k)
      PROVE  j = k
  <2>1. j \in Int /\ k \in Int /\ Rank(S, j) \in Int
    BY RankIsBijective
  <2>2. ~ (j < k) /\ ~ (k < j)
    BY <1>3, <2>1, RankIsBijective
  <2> QED
    BY <2>1, <2>2
<1>4. ASSUME NEW k \in S
      PROVE  A[Rank(S, k)] = k
  <2>1. Rank(S, k) \in 1 .. c
    BY RankIsBijective
  <2> QED
    BY <2>1, <1>1, <1>3
<1>5. ASSUME NEW m \in 1 .. c, NEW n \in 1 .. c, m < n
      PROVE  A[m] < A[n]
  <2>1. A[m] \in S /\ A[n] \in S /\ Rank(S, A[m]) = m /\ Rank(S, A[n]) = n
    BY <1>1
  <2>2. ~ (A[n] < A[m]) /\ A[m] # A[n]
    <3>1. c \in Nat
      BY RankIsBijective
    <3>2. m \in Int /\ n \in Int
      BY <3>1
    <3>3. A[n] < A[m] => n < m
      BY <2>1, RankIsBijective
    <3> QED
      BY <2>1, <3>2, <3>3, <1>5
  <2>3. A[m] \in Int /\ A[n] \in Int
    BY <2>1
  <2> QED
    BY <2>2, <2>3
<1> QED
  BY <1>2, <1>4, <1>5

-----------------------------------------------------------------------------
(* Sums over sets of indices.                                              *)

Total(w, T) == SumFunctionOnSet(w, T)

Picked(T) == CHOOSE x \in T : TRUE

\* The recursive function behind the sum over S, and the equation that defines
\* it, on the sets in D.
SumFcn(w, S) ==
  CHOOSE g : g = [T \in SUBSET S |-> IF T = {} THEN 0 ELSE w[Picked(T)] + g[T \ {Picked(T)}]]

Sums(w, D, g) ==
  \A T \in D : g[T] = IF T = {} THEN 0 ELSE w[Picked(T)] + g[T \ {Picked(T)}]

UpTo(S, n) == {T \in SUBSET S : Cardinality(T) <= n}

LEMMA TotalUnfolds ==
  ASSUME NEW w, NEW S
  PROVE  Total(w, S) = SumFcn(w, S)[S]
BY Zenon DEF Total, SumFunctionOnSet, FoldFunctionOnSet, MapThenFoldSet, SumFcn, Picked

\* Any part of a finite set loses one member at a time.
LEMMA PickedFacts ==
  ASSUME NEW S, IsFiniteSet(S), NEW T \in SUBSET S
  PROVE  /\ IsFiniteSet(T) /\ Cardinality(T) \in Nat /\ Cardinality(T) <= Cardinality(S)
         /\ T # {} => /\ Picked(T) \in T /\ T \ {Picked(T)} \in SUBSET S
                      /\ Cardinality(T \ {Picked(T)}) = Cardinality(T) - 1
<1>1. IsFiniteSet(T) /\ Cardinality(T) \in Nat /\ Cardinality(T) <= Cardinality(S)
  BY FS_Subset, FS_CardinalityType
<1>2. T # {} => Picked(T) \in T
  BY DEF Picked
<1>3. T # {} => Cardinality(T \ {Picked(T)}) = Cardinality(T) - 1
  BY <1>1, <1>2, FS_RemoveElement
<1> QED
  BY <1>1, <1>2, <1>3

LEMMA UpToZero ==
  ASSUME NEW S, IsFiniteSet(S)
  PROVE  UpTo(S, 0) = {{}}
<1>1. ASSUME NEW T \in SUBSET S
      PROVE  Cardinality(T) <= 0 <=> T = {}
  <2>1. IsFiniteSet(T) /\ Cardinality(T) \in Nat
    BY PickedFacts
  <2>2. Cardinality(T) = 0 <=> T = {}
    BY <2>1, FS_EmptySet
  <2> QED
    BY <2>1, <2>2
<1> QED
  BY <1>1 DEF UpTo

\* The recursion has a solution on the parts of S, so SumFcn is one.
LEMMA SumFcnExists ==
  ASSUME NEW S, IsFiniteSet(S), NEW w, \A x \in S : w[x] \in Nat
  PROVE  Sums(w, SUBSET S, SumFcn(w, S))
<1> DEFINE Good == {n \in Nat : \E g \in [UpTo(S, n) -> Nat] : Sums(w, UpTo(S, n), g)}
<1>1. 0 \in Good
  <2>1. UpTo(S, 0) = {{}}
    BY UpToZero
  <2> DEFINE g == [T \in UpTo(S, 0) |-> 0]
  <2>2. g \in [UpTo(S, 0) -> Nat] /\ Sums(w, UpTo(S, 0), g)
    BY <2>1 DEF Sums
  <2> QED
    BY <2>2
<1>2. ASSUME NEW n \in Nat, n \in Good
      PROVE  n + 1 \in Good
  <2>1. PICK g \in [UpTo(S, n) -> Nat] : Sums(w, UpTo(S, n), g)
    BY <1>2
  <2> DEFINE h == [T \in UpTo(S, n + 1) |->
                     IF T = {} THEN 0 ELSE w[Picked(T)] + g[T \ {Picked(T)}]]
  <2>2. ASSUME NEW T \in UpTo(S, n + 1), T # {}
        PROVE  Picked(T) \in S /\ T \ {Picked(T)} \in UpTo(S, n)
    <3>1. T \in SUBSET S /\ Cardinality(T) <= n + 1
      BY DEF UpTo
    <3>2. /\ Picked(T) \in T /\ T \ {Picked(T)} \in SUBSET S /\ Cardinality(T) \in Nat
          /\ Cardinality(T \ {Picked(T)}) = Cardinality(T) - 1
      BY <2>2, <3>1, PickedFacts
    <3> QED
      BY <3>1, <3>2 DEF UpTo
  <2>3. h \in [UpTo(S, n + 1) -> Nat]
    <3>1. ASSUME NEW T \in UpTo(S, n + 1), T # {}
          PROVE  w[Picked(T)] + g[T \ {Picked(T)}] \in Nat
      <4>1. w[Picked(T)] \in Nat /\ g[T \ {Picked(T)}] \in Nat
        BY <2>2, <3>1
      <4> QED
        BY <4>1
    <3>2. \A T \in UpTo(S, n + 1) : h[T] \in Nat
      BY <3>1
    <3> QED
      BY <3>2
  <2>4. ASSUME NEW T \in UpTo(S, n)
        PROVE  T \in UpTo(S, n + 1) /\ h[T] = g[T]
    <3>1. T \in UpTo(S, n + 1)
      <4>1. T \in SUBSET S /\ Cardinality(T) <= n
        BY DEF UpTo
      <4>2. Cardinality(T) \in Nat
        BY <4>1, PickedFacts
      <4> QED
        BY <4>1, <4>2 DEF UpTo
    <3>2. h[T] = IF T = {} THEN 0 ELSE w[Picked(T)] + g[T \ {Picked(T)}]
      BY <3>1
    <3> QED
      BY <3>1, <3>2, <2>1 DEF Sums
  <2>5. Sums(w, UpTo(S, n + 1), h)
    <3>1. ASSUME NEW T \in UpTo(S, n + 1)
          PROVE  h[T] = IF T = {} THEN 0 ELSE w[Picked(T)] + h[T \ {Picked(T)}]
      <4>1. T # {} => h[T \ {Picked(T)}] = g[T \ {Picked(T)}]
        BY <2>2, <2>4
      <4> QED
        BY <4>1
    <3> HIDE DEF h
    <3> QED
      BY <3>1 DEF Sums
  <2>6. n + 1 \in Nat
    OBVIOUS
  <2> HIDE DEF h
  <2> QED
    BY <2>3, <2>5, <2>6
<1>3. Cardinality(S) \in Good
  <2>1. Cardinality(S) \in Nat
    BY FS_CardinalityType
  <2> HIDE DEF Good
  <2>2. Nat \subseteq Good
    BY <1>1, <1>2, NatSetInduction
  <2> QED
    BY <2>1, <2>2
<1>4. UpTo(S, Cardinality(S)) = SUBSET S
  BY PickedFacts DEF UpTo
<1>5. PICK g \in [SUBSET S -> Nat] : Sums(w, SUBSET S, g)
  BY <1>3, <1>4
<1>6. g = [T \in SUBSET S |-> IF T = {} THEN 0 ELSE w[Picked(T)] + g[T \ {Picked(T)}]]
  BY <1>5 DEF Sums
<1>7. SumFcn(w, S) =
        [T \in SUBSET S |-> IF T = {} THEN 0 ELSE w[Picked(T)] + SumFcn(w, S)[T \ {Picked(T)}]]
  BY Zenon, <1>6 DEF SumFcn
<1> QED
  BY Zenon, <1>7 DEF Sums

\* The sum over a part of S is the same whichever set it is taken as a part of.
LEMMA TotalEquation ==
  ASSUME NEW S, IsFiniteSet(S), NEW w, \A x \in S : w[x] \in Nat, NEW T \in SUBSET S
  PROVE  /\ Total(w, T) \in Nat
         /\ Total(w, {}) = 0
         /\ T # {} => Total(w, T) = w[Picked(T)] + Total(w, T \ {Picked(T)})
<1> DEFINE Good == {n \in Nat : \A R \in SUBSET S : \A U \in UpTo(R, n) :
                      SumFcn(w, R)[U] = SumFcn(w, S)[U] /\ SumFcn(w, S)[U] \in Nat}
<1>1. \A R \in SUBSET S : Sums(w, SUBSET R, SumFcn(w, R)) /\ IsFiniteSet(R)
  BY SumFcnExists, PickedFacts
<1>2. ASSUME NEW R \in SUBSET S
      PROVE  SumFcn(w, R)[{}] = 0
  <2>1. {} \in SUBSET R
    OBVIOUS
  <2> QED
    BY Zenon, <1>1, <2>1 DEF Sums
<1>3. 0 \in Good
  <2>1. ASSUME NEW R \in SUBSET S, NEW U \in UpTo(R, 0)
        PROVE  SumFcn(w, R)[U] = SumFcn(w, S)[U] /\ SumFcn(w, S)[U] \in Nat
    <3>1. U = {}
      BY <1>1, UpToZero
    <3>2. SumFcn(w, R)[U] = 0 /\ SumFcn(w, S)[U] = 0
      BY <1>2, <3>1
    <3> QED
      BY <3>2
  <2> QED
    BY <2>1
<1>4. ASSUME NEW n \in Nat, n \in Good
      PROVE  n + 1 \in Good
  <2>1. ASSUME NEW R \in SUBSET S, NEW U \in UpTo(R, n + 1)
        PROVE  SumFcn(w, R)[U] = SumFcn(w, S)[U] /\ SumFcn(w, S)[U] \in Nat
    <3> DEFINE V == U \ {Picked(U)}
    <3>1. U \in SUBSET R /\ U \in SUBSET S /\ Cardinality(U) <= n + 1
      BY DEF UpTo
    <3>2. CASE U = {}
      <4>1. SumFcn(w, R)[U] = 0 /\ SumFcn(w, S)[U] = 0
        BY <1>2, <3>2
      <4> QED
        BY <4>1
    <3>3. CASE U # {}
      <4>1. /\ Picked(U) \in U /\ V \in SUBSET R /\ Cardinality(U) \in Nat
            /\ Cardinality(V) = Cardinality(U) - 1
        BY <3>1, <3>3, PickedFacts
      <4>2. V \in UpTo(R, n)
        BY <3>1, <4>1 DEF UpTo
      <4>3. SumFcn(w, R)[V] = SumFcn(w, S)[V] /\ SumFcn(w, S)[V] \in Nat
        BY <1>4, <4>2
      <4>4. /\ SumFcn(w, R)[U] = w[Picked(U)] + SumFcn(w, R)[V]
            /\ SumFcn(w, S)[U] = w[Picked(U)] + SumFcn(w, S)[V]
        BY <1>1, <3>1, <3>3 DEF Sums
      <4>5. w[Picked(U)] \in Nat
        BY <3>1, <4>1
      <4> QED
        BY <4>3, <4>4, <4>5
    <3> QED
      BY <3>2, <3>3
  <2> QED
    BY <2>1
<1>5. ASSUME NEW U \in SUBSET S
      PROVE  Total(w, U) = SumFcn(w, S)[U] /\ SumFcn(w, S)[U] \in Nat
  <2>1. Cardinality(U) \in Nat /\ U \in UpTo(U, Cardinality(U))
    BY PickedFacts DEF UpTo
  <2>2. Nat \subseteq Good
    <3> HIDE DEF Good
    <3> QED
      BY <1>3, <1>4, NatSetInduction
  <2> QED
    BY <2>1, <2>2, TotalUnfolds
<1>6. T \ {Picked(T)} \in SUBSET S /\ {} \in SUBSET S
  OBVIOUS
<1> QED
  BY <1>1, <1>5, <1>6 DEF Sums

\* Any member may be taken out first.
LEMMA TotalRemove ==
  ASSUME NEW S, IsFiniteSet(S), NEW w, \A x \in S : w[x] \in Nat,
         NEW T \in SUBSET S, NEW x \in T
  PROVE  Total(w, T) = w[x] + Total(w, T \ {x})
<1> DEFINE Good == {n \in Nat : \A U \in UpTo(S, n) : \A y \in U :
                      Total(w, U) = w[y] + Total(w, U \ {y})}
<1>1. 0 \in Good
  <2>1. \A U \in UpTo(S, 0) : U = {}
    BY UpToZero
  <2> QED
    BY <2>1
<1>2. ASSUME NEW n \in Nat, n \in Good
      PROVE  n + 1 \in Good
  <2>1. ASSUME NEW U \in UpTo(S, n + 1), NEW y \in U
        PROVE  Total(w, U) = w[y] + Total(w, U \ {y})
    <3> DEFINE p == Picked(U)
    <3>1. U \in SUBSET S /\ Cardinality(U) <= n + 1 /\ U # {} /\ IsFiniteSet(U)
      BY PickedFacts DEF UpTo
    <3>2. /\ p \in U /\ Cardinality(U) \in Nat
          /\ Cardinality(U \ {p}) = Cardinality(U) - 1
          /\ Total(w, U) = w[p] + Total(w, U \ {p})
      BY <3>1, PickedFacts, TotalEquation
    <3>3. CASE y = p
      BY <3>2, <3>3
    <3>4. CASE y # p
      <4> DEFINE V == (U \ {p}) \ {y}
      <4>1. Cardinality(U \ {y}) = Cardinality(U) - 1
        BY <3>1, FS_RemoveElement
      <4>2. U \ {p} \in UpTo(S, n) /\ U \ {y} \in UpTo(S, n)
        BY <3>1, <3>2, <4>1 DEF UpTo
      <4>3. V = (U \ {y}) \ {p} /\ y \in U \ {p} /\ p \in U \ {y}
        BY <3>2, <3>4
      <4>4. /\ Total(w, U \ {p}) = w[y] + Total(w, V)
            /\ Total(w, U \ {y}) = w[p] + Total(w, V)
        BY <1>2, <4>2, <4>3
      <4>5. w[y] \in Nat /\ w[p] \in Nat /\ Total(w, V) \in Nat
        <5>1. V \in SUBSET S /\ y \in S /\ p \in S
          BY <3>1, <3>2
        <5> QED
          BY <5>1, TotalEquation
      <4> QED
        BY <3>2, <4>4, <4>5
    <3> QED
      BY <3>3, <3>4
  <2> QED
    BY <2>1
<1>3. Cardinality(T) \in Nat /\ T \in UpTo(S, Cardinality(T))
  BY PickedFacts DEF UpTo
<1>4. Nat \subseteq Good
  <2> HIDE DEF Good
  <2> QED
    BY <1>1, <1>2, NatSetInduction
<1> QED
  BY <1>3, <1>4

\* A larger part has the larger sum.
LEMMA TotalMonotonic ==
  ASSUME NEW S, IsFiniteSet(S), NEW w, \A x \in S : w[x] \in Nat,
         NEW T \in SUBSET S, NEW A \in SUBSET T
  PROVE  Total(w, A) <= Total(w, T)
<1> DEFINE Good == {n \in Nat : \A U \in UpTo(S, n) : A \subseteq U => Total(w, A) <= Total(w, U)}
<1>0. A \in SUBSET S /\ Total(w, A) \in Nat
  BY TotalEquation
<1>1. 0 \in Good
  <2>1. ASSUME NEW U \in UpTo(S, 0), A \subseteq U
        PROVE  Total(w, A) <= Total(w, U)
    <3>1. U = {} /\ A = U
      BY <2>1, UpToZero
    <3>2. Total(w, A) = Total(w, U) /\ Total(w, A) \in Int
      BY <1>0, <3>1
    <3> HIDE <3>1
    <3> QED
      BY <3>2
  <2> QED
    BY <2>1
<1>2. ASSUME NEW n \in Nat, n \in Good
      PROVE  n + 1 \in Good
  <2>1. ASSUME NEW U \in UpTo(S, n + 1), A \subseteq U
        PROVE  Total(w, A) <= Total(w, U)
    <3>1. U \in SUBSET S /\ Cardinality(U) <= n + 1 /\ IsFiniteSet(U) /\ Cardinality(U) \in Nat
      BY PickedFacts DEF UpTo
    <3>2. CASE A = U
      BY <1>0, <3>2
    <3>3. ASSUME NEW y \in U, y \notin A
          PROVE  Total(w, A) <= Total(w, U)
      <4>1. U \ {y} \in UpTo(S, n)
        <5>1. Cardinality(U \ {y}) = Cardinality(U) - 1
          BY <3>1, FS_RemoveElement
        <5> QED
          BY <3>1, <5>1 DEF UpTo
      <4>2. Total(w, A) <= Total(w, U \ {y})
        BY <1>2, <2>1, <3>3, <4>1
      <4>3. Total(w, U) = w[y] + Total(w, U \ {y}) /\ w[y] \in Nat
        BY <3>1, TotalRemove
      <4>4. Total(w, U \ {y}) \in Nat
        BY <3>1, TotalEquation
      <4> QED
        BY <1>0, <4>2, <4>3, <4>4
    <3> QED
      BY <2>1, <3>2, <3>3
  <2> QED
    BY <2>1
<1>3. Cardinality(T) \in Nat /\ T \in UpTo(S, Cardinality(T))
  BY PickedFacts DEF UpTo
<1>4. Nat \subseteq Good
  <2> HIDE DEF Good
  <2> QED
    BY <1>1, <1>2, NatSetInduction
<1> QED
  BY <1>3, <1>4

-----------------------------------------------------------------------------
(* Greatest and least members, rows and columns.                           *)

\* Min and Max of a finite set of integers are members and bounds.
LEMMA Extremes ==
  ASSUME NEW S \in SUBSET Int, IsFiniteSet(S), S # {}
  PROVE  /\ Max(S) \in S /\ \A y \in S : y <= Max(S)
         /\ Min(S) \in S /\ \A y \in S : Min(S) <= y
<1> DEFINE c == Cardinality(S)
           A == Ascending(S)
<1>1. c \in Nat /\ c # 0
  BY FS_CardinalityType, FS_EmptySet
<1>2. A \in [1 .. c -> S] /\ 1 \in 1 .. c /\ c \in 1 .. c
  BY <1>1, AscendingProperties
<1>3. ASSUME NEW y \in S
      PROVE  A[1] <= y /\ y <= A[c]
  <2>1. Rank(S, y) \in 1 .. c /\ A[Rank(S, y)] = y
    BY RankIsBijective, AscendingProperties
  <2>2. PICK r \in 1 .. c : A[r] = y
    BY <2>1
  <2>3. A[1] \in Int /\ A[c] \in Int /\ y \in Int
    BY <1>2
  <2>4. 1 < r => A[1] < A[r]
    BY <1>2, AscendingProperties
  <2>5. r < c => A[r] < A[c]
    BY <1>2, AscendingProperties
  <2>6. (1 < r \/ r = 1) /\ (r < c \/ r = c)
    BY <1>1
  <2> QED
    BY <2>2, <2>3, <2>4, <2>5, <2>6
<1>4. A[1] \in S /\ A[c] \in S
  BY <1>2
<1> HIDE DEF A, c
<1>5. \E x \in S : \A y \in S : x >= y
  <2>1. \A y \in S : A[c] >= y
    BY <1>3, <1>4
  <2> QED
    BY <2>1, <1>4
<1>6. \E x \in S : \A y \in S : x <= y
  BY <1>3, <1>4
<1>7. Max(S) \in S /\ \A y \in S : Max(S) >= y
  BY <1>5 DEF Max
<1>8. Min(S) \in S /\ \A y \in S : Min(S) <= y
  BY <1>6 DEF Min
<1> QED
  BY <1>7, <1>8

\* Row and column of a cell that is numbered row by row.
LEMMA RowAndColumn ==
  ASSUME NEW n \in Nat \ {0}, NEW a \in Nat, NEW b \in 0 .. n - 1
  PROVE  (n * a + b) \div n = a /\ (n * a + b) % n = b
<1> DEFINE x == n * a + b
           q == x \div n
           r == x % n
<1>0. x \in Nat
  <2>1. n * a \in Nat
    OBVIOUS
  <2> QED
    BY <2>1
<1>1. q \in Nat /\ r \in 0 .. n - 1 /\ x = n * q + r
  <2> HIDE DEF x
  <2> QED
    BY <1>0
<1> HIDE DEF q, r
<1>2. q < a => n * (q + 1) <= n * a
  <2>1. q < a => q + 1 <= a
    BY <1>1
  <2> QED
    BY <2>1, <1>1
<1>3. a < q => n * (a + 1) <= n * q
  <2>1. a < q => a + 1 <= q
    BY <1>1
  <2> QED
    BY <2>1, <1>1
<1>4. n * (q + 1) = n * q + n /\ n * (a + 1) = n * a + n
  BY <1>1
<1>5. n * q \in Nat /\ n * a \in Nat
  BY <1>1
<1>6. ~ (q < a) /\ ~ (a < q)
  BY <1>1, <1>2, <1>3, <1>4, <1>5
<1>7. q = a
  BY <1>1, <1>6
<1>8. r = b
  BY <1>1, <1>5, <1>7
<1> QED
  BY <1>7, <1>8 DEF q, r

Cells(n, M) == {n * e[1] + e[2] : e \in M}
Pairs(n, M) ==
  [k \in DOMAIN Ascending(Cells(n, M)) |->
     <<Ascending(Cells(n, M))[k] \div n, Ascending(Cells(n, M))[k] % n>>]

\* The list P has the members of M, each once.
ListsOnce(P, M) ==
  \E c \in Nat :
    /\ P \in [1 .. c -> M]
    /\ \A e \in M : \E k \in 1 .. c : P[k] = e
    /\ \A j, k \in 1 .. c : P[j] = P[k] => j = k

\* The pairs of a matrix row by row.
LEMMA PairsAreTheMatrix ==
  ASSUME NEW n \in Nat, NEW M \in SUBSET ((0 .. n - 1) \X (0 .. n - 1))
  PROVE  ListsOnce(Pairs(n, M), M)
<1> DEFINE C == Cells(n, M)
           A == Ascending(C)
           c == Cardinality(C)
           P == Pairs(n, M)
<1>1. IsFiniteSet(M)
  <2>1. IsFiniteSet(0 .. n - 1)
    <3>1. 0 \in Int /\ n - 1 \in Int
      OBVIOUS
    <3> QED
      BY <3>1, FS_Interval
  <2>2. IsFiniteSet((0 .. n - 1) \X (0 .. n - 1))
    BY <2>1, FS_Product
  <2> QED
    BY <2>2, FS_Subset
<1>2. ASSUME NEW e \in M
      PROVE  /\ n \in Nat \ {0} /\ e[1] \in Nat /\ e[2] \in 0 .. n - 1
             /\ n * e[1] + e[2] \in Nat /\ e = <<e[1], e[2]>>
             /\ (n * e[1] + e[2]) \div n = e[1] /\ (n * e[1] + e[2]) % n = e[2]
  <2>1. e[1] \in 0 .. n - 1 /\ e[2] \in 0 .. n - 1 /\ e = <<e[1], e[2]>>
    OBVIOUS
  <2>2. n # 0 /\ e[1] \in Nat /\ e[2] \in Nat
    BY <2>1
  <2>3. n * e[1] \in Nat
    BY <2>2
  <2>4. (n * e[1] + e[2]) \div n = e[1] /\ (n * e[1] + e[2]) % n = e[2]
    BY <2>1, <2>2, RowAndColumn
  <2>5. n * e[1] + e[2] \in Nat
    BY <2>1, <2>2, <2>3
  <2>6. n \in Nat \ {0}
    BY <2>2
  <2> QED
    BY Zenon, <2>1, <2>2, <2>4, <2>5, <2>6
<1>3. IsFiniteSet(C) /\ C \in SUBSET Nat
  <2> DEFINE f == [e \in M |-> n * e[1] + e[2]]
  <2>1. f \in Surjection(M, C)
    BY DEF Surjection, Cells
  <2>2. IsFiniteSet(C)
    BY <1>1, <2>1, FS_Surjection
  <2> QED
    BY <2>2, <1>2 DEF Cells
<1>4. C \in SUBSET Int
  BY <1>3
<1>5. c \in Nat /\ A \in [1 .. c -> C]
  BY <1>3, <1>4, RankIsBijective, AscendingProperties
<1>6. DOMAIN P = 1 .. c /\ \A k \in 1 .. c : P[k] = <<A[k] \div n, A[k] % n>>
  BY <1>5 DEF Pairs
<1>7. ASSUME NEW k \in 1 .. c
      PROVE  P[k] \in M /\ A[k] = n * P[k][1] + P[k][2]
  <2>1. PICK e \in M : A[k] = n * e[1] + e[2]
    BY <1>5 DEF Cells
  <2>2. A[k] \div n = e[1] /\ A[k] % n = e[2] /\ e = <<e[1], e[2]>>
    BY Zenon, <1>2, <2>1
  <2>3. P[k] = e
    BY Zenon, <1>6, <2>2
  <2> QED
    BY Zenon, <2>1, <2>3
<1>8. P \in [1 .. c -> M]
  BY <1>6, <1>7 DEF Pairs
<1>9. ASSUME NEW e \in M
      PROVE  \E k \in 1 .. c : P[k] = e
  <2> DEFINE x == n * e[1] + e[2]
  <2>1. x \in C
    BY DEF Cells
  <2>2. Rank(C, x) \in 1 .. c /\ A[Rank(C, x)] = x
    BY <2>1, <1>3, <1>4, RankIsBijective, AscendingProperties
  <2>3. P[Rank(C, x)] = <<x \div n, x % n>>
    BY <1>6, <2>2
  <2>4. x \div n = e[1] /\ x % n = e[2] /\ e = <<e[1], e[2]>>
    BY <1>2
  <2> QED
    BY <2>2, <2>3, <2>4
<1>10. ASSUME NEW j \in 1 .. c, NEW k \in 1 .. c, P[j] = P[k]
       PROVE  j = k
  <2>1. A[j] = A[k] /\ A[j] \in Int /\ A[k] \in Int
    BY <1>3, <1>5, <1>7, <1>10
  <2>2. (j < k => A[j] < A[k]) /\ (k < j => A[k] < A[j])
    BY <1>3, <1>4, AscendingProperties
  <2>3. ~ (j < k) /\ ~ (k < j)
    BY <2>1, <2>2
  <2>4. j \in Int /\ k \in Int
    BY <1>5
  <2> QED
    BY <2>3, <2>4
<1> HIDE DEF c, P
<1> QED
  BY <1>5, <1>8, <1>9, <1>10 DEF ListsOnce, P

-----------------------------------------------------------------------------
(* Definitions that later stages no longer change.                         *)

LEMMA AskedFrame ==
  ASSUME UNCHANGED asked
  PROVE  /\ Coords' = Coords /\ ChipOrder' = ChipOrder
         /\ \A a : AxisValues(a)' = AxisValues(a)
         /\ Inferable' <=> Inferable
         /\ ValidRequest(request)' <=> ValidRequest(request)
         /\ P2p' <=> P2p
<1>1. request' = request /\ listing' = listing
  BY DEF asked
<1>2. Coords' = Coords
  BY <1>1 DEF Coords
<1>3. ChipOrder' = ChipOrder
  BY <1>1, <1>2 DEF ChipOrder
<1>4. \A a : AxisValues(a)' = AxisValues(a)
  BY <1>3 DEF AxisValues
<1>5. Inferable' <=> Inferable
  BY <1>1, <1>2, <1>3, <1>4 DEF Inferable
<1> QED
  BY <1>1, <1>2, <1>3, <1>4, <1>5 DEF ValidRequest, P2p

LEMMA BlockFrame ==
  ASSUME UNCHANGED asked, topology' = topology, chips' = chips
  PROVE  Ranges' = Ranges /\ (InSlice' <=> InSlice) /\ Selected' = Selected
<1>1. request' = request
  BY DEF asked
<1>2. Ranges' = Ranges
  BY <1>1 DEF Ranges
<1>3. \A c : InRange(c)' <=> InRange(c)
  BY <1>2 DEF InRange
<1>4. {i \in DOMAIN chips : InRange(chips[i])}' = {i \in DOMAIN chips : InRange(chips[i])}
  BY <1>3
<1> QED
  BY <1>2, <1>4 DEF InSlice, Selected

LEMMA MeshFrame ==
  ASSUME UNCHANGED <<asked, mesh>>
  PROVE  /\ N' = N /\ Chiplets' = Chiplets /\ Tpus' = Tpus
         /\ \A t : SliceCoord(t)' = SliceCoord(t)
         /\ \A t : BlockCoord(t)' = BlockCoord(t)
         /\ \A c, d : TorusDistance(c, d)' = TorusDistance(c, d)
         /\ GroupSize' = GroupSize /\ Groups' = Groups
         /\ ChipletMatrix' = ChipletMatrix
         /\ Expandable' <=> Expandable
<1>1. request' = request /\ listing' = listing /\ chosen' = chosen /\ block' = block
      /\ chips' = chips /\ topology' = topology
  BY DEF asked, mesh
<1>2. N' = N /\ Chiplets' = Chiplets /\ Tpus' = Tpus
  BY <1>1 DEF N, Chiplets, Tpus
<1>3. \A t : SliceCoord(t)' = SliceCoord(t)
  BY <1>1 DEF SliceCoord
<1>4. \A t : BlockCoord(t)' = BlockCoord(t)
  BY <1>1, <1>3 DEF BlockCoord
<1>5. \A c, d : TorusDistance(c, d)' = TorusDistance(c, d)
  BY <1>1 DEF TorusDistance, Dim
<1>6. GroupSize' = GroupSize /\ Groups' = Groups
  BY <1>1, <1>2 DEF GroupSize, Groups
<1>7. NeighborPairs' = NeighborPairs
  BY <1>2, <1>3 DEF NeighborPairs
<1>8. P2p' <=> P2p
  BY <1>1 DEF P2p
<1>9. TpuMatrix' = TpuMatrix
  <2>1. BuiltinMatrix(P2p)' = BuiltinMatrix(P2p)
    BY <1>2, <1>8 DEF BuiltinMatrix
  <2>2. ProvidedMatrix' = ProvidedMatrix
    BY <1>1, <1>2 DEF ProvidedMatrix
  <2> QED
    BY <1>1, <2>1, <2>2 DEF TpuMatrix
<1>10. Expand(TpuMatrix)' = Expand(TpuMatrix)
  BY <1>2, <1>9 DEF Expand
<1>11. ChipletMatrix' = ChipletMatrix
  BY <1>1, <1>7, <1>8, <1>10 DEF ChipletMatrix, WithoutSelf, SameCore
<1>12. Expandable' <=> Expandable
  BY <1>1, <1>2, <1>6, <1>11 DEF Expandable, Divides, MatrixFits
<1> QED
  BY <1>2, <1>3, <1>4, <1>5, <1>6, <1>11, <1>12

LEMMA PairsFrame ==
  ASSUME chosen' = chosen, matrix' = matrix
  PROVE  ActivePairs' = ActivePairs
BY DEF ActivePairs, N

LEMMA CaseFrame ==
  ASSUME UNCHANGED <<asked, mesh>>
  PROVE  \A c : /\ Ragged(c)' <=> Ragged(c)
                /\ Runnable(c)' <=> Runnable(c)
                /\ MaxSend(c)' = MaxSend(c) /\ MaxRecv(c)' = MaxRecv(c)
                /\ Report(c)' = Report(c)
<1>1. request' = request /\ (P2p' <=> P2p) /\ N' = N /\ Chiplets' = Chiplets
      /\ GroupSize' = GroupSize /\ Groups' = Groups
  BY AskedFrame, MeshFrame DEF asked
<1> SUFFICES ASSUME NEW c
             PROVE  /\ Ragged(c)' <=> Ragged(c)
                    /\ Runnable(c)' <=> Runnable(c)
                    /\ MaxSend(c)' = MaxSend(c) /\ MaxRecv(c)' = MaxRecv(c)
                    /\ Report(c)' = Report(c)
  OBVIOUS
<1>2. Ragged(c)' <=> Ragged(c)
  BY <1>1 DEF Ragged, SelfCopy
<1>3. \A s, d : Rows(c, s, d)' = Rows(c, s, d)
  BY <1>1 DEF Rows
<1>4. \A s : SendSizes(c, s)' = SendSizes(c, s) /\ RecvSizes(c, s)' = RecvSizes(c, s)
  BY <1>1, <1>3 DEF SendSizes, RecvSizes
<1>5. \A s : SendRows(c, s)' = SendRows(c, s) /\ RecvRows(c, s)' = RecvRows(c, s)
  BY <1>1, <1>4 DEF SendRows, RecvRows
<1>6. MaxSend(c)' = MaxSend(c) /\ MaxRecv(c)' = MaxRecv(c)
  BY <1>1, <1>5 DEF MaxSend, MaxRecv
<1>7. Runnable(c)' <=> Runnable(c)
  BY <1>1, <1>2, <1>6 DEF Runnable, Bounded, Accountable
<1>8. InterTpuRows' = InterTpuRows
  BY <1>1 DEF InterTpuRows
<1>9. TotalRows(c)' = TotalRows(c)
  BY <1>1, <1>8 DEF TotalRows
<1>10. Numerator(c)' = Numerator(c)
  BY <1>1, <1>9 DEF Numerator
<1>11. Distances(c)' = Distances(c)
  BY <1>1, MeshFrame DEF Distances
<1> QED
  BY <1>2, <1>6, <1>7, <1>9, <1>10, <1>11 DEF Report

-----------------------------------------------------------------------------
(* What the stages compute.                                                *)

\* An accepted listing is two devices for each chip, and its coordinates are
\* dense from 0 on along each axis.
LEMMA InferredFacts ==
  ASSUME listing \in Listings, Inferable
  PROVE  /\ listing \in Seq([Axes -> Int]) /\ Len(listing) = 2 * Len(ChipOrder)
         /\ Len(ChipOrder) \in Nat \ {0} /\ DOMAIN ChipOrder = 1 .. Len(ChipOrder)
         /\ DOMAIN listing = 1 .. 2 * Len(ChipOrder)
         /\ ChipOrder \in Seq([Axes -> Nat])
         /\ \A a \in Axes : /\ IsFiniteSet(AxisValues(a))
                            /\ Cardinality(AxisValues(a)) \in Nat
                            /\ AxisValues(a) = 0 .. Cardinality(AxisValues(a)) - 1
<1> DEFINE c == Len(listing) \div 2
<1>1. listing \in Seq([Axes -> Int]) /\ Len(listing) \in Nat /\ DOMAIN listing = 1 .. Len(listing)
  BY ListingsAssumption
<1>2. Len(listing) > 0 /\ Len(listing) % 2 = 0
  BY DEF Inferable, ChipletsPerTpu
<1>3. c \in Nat \ {0} /\ Len(listing) = 2 * c
  <2>1. \A l \in Nat : l > 0 /\ l % 2 = 0 => l \div 2 \in Nat \ {0} /\ l = 2 * (l \div 2)
    OBVIOUS
  <2> QED
    BY <1>1, <1>2, <2>1
<1>4. DOMAIN ChipOrder = 1 .. c /\ \A k \in 1 .. c : ChipOrder[k] = Coords[2 * k - 1]
  BY DEF ChipOrder, ChipletsPerTpu
<1> HIDE DEF c
<1>5. ASSUME NEW k \in 1 .. c
      PROVE  ChipOrder[k] \in [Axes -> Int] \/ DOMAIN ChipOrder[k] = Axes
  <2>1. 2 * k - 1 \in DOMAIN listing
    BY <1>1, <1>3
  <2>2. DOMAIN Coords[2 * k - 1] = Axes
    BY <2>1 DEF Coords
  <2> QED
    BY <2>2, <1>4
<1>6. ASSUME NEW a \in Axes
      PROVE  /\ IsFiniteSet(AxisValues(a))
             /\ Cardinality(AxisValues(a)) \in Nat
             /\ AxisValues(a) = 0 .. Cardinality(AxisValues(a)) - 1
             /\ \A k \in 1 .. c : ChipOrder[k][a] \in AxisValues(a)
  <2> DEFINE f == [k \in 1 .. c |-> ChipOrder[k][a]]
  <2>1. f \in Surjection(1 .. c, AxisValues(a))
    BY <1>4 DEF Surjection, AxisValues
  <2>2. IsFiniteSet(1 .. c)
    BY <1>3, FS_Interval
  <2>3. IsFiniteSet(AxisValues(a)) /\ Cardinality(AxisValues(a)) \in Nat
    BY <2>1, <2>2, FS_Surjection, FS_CardinalityType
  <2>4. AxisValues(a) = 0 .. Cardinality(AxisValues(a)) - 1
    BY DEF Inferable
  <2>5. \A k \in 1 .. c : ChipOrder[k][a] \in AxisValues(a)
    BY <1>4 DEF AxisValues
  <2> QED
    BY <2>3, <2>4, <2>5
<1>7. ASSUME NEW k \in 1 .. c
      PROVE  ChipOrder[k] \in [Axes -> Nat]
  <2>1. ASSUME NEW a \in Axes
        PROVE  ChipOrder[k][a] \in Nat
    <3>1. ChipOrder[k][a] \in 0 .. Cardinality(AxisValues(a)) - 1 /\ Cardinality(AxisValues(a)) \in Nat
      BY <1>6
    <3> QED
      BY <3>1
  <2>2. ChipOrder[k] = [a \in Axes |-> ChipOrder[k][a]]
    <3>1. 2 * k - 1 \in DOMAIN listing
      BY <1>1, <1>3
    <3> QED
      BY <3>1, <1>4 DEF Coords
  <2> QED
    BY <2>1, <2>2
<1>8. ChipOrder \in [1 .. c -> [Axes -> Nat]]
  BY <1>4, <1>7 DEF ChipOrder
<1>9. ChipOrder \in Seq([Axes -> Nat]) /\ Len(ChipOrder) = c
  BY <1>3, <1>8
<1> QED
  BY <1>1, <1>3, <1>4, <1>6, <1>9

\* The selected chips are places in the list of chips, in increasing order.
LEMMA SelectedFacts ==
  ASSUME chips \in Seq([Axes -> Nat])
  PROVE  /\ Selected \in Seq(DOMAIN chips)
         /\ \A t \in 1 .. Len(Selected) : InRange(chips[Selected[t]])
         /\ \A i \in DOMAIN chips : InRange(chips[i]) => \E t \in 1 .. Len(Selected) : Selected[t] = i
         /\ \A t, u \in 1 .. Len(Selected) : t < u => Selected[t] < Selected[u]
<1> DEFINE Q == {i \in DOMAIN chips : InRange(chips[i])}
           c == Cardinality(Q)
<1>1. DOMAIN chips = 1 .. Len(chips) /\ Len(chips) \in Nat
  OBVIOUS
<1>2. IsFiniteSet(Q) /\ Q \in SUBSET Int
  <2>1. 1 \in Int /\ Len(chips) \in Int
    BY <1>1
  <2>2. IsFiniteSet(DOMAIN chips)
    BY <1>1, <2>1, FS_Interval
  <2>3. Q \in SUBSET DOMAIN chips
    OBVIOUS
  <2>4. IsFiniteSet(Q)
    BY <2>2, <2>3, FS_Subset
  <2> QED
    BY <1>1, <2>4
<1>3. Selected = Ascending(Q)
  BY DEF Selected
<1>4. c \in Nat
  BY <1>2, RankIsBijective
<1>5. Selected \in [1 .. c -> Q]
  BY <1>2, <1>3, AscendingProperties
<1>6. Selected \in Seq(DOMAIN chips) /\ Len(Selected) = c
  <2>1. Selected \in [1 .. c -> DOMAIN chips]
    BY <1>5
  <2> HIDE DEF Q, c
  <2> QED
    BY <1>4, <2>1
<1>7. \A t, u \in 1 .. c : t < u => Selected[t] < Selected[u]
  BY <1>2, <1>3, AscendingProperties
<1>8. ASSUME NEW i \in Q
      PROVE  \E t \in 1 .. c : Selected[t] = i
  <2>1. Rank(Q, i) \in 1 .. c /\ Selected[Rank(Q, i)] = i
    BY <1>2, <1>3, RankIsBijective, AscendingProperties
  <2> QED
    BY <2>1
<1>9. \A t \in 1 .. c : InRange(chips[Selected[t]])
  BY <1>5
<1> QED
  BY <1>6, <1>7, <1>8, <1>9

\* Active pairs are pairs of chiplets of the block.
LEMMA ChipletMatrixType == ChipletMatrix \subseteq Chiplets \X Chiplets
BY DEF ChipletMatrix, WithoutSelf, NeighborPairs, Expand, SameCore

\* get_active_pairs lists the pairs of the matrix, each once.
LEMMA ActivePairsFacts ==
  ASSUME N \in Nat, matrix \subseteq Chiplets \X Chiplets
  PROVE  ListsOnce(ActivePairs, matrix)
<1> DEFINE n == ChipletsPerTpu * N
<1>1. n \in Nat /\ matrix \in SUBSET ((0 .. n - 1) \X (0 .. n - 1))
  BY DEF Chiplets, ChipletsPerTpu
<1>2. ActivePairs = Pairs(n, matrix)
  BY DEF ActivePairs, Pairs, Cells
<1> HIDE DEF n
<1> QED
  BY <1>1, <1>2, PairsAreTheMatrix

\* The sizes of a case, and the largest row and column.
LEMMA SizeFacts ==
  ASSUME request \in Requests, N \in Nat, NEW case
  PROVE  /\ IsFiniteSet(Chiplets)
         /\ \A s, d : Rows(case, s, d) \in Nat
         /\ \A s \in Chiplets : /\ SendRows(case, s) \in Nat /\ SendRows(case, s) <= MaxSend(case)
                                /\ RecvRows(case, s) \in Nat /\ RecvRows(case, s) <= MaxRecv(case)
         /\ MaxSend(case) \in Nat \ {0} /\ MaxRecv(case) \in Nat \ {0}
<1>1. IsFiniteSet(Chiplets)
  <2>1. 0 \in Int /\ ChipletsPerTpu * N - 1 \in Int
    BY DEF ChipletsPerTpu
  <2> QED
    BY <2>1, FS_Interval DEF Chiplets
<1>2. \A s, d : Rows(case, s, d) \in Nat
  BY RequestsAssumption DEF Rows
<1>3. ASSUME NEW w, \A p \in Chiplets : w[p] \in Nat
      PROVE  SumFunctionOnSet(w, Chiplets) \in Nat
  BY <1>1, <1>3, TotalEquation DEF Total
<1>4. \A s \in Chiplets : SendRows(case, s) \in Nat /\ RecvRows(case, s) \in Nat
  <2> SUFFICES ASSUME NEW s \in Chiplets
               PROVE  SendRows(case, s) \in Nat /\ RecvRows(case, s) \in Nat
    OBVIOUS
  <2>1. \A p \in Chiplets : SendSizes(case, s)[p] \in Nat /\ RecvSizes(case, s)[p] \in Nat
    BY <1>2 DEF SendSizes, RecvSizes
  <2> QED
    BY <1>3, <2>1 DEF SendRows, RecvRows
<1>5. ASSUME NEW f \in [Chiplets -> Nat], NEW S, S = {1} \union {f[p] : p \in Chiplets}
      PROVE  Max(S) \in Nat \ {0} /\ \A p \in Chiplets : f[p] <= Max(S)
  <2> DEFINE T == {f[p] : p \in Chiplets}
  <2>1. f \in Surjection(Chiplets, T)
    BY DEF Surjection
  <2>2. IsFiniteSet(T)
    BY <1>1, <2>1, FS_Surjection
  <2>3. IsFiniteSet(S)
    BY <1>5, <2>2, FS_Singleton, FS_Union
  <2>4. S \in SUBSET Int /\ S \in SUBSET Nat /\ 1 \in S /\ \A p \in Chiplets : f[p] \in S
    BY <1>5
  <2>5. Max(S) \in S /\ \A y \in S : y <= Max(S)
    BY <2>3, <2>4, Extremes
  <2>6. Max(S) \in Nat /\ 1 <= Max(S)
    BY <2>4, <2>5
  <2> QED
    BY <2>4, <2>5, <2>6
<1>6. MaxSend(case) \in Nat \ {0} /\ \A s \in Chiplets : SendRows(case, s) <= MaxSend(case)
  <2> DEFINE f == [s \in Chiplets |-> SendRows(case, s)]
  <2>1. f \in [Chiplets -> Nat] /\ \A s \in Chiplets : f[s] = SendRows(case, s)
    BY <1>4
  <2>2. {1} \union {SendRows(case, s) : s \in Chiplets} = {1} \union {f[s] : s \in Chiplets}
    BY <2>1
  <2> HIDE DEF f
  <2> QED
    BY <1>5, <2>1, <2>2 DEF MaxSend
<1>7. MaxRecv(case) \in Nat \ {0} /\ \A d \in Chiplets : RecvRows(case, d) <= MaxRecv(case)
  <2> DEFINE f == [d \in Chiplets |-> RecvRows(case, d)]
  <2>1. f \in [Chiplets -> Nat] /\ \A d \in Chiplets : f[d] = RecvRows(case, d)
    BY <1>4
  <2>2. {1} \union {RecvRows(case, d) : d \in Chiplets} = {1} \union {f[d] : d \in Chiplets}
    BY <2>1
  <2> HIDE DEF f
  <2> QED
    BY <1>5, <2>1, <2>2 DEF MaxRecv
<1> QED
  BY <1>1, <1>2, <1>4, <1>6, <1>7

-----------------------------------------------------------------------------
(* The plan is the same in every state that has passed its stages.         *)

LEMMA InitPlanInv ==
  ASSUME Init
  PROVE  PlanInv
<1>1. TypeOK
  BY DEF Init, TypeOK, Stages, Axes, ToSet
<1>2. BlankInv /\ MeshInv /\ CaseInv
  BY DEF Init, BlankInv, MeshInv, CaseInv, Since, Inferred, Chose, Expanded, Listed
<1>3. ReportInv
  BY DEF Init, ReportInv
<1> QED
  BY <1>1, <1>2, <1>3 DEF PlanInv

\* Before the first case there is nothing to say of the reports.
LEMMA NoReports ==
  ASSUME cases \in Seq(SUBSET (Chiplets \X Chiplets)), reports = <<>>
  PROVE  ReportInv
BY DEF ReportInv

LEMMA ValidateKeepsPlan ==
  ASSUME PlanInv, Validate
  PROVE  PlanInv'
<1>1. /\ UNCHANGED asked /\ UNCHANGED <<asked, mesh>> /\ UNCHANGED <<asked, mesh, work, results>>
      /\ stage = "asked" /\ stage' \in {"valid", "refused"}
      /\ stage' = "valid" => ValidRequest(request)
      /\ cases = <<>> /\ reports = <<>> /\ capacity = <<>> /\ matrix = {} /\ chosen = <<>>
  BY DEF PlanInv, BlankInv, Validate, Step
<1>2. UNCHANGED <<request, listing, topology, chips, block, chosen, matrix, cases, capacity, reports>>
  BY <1>1 DEF asked, mesh, work, results
<1>3. TypeOK'
  BY <1>1, <1>2, MeshFrame DEF PlanInv, TypeOK, Stages
<1>4. BlankInv'
  BY <1>1, <1>2 DEF BlankInv
<1>5. MeshInv'
  BY <1>1, <1>2 DEF MeshInv, Since, Inferred, Chose
<1>6. CaseInv'
  BY <1>1, <1>2, AskedFrame DEF CaseInv, Since, Inferred, Expanded, Listed
<1>7. ReportInv'
  BY <1>1, <1>2 DEF ReportInv
<1> QED
  BY <1>3, <1>4, <1>5, <1>6, <1>7 DEF PlanInv

LEMMA InferKeepsPlan ==
  ASSUME PlanInv, Infer
  PROVE  PlanInv'
<1>1. /\ UNCHANGED asked /\ stage = "valid"
      /\ stage' = IF Inferable THEN "inferred" ELSE "refused"
      /\ cases = <<>> /\ reports = <<>> /\ capacity = <<>> /\ matrix = {} /\ chosen = <<>>
  BY DEF PlanInv, BlankInv, Infer, Step
<1>2. UNCHANGED <<request, listing, block, chosen, matrix, cases, capacity, reports>>
  BY DEF Infer, asked, work, results
<1>3. IF Inferable THEN /\ topology' = [a \in Axes |-> Cardinality(AxisValues(a))]
                        /\ chips' = ChipOrder
                   ELSE topology' = topology /\ chips' = chips
  BY DEF Infer
<1>4. topology' \in [Axes -> Nat] /\ chips' \in Seq([Axes -> Nat])
  <2>1. listing \in Listings /\ topology \in [Axes -> Nat] /\ chips \in Seq([Axes -> Nat])
    BY DEF PlanInv, TypeOK
  <2>2. CASE Inferable
    BY <1>3, <2>1, <2>2, InferredFacts
  <2>3. CASE ~ Inferable
    BY <1>3, <2>1, <2>3
  <2> QED
    BY <2>2, <2>3
<1>5. TypeOK'
  <2>1. stage' \in Stages
    BY <1>1 DEF Stages
  <2>2. ToSet(chosen') = {}
    BY <1>1, <1>2 DEF ToSet
  <2> QED
    BY <1>1, <1>2, <1>4, <2>1, <2>2 DEF PlanInv, TypeOK
<1>6. BlankInv'
  BY <1>1, <1>2 DEF BlankInv
<1>7. MeshInv'
  <2>1. \A a \in Axes : AxisValues(a)' = AxisValues(a)
    BY <1>1, AskedFrame
  <2>2. [a \in Axes |-> Cardinality(AxisValues(a))]' = [a \in Axes |-> Cardinality(AxisValues(a))]
    BY <2>1 DEF Axes
  <2> QED
    BY <1>1, <1>2, <1>3, <2>2, AskedFrame DEF MeshInv, Since, Inferred, Chose
<1>8. CaseInv'
  <2>1. ValidRequest(request)'
    BY <1>1, AskedFrame DEF PlanInv, CaseInv
  <2> QED
    BY <1>1, <1>2, <2>1 DEF CaseInv, Since, Expanded, Listed
<1>9. ReportInv'
  BY <1>1, <1>2 DEF ReportInv
<1> QED
  BY <1>5, <1>6, <1>7, <1>8, <1>9 DEF PlanInv

LEMMA SelectBlockKeepsPlan ==
  ASSUME PlanInv, SelectBlock
  PROVE  PlanInv'
<1>1. /\ UNCHANGED asked /\ stage = "inferred"
      /\ stage' = IF InSlice THEN "selected" ELSE "refused"
      /\ cases = <<>> /\ reports = <<>> /\ capacity = <<>> /\ matrix = {} /\ chosen = <<>>
  BY DEF PlanInv, BlankInv, SelectBlock, Step
<1>2. UNCHANGED <<request, listing, topology, chips, matrix, cases, capacity, reports>>
  BY DEF SelectBlock, asked, work, results
<1>3. IF InSlice THEN block' = Ranges /\ chosen' = Selected
                 ELSE block' = block /\ chosen' = chosen
  BY DEF SelectBlock
<1>4. chips \in Seq([Axes -> Nat]) /\ topology \in [Axes -> Nat] /\ block \in [Axes -> Nat \X Nat]
      /\ request \in Requests
  BY DEF PlanInv, TypeOK
<1>5. block' \in [Axes -> Nat \X Nat]
  BY <1>3, <1>4, RequestsAssumption DEF Ranges
<1>6. ToSet(chosen') \subseteq DOMAIN chips
  <2>1. Selected \in Seq(DOMAIN chips)
    BY <1>4, SelectedFacts
  <2>2. ToSet(Selected) \subseteq DOMAIN chips
    BY <2>1 DEF ToSet
  <2>3. ToSet(<<>>) \subseteq DOMAIN chips
    BY DEF ToSet
  <2> QED
    BY <1>1, <1>3, <2>2, <2>3
<1>7. TypeOK'
  <2>1. stage' \in Stages
    BY <1>1 DEF Stages
  <2> QED
    BY <1>1, <1>2, <1>5, <1>6, <2>1 DEF PlanInv, TypeOK
<1>8. BlankInv'
  BY <1>1, <1>2 DEF BlankInv
<1>9. MeshInv'
  <2>1. Inferable /\ chips = ChipOrder /\ topology = [a \in Axes |-> Cardinality(AxisValues(a))]
    BY <1>1 DEF PlanInv, MeshInv, Inferred, Since
  <2>2. [a \in Axes |-> Cardinality(AxisValues(a))]' = [a \in Axes |-> Cardinality(AxisValues(a))]
    BY <1>1, AskedFrame DEF Axes
  <2>3. (Inferable /\ chips = ChipOrder /\ topology = [a \in Axes |-> Cardinality(AxisValues(a))])'
    BY <1>1, <1>2, <2>1, <2>2, AskedFrame
  <2>4. Chose' => InSlice
    BY <1>1, <1>2 DEF Chose, Since
  <2> QED
    BY <1>1, <1>2, <1>3, <2>3, <2>4, BlockFrame DEF MeshInv
<1>10. CaseInv'
  <2>1. ValidRequest(request)'
    BY <1>1, AskedFrame DEF PlanInv, CaseInv, Inferred, Since
  <2> QED
    BY <1>1, <1>2, <2>1 DEF CaseInv, Since, Expanded, Listed
<1>11. ReportInv'
  BY <1>1, <1>2 DEF ReportInv
<1> QED
  BY <1>7, <1>8, <1>9, <1>10, <1>11 DEF PlanInv

\* Behind the choice of a block, the chosen chips are a list of places.
LEMMA ChosenFacts ==
  ASSUME PlanInv, Chose
  PROVE  /\ Inferred /\ Inferable /\ chips = ChipOrder /\ chosen = Selected
         /\ chosen \in Seq(DOMAIN chips) /\ N \in Nat
<1>1. Inferred
  BY DEF Chose, Inferred, Since
<1>2. Inferable /\ chips = ChipOrder /\ chosen = Selected /\ chips \in Seq([Axes -> Nat])
  BY <1>1 DEF PlanInv, MeshInv, TypeOK
<1>3. chosen \in Seq(DOMAIN chips)
  BY <1>2, SelectedFacts
<1> QED
  BY <1>1, <1>2, <1>3 DEF N

\* The facts of the mesh outlive every step that leaves it alone.
LEMMA MeshKept ==
  ASSUME PlanInv, Chose, UNCHANGED <<asked, mesh>>
  PROVE  MeshInv'
<1>1. /\ Inferred /\ Inferable /\ chips = ChipOrder
      /\ topology = [a \in Axes |-> Cardinality(AxisValues(a))]
      /\ InSlice /\ block = Ranges /\ chosen = Selected
  BY ChosenFacts DEF PlanInv, MeshInv
<1>2. UNCHANGED asked /\ UNCHANGED <<topology, chips, block, chosen>>
  BY DEF mesh
<1>3. [a \in Axes |-> Cardinality(AxisValues(a))]' = [a \in Axes |-> Cardinality(AxisValues(a))]
  BY <1>2, AskedFrame DEF Axes
<1>4. (Inferable /\ chips = ChipOrder /\ topology = [a \in Axes |-> Cardinality(AxisValues(a))])'
  BY <1>1, <1>2, <1>3, AskedFrame
<1>5. (InSlice /\ block = Ranges /\ chosen = Selected)'
  BY <1>1, <1>2, BlockFrame
<1> QED
  BY <1>4, <1>5 DEF MeshInv

LEMMA BuildMatrixKeepsPlan ==
  ASSUME PlanInv, BuildMatrix
  PROVE  PlanInv'
<1>1. /\ UNCHANGED <<asked, mesh>> /\ UNCHANGED asked /\ stage = "selected"
      /\ stage' = IF Expandable THEN "expanded" ELSE "refused"
      /\ matrix' = IF Expandable THEN ChipletMatrix ELSE {}
      /\ cases = <<>> /\ reports = <<>> /\ capacity = <<>> /\ matrix = {} /\ Chose
  BY DEF PlanInv, BlankInv, BuildMatrix, Step, Chose, Since
<1>2. UNCHANGED <<request, listing, topology, chips, block, chosen, cases, capacity, reports>>
  BY DEF BuildMatrix, asked, mesh, results
<1>3. TypeOK'
  <2>1. stage' \in Stages
    BY <1>1 DEF Stages
  <2>2. matrix' \subseteq Chiplets \X Chiplets
    BY <1>1, ChipletMatrixType
  <2> QED
    BY <1>1, <1>2, <2>1, <2>2, MeshFrame DEF PlanInv, TypeOK
<1>4. BlankInv'
  BY <1>1, <1>2 DEF BlankInv
<1>5. MeshInv'
  BY <1>1, MeshKept
<1>6. CaseInv'
  <2>1. ValidRequest(request)'
    BY <1>1, AskedFrame DEF PlanInv, CaseInv, Inferred, Since
  <2>2. Expanded' => (Expandable /\ matrix = ChipletMatrix)'
    BY <1>1, <1>2, MeshFrame DEF Expanded, Since
  <2> QED
    BY <1>1, <1>2, <2>1, <2>2 DEF CaseInv, Since, Listed
<1>7. ReportInv'
  BY <1>1, <1>2 DEF ReportInv
<1> QED
  BY <1>3, <1>4, <1>5, <1>6, <1>7 DEF PlanInv

LEMMA FunctionIsSeq ==
  ASSUME NEW n \in Nat, NEW S, NEW f \in [1 .. n -> S]
  PROVE  f \in Seq(S) /\ Len(f) = n /\ DOMAIN f = 1 .. n
OBVIOUS

\* What build_traffic_cases lists.
LEMMA CasesFacts ==
  ASSUME N \in Nat, matrix \subseteq Chiplets \X Chiplets,
         NEW c, c = IF request.split THEN [i \in DOMAIN ActivePairs |-> {ActivePairs[i]}]
                                     ELSE <<matrix>>
  PROVE  /\ c \in Seq(SUBSET (Chiplets \X Chiplets))
         /\ \A i \in DOMAIN c : c[i] \subseteq matrix
         /\ request.split => \A i \in DOMAIN c : \E e \in matrix : c[i] = {e}
         /\ ~ request.split => Len(c) = 1 /\ c[1] = matrix
<1>1. CASE request.split
  <2>1. PICK n \in Nat : ActivePairs \in [1 .. n -> matrix]
    BY ActivePairsFacts DEF ListsOnce
  <2>2. c = [i \in 1 .. n |-> {ActivePairs[i]}]
    BY <1>1, <2>1
  <2>3. \A i \in 1 .. n : {ActivePairs[i]} \in SUBSET (Chiplets \X Chiplets)
    BY <2>1
  <2> DEFINE S == SUBSET (Chiplets \X Chiplets)
  <2>4. c \in [1 .. n -> S]
    BY <2>2, <2>3
  <2>5. c \in Seq(S) /\ DOMAIN c = 1 .. n
    <3> HIDE DEF S
    <3> QED
      BY Zenon, <2>1, <2>4, FunctionIsSeq
  <2> QED
    BY <1>1, <2>1, <2>2, <2>5
<1>2. CASE ~ request.split
  BY <1>2
<1> QED
  BY <1>1, <1>2

LEMMA BuildCasesKeepsPlan ==
  ASSUME PlanInv, BuildCases
  PROVE  PlanInv'
<1> DEFINE list == IF request.split THEN [i \in DOMAIN ActivePairs |-> {ActivePairs[i]}]
                                    ELSE <<matrix>>
<1>1. /\ UNCHANGED <<asked, mesh>> /\ UNCHANGED asked /\ stage = "expanded" /\ stage' = "listed"
      /\ cases' = list
      /\ cases = <<>> /\ reports = <<>> /\ capacity = <<>> /\ Chose
  BY DEF PlanInv, BlankInv, BuildCases, Step, Chose, Since
<1>2. UNCHANGED <<request, listing, topology, chips, block, chosen, matrix, capacity, reports>>
  BY DEF BuildCases, asked, mesh, results
<1>3. /\ N \in Nat /\ N' = N /\ Chiplets' = Chiplets
      /\ matrix \subseteq Chiplets \X Chiplets
  BY <1>1, ChosenFacts, MeshFrame DEF PlanInv, TypeOK
<1>4. /\ cases' \in Seq(SUBSET (Chiplets \X Chiplets))
      /\ \A i \in DOMAIN cases' : cases'[i] \subseteq matrix
  <2> HIDE DEF list
  <2>1. list = IF request.split THEN [i \in DOMAIN ActivePairs |-> {ActivePairs[i]}]
                                ELSE <<matrix>>
    BY DEF list
  <2>2. /\ list \in Seq(SUBSET (Chiplets \X Chiplets))
        /\ \A i \in DOMAIN list : list[i] \subseteq matrix
    BY <1>3, <2>1, CasesFacts
  <2> QED
    BY <1>1, <2>2
<1>5. TypeOK'
  <2>1. stage' \in Stages
    BY <1>1 DEF Stages
  <2>2. Len(reports') <= Len(cases')
    BY <1>1, <1>2, <1>4
  <2> QED
    BY <1>1, <1>2, <1>3, <1>4, <2>1, <2>2 DEF PlanInv, TypeOK
<1>6. BlankInv'
  BY <1>1, <1>2 DEF BlankInv
<1>7. MeshInv'
  BY <1>1, MeshKept
<1>8. CaseInv'
  <2>1. ValidRequest(request)'
    BY <1>1, AskedFrame DEF PlanInv, CaseInv, Inferred, Since
  <2>2. (Expandable /\ matrix = ChipletMatrix)'
    BY <1>1, <1>2, MeshFrame DEF PlanInv, CaseInv, Expanded, Since
  <2>3. ActivePairs' = ActivePairs
    BY <1>2, PairsFrame
  <2>4. list' = list
    BY <1>2, <2>3
  <2>5. cases' = list'
    BY <1>1, <2>4
  <2> QED
    BY <2>1, <2>2, <2>5 DEF CaseInv
<1>9. ReportInv'
  BY <1>1, <1>2, <1>3, <1>4 DEF ReportInv
<1> QED
  BY <1>5, <1>6, <1>7, <1>8, <1>9 DEF PlanInv

\* A case that cannot be accounted for is the first one.
LEMMA UnaccountableIsFirst ==
  ASSUME PlanInv, stage = "listed", Len(reports) < Len(cases),
         Ragged(cases[Len(reports) + 1]), ~ Accountable(cases[Len(reports) + 1])
  PROVE  reports = <<>>
<1> DEFINE k == Len(reports) + 1
<1>1. /\ N \in Nat /\ matrix \subseteq Chiplets \X Chiplets
      /\ cases = IF request.split THEN [i \in DOMAIN ActivePairs |-> {ActivePairs[i]}]
                                  ELSE <<matrix>>
  BY ChosenFacts DEF PlanInv, TypeOK, CaseInv, Chose, Listed, Since
<1>2. /\ request.split => \A i \in DOMAIN cases : \E e \in matrix : cases[i] = {e}
      /\ ~ request.split => Len(cases) = 1
  BY <1>1, CasesFacts
<1>3. Len(reports) \in Nat /\ Len(cases) \in Nat /\ DOMAIN cases = 1 .. Len(cases)
      /\ (reports = <<>> <=> Len(reports) = 0)
  BY DEF PlanInv, ReportInv
<1>4. k \in DOMAIN cases
  BY <1>3
<1>5. P2p /\ Cardinality(cases[k]) # 1
  BY DEF Accountable, Ragged, P2p
<1>6. ~ request.split
  BY <1>2, <1>4, <1>5, FS_Singleton
<1> QED
  BY <1>2, <1>3, <1>6

LEMMA RunCaseKeepsPlan ==
  ASSUME PlanInv, RunCase
  PROVE  PlanInv'
<1> DEFINE k == Len(reports) + 1
<1>1. PICK case : /\ case = cases[k]
                  /\ stage' = IF Runnable(case) THEN "listed" ELSE "refused"
                  /\ capacity' = IF Ragged(case) /\ Bounded(case)
                                   THEN <<MaxSend(case), MaxRecv(case)>> ELSE capacity
                  /\ reports' = IF Runnable(case) THEN Append(reports, Report(case)) ELSE reports
  BY DEF RunCase, Step
<1>2. /\ UNCHANGED <<asked, mesh>> /\ UNCHANGED asked /\ stage = "listed"
      /\ UNCHANGED <<request, listing, topology, chips, block, chosen, matrix, cases>>
      /\ Len(reports) < Len(cases) /\ Chose /\ Listed /\ Expanded
  BY DEF RunCase, Step, asked, mesh, work, Chose, Listed, Expanded, Since
<1>3. /\ N \in Nat /\ Chiplets' = Chiplets /\ request \in Requests
      /\ cases \in Seq(SUBSET (Chiplets \X Chiplets)) /\ Len(reports) \in Nat
      /\ reports \in Seq({Report(cases[j]) : j \in DOMAIN cases})
      /\ DOMAIN reports = 1 .. Len(reports)
  BY <1>2, ChosenFacts, MeshFrame DEF PlanInv, TypeOK, ReportInv
<1>4. k \in DOMAIN cases /\ k \in Nat /\ k <= Len(cases)
  BY <1>2, <1>3
<1>5. capacity' = <<>> \/ capacity' \in (1 .. IndexMax) \X (1 .. IndexMax)
  <2>1. CASE Ragged(case) /\ Bounded(case)
    <3>1. MaxSend(case) \in Nat \ {0} /\ MaxRecv(case) \in Nat \ {0}
      BY <1>3, SizeFacts
    <3>2. MaxSend(case) \in 1 .. IndexMax /\ MaxRecv(case) \in 1 .. IndexMax
      BY <2>1, <3>1, IndexAssumption DEF Bounded
    <3> QED
      BY <1>1, <2>1, <3>2
  <2>2. CASE ~ (Ragged(case) /\ Bounded(case))
    BY <1>1, <2>2 DEF PlanInv, TypeOK
  <2> QED
    BY <2>1, <2>2
<1>6. /\ Runnable(case) => /\ Len(reports') = k /\ DOMAIN reports' = 1 .. k
                           /\ reports'[k] = Report(case)
                           /\ \A j \in 1 .. Len(reports) : reports'[j] = reports[j]
      /\ ~ Runnable(case) => reports' = reports
      /\ reports' \in Seq({Report(cases[j]) : j \in DOMAIN cases})
  <2> DEFINE R == {Report(cases[j]) : j \in DOMAIN cases}
  <2>1. Report(case) \in R /\ reports \in Seq(R)
    BY <1>1, <1>3, <1>4
  <2> HIDE DEF R
  <2>2. /\ Append(reports, Report(case)) \in Seq(R) /\ Len(Append(reports, Report(case))) = k
        /\ Append(reports, Report(case))[k] = Report(case)
        /\ \A j \in 1 .. Len(reports) : Append(reports, Report(case))[j] = reports[j]
    BY <2>1
  <2>3. DOMAIN Append(reports, Report(case)) = 1 .. k
    BY <2>1, <2>2
  <2>4. reports' \in Seq(R)
    BY <1>1, <2>1, <2>2
  <2> QED
    BY <1>1, <2>2, <2>3, <2>4 DEF R
<1>7. TypeOK'
  <2>1. stage' \in Stages
    BY <1>1 DEF Stages
  <2>2. Len(reports') <= Len(cases')
    BY <1>2, <1>3, <1>4, <1>6
  <2> QED
    BY <1>2, <1>3, <1>5, <2>1, <2>2 DEF PlanInv, TypeOK
<1>8. BlankInv'
  BY <1>1 DEF BlankInv
<1>9. MeshInv'
  BY <1>2, MeshKept
<1>10. CaseInv'
  <2>1. ValidRequest(request)'
    BY <1>2, AskedFrame DEF PlanInv, CaseInv, Inferred, Since
  <2>2. (Expandable /\ matrix = ChipletMatrix)'
    BY <1>2, MeshFrame DEF PlanInv, CaseInv
  <2>3. ActivePairs' = ActivePairs
    BY <1>2, PairsFrame
  <2>4. (cases = IF request.split THEN [i \in DOMAIN ActivePairs |-> {ActivePairs[i]}]
                                  ELSE <<matrix>>)'
    BY <1>2, <2>3 DEF PlanInv, CaseInv
  <2> QED
    BY <2>1, <2>2, <2>4 DEF CaseInv
<1>11. ReportInv'
  <2>1. cases' \in Seq(SUBSET (Chiplets' \X Chiplets'))
    BY <1>2, <1>3
  <2>2. \A c : /\ Ragged(c)' <=> Ragged(c)
               /\ Runnable(c)' <=> Runnable(c)
               /\ MaxSend(c)' = MaxSend(c) /\ MaxRecv(c)' = MaxRecv(c)
               /\ Report(c)' = Report(c)
    BY <1>2, CaseFrame
  <2>3. (reports \in Seq({Report(cases[j]) : j \in DOMAIN cases}))'
    <3>1. {Report(cases[j]) : j \in DOMAIN cases}' = {Report(cases[j]) : j \in DOMAIN cases}
      BY <1>2, <2>2
    <3> QED
      BY <1>6, <3>1
  <2>4. ASSUME NEW j \in DOMAIN reports'
        PROVE  j \in DOMAIN cases /\ reports'[j] = Report(cases[j]) /\ Runnable(cases[j])
    <3>1. CASE Runnable(case) /\ j = k
      BY <1>1, <1>4, <1>6, <3>1
    <3>2. CASE ~ (Runnable(case) /\ j = k)
      <4>1. j \in DOMAIN reports /\ reports'[j] = reports[j]
        BY <1>3, <1>6, <3>2
      <4> QED
        BY <4>1 DEF PlanInv, ReportInv
    <3> QED
      BY <3>1, <3>2
  <2>5. (\A j \in DOMAIN reports : /\ j \in DOMAIN cases
                                   /\ reports[j] = Report(cases[j]) /\ Runnable(cases[j]))'
    BY <1>2, <2>2, <2>4
  <2>6. ASSUME reports' # <<>>, Ragged(cases[Len(reports')])
        PROVE  capacity' = <<MaxSend(cases[Len(reports')]), MaxRecv(cases[Len(reports')])>>
    <3>1. CASE Runnable(case)
      BY <1>1, <1>6, <2>6, <3>1 DEF Runnable
    <3>2. CASE ~ Runnable(case)
      <4>1. reports' = reports
        BY <1>6, <3>2
      <4>2. ~ (Ragged(case) /\ Bounded(case))
        <5> SUFFICES ASSUME Ragged(case), Bounded(case)
                     PROVE  FALSE
          OBVIOUS
        <5>1. ~ Accountable(case)
          BY <3>2 DEF Runnable
        <5>2. reports = <<>>
          BY <1>1, <1>2, <5>1, UnaccountableIsFirst
        <5> QED
          BY <2>6, <4>1, <5>2
      <4> QED
        BY <1>1, <2>6, <4>1, <4>2 DEF PlanInv, ReportInv
    <3> QED
      BY <3>1, <3>2
  <2>7. (reports # <<>> /\ Ragged(cases[Len(reports)]) =>
           capacity = <<MaxSend(cases[Len(reports)]), MaxRecv(cases[Len(reports)])>>)'
    BY <1>2, <2>2, <2>6
  <2> QED
    BY <2>1, <2>3, <2>5, <2>7 DEF ReportInv
<1> QED
  BY <1>7, <1>8, <1>9, <1>10, <1>11 DEF PlanInv

LEMMA FinishKeepsPlan ==
  ASSUME PlanInv, Finish
  PROVE  PlanInv'
<1>1. /\ UNCHANGED <<asked, mesh>> /\ UNCHANGED asked /\ stage = "listed" /\ stage' = "done"
      /\ UNCHANGED <<request, listing, topology, chips, block, chosen, matrix, cases,
                     capacity, reports>>
      /\ Chose /\ Listed /\ Expanded
  BY DEF Finish, Step, asked, mesh, work, results, Chose, Listed, Expanded, Since
<1>2. TypeOK'
  <2>1. stage' \in Stages
    BY <1>1 DEF Stages
  <2> QED
    BY <1>1, <2>1, MeshFrame DEF PlanInv, TypeOK
<1>3. BlankInv'
  BY <1>1 DEF BlankInv
<1>4. MeshInv'
  BY <1>1, MeshKept
<1>5. CaseInv'
  <2>1. (ValidRequest(request) /\ Expandable /\ matrix = ChipletMatrix)'
    BY <1>1, AskedFrame, MeshFrame DEF PlanInv, CaseInv, Inferred, Since
  <2>2. (cases = IF request.split THEN [i \in DOMAIN ActivePairs |-> {ActivePairs[i]}]
                                  ELSE <<matrix>>)'
    BY <1>1, PairsFrame DEF PlanInv, CaseInv
  <2> QED
    BY <2>1, <2>2 DEF CaseInv
<1>6. ReportInv'
  <2>1. \A c : /\ Ragged(c)' <=> Ragged(c)
               /\ Runnable(c)' <=> Runnable(c)
               /\ MaxSend(c)' = MaxSend(c) /\ MaxRecv(c)' = MaxRecv(c)
               /\ Report(c)' = Report(c)
    BY <1>1, CaseFrame
  <2>2. {Report(cases[j]) : j \in DOMAIN cases}' = {Report(cases[j]) : j \in DOMAIN cases}
    BY <1>1, <2>1
  <2> QED
    BY <1>1, <2>1, <2>2, MeshFrame DEF PlanInv, ReportInv
<1> QED
  BY <1>2, <1>3, <1>4, <1>5, <1>6 DEF PlanInv

LEMMA StutterKeepsPlan ==
  ASSUME PlanInv, UNCHANGED vars
  PROVE  PlanInv'
<1>1. /\ UNCHANGED <<asked, mesh>> /\ UNCHANGED asked
      /\ UNCHANGED <<request, listing, stage, topology, chips, block, chosen, matrix, cases,
                     capacity, reports>>
  BY DEF vars, asked, mesh
<1>2. TypeOK' /\ BlankInv'
  BY <1>1, MeshFrame DEF PlanInv, TypeOK, BlankInv
<1>3. /\ Inferred' <=> Inferred
      /\ Chose' <=> Chose
      /\ Expanded' <=> Expanded
      /\ Listed' <=> Listed
  BY <1>1 DEF Inferred, Chose, Expanded, Listed, Since
<1>4. MeshInv'
  <2>1. [a \in Axes |-> Cardinality(AxisValues(a))]' = [a \in Axes |-> Cardinality(AxisValues(a))]
    BY <1>1, AskedFrame DEF Axes
  <2> QED
    BY <1>1, <1>3, <2>1, AskedFrame, BlockFrame DEF PlanInv, MeshInv
<1>5. CaseInv'
  BY <1>1, <1>3, AskedFrame, MeshFrame, PairsFrame DEF PlanInv, CaseInv
<1>6. ReportInv'
  <2>1. \A c : /\ Ragged(c)' <=> Ragged(c)
               /\ Runnable(c)' <=> Runnable(c)
               /\ MaxSend(c)' = MaxSend(c) /\ MaxRecv(c)' = MaxRecv(c)
               /\ Report(c)' = Report(c)
    BY <1>1, CaseFrame
  <2>2. {Report(cases[j]) : j \in DOMAIN cases}' = {Report(cases[j]) : j \in DOMAIN cases}
    BY <1>1, <2>1
  <2> QED
    BY <1>1, <2>1, <2>2, MeshFrame DEF PlanInv, ReportInv
<1> QED
  BY <1>2, <1>4, <1>5, <1>6 DEF PlanInv

\* In every reachable state the variables are what the stages passed so far
\* make of the request and the listing (run_ici), and the buffers are those of
\* the case that ran last (validate_ragged_all_to_all_bounds).
THEOREM PlanInvariance == Spec => []PlanInv
<1>1. Init => PlanInv
  BY InitPlanInv
<1>2. PlanInv /\ [Next]_vars => PlanInv'
  BY ValidateKeepsPlan, InferKeepsPlan, SelectBlockKeepsPlan, BuildMatrixKeepsPlan,
     BuildCasesKeepsPlan, RunCaseKeepsPlan, FinishKeepsPlan, StutterKeepsPlan DEF Next
<1> QED
  BY <1>1, <1>2, PTL DEF Spec

\* The variables have their shapes: in particular buffers have at least one
\* row and no more than an index can count (build_ragged_a2a_fn).
THEOREM TypeCorrect == Spec => []TypeOK
<1>1. PlanInv => TypeOK
  BY DEF PlanInv
<1> QED
  BY <1>1, PlanInvariance, PTL

-----------------------------------------------------------------------------
(* The windows of a ragged exchange.                                       *)

\* Windows that begin at partial sums of natural numbers follow each other.
LEMMA PrefixSums ==
  ASSUME NEW n \in Nat, NEW w, \A p \in 0 .. n - 1 : w[p] \in Nat, NEW s \in 0 .. n - 1
  PROVE  /\ Total(w, 0 .. s - 1) \in Nat
         /\ Total(w, 0 .. s - 1) + w[s] <= Total(w, 0 .. n - 1)
         /\ \A t \in 0 .. n - 1 : s < t => Total(w, 0 .. s - 1) + w[s] <= Total(w, 0 .. t - 1)
<1> DEFINE S == 0 .. n - 1
<1>1. IsFiniteSet(S)
  <2>1. 0 \in Int /\ n - 1 \in Int
    OBVIOUS
  <2> QED
    BY <2>1, FS_Interval
<1>2. s \in Nat /\ s <= n - 1
  OBVIOUS
<1>3. 0 .. s \in SUBSET S /\ 0 .. s - 1 \in SUBSET S /\ s \in 0 .. s /\ (0 .. s) \ {s} = 0 .. s - 1
  BY <1>2
<1>4. Total(w, 0 .. s) = w[s] + Total(w, 0 .. s - 1)
  <2> HIDE DEF S
  <2>1. \A p \in S : w[p] \in Nat
    BY DEF S
  <2> QED
    BY <1>1, <1>3, <2>1, TotalRemove
<1>5. Total(w, 0 .. s - 1) \in Nat /\ w[s] \in Nat
  BY <1>1, <1>3, TotalEquation
<1>6. ASSUME NEW T \in SUBSET S, 0 .. s \in SUBSET T
      PROVE  Total(w, 0 .. s - 1) + w[s] <= Total(w, T)
  <2>1. Total(w, 0 .. s) <= Total(w, T)
    <3> HIDE DEF S
    <3>1. \A p \in S : w[p] \in Nat
      BY DEF S
    <3> QED
      BY <1>1, <1>6, <3>1, TotalMonotonic
  <2> QED
    BY <1>4, <1>5, <2>1
<1>7. ASSUME NEW t \in 0 .. n - 1, s < t
      PROVE  0 .. t - 1 \in SUBSET S /\ 0 .. s \in SUBSET (0 .. t - 1)
  BY <1>2, <1>7
<1>8. S \in SUBSET S
  OBVIOUS
<1> QED
  BY <1>3, <1>5, <1>6, <1>7, <1>8

\* A row count the device can hold is read back as it was written.
LEMMA Int32OfIndex ==
  ASSUME NEW x \in 0 .. IndexMax
  PROVE  Int32(x) = x
<1> DEFINE m == 2 * IndexMax + 2
           y == x + IndexMax + 1
<1>1. IndexMax \in Nat
  BY IndexAssumption
<1>2. m \in Nat \ {0} /\ y \in 0 .. m - 1
  BY <1>1
<1>3. m * 0 + y = y
  BY <1>2
<1>4. y % m = y
  <2> HIDE DEF m, y
  <2>1. (m * 0 + y) % m = y
    BY <1>2, RowAndColumn
  <2> QED
    BY <1>3, <2>1
<1>5. Int32(x) = (y % m) - IndexMax - 1
  BY DEF Int32
<1>6. y - IndexMax - 1 = x
  BY <1>1
<1> HIDE DEF y, m
<1> QED
  BY <1>4, <1>5, <1>6

\* Windows of w rows, each placed where those before it end, tile a buffer that
\* holds them all.
LEMMA WindowsTile ==
  ASSUME N \in Nat, NEW w, \A p \in Chiplets : w[p] \in Nat,
         NEW c \in Nat, c <= IndexMax, Total(w, Chiplets) <= c,
         NEW W, \A p \in Chiplets : W[p] = Window(Int32(Total(w, 0 .. p - 1)), w[p])
  PROVE  Tile(W, c)
<1> DEFINE n == ChipletsPerTpu * N
           O(p) == Total(w, 0 .. p - 1)
<1>1. n \in Nat /\ Chiplets = 0 .. n - 1 /\ IndexMax \in Nat
  BY IndexAssumption DEF Chiplets, ChipletsPerTpu
<1> HIDE DEF n
<1>2. \A p \in Chiplets : /\ O(p) \in Nat
                          /\ O(p) + w[p] <= Total(w, Chiplets)
                          /\ \A q \in Chiplets : p < q => O(p) + w[p] <= O(q)
  BY <1>1, PrefixSums
<1>3. Total(w, Chiplets) \in Nat
  <2>1. IsFiniteSet(Chiplets)
    <3>1. 0 \in Int /\ n - 1 \in Int
      BY <1>1
    <3> QED
      BY <1>1, <3>1, FS_Interval
  <2> QED
    BY <2>1, TotalEquation
<1> HIDE DEF O
<1>4. ASSUME NEW p \in Chiplets
      PROVE  /\ W[p] = O(p) .. O(p) + w[p] - 1 /\ O(p) \in Nat /\ w[p] \in Nat
             /\ O(p) + w[p] <= c
  <2>1. O(p) \in Nat /\ w[p] \in Nat /\ O(p) + w[p] <= c
    BY <1>2, <1>3
  <2>2. O(p) \in 0 .. IndexMax
    BY <1>1, <2>1
  <2>3. Int32(O(p)) = O(p)
    BY <2>2, Int32OfIndex
  <2> QED
    BY <2>1, <2>3 DEF Window, O
<1>5. \A p \in Chiplets : W[p] \subseteq 0 .. c - 1
  BY <1>4
<1>6. ASSUME NEW p \in Chiplets, NEW q \in Chiplets, p < q
      PROVE  W[p] \cap W[q] = {}
  <2>1. O(p) + w[p] <= O(q)
    BY <1>2, <1>6
  <2> QED
    BY <1>4, <2>1
<1>7. \A p, q \in Chiplets : p # q => p < q \/ q < p
  BY <1>1
<1> QED
  BY <1>5, <1>6, <1>7 DEF Tile

LEMMA PlanRaggedWindowsTile == PlanInv => RaggedWindowsTile
<1> SUFFICES ASSUME PlanInv, reports # <<>>, Ragged(cases[Len(reports)]),
                    NEW case, case = cases[Len(reports)]
             PROVE  /\ \A d \in Chiplets :
                         Tile([s \in Chiplets |-> Window(OutputOffset(case, s, d), Rows(case, s, d))],
                              capacity[2])
                    /\ \A s \in Chiplets :
                         Tile([d \in Chiplets |-> Window(InputOffset(case, s, d), Rows(case, s, d))],
                              capacity[1])
  BY DEF RaggedWindowsTile
<1>1. N \in Nat /\ request \in Requests /\ Ragged(case)
  BY ChosenFacts DEF PlanInv, TypeOK, Chose, Since
<1>2. Runnable(case)
  <2>1. Len(reports) \in DOMAIN reports
    BY DEF PlanInv, ReportInv
  <2> QED
    BY <2>1 DEF PlanInv, ReportInv
<1>3. MaxSend(case) <= IndexMax /\ MaxRecv(case) <= IndexMax
  BY <1>1, <1>2 DEF Runnable, Bounded
<1>4. capacity[1] = MaxSend(case) /\ capacity[2] = MaxRecv(case)
  BY DEF PlanInv, ReportInv
<1>5. /\ \A s, d : Rows(case, s, d) \in Nat
      /\ \A s \in Chiplets : SendRows(case, s) <= MaxSend(case) /\ RecvRows(case, s) <= MaxRecv(case)
      /\ MaxSend(case) \in Nat /\ MaxRecv(case) \in Nat
  BY <1>1, SizeFacts
<1>6. ASSUME NEW d \in Chiplets
      PROVE  Tile([s \in Chiplets |-> Window(OutputOffset(case, s, d), Rows(case, s, d))], capacity[2])
  <2> DEFINE w == RecvSizes(case, d)
             W == [s \in Chiplets |-> Window(OutputOffset(case, s, d), Rows(case, s, d))]
  <2>1. \A p \in Chiplets : w[p] = Rows(case, p, d)
    BY DEF RecvSizes
  <2>2. \A p \in Chiplets : w[p] \in Nat
    BY <1>5, <2>1
  <2>3. Total(w, Chiplets) <= MaxRecv(case)
    BY <1>5 DEF RecvRows, Total
  <2>4. \A p \in Chiplets : W[p] = Window(Int32(Total(w, 0 .. p - 1)), w[p])
    BY <2>1 DEF OutputOffset, Total
  <2> HIDE DEF w, W
  <2>5. Tile(W, MaxRecv(case))
    BY <1>1, <1>3, <1>5, <2>2, <2>3, <2>4, WindowsTile
  <2> QED
    BY <1>4, <2>5 DEF W
<1>7. ASSUME NEW s \in Chiplets
      PROVE  Tile([d \in Chiplets |-> Window(InputOffset(case, s, d), Rows(case, s, d))], capacity[1])
  <2> DEFINE w == SendSizes(case, s)
             W == [d \in Chiplets |-> Window(InputOffset(case, s, d), Rows(case, s, d))]
  <2>1. \A p \in Chiplets : w[p] = Rows(case, s, p)
    BY DEF SendSizes
  <2>2. \A p \in Chiplets : w[p] \in Nat
    BY <1>5, <2>1
  <2>3. Total(w, Chiplets) <= MaxSend(case)
    BY <1>5 DEF SendRows, Total
  <2>4. \A p \in Chiplets : W[p] = Window(Int32(Total(w, 0 .. p - 1)), w[p])
    BY <2>1 DEF InputOffset, Total
  <2> HIDE DEF w, W
  <2>5. Tile(W, MaxSend(case))
    BY <1>1, <1>3, <1>5, <2>2, <2>3, <2>4, WindowsTile
  <2> QED
    BY <1>4, <2>5 DEF W
<1> QED
  BY <1>6, <1>7

\* The windows the senders compute for themselves never overlap, in any output
\* and any input, and never leave the compiled buffers (make_ragged_metadata).
THEOREM WindowsDisjoint == Spec => []RaggedWindowsTile
BY PlanInvariance, PlanRaggedWindowsTile, PTL

-----------------------------------------------------------------------------
(* Chiplets of the mesh and devices of the listing.                        *)

\* A chiplet number is that of its chip, doubled, and its core.
LEMMA Halves ==
  ASSUME NEW n \in Nat, NEW p \in 0 .. 2 * n - 1
  PROVE  /\ p \div 2 \in 0 .. n - 1 /\ p % 2 \in 0 .. 1 /\ p = 2 * (p \div 2) + (p % 2)
         /\ p \div 2 + 1 \in 1 .. n
OBVIOUS

\* A chiplet of the mesh stands for one device of the listing and no other for it.
LEMMA DeviceFacts ==
  ASSUME PlanInv, Chose
  PROVE  /\ \A p \in Chiplets : /\ Device(p) \in DOMAIN listing
                                /\ Coords[Device(p)] = SliceCoord(Chip(p))
                                /\ InRange(Coords[Device(p)])
                                /\ Device(p) % 2 = 1 <=> Core(p) = 0
                                /\ Chip(p) \in Tpus
         /\ \A p, q \in Chiplets : /\ Device(p) = Device(q) => p = q
                                   /\ Coords[Device(p)] = Coords[Device(q)] <=> Chip(p) = Chip(q)
         /\ \A i \in DOMAIN listing : InRange(Coords[i]) => \E p \in Chiplets : Device(p) = i
<1> DEFINE c == Len(ChipOrder)
           At(p) == chosen[p \div 2 + 1]
<1>1. /\ Inferable /\ chips = ChipOrder /\ chosen = Selected /\ N \in Nat
      /\ chips \in Seq([Axes -> Nat]) /\ listing \in Listings
      /\ chosen \in Seq(DOMAIN chips)
  BY ChosenFacts DEF PlanInv, TypeOK
<1>2. c \in Nat /\ DOMAIN ChipOrder = 1 .. c /\ DOMAIN listing = 1 .. 2 * c
  BY <1>1, InferredFacts
<1>3. Chiplets = 0 .. 2 * N - 1 /\ Tpus = 0 .. N - 1 /\ N = Len(chosen) /\ DOMAIN chosen = 1 .. N
  BY <1>1 DEF Chiplets, ChipletsPerTpu, Tpus, N
<1>4. \A m \in 1 .. c : ChipOrder[m] = Coords[2 * m - 1] /\ Coords[2 * m] = Coords[2 * m - 1]
  <2>1. \A m \in DOMAIN ChipOrder : ChipOrder[m] = Coords[2 * m - 1]
    BY DEF ChipOrder
  <2>2. \A m \in DOMAIN ChipOrder : Coords[2 * m] = Coords[2 * m - 1]
    BY <1>1 DEF Inferable
  <2> QED
    BY <1>2, <2>1, <2>2
<1>5. ASSUME NEW p \in Chiplets
      PROVE  /\ p \div 2 \in 0 .. N - 1 /\ p % 2 \in 0 .. 1 /\ p = 2 * (p \div 2) + (p % 2)
             /\ p \div 2 + 1 \in 1 .. N /\ At(p) \in 1 .. c
             /\ Device(p) = 2 * (At(p) - 1) + (p % 2) + 1
             /\ SliceCoord(Chip(p)) = ChipOrder[At(p)]
             /\ Chip(p) = p \div 2 /\ Core(p) = p % 2
  <2>1. /\ p \div 2 \in 0 .. N - 1 /\ p % 2 \in 0 .. 1 /\ p = 2 * (p \div 2) + (p % 2)
        /\ p \div 2 + 1 \in 1 .. N
    BY <1>1, <1>3, Halves
  <2>2. chosen[p \div 2 + 1] \in DOMAIN chips
    BY <1>1, <1>3, <2>1
  <2>3. Chip(p) = p \div 2 /\ Core(p) = p % 2
    BY DEF Chip, Core, ChipletsPerTpu
  <2>4. Device(p) = 2 * (At(p) - 1) + (p % 2) + 1
    BY <2>3 DEF Device, ChipletsPerTpu
  <2>5. SliceCoord(Chip(p)) = ChipOrder[At(p)]
    BY <1>1, <2>3 DEF SliceCoord
  <2> QED
    BY Zenon, <1>1, <1>2, <2>1, <2>2, <2>3, <2>4, <2>5
<1> HIDE DEF At, c
<1>6. ASSUME NEW p \in Chiplets
      PROVE  /\ Device(p) \in 1 .. 2 * c
             /\ Device(p) = 2 * At(p) - 1 \/ Device(p) = 2 * At(p)
             /\ Device(p) = 2 * At(p) - 1 <=> p % 2 = 0
             /\ Coords[Device(p)] = ChipOrder[At(p)]
             /\ Device(p) % 2 = 1 <=> p % 2 = 0
  <2>1. At(p) \in Int /\ At(p) >= 1 /\ At(p) <= c /\ (p % 2 = 0 \/ p % 2 = 1)
    BY <1>2, <1>5
  <2>2. \/ p % 2 = 0 /\ Device(p) = 2 * At(p) - 1
        \/ p % 2 = 1 /\ Device(p) = 2 * At(p)
    BY <1>5, <2>1
  <2>3. Coords[Device(p)] = ChipOrder[At(p)]
    BY <1>4, <1>5, <2>2
  <2>4. (2 * At(p) - 1) % 2 = 1 /\ (2 * At(p)) % 2 = 0
    BY <2>1
  <2> QED
    BY <1>2, <2>1, <2>2, <2>3, <2>4
<1>7. ASSUME NEW p \in Chiplets, NEW q \in Chiplets, At(p) = At(q)
      PROVE  p \div 2 = q \div 2
  <2>1. \A t, u \in 1 .. N : t < u => chosen[t] < chosen[u]
    BY <1>1, <1>3, SelectedFacts
  <2>2. ~ (p \div 2 + 1 < q \div 2 + 1) /\ ~ (q \div 2 + 1 < p \div 2 + 1)
    <3>1. At(p) \in Int /\ At(q) \in Int
      BY <1>2, <1>5
    <3>2. p \div 2 + 1 < q \div 2 + 1 => At(p) < At(q)
      BY <1>5, <2>1 DEF At
    <3>3. q \div 2 + 1 < p \div 2 + 1 => At(q) < At(p)
      BY <1>5, <2>1 DEF At
    <3> QED
      BY <1>7, <3>1, <3>2, <3>3
  <2>3. p \div 2 \in Int /\ q \div 2 \in Int
    BY <1>5
  <2> QED
    BY <2>2, <2>3
<1>8. ASSUME NEW p \in Chiplets, NEW q \in Chiplets
      PROVE  /\ Device(p) = Device(q) => p = q
             /\ Coords[Device(p)] = Coords[Device(q)] <=> Chip(p) = Chip(q)
  <2>1. At(p) = At(q) <=> p \div 2 = q \div 2
    BY <1>7 DEF At
  <2>2. Device(p) = Device(q) => At(p) = At(q) /\ (p % 2 = 0 <=> q % 2 = 0)
    <3>1. At(p) \in Int /\ At(q) \in Int
      BY <1>2, <1>5
    <3> QED
      BY <1>6, <3>1
  <2>3. Device(p) = Device(q) => p = q
    <3>1. p % 2 \in 0 .. 1 /\ q % 2 \in 0 .. 1 /\ p = 2 * (p \div 2) + (p % 2) /\ q = 2 * (q \div 2) + (q % 2)
      BY <1>5
    <3> QED
      BY <2>1, <2>2, <3>1
  <2>4. ChipOrder[At(p)] = ChipOrder[At(q)] => At(p) = At(q)
    BY <1>1, <1>2, <1>5 DEF Inferable, IsInjective
  <2> QED
    BY <1>5, <1>6, <2>1, <2>3, <2>4
<1>9. ASSUME NEW p \in Chiplets
      PROVE  InRange(Coords[Device(p)])
  <2>1. \A t \in 1 .. N : InRange(chips[chosen[t]])
    BY <1>1, <1>3, SelectedFacts
  <2>2. InRange(chips[At(p)])
    BY <1>5, <2>1 DEF At
  <2> QED
    BY <1>1, <1>6, <2>2
<1>10. ASSUME NEW i \in DOMAIN listing, InRange(Coords[i])
       PROVE  \E p \in Chiplets : Device(p) = i
  <2>1. PICK m \in 1 .. c, r \in 0 .. 1 : i = 2 * m - 1 + r
    <3>1. (i + 1) \div 2 \in 1 .. c /\ (i + 1) % 2 \in 0 .. 1
          /\ i = 2 * ((i + 1) \div 2) - 1 + ((i + 1) % 2)
      BY <1>2
    <3> QED
      BY <3>1
  <2>2. Coords[i] = ChipOrder[m] /\ m \in DOMAIN chips
    <3>1. i = 2 * m - 1 \/ i = 2 * m
      BY <2>1
    <3> QED
      BY <1>1, <1>2, <1>4, <3>1
  <2>3. PICK t \in 1 .. N : chosen[t] = m
    BY <1>1, <1>3, <1>10, <2>2, SelectedFacts
  <2> DEFINE p == 2 * (t - 1) + r
  <2>4. p \in Chiplets /\ p \div 2 = t - 1 /\ p % 2 = r
    <3>1. t - 1 \in Nat /\ t \in Nat /\ t <= N /\ r \in 0 .. 2 - 1
      BY <1>1
    <3>2. p \div 2 = t - 1 /\ p % 2 = r
      BY <3>1, RowAndColumn
    <3>3. p \in Chiplets
      BY <1>1, <1>3, <3>1
    <3> QED
      BY <3>2, <3>3
  <2> HIDE DEF p
  <2>5. At(p) = m
    <3>1. p \div 2 + 1 = t
      BY <1>1, <2>4
    <3> QED
      BY <2>3, <3>1 DEF At
  <2>6. Device(p) = 2 * (m - 1) + r + 1
    BY <1>5, <2>4, <2>5
  <2>7. Device(p) = i
    BY <1>2, <2>1, <2>6
  <2> QED
    BY <2>4, <2>7
<1>11. \A p \in Chiplets : Chip(p) \in Tpus
  BY <1>3, <1>5
<1> QED
  <2>1. \A p \in Chiplets : /\ Device(p) \in DOMAIN listing
                            /\ Coords[Device(p)] = SliceCoord(Chip(p))
                            /\ Device(p) % 2 = 1 <=> Core(p) = 0
    BY <1>2, <1>5, <1>6
  <2> QED
    BY <1>8, <1>9, <1>10, <1>11, <2>1

\* The pairs of a scan, seen from the devices.
LEMMA ScanMatrix ==
  ASSUME PlanInv, Chose, P2p, ValidRequest(request), NEW e \in Chiplets \X Chiplets
  PROVE  e \in ChipletMatrix <=> Wanted(Device(e[1]), Device(e[2]))
<1> DEFINE p == e[1]
           q == e[2]
<1>1. p \in Chiplets /\ q \in Chiplets /\ e = <<p, q>>
  OBVIOUS
<1> HIDE DEF p, q
<1>2. request.benchmark \in {"p2p", "p2p-rdma"}
  BY DEF P2p
<1>3. /\ Device(p) = Device(q) <=> p = q
      /\ InRange(Coords[Device(p)]) /\ InRange(Coords[Device(q)])
      /\ Coords[Device(p)] = Coords[Device(q)] <=> Chip(p) = Chip(q)
      /\ Device(p) % 2 = 1 <=> Core(p) = 0
      /\ Device(q) % 2 = 1 <=> Core(q) = 0
      /\ Coords[Device(p)] = SliceCoord(Chip(p)) /\ Coords[Device(q)] = SliceCoord(Chip(q))
      /\ Chip(p) \in Tpus /\ Chip(q) \in Tpus
  BY <1>1, DeviceFacts
<1>4. CASE request.neighbors
  <2>1. e \in ChipletMatrix <=>
          /\ p # q
          /\ \/ Chip(p) = Chip(q)
             \/ Core(p) = 0 /\ Core(q) = 0 /\ Apart(SliceCoord(Chip(p)), SliceCoord(Chip(q))) = 1
    BY <1>1, <1>2, <1>4 DEF ChipletMatrix, WithoutSelf, NeighborPairs
  <2>2. Wanted(Device(p), Device(q)) <=>
          /\ p # q
          /\ \/ Chip(p) = Chip(q)
             \/ Core(p) = 0 /\ Core(q) = 0 /\ Apart(SliceCoord(Chip(p)), SliceCoord(Chip(q))) = 1
    BY <1>3, <1>4 DEF Wanted
  <2> QED
    BY <2>1, <2>2 DEF p, q
<1>5. CASE ~ request.neighbors
  <2>1. TpuMatrix = Tpus \X Tpus
    BY <1>2 DEF TpuMatrix, BuiltinMatrix, P2p
  <2>2. e \in ChipletMatrix <=> p # q
    BY <1>1, <1>2, <1>3, <1>5, <2>1 DEF ChipletMatrix, WithoutSelf, Expand, P2p
  <2>3. Wanted(Device(p), Device(q)) <=> p # q
    BY <1>3, <1>5 DEF Wanted
  <2> QED
    BY <2>2, <2>3 DEF p, q
<1> QED
  BY <1>4, <1>5

LEMMA PlanEveryLinkOnce == PlanInv => EveryLinkOnce
<1> SUFFICES ASSUME PlanInv, stage = "listed", P2p, request.split,
                    NEW i \in DOMAIN listing, NEW j \in DOMAIN listing
             PROVE  Cardinality({k \in DOMAIN cases :
                                   \E e \in cases[k] : Device(e[1]) = i /\ Device(e[2]) = j})
                      = IF Wanted(i, j) THEN 1 ELSE 0
  BY DEF EveryLinkOnce
<1> DEFINE K == {k \in DOMAIN cases : \E e \in cases[k] : Device(e[1]) = i /\ Device(e[2]) = j}
<1>1. Chose /\ Listed /\ Expanded /\ Inferred
  BY DEF Chose, Listed, Expanded, Inferred, Since
<1>2. /\ ValidRequest(request) /\ matrix = ChipletMatrix /\ matrix \subseteq Chiplets \X Chiplets
      /\ cases = [k \in DOMAIN ActivePairs |-> {ActivePairs[k]}]
  BY <1>1 DEF PlanInv, TypeOK, CaseInv
<1>3. PICK c \in Nat : /\ ActivePairs \in [1 .. c -> matrix]
                       /\ \A e \in matrix : \E k \in 1 .. c : ActivePairs[k] = e
                       /\ \A k, l \in 1 .. c : ActivePairs[k] = ActivePairs[l] => k = l
  BY <1>1, <1>2, ChosenFacts, ActivePairsFacts DEF ListsOnce
<1>4. K = {k \in 1 .. c : Device(ActivePairs[k][1]) = i /\ Device(ActivePairs[k][2]) = j}
  BY <1>2, <1>3
<1>5. ASSUME NEW k \in K, NEW l \in K
      PROVE  k = l
  <2>1. /\ ActivePairs[k] \in Chiplets \X Chiplets /\ ActivePairs[l] \in Chiplets \X Chiplets
        /\ Device(ActivePairs[k][1]) = Device(ActivePairs[l][1])
        /\ Device(ActivePairs[k][2]) = Device(ActivePairs[l][2])
    BY <1>2, <1>3, <1>4
  <2>2. ActivePairs[k][1] = ActivePairs[l][1] /\ ActivePairs[k][2] = ActivePairs[l][2]
    BY <1>1, <2>1, DeviceFacts
  <2>3. ActivePairs[k] = ActivePairs[l]
    BY <2>1, <2>2
  <2> QED
    BY <1>3, <1>4, <2>3
<1>6. K # {} <=> Wanted(i, j)
  <2>1. ASSUME NEW k \in K
        PROVE  Wanted(i, j)
    <3>1. ActivePairs[k] \in ChipletMatrix /\ ActivePairs[k] \in Chiplets \X Chiplets
      BY <1>2, <1>3, <1>4
    <3>2. Wanted(Device(ActivePairs[k][1]), Device(ActivePairs[k][2]))
      BY <1>1, <1>2, <3>1, ScanMatrix
    <3> QED
      BY <1>4, <3>2
  <2>2. ASSUME Wanted(i, j)
        PROVE  K # {}
    <3>1. PICK p \in Chiplets : Device(p) = i
      BY <1>1, <2>2, DeviceFacts DEF Wanted
    <3>2. PICK q \in Chiplets : Device(q) = j
      BY <1>1, <2>2, DeviceFacts DEF Wanted
    <3> DEFINE e == <<p, q>>
    <3>3. e \in Chiplets \X Chiplets /\ e[1] = p /\ e[2] = q
      OBVIOUS
    <3> HIDE DEF e
    <3>4. e \in ChipletMatrix
      BY <1>1, <1>2, <2>2, <3>1, <3>2, <3>3, ScanMatrix
    <3>5. PICK k \in 1 .. c : ActivePairs[k] = e
      BY <1>2, <1>3, <3>4
    <3>6. k \in K
      BY <1>4, <3>1, <3>2, <3>3, <3>5
    <3> QED
      BY <3>6
  <2> QED
    BY <2>1, <2>2
<1> HIDE DEF K
<1>7. CASE Wanted(i, j)
  <2>1. PICK k : K = {k}
    BY <1>5, <1>6, <1>7
  <2>2. Cardinality(K) = 1
    BY <2>1, FS_Singleton
  <2> QED
    BY <1>7, <2>2 DEF K
<1>8. CASE ~ Wanted(i, j)
  <2>1. Cardinality(K) = 0
    BY <1>6, <1>8, FS_EmptySet
  <2> QED
    BY <1>8, <2>1 DEF K
<1> QED
  BY <1>7, <1>8

\* A scan measures every link of the block, each of them once and none besides
\* (build_traffic_cases, neighboring_p2p_chiplet_pairs, benchmark_devices).
THEOREM LinksOnce == Spec => []EveryLinkOnce
BY PlanInvariance, PlanEveryLinkOnce, PTL

-----------------------------------------------------------------------------
(* Counting chiplets and pairs of chiplets by their chips.                 *)

\* One-to-one images have as many members.
LEMMA SameSize ==
  ASSUME NEW S, NEW T, IsFiniteSet(S), NEW f \in [S -> T],
         \A a, b \in S : f[a] = f[b] => a = b,
         \A t \in T : \E s \in S : f[s] = t
  PROVE  IsFiniteSet(T) /\ Cardinality(T) = Cardinality(S)
<1>1. f \in Bijection(S, T)
  BY Fun_IsBij
<1>2. ExistsBijection(S, T)
  BY <1>1, Fun_ExistsBij
<1> QED
  BY <1>2, FS_Bijection

\* A chiplet is a chip and a core.
LEMMA ChipAndCore ==
  ASSUME NEW n \in Nat
  PROVE  /\ \A t \in 0 .. n - 1 : \A c \in 0 .. 1 :
              /\ 2 * t + c \in 0 .. 2 * n - 1
              /\ (2 * t + c) \div 2 = t /\ (2 * t + c) % 2 = c
         /\ \A p \in 0 .. 2 * n - 1 :
              /\ p \div 2 \in 0 .. n - 1 /\ p % 2 \in 0 .. 1 /\ p = 2 * (p \div 2) + (p % 2)
<1>1. ASSUME NEW t \in 0 .. n - 1, NEW c \in 0 .. 1
      PROVE  /\ 2 * t + c \in 0 .. 2 * n - 1
             /\ (2 * t + c) \div 2 = t /\ (2 * t + c) % 2 = c
  <2>1. t \in Nat /\ t <= n - 1 /\ c \in 0 .. 2 - 1
    OBVIOUS
  <2>2. (2 * t + c) \div 2 = t /\ (2 * t + c) % 2 = c
    BY <2>1, RowAndColumn
  <2>3. 2 * t + c \in 0 .. 2 * n - 1
    BY <2>1
  <2> QED
    BY <2>2, <2>3
<1> QED
  BY <1>1, Halves

LEMMA IntervalSizes ==
  /\ \A n \in Nat : IsFiniteSet(0 .. n - 1) /\ Cardinality(0 .. n - 1) = n
  /\ IsFiniteSet(0 .. 1) /\ Cardinality(0 .. 1) = 2
<1>1. ASSUME NEW n \in Nat
      PROVE  IsFiniteSet(0 .. n - 1) /\ Cardinality(0 .. n - 1) = n
  <2>1. 0 \in Int /\ n - 1 \in Int
    OBVIOUS
  <2>2. /\ IsFiniteSet(0 .. n - 1)
        /\ Cardinality(0 .. n - 1) = IF 0 > n - 1 THEN 0 ELSE (n - 1) - 0 + 1
    BY <2>1, FS_Interval
  <2>3. (IF 0 > n - 1 THEN 0 ELSE (n - 1) - 0 + 1) = n
    OBVIOUS
  <2> QED
    BY <2>2, <2>3
<1>2. 0 .. 1 = 0 .. 2 - 1
  OBVIOUS
<1>3. IsFiniteSet(0 .. 2 - 1) /\ Cardinality(0 .. 2 - 1) = 2
  BY <1>1
<1> QED
  BY <1>1, <1>2, <1>3

\* The chiplets of the chips in U, the ones of core c, and the pairs of chiplets
\* behind a relation of chips.
ChipletsOf(n, U) == {q \in 0 .. 2 * n - 1 : q \div 2 \in U}
CoresOf(n, U, c) == {q \in 0 .. 2 * n - 1 : q \div 2 \in U /\ q % 2 = c}
PairsOf(n, R) ==
  {e \in (0 .. 2 * n - 1) \X (0 .. 2 * n - 1) : <<e[1] \div 2, e[2] \div 2>> \in R}

\* Chiplets of a set of chips: two each, one of each core.
LEMMA CountChiplets ==
  ASSUME NEW n \in Nat, NEW U \in SUBSET (0 .. n - 1)
  PROVE  /\ Cardinality(U) \in Nat
         /\ Cardinality(ChipletsOf(n, U)) = 2 * Cardinality(U)
         /\ \A c \in 0 .. 1 : Cardinality(CoresOf(n, U, c)) = Cardinality(U)
<1> DEFINE Q == {q \in 0 .. 2 * n - 1 : q \div 2 \in U}
           f == [x \in U \X (0 .. 1) |-> 2 * x[1] + x[2]]
<1>1. IsFiniteSet(0 .. n - 1) /\ IsFiniteSet(0 .. 1) /\ Cardinality(0 .. 1) = 2
  BY IntervalSizes
<1>2. IsFiniteSet(U) /\ Cardinality(U) \in Nat
  BY <1>1, FS_Subset, FS_CardinalityType
<1>3. IsFiniteSet(U \X (0 .. 1)) /\ Cardinality(U \X (0 .. 1)) = Cardinality(U) * 2
  BY <1>1, <1>2, FS_Product
<1>4. ASSUME NEW t \in U, NEW c \in 0 .. 1
      PROVE  /\ 2 * t + c \in Q
             /\ (2 * t + c) \div 2 = t /\ (2 * t + c) % 2 = c
  <2>1. t \in 0 .. n - 1
    OBVIOUS
  <2>2. /\ 2 * t + c \in 0 .. 2 * n - 1
        /\ (2 * t + c) \div 2 = t /\ (2 * t + c) % 2 = c
    BY <2>1, ChipAndCore
  <2> QED
    BY Zenon, <2>2
<1>5. ASSUME NEW q \in Q
      PROVE  q \div 2 \in U /\ q % 2 \in 0 .. 1 /\ q = 2 * (q \div 2) + (q % 2)
  BY ChipAndCore
<1>6. f \in [U \X (0 .. 1) -> Q]
  BY <1>4
<1>7. ASSUME NEW a \in U \X (0 .. 1), NEW b \in U \X (0 .. 1), f[a] = f[b]
      PROVE  a = b
  <2>1. /\ a[1] \in U /\ a[2] \in 0 .. 1 /\ b[1] \in U /\ b[2] \in 0 .. 1
        /\ a = <<a[1], a[2]>> /\ b = <<b[1], b[2]>>
        /\ f[a] = 2 * a[1] + a[2] /\ f[b] = 2 * b[1] + b[2]
    OBVIOUS
  <2> HIDE DEF f
  <2>2. (f[a] \div 2 = a[1] /\ f[a] % 2 = a[2]) /\ (f[b] \div 2 = b[1] /\ f[b] % 2 = b[2])
    BY Zenon, <1>4, <2>1
  <2> QED
    BY Zenon, <1>7, <2>1, <2>2
<1>8. ASSUME NEW q \in Q
      PROVE  \E x \in U \X (0 .. 1) : f[x] = q
  <2> DEFINE x == <<q \div 2, q % 2>>
  <2>1. x \in U \X (0 .. 1) /\ f[x] = 2 * (q \div 2) + (q % 2)
    BY <1>5
  <2> QED
    BY <1>5, <2>1
<1>9. Cardinality(Q) = 2 * Cardinality(U)
  <2> HIDE DEF f, Q
  <2>1. Cardinality(Q) = Cardinality(U) * 2
    BY <1>3, <1>6, <1>7, <1>8, SameSize
  <2> QED
    BY <1>2, <2>1
<1>10. ASSUME NEW c \in 0 .. 1
       PROVE  Cardinality({q \in 0 .. 2 * n - 1 : q \div 2 \in U /\ q % 2 = c}) = Cardinality(U)
  <2> DEFINE P == {q \in 0 .. 2 * n - 1 : q \div 2 \in U /\ q % 2 = c}
             g == [t \in U |-> 2 * t + c]
  <2>1. g \in [U -> P]
    BY <1>4
  <2>2. \A s, t \in U : g[s] = g[t] => s = t
    <3>1. ASSUME NEW s \in U, NEW t \in U, g[s] = g[t]
          PROVE  s = t
      <4>1. s \in Int /\ t \in Int /\ c \in Int
        OBVIOUS
      <4> QED
        BY <3>1, <4>1
    <3> QED
      BY <3>1
  <2>3. \A q \in P : \E t \in U : g[t] = q
    <3>1. ASSUME NEW q \in P
          PROVE  \E t \in U : g[t] = q
      <4>1. q \div 2 \in U /\ q = 2 * (q \div 2) + c
        BY <1>5
      <4> QED
        BY <4>1
    <3> QED
      BY <3>1
  <2> HIDE DEF P, g
  <2>4. Cardinality(P) = Cardinality(U)
    BY <1>2, <2>1, <2>2, <2>3, SameSize
  <2> QED
    BY <2>4 DEF P
<1> QED
  BY <1>2, <1>9, <1>10 DEF ChipletsOf, CoresOf

\* A matrix of chips, expanded to all their chiplets, or to those of one core.
LEMMA CountPairs ==
  ASSUME NEW n \in Nat, NEW R \in SUBSET ((0 .. n - 1) \X (0 .. n - 1))
  PROVE  /\ Cardinality(R) \in Nat
         /\ Cardinality(PairsOf(n, R)) = 4 * Cardinality(R)
         /\ Cardinality(SameCore(PairsOf(n, R))) = 2 * Cardinality(R)
<1> DEFINE B == 0 .. 1
           Ch == 0 .. 2 * n - 1
           E == {e \in Ch \X Ch : <<e[1] \div 2, e[2] \div 2>> \in R}
<1>1. IsFiniteSet(0 .. n - 1) /\ IsFiniteSet(B) /\ Cardinality(B) = 2
  BY IntervalSizes
<1>2. IsFiniteSet(R) /\ Cardinality(R) \in Nat
  <2>1. IsFiniteSet((0 .. n - 1) \X (0 .. n - 1))
    BY <1>1, FS_Product
  <2> QED
    BY <2>1, FS_Subset, FS_CardinalityType
<1>3. IsFiniteSet(B \X B) /\ Cardinality(B \X B) = 4
  <2>1. IsFiniteSet(B \X B) /\ Cardinality(B \X B) = Cardinality(B) * Cardinality(B)
    BY <1>1, FS_Product
  <2> QED
    BY <1>1, <2>1
<1>4. /\ IsFiniteSet(R \X (B \X B)) /\ Cardinality(R \X (B \X B)) = Cardinality(R) * 4
      /\ IsFiniteSet(R \X B) /\ Cardinality(R \X B) = Cardinality(R) * 2
  BY <1>1, <1>2, <1>3, FS_Product
<1>5. ASSUME NEW r \in R, NEW c \in B, NEW d \in B
      PROVE  /\ r = <<r[1], r[2]>> /\ r[1] \in 0 .. n - 1 /\ r[2] \in 0 .. n - 1
             /\ 2 * r[1] + c \in Ch /\ 2 * r[2] + d \in Ch
             /\ (2 * r[1] + c) \div 2 = r[1] /\ (2 * r[1] + c) % 2 = c
             /\ (2 * r[2] + d) \div 2 = r[2] /\ (2 * r[2] + d) % 2 = d
  <2>1. r = <<r[1], r[2]>> /\ r[1] \in 0 .. n - 1 /\ r[2] \in 0 .. n - 1
    OBVIOUS
  <2> QED
    BY Zenon, <2>1, ChipAndCore
<1>6. ASSUME NEW r \in R, NEW c \in B, NEW d \in B
      PROVE  <<2 * r[1] + c, 2 * r[2] + d>> \in E
  <2> DEFINE e == <<2 * r[1] + c, 2 * r[2] + d>>
  <2>1. e \in Ch \X Ch /\ e[1] = 2 * r[1] + c /\ e[2] = 2 * r[2] + d
    BY <1>5
  <2> HIDE DEF e
  <2>2. <<e[1] \div 2, e[2] \div 2>> = r
    BY Zenon, <1>5, <2>1
  <2> QED
    BY <2>1, <2>2 DEF e
<1>7. ASSUME NEW e \in E
      PROVE  /\ e[1] % 2 \in B /\ e[2] % 2 \in B /\ e = <<e[1], e[2]>>
             /\ <<e[1] \div 2, e[2] \div 2>> \in R
             /\ e[1] = 2 * (e[1] \div 2) + (e[1] % 2)
             /\ e[2] = 2 * (e[2] \div 2) + (e[2] % 2)
  <2>1. e[1] \in Ch /\ e[2] \in Ch /\ e = <<e[1], e[2]>> /\ <<e[1] \div 2, e[2] \div 2>> \in R
    OBVIOUS
  <2> QED
    BY Zenon, <2>1, ChipAndCore
<1>8. Cardinality(E) = Cardinality(R) * 4
  <2> DEFINE S == R \X (B \X B)
             f == [x \in S |-> <<2 * x[1][1] + x[2][1], 2 * x[1][2] + x[2][2]>>]
  <2>1. f \in [S -> E]
    BY <1>6
  <2>2. ASSUME NEW x \in S, NEW y \in S, f[x] = f[y]
        PROVE  x = y
    <3>1. /\ x[1] \in R /\ x[2][1] \in B /\ x[2][2] \in B
          /\ y[1] \in R /\ y[2][1] \in B /\ y[2][2] \in B
          /\ x = <<x[1], <<x[2][1], x[2][2]>>>> /\ y = <<y[1], <<y[2][1], y[2][2]>>>>
      OBVIOUS
    <3>2. /\ 2 * x[1][1] + x[2][1] = 2 * y[1][1] + y[2][1]
          /\ 2 * x[1][2] + x[2][2] = 2 * y[1][2] + y[2][2]
      BY <2>2
    <3>3. /\ x[1][1] = y[1][1] /\ x[2][1] = y[2][1]
          /\ x[1][2] = y[1][2] /\ x[2][2] = y[2][2]
      <4>1. /\ (2 * x[1][1] + x[2][1]) \div 2 = x[1][1] /\ (2 * x[1][1] + x[2][1]) % 2 = x[2][1]
            /\ (2 * x[1][2] + x[2][2]) \div 2 = x[1][2] /\ (2 * x[1][2] + x[2][2]) % 2 = x[2][2]
        BY Zenon, <1>5, <3>1
      <4>2. /\ (2 * y[1][1] + y[2][1]) \div 2 = y[1][1] /\ (2 * y[1][1] + y[2][1]) % 2 = y[2][1]
            /\ (2 * y[1][2] + y[2][2]) \div 2 = y[1][2] /\ (2 * y[1][2] + y[2][2]) % 2 = y[2][2]
        BY Zenon, <1>5, <3>1
      <4> QED
        BY Zenon, <3>2, <4>1, <4>2
    <3>4. x[1] = <<x[1][1], x[1][2]>> /\ y[1] = <<y[1][1], y[1][2]>>
      BY Zenon, <1>5, <3>1
    <3> QED
      BY Zenon, <3>1, <3>3, <3>4
  <2>3. ASSUME NEW e \in E
        PROVE  \E x \in S : f[x] = e
    <3> DEFINE x == <<<<e[1] \div 2, e[2] \div 2>>, <<e[1] % 2, e[2] % 2>>>>
    <3>1. x \in S
      BY <1>7
    <3>2. f[x] = <<2 * (e[1] \div 2) + (e[1] % 2), 2 * (e[2] \div 2) + (e[2] % 2)>>
      BY <3>1
    <3>3. f[x] = e
      BY Zenon, <1>7, <3>2
    <3> QED
      BY Zenon, <3>1, <3>3
  <2>4. IsFiniteSet(S) /\ Cardinality(S) = Cardinality(R) * 4
    BY <1>4
  <2> HIDE DEF f, S
  <2>5. Cardinality(E) = Cardinality(S)
    BY Zenon, <2>1, <2>2, <2>3, <2>4, SameSize
  <2> QED
    BY Zenon, <2>4, <2>5
<1>9. Cardinality({e \in E : e[1] % 2 = e[2] % 2}) = Cardinality(R) * 2
  <2> DEFINE F == {e \in E : e[1] % 2 = e[2] % 2}
             S == R \X B
             f == [x \in S |-> <<2 * x[1][1] + x[2], 2 * x[1][2] + x[2]>>]
  <2>1. f \in [S -> F]
    <3>1. ASSUME NEW x \in S
          PROVE  f[x] \in F
      <4>1. x[1] \in R /\ x[2] \in B /\ f[x] = <<2 * x[1][1] + x[2], 2 * x[1][2] + x[2]>>
        OBVIOUS
      <4> HIDE DEF f
      <4>2. f[x] \in E
        BY Zenon, <1>6, <4>1
      <4>3. f[x][1] = 2 * x[1][1] + x[2] /\ f[x][2] = 2 * x[1][2] + x[2]
        BY <4>1
      <4>4. f[x][1] % 2 = f[x][2] % 2
        <5>1. (2 * x[1][1] + x[2]) % 2 = x[2] /\ (2 * x[1][2] + x[2]) % 2 = x[2]
          BY Zenon, <1>5, <4>1
        <5> QED
          BY Zenon, <4>3, <5>1
      <4> QED
        BY <4>2, <4>4
    <3> QED
      BY <3>1
  <2>2. ASSUME NEW x \in S, NEW y \in S, f[x] = f[y]
        PROVE  x = y
    <3>1. /\ x[1] \in R /\ x[2] \in B /\ y[1] \in R /\ y[2] \in B
          /\ x = <<x[1], x[2]>> /\ y = <<y[1], y[2]>>
      OBVIOUS
    <3>2. /\ 2 * x[1][1] + x[2] = 2 * y[1][1] + y[2]
          /\ 2 * x[1][2] + x[2] = 2 * y[1][2] + y[2]
      BY <2>2
    <3>3. x[1][1] = y[1][1] /\ x[2] = y[2] /\ x[1][2] = y[1][2]
      <4>1. /\ (2 * x[1][1] + x[2]) \div 2 = x[1][1] /\ (2 * x[1][1] + x[2]) % 2 = x[2]
            /\ (2 * x[1][2] + x[2]) \div 2 = x[1][2]
        BY Zenon, <1>5, <3>1
      <4>2. /\ (2 * y[1][1] + y[2]) \div 2 = y[1][1] /\ (2 * y[1][1] + y[2]) % 2 = y[2]
            /\ (2 * y[1][2] + y[2]) \div 2 = y[1][2]
        BY Zenon, <1>5, <3>1
      <4> QED
        BY Zenon, <3>2, <4>1, <4>2
    <3>4. x[1] = <<x[1][1], x[1][2]>> /\ y[1] = <<y[1][1], y[1][2]>>
      BY Zenon, <1>5, <3>1
    <3> QED
      BY Zenon, <3>1, <3>3, <3>4
  <2>3. ASSUME NEW e \in F
        PROVE  \E x \in S : f[x] = e
    <3> DEFINE x == <<<<e[1] \div 2, e[2] \div 2>>, e[1] % 2>>
    <3>1. x \in S /\ e \in E /\ e[1] % 2 = e[2] % 2
      BY <1>7
    <3>2. f[x] = <<2 * (e[1] \div 2) + (e[1] % 2), 2 * (e[2] \div 2) + (e[1] % 2)>>
      BY <3>1
    <3>3. f[x] = e
      BY Zenon, <1>7, <3>1, <3>2
    <3> QED
      BY Zenon, <3>1, <3>3
  <2>4. IsFiniteSet(S) /\ Cardinality(S) = Cardinality(R) * 2
    BY <1>4
  <2> HIDE DEF f, F, S
  <2>5. Cardinality(F) = Cardinality(S)
    BY Zenon, <2>1, <2>2, <2>3, <2>4, SameSize
  <2>6. Cardinality(F) = Cardinality(R) * 2
    BY Zenon, <2>4, <2>5
  <2> QED
    BY <2>6 DEF F
<1> QED
  <2>1. E = PairsOf(n, R)
    BY DEF PairsOf
  <2>2. {e \in E : e[1] % 2 = e[2] % 2} = SameCore(E)
    BY DEF SameCore, Core, ChipletsPerTpu
  <2> HIDE DEF E
  <2>3. Cardinality(SameCore(PairsOf(n, R))) = Cardinality(R) * 2
    BY Zenon, <1>9, <2>1, <2>2
  <2>4. Cardinality(PairsOf(n, R)) = Cardinality(R) * 4
    BY Zenon, <1>8, <2>1
  <2> QED
    BY <1>2, <2>3, <2>4

-----------------------------------------------------------------------------
(* The bytes of an all-to-all.                                             *)

\* What is known of a run of an all-to-all once it has a report.
LEMMA AllToAllFacts ==
  ASSUME PlanInv, request.benchmark = "a2a", reports # <<>>
  PROVE  /\ N \in Nat /\ request.rows \in Nat /\ request.parallel \in BOOLEAN
         /\ Tpus = 0 .. N - 1 /\ Chiplets = 0 .. 2 * N - 1
         /\ \A p \in Chiplets : Chip(p) = p \div 2 /\ Core(p) = p % 2
         /\ cases[1] = {e \in Chiplets \X Chiplets :
                          /\ Chip(e[1]) # Chip(e[2])
                          /\ request.parallel => Core(e[1]) = Core(e[2])}
         /\ N # 0 /\ request.rows % GroupSize = 0
         /\ reports[1].total = IF request.parallel
                                 THEN request.rows * (N - 1) * 2
                                 ELSE InterTpuRows * 2 * N
         /\ reports[1].numerator = <<request.rows * GroupSize * Groups, 4>>
<1>1. Chose /\ Listed /\ Expanded /\ Inferred
  BY DEF Chose, Listed, Expanded, Inferred, Since
<1>2. /\ ValidRequest(request) /\ matrix = ChipletMatrix /\ Expandable
      /\ cases = IF request.split THEN [k \in DOMAIN ActivePairs |-> {ActivePairs[k]}] ELSE <<matrix>>
  BY <1>1 DEF PlanInv, CaseInv
<1>3. ~ request.split /\ ~ request.neighbors /\ ~ P2p
  BY <1>2 DEF ValidRequest, P2p
<1>4. N \in Nat /\ Tpus = 0 .. N - 1 /\ Chiplets = 0 .. 2 * N - 1
  BY <1>1, ChosenFacts DEF Tpus, Chiplets, ChipletsPerTpu
<1>5. request.rows \in Nat /\ request.parallel \in BOOLEAN
  <2>1. request \in Requests
    BY DEF PlanInv, TypeOK
  <2> QED
    BY <2>1, RequestsAssumption
<1>6. \A p \in Chiplets : Chip(p) = p \div 2 /\ Core(p) = p % 2
  BY DEF Chip, Core, ChipletsPerTpu
<1>7. \A p \in Chiplets : Chip(p) \in Tpus
  BY <1>4, <1>6, Halves
<1>8. TpuMatrix = {m \in Tpus \X Tpus : m[1] # m[2]}
  BY <1>3 DEF TpuMatrix, BuiltinMatrix
<1>9. Expand(TpuMatrix) = {e \in Chiplets \X Chiplets : Chip(e[1]) # Chip(e[2])}
  <2>1. \A p, q \in Chiplets : <<Chip(p), Chip(q)>> \in TpuMatrix <=> Chip(p) # Chip(q)
    BY <1>7, <1>8
  <2> QED
    BY <2>1 DEF Expand
<1>10. ChipletMatrix = {e \in Chiplets \X Chiplets :
                          /\ Chip(e[1]) # Chip(e[2])
                          /\ request.parallel => Core(e[1]) = Core(e[2])}
  BY <1>3, <1>9 DEF ChipletMatrix, SameCore
<1>11. N # 0
  <2> SUFFICES ASSUME N = 0
               PROVE  FALSE
    OBVIOUS
  <2>1. Chiplets = {}
    BY <1>4
  <2>2. ChipletMatrix = {}
    BY <1>10, <2>1
  <2> QED
    BY <1>2, <2>2 DEF Expandable
<1>12. request.rows % GroupSize = 0
  BY <1>2 DEF Expandable, Divides
<1>13. cases = <<matrix>> /\ cases[1] = matrix
  BY <1>2, <1>3
<1>14. reports[1] = Report(cases[1])
  <2>1. 1 \in DOMAIN reports
    BY DEF PlanInv, ReportInv
  <2> QED
    BY <2>1 DEF PlanInv, ReportInv
<1>15. TotalRows(cases[1]) = IF request.parallel
                               THEN request.rows * (N - 1) * ChipletsPerTpu
                               ELSE InterTpuRows * ChipletsPerTpu * N
  BY Zenon, <1>3 DEF TotalRows
<1>16. Numerator(cases[1]) = <<request.rows * GroupSize * Groups, 4>>
  BY Zenon, <1>3 DEF Numerator
<1>17. reports[1].total = TotalRows(cases[1]) /\ reports[1].numerator = Numerator(cases[1])
  BY <1>14 DEF Report
<1>18. reports[1].total = IF request.parallel
                            THEN request.rows * (N - 1) * 2 ELSE InterTpuRows * 2 * N
  BY Zenon, <1>15, <1>17 DEF ChipletsPerTpu
<1> QED
  BY Zenon, <1>2, <1>4, <1>5, <1>6, <1>10, <1>11, <1>12, <1>13, <1>16, <1>17, <1>18

\* Rows that divide into chunks for a group of g chiplets.
LEMMA WholeChunks ==
  ASSUME NEW g \in Nat \ {0}, NEW r \in Nat, r % g = 0
  PROVE  r \div g \in Nat /\ (r \div g) * g = r
OBVIOUS

\* Pairs of distinct chips.
LEMMA DistinctPairs ==
  ASSUME NEW n \in Nat, NEW R, R = {m \in (0 .. n - 1) \X (0 .. n - 1) : m[1] # m[2]}
  PROVE  Cardinality(R) = n * (n - 1)
<1> DEFINE T == 0 .. n - 1
           D == {m \in T \X T : m[1] = m[2]}
           f == [t \in T |-> <<t, t>>]
<1>1. IsFiniteSet(T) /\ Cardinality(T) = n
  BY IntervalSizes
<1>2. IsFiniteSet(T \X T) /\ Cardinality(T \X T) = n * n
  BY <1>1, FS_Product
<1>3. Cardinality(D) = n
  <2>1. f \in [T -> D] /\ (\A a, b \in T : f[a] = f[b] => a = b) /\ \A m \in D : \E t \in T : f[t] = m
    <3> HIDE DEF T
    <3>1. f \in [T -> D]
      OBVIOUS
    <3>2. \A a, b \in T : f[a] = f[b] => a = b
      OBVIOUS
    <3>3. ASSUME NEW m \in D
          PROVE  \E t \in T : f[t] = m
      <4>1. m[1] \in T /\ m = <<m[1], m[1]>>
        OBVIOUS
      <4>2. f[m[1]] = m
        BY <4>1
      <4> QED
        BY <4>1, <4>2
    <3> QED
      BY <3>1, <3>2, <3>3
  <2> HIDE DEF f, D, T
  <2> QED
    BY <1>1, <2>1, SameSize
<1>4. R = (T \X T) \ D /\ (T \X T) \cap D = D
  OBVIOUS
<1>5. Cardinality(R) = n * n - n
  <2> HIDE DEF T, D
  <2>1. Cardinality((T \X T) \ D) = Cardinality(T \X T) - Cardinality((T \X T) \cap D)
    BY <1>2, FS_Difference
  <2> QED
    BY <1>2, <1>3, <1>4, <2>1
<1>6. n * (n - 1) = n * n - n
  OBVIOUS
<1> QED
  BY <1>5, <1>6

LEMMA PairsOfDistinct ==
  ASSUME N \in Nat
  PROVE  PairsOf(N, {m \in (0 .. N - 1) \X (0 .. N - 1) : m[1] # m[2]})
           = {e \in Chiplets \X Chiplets : Chip(e[1]) # Chip(e[2])}
<1>1. Chiplets = 0 .. 2 * N - 1 /\ \A p : Chip(p) = p \div 2
  BY DEF Chiplets, Chip, ChipletsPerTpu
<1>2. \A p \in Chiplets : p \div 2 \in 0 .. N - 1
  BY <1>1, Halves
<1>3. \A p, q \in Chiplets :
         <<p \div 2, q \div 2>> \in {m \in (0 .. N - 1) \X (0 .. N - 1) : m[1] # m[2]}
           <=> Chip(p) # Chip(q)
  BY <1>1, <1>2
<1> QED
  BY <1>1, <1>3 DEF PairsOf

LEMMA PlanExchangeMatchesMatrix == PlanInv => ExchangeMatchesMatrix
<1> DEFINE peers(p) == {q \in Chiplets : /\ Chip(q) # Chip(p)
                                         /\ request.parallel => Core(q) = Core(p)}
           r == request.rows
           k == IF request.parallel THEN 1 ELSE 2
<1> SUFFICES ASSUME PlanInv, request.benchmark = "a2a", reports # <<>>
             PROVE  /\ cases[1] = {e \in Chiplets \X Chiplets : e[2] \in peers(e[1])}
                    /\ \A p \in Chiplets : InterTpuRows * GroupSize = r * Cardinality(peers(p))
                    /\ reports[1].total * GroupSize = r * Cardinality(cases[1])
  BY DEF ExchangeMatchesMatrix
<1>1. /\ N \in Nat /\ r \in Nat /\ request.parallel \in BOOLEAN /\ N # 0
      /\ Tpus = 0 .. N - 1 /\ Chiplets = 0 .. 2 * N - 1
      /\ \A p \in Chiplets : Chip(p) = p \div 2 /\ Core(p) = p % 2
      /\ r % GroupSize = 0
  BY AllToAllFacts
<1>2. cases[1] = {e \in Chiplets \X Chiplets :
                    /\ Chip(e[1]) # Chip(e[2])
                    /\ request.parallel => Core(e[1]) = Core(e[2])}
  BY AllToAllFacts
<1>3. cases[1] = {e \in Chiplets \X Chiplets : e[2] \in peers(e[1])}
  BY <1>2
<1>4. /\ GroupSize = IF request.parallel THEN N ELSE 2 * N
      /\ GroupSize \in Nat \ {0}
      /\ InterTpuRows = (r \div GroupSize) * (N - 1) * k
  BY <1>1 DEF GroupSize, InterTpuRows, ChipletsPerTpu
<1>5. PICK c \in Nat : c = r \div GroupSize /\ c * GroupSize = r
  BY <1>1, <1>4, WholeChunks
<1>6. InterTpuRows * GroupSize = r * ((N - 1) * k)
  <2>1. InterTpuRows = c * (N - 1) * k
    BY <1>4, <1>5
  <2>2. k \in Nat /\ N - 1 \in Nat
    BY <1>1
  <2> HIDE DEF r, k
  <2>3. \A a, b, d, g \in Nat : a * b * d * g = (a * g) * (b * d)
    OBVIOUS
  <2>4. c * (N - 1) * k * GroupSize = (c * GroupSize) * ((N - 1) * k)
    BY <1>4, <2>2, <2>3
  <2> QED
    BY <1>5, <2>1, <2>4
<1>7. ASSUME NEW p \in Chiplets
      PROVE  Cardinality(peers(p)) = (N - 1) * k
  <2> DEFINE U == (0 .. N - 1) \ {p \div 2}
  <2>1. p \div 2 \in 0 .. N - 1 /\ p % 2 \in 0 .. 1
    BY <1>1, Halves
  <2>2. Cardinality(U) = N - 1
    <3>1. IsFiniteSet(0 .. N - 1) /\ Cardinality(0 .. N - 1) = N
      BY <1>1, IntervalSizes
    <3> QED
      BY <2>1, <3>1, FS_RemoveElement
  <2>3. U \in SUBSET (0 .. N - 1)
    OBVIOUS
  <2>4. \A q \in 0 .. 2 * N - 1 : q \div 2 \in U <=> q \div 2 # p \div 2
    BY <1>1, Halves
  <2>5. CASE request.parallel
    <3>1. peers(p) = CoresOf(N, U, p % 2)
      BY <1>1, <2>4, <2>5 DEF CoresOf
    <3> HIDE DEF U
    <3>2. Cardinality(CoresOf(N, U, p % 2)) = Cardinality(U)
      BY <1>1, <2>1, <2>3, CountChiplets
    <3>3. (N - 1) * 1 = N - 1
      BY <1>1
    <3> QED
      BY <2>2, <2>5, <3>1, <3>2, <3>3
  <2>6. CASE ~ request.parallel
    <3>1. peers(p) = ChipletsOf(N, U)
      BY <1>1, <2>4, <2>6 DEF ChipletsOf
    <3> HIDE DEF U
    <3>2. Cardinality(ChipletsOf(N, U)) = 2 * Cardinality(U)
      BY <1>1, <2>3, CountChiplets
    <3>3. (N - 1) * 2 = 2 * (N - 1)
      BY <1>1
    <3> QED
      BY <2>2, <2>6, <3>1, <3>2, <3>3
  <2> QED
    BY <2>5, <2>6
<1>8. Cardinality(cases[1]) = IF request.parallel THEN 2 * (N * (N - 1)) ELSE 4 * (N * (N - 1))
  <2> DEFINE R == {m \in (0 .. N - 1) \X (0 .. N - 1) : m[1] # m[2]}
  <2>1. Cardinality(R) = N * (N - 1) /\ R \in SUBSET ((0 .. N - 1) \X (0 .. N - 1))
    BY <1>1, DistinctPairs
  <2>2. PairsOf(N, R) = {e \in Chiplets \X Chiplets : Chip(e[1]) # Chip(e[2])}
    BY <1>1, PairsOfDistinct
  <2> HIDE DEF R
  <2>3. /\ Cardinality(PairsOf(N, R)) = 4 * Cardinality(R)
        /\ Cardinality(SameCore(PairsOf(N, R))) = 2 * Cardinality(R)
    BY <1>1, <2>1, CountPairs
  <2>4. request.parallel => cases[1] = SameCore(PairsOf(N, R))
    BY <1>2, <2>2 DEF SameCore
  <2>5. ~ request.parallel => cases[1] = PairsOf(N, R)
    BY <1>2, <2>2
  <2> QED
    BY <2>1, <2>3, <2>4, <2>5
<1>9. reports[1].total * GroupSize = r * Cardinality(cases[1])
  <2>1. /\ request.parallel => reports[1].total = r * (N - 1) * 2
        /\ ~ request.parallel => reports[1].total = InterTpuRows * 2 * N
    BY AllToAllFacts
  <2>2. N - 1 \in Nat
    BY <1>1
  <2>3. CASE request.parallel
    <3>1. \A a, b, d \in Nat : a * b * 2 * d = a * (2 * (d * b))
      OBVIOUS
    <3>2. r * (N - 1) * 2 * N = r * (2 * (N * (N - 1)))
      BY <1>1, <2>2, <3>1
    <3> QED
      BY <1>4, <1>8, <2>1, <2>3, <3>2
  <2>4. CASE ~ request.parallel
    <3>1. InterTpuRows \in Nat /\ k = 2
      <4>1. \A a, b \in Nat : a * b * 2 \in Nat
        OBVIOUS
      <4> QED
        BY <1>4, <1>5, <2>2, <2>4, <4>1
    <3>2. \A a, b, g \in Nat : a * 2 * b * g = (a * g) * (2 * b)
      OBVIOUS
    <3>3. InterTpuRows * 2 * N * GroupSize = (InterTpuRows * GroupSize) * (2 * N)
      BY <1>1, <1>4, <3>1, <3>2
    <3>4. \A a, b, d \in Nat : (a * (b * 2)) * (2 * d) = a * (4 * (d * b))
      OBVIOUS
    <3>5. (r * ((N - 1) * 2)) * (2 * N) = r * (4 * (N * (N - 1)))
      BY <1>1, <2>2, <3>4
    <3>6. InterTpuRows * GroupSize = r * ((N - 1) * 2)
      BY <1>6, <3>1
    <3>7. reports[1].total * GroupSize = (r * ((N - 1) * 2)) * (2 * N)
      BY Zenon, <2>1, <2>4, <3>3, <3>6
    <3> QED
      BY Zenon, <1>8, <2>4, <3>5, <3>7
  <2> QED
    BY <2>3, <2>4
<1> QED
  BY <1>3, <1>6, <1>7, <1>9

\* What an all-to-all is said to move is what its matrix exchanges, for each
\* chiplet and in total (compute_case_traffic_bytes).
THEOREM ExchangeBytes == Spec => []ExchangeMatchesMatrix
BY PlanInvariance, PlanExchangeMatchesMatrix, PTL

LEMMA PlanBisectionIsTheCut == PlanInv => BisectionIsTheCut
<1> DEFINE r == request.rows
           h == N \div 2
           Cut(H) == {e \in cases[1] : Chip(e[1]) \in H /\ Chip(e[2]) \notin H}
<1> SUFFICES ASSUME PlanInv, request.benchmark = "a2a", reports # <<>>,
                    NEW H \in kSubset(h, Tpus), N % 2 = 0
             PROVE  r * Cardinality(Cut(H)) * reports[1].numerator[2]
                      = GroupSize * reports[1].numerator[1]
  BY DEF BisectionIsTheCut
<1>1. /\ N \in Nat /\ r \in Nat /\ request.parallel \in BOOLEAN
      /\ Tpus = 0 .. N - 1 /\ Chiplets = 0 .. 2 * N - 1
      /\ \A p \in Chiplets : Chip(p) = p \div 2 /\ Core(p) = p % 2
  BY AllToAllFacts
<1>2. cases[1] = {e \in Chiplets \X Chiplets :
                    /\ Chip(e[1]) # Chip(e[2])
                    /\ request.parallel => Core(e[1]) = Core(e[2])}
  BY AllToAllFacts
<1>3. h \in Nat /\ N = 2 * h
  BY <1>1
<1>4. H \in SUBSET (0 .. N - 1) /\ Cardinality(H) = h
  BY <1>1 DEF kSubset
<1> HIDE DEF h
<1> DEFINE T == 0 .. N - 1
           R == H \X (T \ H)
<1>5. Cardinality(R) = h * h /\ R \in SUBSET (T \X T)
  <2>1. IsFiniteSet(T) /\ Cardinality(T) = N
    BY <1>1, IntervalSizes
  <2>2. IsFiniteSet(H) /\ T \cap H = H
    BY <1>4, <2>1, FS_Subset
  <2>3. IsFiniteSet(T \ H) /\ Cardinality(T \ H) = N - h
    <3> HIDE DEF T
    <3>1. IsFiniteSet(T \ H) /\ Cardinality(T \ H) = Cardinality(T) - Cardinality(T \cap H)
      BY <2>1, FS_Difference
    <3> QED
      BY <1>4, <2>1, <2>2, <3>1
  <2>4. Cardinality(T \ H) = h
    BY <1>3, <2>3
  <2>5. Cardinality(R) = Cardinality(H) * Cardinality(T \ H)
    BY <2>2, <2>3, FS_Product
  <2>6. R \in SUBSET (T \X T)
    BY <1>4
  <2> QED
    BY <1>4, <2>4, <2>5, <2>6
<1>6. PairsOf(N, R) = {e \in Chiplets \X Chiplets : Chip(e[1]) \in H /\ Chip(e[2]) \notin H}
  <2>1. \A p \in Chiplets : p \div 2 \in T
    BY <1>1, Halves
  <2>2. \A p, q \in Chiplets : <<p \div 2, q \div 2>> \in R <=> Chip(p) \in H /\ Chip(q) \notin H
    BY <1>1, <2>1
  <2> HIDE DEF R
  <2> QED
    BY <1>1, <2>2 DEF PairsOf
<1> HIDE DEF R, T
<1>7. /\ Cardinality(PairsOf(N, R)) = 4 * (h * h)
      /\ Cardinality(SameCore(PairsOf(N, R))) = 2 * (h * h)
  BY <1>1, <1>5, CountPairs DEF T
<1>8. /\ ~ request.parallel => Cut(H) = PairsOf(N, R)
      /\ request.parallel => Cut(H) = SameCore(PairsOf(N, R))
  BY <1>2, <1>6 DEF SameCore
<1>9. reports[1].numerator[1] = r * GroupSize * Groups /\ reports[1].numerator[2] = 4
  <2>1. reports[1].numerator = <<r * GroupSize * Groups, 4>>
    BY AllToAllFacts
  <2> QED
    BY <2>1
<1>10. CASE request.parallel
  <2>1. GroupSize = 2 * h /\ Groups = 2
    BY <1>3, <1>10 DEF GroupSize, Groups, ChipletsPerTpu
  <2>2. \A a, b \in Nat : a * (2 * (b * b)) * 4 = (2 * b) * (a * (2 * b) * 2)
    OBVIOUS
  <2>3. r * (2 * (h * h)) * 4 = (2 * h) * (r * (2 * h) * 2)
    BY <1>1, <1>3, <2>2
  <2> QED
    BY Zenon, <1>7, <1>8, <1>9, <1>10, <2>1, <2>3
<1>11. CASE ~ request.parallel
  <2>1. GroupSize = 2 * (2 * h) /\ Groups = 1
    BY <1>3, <1>11 DEF GroupSize, Groups, ChipletsPerTpu
  <2>2. \A a, b \in Nat : a * (4 * (b * b)) * 4 = (2 * (2 * b)) * (a * (2 * (2 * b)) * 1)
    OBVIOUS
  <2>3. r * (4 * (h * h)) * 4 = (2 * (2 * h)) * (r * (2 * (2 * h)) * 1)
    BY <1>1, <1>3, <2>2
  <2> QED
    BY Zenon, <1>7, <1>8, <1>9, <1>11, <2>1, <2>3
<1> QED
  BY <1>10, <1>11

\* The bandwidth of an all-to-all is that of its bisection, whichever half of
\* the chips is taken ("one_way_bisection").
THEOREM BisectionBytes == Spec => []BisectionIsTheCut
BY PlanInvariance, PlanBisectionIsTheCut, PTL

-----------------------------------------------------------------------------
(* Lists of devices that are cuboids of chips.                             *)

\* Integers that are dense from 0 on.
LEMMA DenseAxis ==
  ASSUME NEW V \in SUBSET Int, IsFiniteSet(V), V # {}
  PROVE  V = 0 .. Cardinality(V) - 1 <=>
           /\ 0 \in V /\ V \subseteq Nat
           /\ \A x, y \in V : x .. y \subseteq V
<1>1. Cardinality(V) \in Nat /\ Cardinality(V) # 0
  BY FS_CardinalityType, FS_EmptySet
<1>2. ASSUME V = 0 .. Cardinality(V) - 1
      PROVE  /\ 0 \in V /\ V \subseteq Nat
             /\ \A x, y \in V : x .. y \subseteq V
  <2> DEFINE n == Cardinality(V)
  <2>1. n \in Nat /\ n # 0 /\ V = 0 .. n - 1
    BY <1>1, <1>2
  <2> HIDE DEF n
  <2> QED
    BY <2>1
<1>3. ASSUME 0 \in V, V \subseteq Nat, \A x, y \in V : x .. y \subseteq V
      PROVE  V = 0 .. Cardinality(V) - 1
  <2>1. PICK m \in V : \A v \in V : v <= m
    BY Extremes
  <2>2. m \in Nat /\ V = 0 .. m
    <3>1. m \in Nat
      BY <1>3
    <3>2. V \subseteq 0 .. m
      BY <1>3, <2>1, <3>1
    <3>3. 0 .. m \subseteq V
      BY <1>3
    <3> QED
      BY <3>1, <3>2, <3>3
  <2>3. Cardinality(0 .. m) = m + 1
    <3>1. 0 \in Int /\ m \in Int /\ ~ (0 > m)
      BY <2>2
    <3>2. Cardinality(0 .. m) = IF 0 > m THEN 0 ELSE m - 0 + 1
      BY <3>1, FS_Interval
    <3> QED
      BY <3>1, <3>2
  <2>4. Cardinality(V) - 1 = m
    BY <2>2, <2>3
  <2> QED
    BY <2>2, <2>4
<1> QED
  BY <1>2, <1>3

Along(O, a) == {O[k][a] : k \in DOMAIN O}

Fills(c, O, X, Y, Z) ==
  \A x \in X, y \in Y, z \in Z : \E k \in 1 .. c : O[k][1] = x /\ O[k][2] = y /\ O[k][3] = z

\* As many points as their axes' extents multiply to: all of their cuboid.
LEMMA FullCuboid ==
  ASSUME NEW c \in Nat, NEW O \in [1 .. c -> [Axes -> Int]], \A j, k \in 1 .. c : O[j] = O[k] => j = k
  PROVE  /\ \A a \in Axes : IsFiniteSet(Along(O, a)) /\ Cardinality(Along(O, a)) \in Nat
         /\ c = Cardinality(Along(O, 1)) * Cardinality(Along(O, 2)) * Cardinality(Along(O, 3)) <=>
              Fills(c, O, Along(O, 1), Along(O, 2), Along(O, 3))
<1> DEFINE A == Along(O, 1)
           B == Along(O, 2)
           C == Along(O, 3)
           D == A \X (B \X C)
           F == [k \in 1 .. c |-> <<O[k][1], <<O[k][2], O[k][3]>>>>]
<1>1. IsFiniteSet(1 .. c) /\ Cardinality(1 .. c) = c
  <2>1. 1 \in Int /\ c \in Int
    OBVIOUS
  <2>2. IsFiniteSet(1 .. c) /\ Cardinality(1 .. c) = IF 1 > c THEN 0 ELSE c - 1 + 1
    BY <2>1, FS_Interval
  <2>3. (IF 1 > c THEN 0 ELSE c - 1 + 1) = c
    OBVIOUS
  <2> QED
    BY <2>2, <2>3
<1>2. ASSUME NEW a \in Axes
      PROVE  IsFiniteSet(Along(O, a)) /\ Cardinality(Along(O, a)) \in Nat
  <2> DEFINE g == [k \in 1 .. c |-> O[k][a]]
  <2>1. g \in Surjection(1 .. c, Along(O, a))
    BY DEF Surjection, Along
  <2> QED
    BY <1>1, <2>1, FS_Surjection, FS_CardinalityType
<1>3. /\ IsFiniteSet(A) /\ IsFiniteSet(B) /\ IsFiniteSet(C)
      /\ Cardinality(A) \in Nat /\ Cardinality(B) \in Nat /\ Cardinality(C) \in Nat
  BY <1>2 DEF Axes
<1>4. DOMAIN O = 1 .. c
  OBVIOUS
<1>5. \A k \in 1 .. c : O[k][1] \in A /\ O[k][2] \in B /\ O[k][3] \in C
  BY <1>4 DEF Along
<1> HIDE DEF A, B, C
<1>6. IsFiniteSet(D) /\ Cardinality(D) = Cardinality(A) * Cardinality(B) * Cardinality(C)
  <2>1. IsFiniteSet(B \X C) /\ Cardinality(B \X C) = Cardinality(B) * Cardinality(C)
    BY <1>3, FS_Product
  <2>2. IsFiniteSet(D) /\ Cardinality(D) = Cardinality(A) * Cardinality(B \X C)
    BY <1>3, <2>1, FS_Product
  <2>3. \A p, q, r \in Nat : p * (q * r) = p * q * r
    OBVIOUS
  <2> QED
    BY <1>3, <2>1, <2>2, <2>3
<1>7. F \in [1 .. c -> D]
  BY <1>5
<1>8. ASSUME NEW j \in 1 .. c, NEW k \in 1 .. c, F[j] = F[k]
      PROVE  j = k
  <2>1. O[j][1] = O[k][1] /\ O[j][2] = O[k][2] /\ O[j][3] = O[k][3]
    BY <1>8
  <2>2. O[j] \in [Axes -> Int] /\ O[k] \in [Axes -> Int]
    OBVIOUS
  <2>3. \A a \in Axes : O[j][a] = O[k][a]
    BY <2>1 DEF Axes
  <2>4. O[j] = O[k]
    BY <2>2, <2>3
  <2> QED
    BY <2>4
<1>9. (\A d \in D : \E k \in 1 .. c : F[k] = d) <=>
        \A x \in A, y \in B, z \in C : \E k \in 1 .. c : O[k][1] = x /\ O[k][2] = y /\ O[k][3] = z
  <2>1. ASSUME \A d \in D : \E k \in 1 .. c : F[k] = d,
               NEW x \in A, NEW y \in B, NEW z \in C
        PROVE  \E k \in 1 .. c : O[k][1] = x /\ O[k][2] = y /\ O[k][3] = z
    <3>1. <<x, <<y, z>>>> \in D
      OBVIOUS
    <3>2. PICK k \in 1 .. c : F[k] = <<x, <<y, z>>>>
      BY <2>1, <3>1
    <3> QED
      BY <3>2
  <2>2. ASSUME \A x \in A, y \in B, z \in C :
                 \E k \in 1 .. c : O[k][1] = x /\ O[k][2] = y /\ O[k][3] = z,
               NEW d \in D
        PROVE  \E k \in 1 .. c : F[k] = d
    <3>1. /\ d[1] \in A /\ d[2][1] \in B /\ d[2][2] \in C
          /\ d = <<d[1], <<d[2][1], d[2][2]>>>>
      OBVIOUS
    <3>2. PICK k \in 1 .. c : O[k][1] = d[1] /\ O[k][2] = d[2][1] /\ O[k][3] = d[2][2]
      BY <2>2, <3>1
    <3> QED
      BY <3>1, <3>2
  <2> QED
    BY <2>1, <2>2
<1> HIDE DEF F, D
<1>10. F \in Injection(1 .. c, D)
  BY <1>7, <1>8, Fun_IsInj
<1>11. c = Cardinality(D) <=> F \in Surjection(1 .. c, D)
  BY <1>1, <1>6, <1>10, FS_Injection
<1>12. F \in Surjection(1 .. c, D) <=> \A d \in D : \E k \in 1 .. c : F[k] = d
  BY <1>7 DEF Surjection
<1> QED
  BY <1>2, <1>6, <1>9, <1>11, <1>12 DEF A, B, C, Fills

\* What local runs subtract from the coordinates.
IsOrigin(o) ==
  /\ o \in [Axes -> Int]
  /\ \A i \in DOMAIN listing : /\ Coords[i] \in [Axes -> Int]
                               /\ \A a \in Axes : Coords[i][a] = listing[i][a] - o[a]
  /\ request.local => \A a \in Axes : /\ \E i \in DOMAIN listing : listing[i][a] = o[a]
                                      /\ \A i \in DOMAIN listing : o[a] <= listing[i][a]
  /\ ~ request.local => \A a \in Axes : o[a] = 0

\* The smallest coordinates of a local run exist, since the list is finite.
LEMMA OriginExists ==
  ASSUME listing \in Seq([Axes -> Int]), Len(listing) > 0, request.local \in BOOLEAN
  PROVE  \E o : IsOrigin(o)
<1> DEFINE V(a) == {listing[i][a] : i \in DOMAIN listing}
           m == [a \in Axes |-> Min(V(a))]
           o == [a \in Axes |-> IF request.local THEN m[a] ELSE 0]
<1>1. Len(listing) \in Nat /\ DOMAIN listing = 1 .. Len(listing) /\ 1 \in DOMAIN listing
      /\ \A i \in DOMAIN listing : listing[i] \in [Axes -> Int]
  OBVIOUS
<1>2. ASSUME NEW a \in Axes
      PROVE  m[a] \in V(a) /\ m[a] \in Int /\ \A v \in V(a) : m[a] <= v
  <2> DEFINE f == [i \in DOMAIN listing |-> listing[i][a]]
  <2>1. f \in Surjection(DOMAIN listing, V(a))
    BY DEF Surjection
  <2>2. IsFiniteSet(DOMAIN listing)
    BY <1>1, FS_Interval
  <2>3. IsFiniteSet(V(a))
    BY <2>1, <2>2, FS_Surjection
  <2>4. V(a) \in SUBSET Int /\ V(a) # {}
    BY <1>1
  <2> HIDE DEF V
  <2> QED
    BY <2>3, <2>4, Extremes
<1>3. o \in [Axes -> Int]
  BY <1>2
<1>4. Coords = [i \in DOMAIN listing |-> [a \in Axes |-> listing[i][a] - (IF request.local THEN m[a] ELSE 0)]]
  BY DEF Coords
<1> HIDE DEF m
<1>5. ASSUME NEW i \in DOMAIN listing
      PROVE  /\ Coords[i] \in [Axes -> Int]
             /\ \A a \in Axes : Coords[i][a] = listing[i][a] - o[a]
  <2>1. Coords[i] = [a \in Axes |-> listing[i][a] - o[a]]
    BY <1>4
  <2>2. \A a \in Axes : listing[i][a] \in Int /\ o[a] \in Int
    BY <1>1, <1>3
  <2> HIDE DEF o
  <2> QED
    BY <2>1, <2>2
<1>6. IsOrigin(o)
  BY <1>2, <1>3, <1>5 DEF IsOrigin
<1> QED
  BY <1>6

\* Each chip of the listing is two consecutive devices.
Paired ==
  /\ ToSet(listing) # {}
  /\ \A c \in ToSet(listing) : \E k \in 1 .. Len(listing) \div 2 :
       {i \in DOMAIN listing : listing[i] = c} = {2 * k - 1, 2 * k}

Coupled ==
  /\ Len(listing) > 0 /\ Len(listing) % ChipletsPerTpu = 0
  /\ \A k \in DOMAIN ChipOrder : Coords[2 * k] = Coords[2 * k - 1]
  /\ IsInjective(ChipOrder)

\* The order of the chips in terms of the order of the devices.
LEMMA OrderFacts ==
  ASSUME listing \in Seq([Axes -> Int]), NEW o, IsOrigin(o)
  PROVE  /\ Len(listing) \in Nat /\ DOMAIN listing = 1 .. Len(listing)
         /\ \A i, j \in DOMAIN listing : Coords[i] = Coords[j] <=> listing[i] = listing[j]
         /\ Len(listing) \div 2 \in Nat /\ 2 * (Len(listing) \div 2) <= Len(listing)
         /\ DOMAIN ChipOrder = 1 .. Len(listing) \div 2
         /\ \A k \in DOMAIN ChipOrder : ChipOrder[k] = Coords[2 * k - 1]
<1>1. Len(listing) \in Nat /\ DOMAIN listing = 1 .. Len(listing)
  OBVIOUS
<1>2. ASSUME NEW i \in DOMAIN listing, NEW j \in DOMAIN listing
      PROVE  Coords[i] = Coords[j] <=> listing[i] = listing[j]
  <2>1. /\ Coords[i] \in [Axes -> Int] /\ Coords[j] \in [Axes -> Int]
        /\ listing[i] \in [Axes -> Int] /\ listing[j] \in [Axes -> Int] /\ o \in [Axes -> Int]
        /\ \A a \in Axes : /\ Coords[i][a] = listing[i][a] - o[a]
                           /\ Coords[j][a] = listing[j][a] - o[a]
    BY DEF IsOrigin
  <2>2. \A a \in Axes : Coords[i][a] = Coords[j][a] <=> listing[i][a] = listing[j][a]
    <3>1. \A a \in Axes : listing[i][a] \in Int /\ listing[j][a] \in Int /\ o[a] \in Int
      BY <2>1
    <3> QED
      BY <2>1, <3>1
  <2>3. Coords[i] = Coords[j] <=> \A a \in Axes : Coords[i][a] = Coords[j][a]
    BY <2>1
  <2>4. listing[i] = listing[j] <=> \A a \in Axes : listing[i][a] = listing[j][a]
    BY <2>1
  <2> QED
    BY <2>2, <2>3, <2>4
<1>3. \A l \in Nat : l \div 2 \in Nat /\ 2 * (l \div 2) <= l
  OBVIOUS
<1> QED
  BY <1>1, <1>2, <1>3 DEF ChipOrder, ChipletsPerTpu

\* Pairs of devices as the code checks them and as the property states them.
LEMMA PairedIffCoupled ==
  ASSUME listing \in Seq([Axes -> Int]), NEW o, IsOrigin(o)
  PROVE  Paired <=> Coupled
<1> DEFINE n == Len(listing)
           h == n \div 2
<1>1. /\ n \in Nat /\ DOMAIN listing = 1 .. n /\ h \in Nat /\ 2 * h <= n
      /\ \A i, j \in 1 .. n : Coords[i] = Coords[j] <=> listing[i] = listing[j]
      /\ DOMAIN ChipOrder = 1 .. h /\ \A k \in 1 .. h : ChipOrder[k] = Coords[2 * k - 1]
  BY OrderFacts
<1>2. \A k \in 1 .. h : 2 * k - 1 \in 1 .. n /\ 2 * k \in 1 .. n
  <2> HIDE DEF h
  <2> QED
    BY <1>1
<1>3. n % 2 = 0 <=> n = 2 * h
  <2>1. \A l \in Nat : l % 2 = 0 <=> l = 2 * (l \div 2)
    OBVIOUS
  <2> QED
    BY <1>1, <2>1
<1> HIDE DEF h, n
<1>4. ASSUME Paired
      PROVE  Coupled
  <2>1. ASSUME NEW i \in 1 .. n
        PROVE  \E k \in 1 .. h : {j \in 1 .. n : listing[j] = listing[i]} = {2 * k - 1, 2 * k}
    BY <1>1, <1>4 DEF Paired, ToSet, n, h
  <2>2. n > 0 /\ n % ChipletsPerTpu = 0
    <3>1. n > 0
      BY <1>1, <1>4 DEF Paired, ToSet
    <3>2. n \in 1 .. n
      BY <1>1, <3>1
    <3>3. PICK k \in 1 .. h : {j \in 1 .. n : listing[j] = listing[n]} = {2 * k - 1, 2 * k}
      BY <2>1, <3>2
    <3>4. n \in {j \in 1 .. n : listing[j] = listing[n]}
      BY <3>2
    <3>5. n = 2 * k - 1 \/ n = 2 * k
      BY <3>3, <3>4
    <3>6. n = 2 * h
      BY <1>1, <3>5
    <3> QED
      BY <1>3, <3>1, <3>6 DEF ChipletsPerTpu
  <2>3. ASSUME NEW k \in 1 .. h
        PROVE  {j \in 1 .. n : listing[j] = listing[2 * k - 1]} = {2 * k - 1, 2 * k}
    <3>1. 2 * k - 1 \in 1 .. n
      BY <1>2
    <3>2. PICK m \in 1 .. h : {j \in 1 .. n : listing[j] = listing[2 * k - 1]} = {2 * m - 1, 2 * m}
      BY <2>1, <3>1
    <3>3. 2 * k - 1 = 2 * m - 1 \/ 2 * k - 1 = 2 * m
      BY <3>1, <3>2
    <3>4. k = m
      BY <1>1, <3>3
    <3> QED
      BY <3>2, <3>4
  <2>4. \A k \in 1 .. h : Coords[2 * k] = Coords[2 * k - 1]
    BY <1>1, <1>2, <2>3
  <2>5. ASSUME NEW j \in 1 .. h, NEW k \in 1 .. h, ChipOrder[j] = ChipOrder[k]
        PROVE  j = k
    <3>1. listing[2 * j - 1] = listing[2 * k - 1]
      BY <1>1, <1>2, <2>5
    <3>2. 2 * j - 1 = 2 * k - 1 \/ 2 * j - 1 = 2 * k
      BY <1>2, <2>3, <3>1
    <3> QED
      BY <1>1, <3>2
  <2> QED
    BY <1>1, <2>2, <2>4, <2>5 DEF Coupled, IsInjective, n
<1>5. ASSUME Coupled
      PROVE  Paired
  <2>1. n > 0 /\ n = 2 * h
    BY <1>3, <1>5 DEF Coupled, n, ChipletsPerTpu
  <2>2. \A k \in 1 .. h : Coords[2 * k] = Coords[2 * k - 1] /\ listing[2 * k] = listing[2 * k - 1]
    BY <1>1, <1>2, <1>5 DEF Coupled
  <2>3. \A i \in 1 .. n : \E k \in 1 .. h : i = 2 * k - 1 \/ i = 2 * k
    <3> SUFFICES ASSUME NEW i \in 1 .. n
                 PROVE  \E k \in 1 .. h : i = 2 * k - 1 \/ i = 2 * k
      OBVIOUS
    <3>1. /\ (i + 1) \div 2 \in 1 .. h
          /\ i = 2 * ((i + 1) \div 2) - 1 \/ i = 2 * ((i + 1) \div 2)
      BY <1>1, <2>1
    <3> QED
      BY <3>1
  <2>4. ASSUME NEW i \in 1 .. n
        PROVE  \E k \in 1 .. h : {j \in 1 .. n : listing[j] = listing[i]} = {2 * k - 1, 2 * k}
    <3>1. PICK k \in 1 .. h : i = 2 * k - 1 \/ i = 2 * k
      BY <2>3
    <3>2. listing[i] = listing[2 * k - 1]
      BY <2>2, <3>1
    <3>3. ASSUME NEW j \in 1 .. n, listing[j] = listing[i]
          PROVE  j = 2 * k - 1 \/ j = 2 * k
      <4>1. PICK m \in 1 .. h : j = 2 * m - 1 \/ j = 2 * m
        BY <2>3
      <4>2. listing[2 * m - 1] = listing[2 * k - 1]
        BY <2>2, <3>2, <3>3, <4>1
      <4>3. ChipOrder[m] = ChipOrder[k]
        <5>1. 2 * m - 1 \in 1 .. n /\ 2 * k - 1 \in 1 .. n
          BY <1>2
        <5>2. Coords[2 * m - 1] = Coords[2 * k - 1]
          BY <1>1, <4>2, <5>1
        <5> QED
          BY <1>1, <5>2
      <4>4. m = k
        BY <1>1, <1>5, <4>3 DEF Coupled, IsInjective
      <4> QED
        BY <4>1, <4>4
    <3>4. {j \in 1 .. n : listing[j] = listing[i]} = {2 * k - 1, 2 * k}
      BY <1>2, <2>2, <3>2, <3>3
    <3> QED
      BY <3>4
  <2>5. 1 \in DOMAIN listing
    BY <1>1, <2>1
  <2>6. ToSet(listing) # {}
    BY <2>5 DEF ToSet
  <2>7. ASSUME NEW c \in ToSet(listing)
        PROVE  \E k \in 1 .. h : {i \in DOMAIN listing : listing[i] = c} = {2 * k - 1, 2 * k}
    <3>1. PICK i \in 1 .. n : c = listing[i]
      BY <1>1 DEF ToSet
    <3> QED
      BY <1>1, <2>4, <3>1
  <2> QED
    BY <2>6, <2>7 DEF Paired, n, h
<1> QED
  BY <1>4, <1>5

\* A point is given by its three coordinates.
LEMMA Triple ==
  ASSUME NEW f \in [Axes -> Int], NEW x, NEW y, NEW z
  PROVE  f = <<x, y, z>> <=> f[1] = x /\ f[2] = y /\ f[3] = z
<1>1. ASSUME f[1] = x, f[2] = y, f[3] = z
      PROVE  f = <<x, y, z>>
  <2> DEFINE t == <<x, y, z>>
  <2>1. DOMAIN t = 1 .. 3 /\ t = [a \in 1 .. 3 |-> t[a]] /\ t[1] = x /\ t[2] = y /\ t[3] = z
    OBVIOUS
  <2> HIDE DEF t
  <2>2. DOMAIN f = 1 .. 3 /\ f = [a \in 1 .. 3 |-> f[a]]
    BY DEF Axes
  <2>3. \A a \in 1 .. 3 : f[a] = t[a]
    BY <1>1, <2>1
  <2>4. f = t
    BY <2>1, <2>2, <2>3
  <2> QED
    BY <2>4 DEF t
<1> QED
  BY <1>1

\* Every place of an even list is the first or the second of its pair.
LEMMA OddOrEven ==
  ASSUME NEW h \in Nat, NEW i \in 1 .. 2 * h
  PROVE  \E k \in 1 .. h : i = 2 * k - 1 \/ i = 2 * k
<1>1. (i + 1) \div 2 \in 1 .. h /\ (i = 2 * ((i + 1) \div 2) - 1 \/ i = 2 * ((i + 1) \div 2))
  OBVIOUS
<1> QED
  BY <1>1

\* The checks of infer_tpu_topology amount to a cuboid of pairs.
LEMMA TopologyShape ==
  ASSUME listing \in Listings, request \in Requests
  PROVE  Inferable <=> PairedCuboid
<1> DEFINE S == ToSet(listing)
           h == Len(listing) \div 2
<1>1. listing \in Seq([Axes -> Int]) /\ request.local \in BOOLEAN
  BY ListingsAssumption, RequestsAssumption
<1>2. CASE ~ (Len(listing) > 0)
  <2>1. ~ Inferable
    BY <1>2 DEF Inferable
  <2>2. DOMAIN listing = {}
    BY <1>1, <1>2
  <2>3. S = {}
    BY <2>2 DEF ToSet
  <2> QED
    BY <2>1, <2>3 DEF PairedCuboid
<1>3. CASE Len(listing) > 0
  <2>1. PICK o : IsOrigin(o)
    BY <1>1, <1>3, OriginExists
  <2>2. Paired <=> Coupled
    BY <1>1, <2>1, PairedIffCoupled
  <2>3. ASSUME Paired, Coupled
        PROVE  Inferable <=> PairedCuboid
    <3>1. /\ DOMAIN listing = 1 .. Len(listing) /\ Len(listing) \in Nat /\ h \in Nat
          /\ DOMAIN ChipOrder = 1 .. h /\ \A k \in 1 .. h : ChipOrder[k] = Coords[2 * k - 1]
          /\ \A i, j \in DOMAIN listing : Coords[i] = Coords[j] <=> listing[i] = listing[j]
      BY <1>1, <2>1, OrderFacts
    <3>2. Len(listing) = 2 * h
      <4>1. \A l \in Nat : l % 2 = 0 => l = 2 * (l \div 2)
        OBVIOUS
      <4> QED
        BY <2>3, <3>1, <4>1 DEF Coupled, ChipletsPerTpu
    <3> HIDE DEF h
    <3>3. ASSUME NEW k \in 1 .. h
          PROVE  /\ 2 * k - 1 \in DOMAIN listing /\ listing[2 * k - 1] \in S
                 /\ listing[2 * k - 1] \in [Axes -> Int] /\ ChipOrder[k] \in [Axes -> Int]
                 /\ \A a \in Axes : ChipOrder[k][a] = listing[2 * k - 1][a] - o[a]
      <4>1. 2 * k - 1 \in DOMAIN listing
        BY <3>1, <3>2
      <4>2. listing[2 * k - 1] \in S /\ listing[2 * k - 1] \in [Axes -> Int]
        BY <1>1, <4>1 DEF ToSet
      <4>3. ChipOrder[k] = Coords[2 * k - 1]
        BY <3>1
      <4>4. \A i \in DOMAIN listing :
              Coords[i] \in [Axes -> Int] /\ \A a \in Axes : Coords[i][a] = listing[i][a] - o[a]
        BY Zenon, <2>1 DEF IsOrigin
      <4>5. /\ Coords[2 * k - 1] \in [Axes -> Int]
            /\ \A a \in Axes : Coords[2 * k - 1][a] = listing[2 * k - 1][a] - o[a]
        BY Zenon, <4>1, <4>4
      <4>6. /\ ChipOrder[k] \in [Axes -> Int]
            /\ \A a \in Axes : ChipOrder[k][a] = listing[2 * k - 1][a] - o[a]
        BY Zenon, <4>3, <4>5
      <4> QED
        BY Zenon, <4>1, <4>2, <4>6
    <3>4. ASSUME NEW x \in S
          PROVE  x \in [Axes -> Int] /\ \E k \in 1 .. h : x = listing[2 * k - 1]
      <4>1. PICK i \in DOMAIN listing : x = listing[i]
        BY DEF ToSet
      <4>2. x \in [Axes -> Int]
        BY <1>1, <4>1
      <4>3. PICK k \in 1 .. h : i = 2 * k - 1 \/ i = 2 * k
        <5>1. i \in 1 .. 2 * h /\ h \in Nat
          BY <3>1, <3>2
        <5> QED
          BY <5>1, OddOrEven
      <4>4. Coords[2 * k] = Coords[2 * k - 1] /\ 2 * k \in DOMAIN listing
        <5>1. k \in DOMAIN ChipOrder
          BY <3>1
        <5>2. Coords[2 * k] = Coords[2 * k - 1]
          BY Zenon, <2>3, <5>1 DEF Coupled
        <5>3. 2 * k \in DOMAIN listing
          BY <3>1, <3>2
        <5> QED
          BY <5>2, <5>3
      <4>5. listing[2 * k] = listing[2 * k - 1]
        BY <3>1, <3>3, <4>4
      <4> QED
        BY <4>1, <4>2, <4>3, <4>5
    <3>5. /\ h \in Nat /\ h # 0 /\ ChipOrder \in [1 .. h -> [Axes -> Int]]
          /\ \A j, k \in 1 .. h : ChipOrder[j] = ChipOrder[k] => j = k
          /\ Len(ChipOrder) = h
          /\ \A a : AxisValues(a) = Along(ChipOrder, a)
      <4>1. h # 0
        BY <1>3, <3>1, <3>2
      <4>2. ChipOrder = [k \in 1 .. h |-> ChipOrder[k]]
        BY DEF ChipOrder, ChipletsPerTpu, h
      <4>3. ChipOrder \in [1 .. h -> [Axes -> Int]]
        BY <3>3, <4>2
      <4>4. \A j, k \in 1 .. h : ChipOrder[j] = ChipOrder[k] => j = k
        BY <2>3, <3>1 DEF Coupled, IsInjective
      <4>5. Len(ChipOrder) = h
        BY <3>1, <4>3, FunctionIsSeq
      <4> QED
        BY <3>1, <4>1, <4>3, <4>4, <4>5 DEF AxisValues, Along
    <3>6. o \in [Axes -> Int]
      BY <2>1 DEF IsOrigin
    <3>7. ASSUME NEW a \in Axes
          PROVE  /\ AxisValues(a) \in SUBSET Int /\ AxisValues(a) # {}
                 /\ IsFiniteSet(AxisValues(a))
                 /\ \A x \in S : x[a] - o[a] \in AxisValues(a)
                 /\ \A v \in AxisValues(a) : \E x \in S : x[a] \in Int /\ v = x[a] - o[a]
      <4>1. IsFiniteSet(AxisValues(a))
        BY <3>5, FullCuboid
      <4>2. \A k \in 1 .. h : ChipOrder[k][a] \in Int /\ ChipOrder[k][a] \in AxisValues(a)
        BY <3>1, <3>3 DEF AxisValues
      <4>3. ASSUME NEW x \in S
            PROVE  x[a] - o[a] \in AxisValues(a)
        <5>1. PICK k \in 1 .. h : x = listing[2 * k - 1]
          BY <3>4
        <5> QED
          BY <3>3, <4>2, <5>1
      <4>4. ASSUME NEW v \in AxisValues(a)
            PROVE  v \in Int /\ \E x \in S : x[a] \in Int /\ v = x[a] - o[a]
        <5>1. PICK k \in 1 .. h : v = ChipOrder[k][a]
          BY <3>1 DEF AxisValues
        <5>2. listing[2 * k - 1] \in S /\ listing[2 * k - 1][a] \in Int
              /\ v = listing[2 * k - 1][a] - o[a]
          BY <3>3, <5>1
        <5> QED
          BY <4>2, <5>1, <5>2
      <4>5. AxisValues(a) # {}
        <5>1. 1 \in 1 .. h
          BY <3>5
        <5> QED
          BY <4>2, <5>1
      <4> QED
        BY <4>1, <4>3, <4>4, <4>5
    <3> DEFINE Full == Fills(h, ChipOrder, AxisValues(1), AxisValues(2), AxisValues(3))
    <3>8. Full <=> \A x, y, z \in S : <<x[1], y[2], z[3]>> \in S
      <4>1. 1 \in Axes /\ 2 \in Axes /\ 3 \in Axes
        BY DEF Axes
      <4>2. ASSUME Full, NEW x \in S, NEW y \in S, NEW z \in S
            PROVE  <<x[1], y[2], z[3]>> \in S
        <5>1. PICK k \in 1 .. h : /\ ChipOrder[k][1] = x[1] - o[1]
                                  /\ ChipOrder[k][2] = y[2] - o[2]
                                  /\ ChipOrder[k][3] = z[3] - o[3]
          <6>1. /\ x[1] - o[1] \in AxisValues(1) /\ y[2] - o[2] \in AxisValues(2)
                /\ z[3] - o[3] \in AxisValues(3)
            BY <3>7, <4>1
          <6> QED
            BY <4>2, <6>1 DEF Fills
        <5> DEFINE f == listing[2 * k - 1]
        <5>2. /\ f \in S /\ f \in [Axes -> Int]
              /\ ChipOrder[k][1] = f[1] - o[1] /\ ChipOrder[k][2] = f[2] - o[2]
              /\ ChipOrder[k][3] = f[3] - o[3]
          BY <3>3, <4>1
        <5> HIDE DEF f
        <5>3. x[1] \in Int /\ y[2] \in Int /\ z[3] \in Int /\ o[1] \in Int /\ o[2] \in Int
              /\ o[3] \in Int /\ f[1] \in Int /\ f[2] \in Int /\ f[3] \in Int
          BY <3>4, <3>6, <4>1, <5>2
        <5>4. f[1] = x[1] /\ f[2] = y[2] /\ f[3] = z[3]
          BY <5>1, <5>2, <5>3
        <5>5. f = <<x[1], y[2], z[3]>>
          BY <5>2, <5>4, Triple
        <5> QED
          BY <5>2, <5>5
      <4>3. ASSUME \A x, y, z \in S : <<x[1], y[2], z[3]>> \in S,
                   NEW u \in AxisValues(1), NEW v \in AxisValues(2), NEW w \in AxisValues(3)
            PROVE  \E k \in 1 .. h : ChipOrder[k][1] = u /\ ChipOrder[k][2] = v /\ ChipOrder[k][3] = w
        <5>1. PICK x \in S : u = x[1] - o[1]
          BY <3>7, <4>1
        <5>2. PICK y \in S : v = y[2] - o[2]
          BY <3>7, <4>1
        <5>3. PICK z \in S : w = z[3] - o[3]
          BY <3>7, <4>1
        <5>4. PICK k \in 1 .. h : listing[2 * k - 1] = <<x[1], y[2], z[3]>>
          BY <3>4, <4>3
        <5>5. /\ listing[2 * k - 1][1] = x[1] /\ listing[2 * k - 1][2] = y[2]
              /\ listing[2 * k - 1][3] = z[3]
          BY <5>4
        <5> QED
          BY <3>3, <4>1, <5>1, <5>2, <5>3, <5>5
      <4> QED
        BY <4>2, <4>3 DEF Fills
    <3>9. ASSUME NEW a \in Axes
          PROVE  (\A x, y \in S : \A v \in x[a] .. y[a] : \E c \in S : c[a] = v)
                   <=> \A u, w \in AxisValues(a) : u .. w \subseteq AxisValues(a)
      <4>1. o[a] \in Int /\ \A x \in S : x[a] \in Int
        BY <3>4, <3>6
      <4>2. ASSUME \A x, y \in S : \A v \in x[a] .. y[a] : \E c \in S : c[a] = v,
                   NEW u \in AxisValues(a), NEW w \in AxisValues(a), NEW v \in u .. w
            PROVE  v \in AxisValues(a)
        <5>1. PICK x \in S : u = x[a] - o[a]
          BY <3>7
        <5>2. PICK y \in S : w = y[a] - o[a]
          BY <3>7
        <5>3. v + o[a] \in x[a] .. y[a]
          BY <4>1, <5>1, <5>2
        <5>4. PICK c \in S : c[a] = v + o[a]
          BY <4>2, <5>3
        <5>5. c[a] - o[a] = v
          BY <3>7, <4>1, <5>4
        <5> QED
          BY <3>7, <5>5
      <4>3. ASSUME \A u, w \in AxisValues(a) : u .. w \subseteq AxisValues(a),
                   NEW x \in S, NEW y \in S, NEW v \in x[a] .. y[a]
            PROVE  \E c \in S : c[a] = v
        <5>1. x[a] - o[a] \in AxisValues(a) /\ y[a] - o[a] \in AxisValues(a)
          BY <3>7
        <5>2. v - o[a] \in (x[a] - o[a]) .. (y[a] - o[a])
          BY <4>1
        <5>3. v - o[a] \in AxisValues(a)
          BY <4>3, <5>1, <5>2
        <5>4. PICK c \in S : v - o[a] = c[a] - o[a]
          BY <3>7, <5>3
        <5> QED
          BY <4>1, <5>4
      <4> QED
        BY <4>2, <4>3
    <3>10. ASSUME Full
           PROVE  request.local \/ (<<0, 0, 0>> \in S /\ S \subseteq [Axes -> Nat])
                    <=> \A a \in Axes : 0 \in AxisValues(a) /\ AxisValues(a) \subseteq Nat
      <4>1. CASE request.local
        <5>1. ASSUME NEW a \in Axes
              PROVE  0 \in AxisValues(a) /\ AxisValues(a) \subseteq Nat
          <6>1. PICK i \in DOMAIN listing : listing[i][a] = o[a]
            BY <2>1, <4>1 DEF IsOrigin
          <6>2. listing[i] \in S
            BY DEF ToSet
          <6>3. 0 \in AxisValues(a)
            <7>1. listing[i][a] - o[a] \in AxisValues(a) /\ o[a] \in Int
              BY <3>6, <3>7, <6>2
            <7> QED
              BY <6>1, <7>1
          <6>4. ASSUME NEW v \in AxisValues(a)
                PROVE  v \in Nat
            <7>1. PICK x \in S : x[a] \in Int /\ v = x[a] - o[a]
              BY <3>7
            <7>2. o[a] <= x[a] /\ o[a] \in Int
              BY <2>1, <3>6, <4>1 DEF IsOrigin, ToSet
            <7> QED
              BY <7>1, <7>2
          <6> QED
            BY <6>3, <6>4
        <5> QED
          BY <4>1, <5>1
      <4>2. CASE ~ request.local
        <5>1. \A a \in Axes : o[a] = 0
          BY <2>1, <4>2 DEF IsOrigin
        <5>2. ASSUME <<0, 0, 0>> \in S, S \subseteq [Axes -> Nat], NEW a \in Axes
              PROVE  0 \in AxisValues(a) /\ AxisValues(a) \subseteq Nat
          <6>1. <<0, 0, 0>>[a] - o[a] \in AxisValues(a) /\ <<0, 0, 0>>[a] = 0
            BY <3>7, <5>2 DEF Axes
          <6>2. ASSUME NEW v \in AxisValues(a)
                PROVE  v \in Nat
            <7>1. PICK x \in S : x[a] \in Int /\ v = x[a] - o[a]
              BY <3>7
            <7>2. x[a] \in Nat
              BY <5>2
            <7> QED
              BY <5>1, <7>1, <7>2
          <6> QED
            BY <5>1, <6>1, <6>2
        <5>3. ASSUME \A a \in Axes : 0 \in AxisValues(a) /\ AxisValues(a) \subseteq Nat
              PROVE  <<0, 0, 0>> \in S /\ S \subseteq [Axes -> Nat]
          <6>1. 0 \in AxisValues(1) /\ 0 \in AxisValues(2) /\ 0 \in AxisValues(3)
            BY <5>3 DEF Axes
          <6>2. PICK k \in 1 .. h : /\ ChipOrder[k][1] = 0 /\ ChipOrder[k][2] = 0
                                    /\ ChipOrder[k][3] = 0
            BY <3>10, <6>1 DEF Fills
          <6> DEFINE f == listing[2 * k - 1]
          <6>3. f \in S /\ f \in [Axes -> Int] /\ \A a \in Axes : ChipOrder[k][a] = f[a] - o[a]
            BY <3>3
          <6> HIDE DEF f
          <6>4. \A a \in Axes : f[a] \in Int
            BY <6>3
          <6>5. f[1] = 0 /\ f[2] = 0 /\ f[3] = 0
            BY <5>1, <6>2, <6>3, <6>4 DEF Axes
          <6>6. <<0, 0, 0>> \in S
            BY <6>3, <6>5, Triple
          <6>7. ASSUME NEW x \in S
                PROVE  x \in [Axes -> Nat]
            <7>1. x \in [Axes -> Int]
              BY <3>4
            <7>2. \A a \in Axes : x[a] \in Nat
              <8>1. \A a \in Axes : x[a] \in Int
                BY <7>1
              <8>2. \A a \in Axes : x[a] - o[a] \in Nat
                BY <3>7, <5>3
              <8> QED
                BY <5>1, <8>1, <8>2
            <7> QED
              BY <7>1, <7>2
          <6> QED
            BY <6>6, <6>7
        <5> QED
          BY <4>2, <5>2, <5>3
      <4> QED
        BY <4>1, <4>2
    <3>11. Len(ChipOrder) = Cardinality(AxisValues(1)) * Cardinality(AxisValues(2))
                              * Cardinality(AxisValues(3)) <=> Full
      <4>1. /\ h \in Nat /\ ChipOrder \in [1 .. h -> [Axes -> Int]]
            /\ \A j, k \in 1 .. h : ChipOrder[j] = ChipOrder[k] => j = k
            /\ AxisValues(1) = Along(ChipOrder, 1) /\ AxisValues(2) = Along(ChipOrder, 2)
            /\ AxisValues(3) = Along(ChipOrder, 3)
        BY Zenon, <3>5
      <4>2. Len(ChipOrder) = h
        BY Zenon, <3>5
      <4> DEFINE X == AxisValues(1)
                 Y == AxisValues(2)
                 Z == AxisValues(3)
                 O == ChipOrder
      <4>3. h = Cardinality(X) * Cardinality(Y) * Cardinality(Z) <=> Fills(h, O, X, Y, Z)
        <5> HIDE DEF X, Y, Z, O
        <5>1. /\ h \in Nat /\ O \in [1 .. h -> [Axes -> Int]]
              /\ \A j, k \in 1 .. h : O[j] = O[k] => j = k
              /\ X = Along(O, 1) /\ Y = Along(O, 2) /\ Z = Along(O, 3)
          BY Zenon, <4>1 DEF X, Y, Z, O
        <5>2. h = Cardinality(Along(O, 1)) * Cardinality(Along(O, 2)) * Cardinality(Along(O, 3)) <=>
                Fills(h, O, Along(O, 1), Along(O, 2), Along(O, 3))
          BY Zenon, <5>1, FullCuboid
        <5> QED
          BY Zenon, <5>1, <5>2
      <4> QED
        BY Zenon, <4>2, <4>3
    <3> HIDE DEF Full, S
    <3>12. (\A a \in Axes : AxisValues(a) = 0 .. Cardinality(AxisValues(a)) - 1) <=>
              /\ \A a \in Axes : 0 \in AxisValues(a) /\ AxisValues(a) \subseteq Nat
              /\ \A a \in Axes : \A u, w \in AxisValues(a) : u .. w \subseteq AxisValues(a)
      <4>1. ASSUME NEW a \in Axes
            PROVE  AxisValues(a) = 0 .. Cardinality(AxisValues(a)) - 1 <=>
                     /\ 0 \in AxisValues(a) /\ AxisValues(a) \subseteq Nat
                     /\ \A u, w \in AxisValues(a) : u .. w \subseteq AxisValues(a)
        BY <3>7, DenseAxis
      <4> QED
        BY <4>1
    <3>13. Inferable <=>
              /\ \A a \in Axes : AxisValues(a) = 0 .. Cardinality(AxisValues(a)) - 1
              /\ Len(ChipOrder) = Cardinality(AxisValues(1)) * Cardinality(AxisValues(2))
                                    * Cardinality(AxisValues(3))
      BY Zenon, <2>3 DEF Inferable, Coupled
    <3>14. PairedCuboid <=>
              /\ \A x, y, z \in S : <<x[1], y[2], z[3]>> \in S
              /\ \A a \in Axes : \A x, y \in S : \A v \in x[a] .. y[a] : \E c \in S : c[a] = v
              /\ request.local \/ (<<0, 0, 0>> \in S /\ S \subseteq [Axes -> Nat])
      BY Zenon, <2>3 DEF PairedCuboid, Paired, S
    <3> QED
      BY Zenon, <3>8, <3>9, <3>10, <3>11, <3>12, <3>13, <3>14
  <2>4. Inferable => Coupled
    BY DEF Inferable, Coupled
  <2>5. PairedCuboid => Paired
    BY DEF PairedCuboid, Paired
  <2> QED
    BY <2>2, <2>3, <2>4, <2>5
<1> QED
  BY <1>2, <1>3

\* infer_tpu_topology accepts the lists of devices that are cuboids of chips
\* with consecutive chiplets, and no others.
THEOREM CuboidsOnly == Spec => TopologyIsExact
<1>1. PlanInv /\ [Next]_vars => (stage = "valid" => (stage' = "inferred" <=> PairedCuboid)) \/ UNCHANGED vars
  <2> SUFFICES ASSUME PlanInv, Next, stage = "valid"
               PROVE  stage' = "inferred" <=> PairedCuboid
    OBVIOUS
  <2>1. Infer
    BY DEF Next, Validate, SelectBlock, BuildMatrix, BuildCases, RunCase, Finish, Step
  <2>2. stage' = "inferred" <=> Inferable
    BY <2>1 DEF Infer, Step
  <2>3. Inferable <=> PairedCuboid
    BY TopologyShape DEF PlanInv, TypeOK
  <2> QED
    BY <2>2, <2>3
<1>2. PlanInv /\ [Next]_vars => [stage = "valid" => (stage' = "inferred" <=> PairedCuboid)]_vars
  BY <1>1
<1> QED
  BY <1>2, PlanInvariance, PTL DEF Spec, TopologyIsExact

=============================================================================
