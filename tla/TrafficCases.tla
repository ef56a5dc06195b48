---------------------------- MODULE TrafficCases ----------------------------
(***************************************************************************)
(* What one process of src/ici makes of a request before and while it runs *)
(* its cases: the chips behind the devices, the selected block, the matrix *)
(* of chiplet pairs, the cases, and for each case the windows of the       *)
(* ragged exchange and the bytes it is credited with.  Every process comes *)
(* to the same result, since the device list is the same for all.          *)
(*                                                                         *)
(* A 0/1 matrix is the set of its pairs.  Chiplets are numbered from 0 in  *)
(* the mesh of the block; lists of devices and chips count from 1.  Bytes  *)
(* are counted in payload rows.                                            *)
(***************************************************************************)
EXTENDS Integers, Sequences, FiniteSets, FiniteSetsExt, SequencesExt, OrderedSets

CONSTANTS
  Listings,   \* lists of device coordinates that JAX may report
  Requests,   \* requests a caller may make
  IndexMax    \* RAGGED_INDEX_MAX, the largest signed index

ASSUME IndexAssumption == IndexMax \in Nat \ {0}

Axes == 1 .. 3

\* Coordinates are integers, ranges are parsed from digits, flags are flags.
ASSUME ListingsAssumption == Listings \subseteq Seq([Axes -> Int])
ASSUME RequestsAssumption ==
  \A r \in Requests :
    /\ r.rows \in Nat
    /\ r.block = <<>> \/ r.block \in [Axes -> Nat \X Nat]
    /\ {r.neighbors, r.split, r.parallel, r.local} \subseteq BOOLEAN

ChipletsPerTpu == 2
WidestMesh == 4  \* longest axis whose links the neighbour mode knows

VARIABLES
  request,   \* the arguments of run_ici
  listing,   \* the coordinates of jax.devices(), or of jax.local_devices()
  stage,     \* where run_ici stands
  topology,  \* the dimensions of the slice
  chips,     \* the coordinates of its chips, in the order of the devices
  block,     \* the selected range of each axis, half open
  chosen,    \* the indices of the selected chips
  matrix,    \* the active chiplet pairs
  cases,     \* the cases, each a set of pairs
  capacity,  \* ragged_buffer_shape: <<send rows, receive rows>>, or <<>>
  reports    \* what was accounted for each case that ran

vars == <<request, listing, stage, topology, chips, block, chosen, matrix,
          cases, capacity, reports>>

asked == <<request, listing>>
mesh == <<topology, chips, block, chosen>>
work == <<matrix, cases>>
results == <<capacity, reports>>

N == Len(chosen)
Chiplets == 0 .. ChipletsPerTpu * N - 1
Chip(p) == p \div ChipletsPerTpu
Core(p) == p % ChipletsPerTpu
P2p == request.benchmark \in {"p2p", "p2p-rdma"}

Stages == {"asked", "valid", "inferred", "selected", "expanded", "listed",
           "done", "refused"}

\* The variables have the shapes the stages rely on.
TypeOK ==
  /\ request \in Requests /\ listing \in Listings /\ stage \in Stages
  /\ topology \in [Axes -> Nat]
  /\ chips \in Seq([Axes -> Nat])
  /\ block \in [Axes -> Nat \X Nat]
  /\ ToSet(chosen) \subseteq DOMAIN chips
  /\ matrix \subseteq Chiplets \X Chiplets
  /\ \A i \in DOMAIN cases : cases[i] \subseteq matrix
  /\ capacity = <<>> \/ capacity \in (1 .. IndexMax) \X (1 .. IndexMax)
  /\ Len(reports) <= Len(cases)

Init ==
  /\ request \in Requests /\ listing \in Listings
  /\ stage = "asked"
  /\ topology = <<0, 0, 0>> /\ chips = <<>>
  /\ block = <<<<0, 0>>, <<0, 0>>, <<0, 0>>>> /\ chosen = <<>>
  /\ matrix = {} /\ cases = <<>>
  /\ capacity = <<>> /\ reports = <<>>

\* Goes on to stage s where ok holds and raises otherwise.
Step(from, ok, s) ==
  /\ stage = from
  /\ stage' = IF ok THEN s ELSE "refused"

-----------------------------------------------------------------------------
(* Topology inference and block selection                                  *)

ValidRequest(r) ==
  /\ r.neighbors => r.benchmark = "p2p"
  /\ r.benchmark = "raw" <=> r.matrix # <<>>
  /\ r.benchmark \in {"a2a", "ar"} => ~r.split
  /\ r.parallel => r.benchmark \in {"a2a", "ar"}

\* Validate inputs.
Validate ==
  /\ Step("asked", ValidRequest(request), "valid")
  /\ UNCHANGED <<asked, mesh, work, results>>

\* local runs move the origin to the smallest coordinate of each axis.
Coords ==
  LET origin == [a \in Axes |-> Min({listing[i][a] : i \in DOMAIN listing})]
  IN  [i \in DOMAIN listing |->
        [a \in Axes |-> listing[i][a] - (IF request.local THEN origin[a] ELSE 0)]]

ChipOrder == [k \in 1 .. Len(listing) \div ChipletsPerTpu |-> Coords[2 * k - 1]]
AxisValues(a) == {ChipOrder[k][a] : k \in DOMAIN ChipOrder}

\* Mutant: the chips need not fill the cuboid of their axes.
InferableSparse ==
  /\ Len(listing) > 0 /\ Len(listing) % ChipletsPerTpu = 0
  /\ \A k \in DOMAIN ChipOrder : Coords[2 * k] = Coords[2 * k - 1]
  /\ IsInjective(ChipOrder)
  /\ \A a \in Axes : AxisValues(a) = 0 .. Cardinality(AxisValues(a)) - 1

\* The devices of one chip are consecutive, no chip comes twice, the axes are
\* dense from 0 on, and the chips fill the cuboid.
Inferable ==
  /\ Len(listing) > 0 /\ Len(listing) % ChipletsPerTpu = 0
  /\ \A k \in DOMAIN ChipOrder : Coords[2 * k] = Coords[2 * k - 1]
  /\ IsInjective(ChipOrder)
  /\ \A a \in Axes : AxisValues(a) = 0 .. Cardinality(AxisValues(a)) - 1
  /\ Len(ChipOrder) = Cardinality(AxisValues(1)) * Cardinality(AxisValues(2))
                        * Cardinality(AxisValues(3))

\* infer_tpu_topology
Infer ==
  /\ Step("valid", Inferable, "inferred")
  /\ IF Inferable
       THEN /\ topology' = [a \in Axes |-> Cardinality(AxisValues(a))]
            /\ chips' = ChipOrder
       ELSE UNCHANGED <<topology, chips>>
  /\ UNCHANGED <<asked, block, chosen, work, results>>

Ranges ==
  IF request.block = <<>> THEN [a \in Axes |-> <<0, topology[a]>>]
                          ELSE request.block

InRange(c) == \A a \in Axes : c[a] \in Ranges[a][1] .. Ranges[a][2] - 1

InSlice ==
  \A a \in Axes : Ranges[a][1] < Ranges[a][2] /\ Ranges[a][2] <= topology[a]

Selected == Ascending({i \in DOMAIN chips : InRange(chips[i])})

\* parse_tpu_block_range and the selection of the chips
SelectBlock ==
  /\ Step("inferred", InSlice, "selected")
  /\ IF InSlice THEN block' = Ranges /\ chosen' = Selected
                ELSE UNCHANGED <<block, chosen>>
  /\ UNCHANGED <<asked, topology, chips, work, results>>

-----------------------------------------------------------------------------
(* Matrices and cases                                                      *)

Tpus == 0 .. N - 1
SliceCoord(t) == chips[chosen[t + 1]]
BlockCoord(t) == [a \in Axes |-> SliceCoord(t)[a] - block[a][1]]
Dim(a) == block[a][2] - block[a][1]

Apart(c, d) ==
  SumFunction([a \in Axes |-> IF c[a] < d[a] THEN d[a] - c[a] ELSE c[a] - d[a]])

\* torus_axis_distances, summed: each axis of the block is taken to wrap.
TorusDistance(c, d) ==
  SumFunction(
    [a \in Axes |-> LET x == IF c[a] < d[a] THEN d[a] - c[a] ELSE c[a] - d[a]
                    IN  Min({x, Dim(a) - x})])

ProvidedMatrix == {m \in Tpus \X Tpus : request.matrix[m[1] + 1][m[2] + 1] = 1}
BuiltinMatrix(diagonal) == {m \in Tpus \X Tpus : diagonal \/ m[1] # m[2]}

\* Scans start from all pairs of chips, the all-to-all from distinct ones.
TpuMatrix ==
  IF request.benchmark = "raw" THEN ProvidedMatrix ELSE BuiltinMatrix(P2p)

Expand(M) == {e \in Chiplets \X Chiplets : <<Chip(e[1]), Chip(e[2])>> \in M}

\* Mutant: chips at the two ends of an axis of the block are neighbours too.
NeighborPairsOnTorus ==
  {e \in Chiplets \X Chiplets :
     \/ Chip(e[1]) = Chip(e[2])
     \/ /\ Core(e[1]) = 0 /\ Core(e[2]) = 0
        /\ TorusDistance(BlockCoord(Chip(e[1])), BlockCoord(Chip(e[2]))) = 1}

\* neighboring_p2p_chiplet_pairs
NeighborPairs ==
  {e \in Chiplets \X Chiplets :
     \/ Chip(e[1]) = Chip(e[2]) /\ e[1] # e[2]
     \/ /\ Core(e[1]) = 0 /\ Core(e[2]) = 0
        /\ Apart(SliceCoord(Chip(e[1])), SliceCoord(Chip(e[2]))) = 1}

WithoutSelf(M) == {e \in M : e[1] # e[2]}
SameCore(M) == {e \in M : Core(e[1]) = Core(e[2])}

ChipletMatrix ==
  IF request.benchmark = "ar" THEN {}
  ELSE IF request.neighbors THEN WithoutSelf(NeighborPairs)
  ELSE IF P2p THEN WithoutSelf(Expand(TpuMatrix))
  ELSE IF request.parallel THEN SameCore(Expand(TpuMatrix))
  ELSE Expand(TpuMatrix)

\* Ranks of one collective group, and how many groups run side by side.
GroupSize == IF request.parallel THEN N ELSE ChipletsPerTpu * N
Groups == IF request.parallel THEN ChipletsPerTpu ELSE 1

\* Mutant: an input that does not divide into chunks is accepted.
DividesAnyway == TRUE

Divides == request.benchmark = "a2a" => request.rows % GroupSize = 0

MatrixFits ==
  /\ request.benchmark = "raw" => Len(request.matrix) = N
  /\ request.neighbors => \A a \in Axes : topology[a] <= WidestMesh

Expandable ==
  /\ Divides /\ MatrixFits
  /\ request.benchmark # "ar" => ChipletMatrix # {}

\* From the divisibility check to the list of active pairs.
BuildMatrix ==
  /\ Step("selected", Expandable, "expanded")
  /\ matrix' = IF Expandable THEN ChipletMatrix ELSE {}
  /\ UNCHANGED <<asked, mesh, cases, results>>

\* get_active_pairs: row by row.
ActivePairs ==
  LET n == ChipletsPerTpu * N
      cells == Ascending({n * e[1] + e[2] : e \in matrix})
  IN  [k \in DOMAIN cells |-> <<cells[k] \div n, cells[k] % n>>]

\* build_traffic_cases
BuildCases ==
  /\ Step("expanded", TRUE, "listed")
  /\ cases' = LET pairs == ActivePairs
              IN  IF request.split THEN [i \in DOMAIN pairs |-> {pairs[i]}] ELSE <<matrix>>
  /\ UNCHANGED <<asked, mesh, matrix, results>>

-----------------------------------------------------------------------------
(* One case: windows of the ragged exchange                                *)

\* Row counts and offsets are int32 on the device.
Int32(x) == ((x + IndexMax + 1) % (2 * IndexMax + 2)) - IndexMax - 1

Rows(case, s, d) == IF <<s, d>> \in case THEN request.rows ELSE 0
SendSizes(case, s) == [d \in Chiplets |-> Rows(case, s, d)]
RecvSizes(case, d) == [s \in Chiplets |-> Rows(case, s, d)]
SendRows(case, s) == SumFunctionOnSet(SendSizes(case, s), Chiplets)
RecvRows(case, d) == SumFunctionOnSet(RecvSizes(case, d), Chiplets)
MaxSend(case) == Max({1} \union {SendRows(case, s) : s \in Chiplets})
MaxRecv(case) == Max({1} \union {RecvRows(case, d) : d \in Chiplets})

\* cumsum of send_sizes: where the rows for d start in the input of s.
InputOffset(case, s, d) == Int32(SumFunctionOnSet(SendSizes(case, s), 0 .. d - 1))

\* Mutant: the sender declares its own input offset.
OutputOffsetOfInput(case, s, d) == InputOffset(case, s, d)

\* prefix_by_src: where the rows from s start in the output of d.
OutputOffset(case, s, d) == Int32(SumFunctionOnSet(RecvSizes(case, d), 0 .. s - 1))

\* is_self_copy_split_case
SelfCopy(case) ==
  request.benchmark \in {"raw", "p2p"} /\ request.split /\ \E p \in Chiplets : case = {<<p, p>>}

Ragged(case) == request.benchmark \in {"raw", "p2p"} /\ ~SelfCopy(case)

\* Mutant: only the rows of a single link are checked.
BoundedPerLink(case) == request.rows <= IndexMax

\* validate_ragged_all_to_all_bounds; the offsets are partial sums of these.
Bounded(case) ==
  /\ request.rows <= IndexMax
  /\ MaxSend(case) <= IndexMax
  /\ MaxRecv(case) <= IndexMax

-----------------------------------------------------------------------------
(* One case: accounting                                                    *)

Accountable(case) ==
  /\ P2p => Cardinality(case) = 1
  /\ request.benchmark = "a2a" /\ request.parallel => N > 1

\* Remote chunks of one chiplet in an all-to-all, times the rows of a chunk.
InterTpuRows ==
  (request.rows \div GroupSize) * (N - 1) * (IF request.parallel THEN 1 ELSE ChipletsPerTpu)

\* Total rows a case is said to move.
TotalRows(case) ==
  CASE P2p -> request.rows
    [] request.benchmark = "a2a" ->
         IF request.parallel THEN request.rows * (N - 1) * ChipletsPerTpu
                             ELSE InterTpuRows * ChipletsPerTpu * N
    [] request.benchmark = "ar" -> request.rows * 2 * (GroupSize - 1) * Groups
    [] OTHER -> Cardinality(case) * request.rows

\* Mutant: the bytes of one of the two parallel groups only.
NumeratorOneGroup(case) ==
  CASE P2p -> <<request.rows, 1>>
    [] request.benchmark = "a2a" -> <<request.rows * GroupSize, 4>>
    [] request.benchmark = "ar" -> <<TotalRows(case), GroupSize>>
    [] OTHER -> <<TotalRows(case), 1>>

\* The rows the bandwidth is computed from, as a fraction.
Numerator(case) ==
  CASE P2p -> <<request.rows, 1>>
    [] request.benchmark = "a2a" -> <<request.rows * GroupSize * Groups, 4>>
    [] request.benchmark = "ar" -> <<TotalRows(case), GroupSize>>
    [] OTHER -> <<TotalRows(case), 1>>

\* Only split cases carry the distance of their chips.
Distances(case) ==
  IF ~request.split THEN {}
  ELSE {TorusDistance(BlockCoord(Chip(e[1])), BlockCoord(Chip(e[2]))) : e \in case}

Report(case) ==
  [total |-> TotalRows(case), numerator |-> Numerator(case), distances |-> Distances(case)]

Runnable(case) == (Ragged(case) => Bounded(case)) /\ Accountable(case)

\* One iteration of the loop over the cases.
RunCase ==
  /\ Len(reports) < Len(cases)
  /\ LET case == cases[Len(reports) + 1]
         ok == Runnable(case)
     IN  /\ Step("listed", ok, "listed")
         /\ capacity' = IF Ragged(case) /\ Bounded(case)
                          THEN <<MaxSend(case), MaxRecv(case)>> ELSE capacity
         /\ reports' = IF ok THEN Append(reports, Report(case)) ELSE reports
  /\ UNCHANGED <<asked, mesh, work>>

Finish ==
  /\ Len(reports) = Len(cases)
  /\ Step("listed", TRUE, "done")
  /\ UNCHANGED <<asked, mesh, work, results>>

Next ==
  \/ Validate \/ Infer \/ SelectBlock \/ BuildMatrix \/ BuildCases
  \/ RunCase \/ Finish

Spec == Init /\ [][Next]_vars

-----------------------------------------------------------------------------
(* Properties                                                              *)

\* The device of the listing behind chiplet p of the mesh: benchmark_devices.
Device(p) == ChipletsPerTpu * (chosen[Chip(p) + 1] - 1) + Core(p) + 1

\* The listing names the chips of one cuboid, each chip by two consecutive
\* devices and nowhere else; outside local runs its least corner is at 0.
PairedCuboid ==
  LET S == ToSet(listing)
  IN  /\ S # {}
      /\ \A c \in S : \E k \in 1 .. Len(listing) \div 2 :
           {i \in DOMAIN listing : listing[i] = c} = {2 * k - 1, 2 * k}
      /\ \A x, y, z \in S : <<x[1], y[2], z[3]>> \in S
      /\ \A a \in Axes : \A x, y \in S : \A v \in x[a] .. y[a] :
           \E c \in S : c[a] = v
      /\ request.local \/ (<<0, 0, 0>> \in S /\ S \subseteq [Axes -> Nat])

\* infer_tpu_topology accepts exactly the device lists that are cuboids of
\* chips with consecutive chiplets: none that later stages would mislabel,
\* and no good one is turned away.
TopologyIsExact ==
  [][stage = "valid" => (stage' = "inferred" <=> PairedCuboid)]_vars

\* Whether a scan is to measure the link from device i to device j of the
\* listing: all pairs of the block, or its physical links.
Wanted(i, j) ==
  /\ i # j /\ InRange(Coords[i]) /\ InRange(Coords[j])
  /\ request.neighbors =>
       \/ Coords[i] = Coords[j]
       \/ i % 2 = 1 /\ j % 2 = 1 /\ Apart(Coords[i], Coords[j]) = 1

\* The cases of a p2p or p2p-rdma scan, taken back to the devices of the
\* slice, are the links of the selected block, each once: the indices survive
\* pairing, selection, expansion and splitting (run_ici, traffic.py).
EveryLinkOnce ==
  stage = "listed" /\ reports = <<>> /\ P2p /\ request.split =>
    \A i, j \in DOMAIN listing :
      Cardinality({k \in DOMAIN cases :
                     \E e \in cases[k] : Device(e[1]) = i /\ Device(e[2]) = j})
        = IF Wanted(i, j) THEN 1 ELSE 0

Window(offset, rows) == offset .. offset + rows - 1

Tile(W, rows) ==
  /\ \A p \in Chiplets : W[p] \subseteq 0 .. rows - 1
  /\ \A p, q \in Chiplets : p # q => W[p] \cap W[q] = {}

\* The windows of one exchange, computed by each sender for itself in int32,
\* do not overlap in any receiver's output or in any sender's input, and stay
\* inside the buffers the executable was compiled for (kernels.py).
RaggedWindowsTile ==
  reports # <<>> /\ Ragged(cases[Len(reports)]) =>
    LET case == cases[Len(reports)]
    IN  /\ \A d \in Chiplets :
             Tile([s \in Chiplets |-> Window(OutputOffset(case, s, d), Rows(case, s, d))],
                  capacity[2])
        /\ \A s \in Chiplets :
             Tile([d \in Chiplets |-> Window(InputOffset(case, s, d), Rows(case, s, d))],
                  capacity[1])

\* The pairs an all-to-all is reported with are those that exchange a chunk
\* between two chips inside one collective group, and the reported rows, per
\* chiplet and in total, are those chunks (compute_case_traffic_bytes).
ExchangeMatchesMatrix ==
  request.benchmark = "a2a" /\ reports # <<>> =>
    LET peers(p) == {q \in Chiplets : /\ Chip(q) # Chip(p)
                                      /\ request.parallel => Core(q) = Core(p)}
    IN  /\ cases[1] = {e \in Chiplets \X Chiplets : e[2] \in peers(e[1])}
        /\ \A p \in Chiplets :
             InterTpuRows * GroupSize = request.rows * Cardinality(peers(p))
        /\ reports[1].total * GroupSize = request.rows * Cardinality(cases[1])

\* The bandwidth of an all-to-all is computed from the rows that cross from
\* one half of the chips to the other, whatever the halves: the sum of what
\* both groups send in a parallel run (traffic.py, "one_way_bisection").
BisectionIsTheCut ==
  request.benchmark = "a2a" /\ reports # <<>> =>
    \A H \in kSubset(N \div 2, Tpus) : N % 2 = 0 =>
      request.rows * Cardinality({e \in cases[1] : Chip(e[1]) \in H /\ Chip(e[2]) \notin H})
        * reports[1].numerator[2]
      = GroupSize * reports[1].numerator[1]

\* traffic.py:30: slices up to 4x4x4 have no wraparound links, so chips that a
\* report puts at distance one are neighbours.
ReportedNeighborsAreLinked ==
  (\A a \in Axes : topology[a] <= WidestMesh) =>
    \A k \in DOMAIN reports : reports[k].distances = {1} =>
      \A e \in cases[k] : Apart(SliceCoord(Chip(e[1])), SliceCoord(Chip(e[2]))) = 1
=============================================================================
