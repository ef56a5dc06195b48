--------------------------- MODULE MCTrafficCases ---------------------------
(* Small slices and requests for TrafficCases.                             *)
EXTENDS TrafficCases

\* A listing of both devices of each chip in turn.
Twice(order) == [i \in 1 .. 2 * Len(order) |-> order[(i + 1) \div 2]]

\* Chips of columns, one of them longer than a mesh, of a 2x2x1 plane that is
\* not listed along an axis, and of cuboids that only a local run may have, as
\* their least corner is not at 0.
Column(n) == [i \in 1 .. n |-> <<0, 0, i - 1>>]
Plane == <<<<1, 0, 0>>, <<0, 0, 0>>, <<0, 1, 0>>, <<1, 1, 0>>>>
Shifted == <<<<1, 0, 2>>, <<1, 0, 3>>>>
Sunken == <<<<0, 0, 0>>, <<0, 0, -1>>>>

GoodListings ==
  {Twice(Column(n)) : n \in 1 .. 5} \union {Twice(Plane), Twice(Shifted), Twice(Sunken)}

\* Chips split up, a chip that comes twice, a hole, three of four chips.
BadListings ==
  {<<<<0, 0, 0>>, <<0, 0, 1>>, <<0, 0, 0>>, <<0, 0, 1>>>>,
   <<<<0, 0, 0>>, <<0, 0, 0>>, <<0, 0, 1>>>>,
   Twice(<<<<0, 0, 0>>, <<0, 0, 1>>, <<0, 0, 0>>>>),
   Twice(<<<<0, 0, 0>>, <<0, 0, 2>>>>),
   Twice(<<<<0, 0, 0>>, <<0, 1, 0>>, <<1, 0, 0>>>>),
   Twice(<<<<0, 0, 0>>, <<0, 1, 0>>, <<1, 0, 0>>, <<1, 0, 0>>>>),
   <<>>}

AnyListing == GoodListings \union BadListings

Blocks == {<<>>, <<<<0, 1>>, <<0, 1>>, <<1, 4>>>>, <<<<0, 1>>, <<0, 2>>, <<0, 1>>>>,
           <<<<0, 1>>, <<0, 1>>, <<1, 3>>>>}

\* The patterns of two chips: one link, fan-in, everything.
Matrices == {<<<<0, 1>>, <<0, 0>>>>, <<<<1, 0>>, <<1, 0>>>>, <<<<1, 1>>, <<1, 1>>>>}

Ask(benchmarks, neighbors, split, parallel, matrices, rows) ==
  [benchmark : benchmarks, neighbors : neighbors, split : split, parallel : parallel,
   local : BOOLEAN, block : Blocks, matrix : matrices, rows : rows]

AnyRequest ==
  UNION {Ask({"p2p"}, BOOLEAN, {TRUE}, {FALSE}, {<<>>}, {1}),
         Ask({"p2p-rdma"}, {FALSE}, {TRUE}, {FALSE}, {<<>>}, {2}),
         Ask({"p2p"}, {FALSE}, {FALSE}, {FALSE}, {<<>>}, {1}),
         Ask({"raw"}, {FALSE}, BOOLEAN, {FALSE}, Matrices, {1, 2}),
         Ask({"a2a"}, {FALSE}, {FALSE}, BOOLEAN, {<<>>}, {2, 3, 4, 12}),
         Ask({"ar"}, BOOLEAN, {FALSE}, BOOLEAN, {<<>>}, {3})}

\* A scan of a whole column.
ColumnOnly == {Twice(Column(4))}
ScanOnly == Ask({"p2p"}, {FALSE}, {TRUE}, {FALSE}, {<<>>}, {1})
=============================================================================
