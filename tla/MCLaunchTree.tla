---------------------------- MODULE MCLaunchTree ----------------------------
(* Small clusters for LaunchTree: the ICI launcher against every fault,    *)
(* and against failing ranks where the last two hosts report one name; the *)
(* single-node launchers against failing ranks, and against connections    *)
(* that die where two hosts report one name.                               *)
EXTENDS LaunchTree

OwnNames == [r \in Hosts |-> r]
TwinNames == [r \in Hosts |-> IF r = NumHosts - 1 THEN r - 1 ELSE r]

Setup(group, ident, faults) == [group |-> group, ident |-> ident, faults |-> faults]

SmallSetups ==
  {Setup(TRUE, OwnNames, {"connect", "drop", "rank"}),
   Setup(TRUE, TwinNames, {"rank"}),
   Setup(FALSE, OwnNames, {"rank"}),
   Setup(FALSE, TwinNames, {"drop"})}
=============================================================================
