---------------------------- MODULE MCTraceTiming ---------------------------
(* An ICI benchmark on two chiplets (max) and a kernel whose events the    *)
(* trace shows twice (median).                                             *)
EXTENDS TraceTiming

SmallConfigs ==
  {[devices |-> 2, ops |-> 1, reducer |-> "max"],
   [devices |-> 1, ops |-> 2, reducer |-> "median"]}
=============================================================================
