--------------------------- MODULE MCPcieTransfers --------------------------
(* A small host for PcieTransfers; the constants are in the configuration. *)
EXTENDS PcieTransfers
=============================================================================
