---------------------------- MODULE MCIperfSuite ----------------------------
(* Two runs of the script on two devices.                                  *)
EXTENDS IperfSuite
=============================================================================
