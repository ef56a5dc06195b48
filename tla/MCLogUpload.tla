---------------------------- MODULE MCLogUpload -----------------------------
(* Two testcases; the second one's log is written in place.  One prefix    *)
(* stands for every log, the other one leaves out the first.               *)
EXTENDS LogUpload

ThreeLogs == {<<1, 1>>, <<1, 2>>, <<2, 1>>}
TeeLog == {<<2, 1>>}
AllOrNotFirst == {ThreeLogs, ThreeLogs \ {<<1, 1>>}}
=============================================================================
