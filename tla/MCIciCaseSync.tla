--------------------------- MODULE MCIciCaseSync ----------------------------
(* Small slices for IciCaseSync.                                           *)
EXTENDS IciCaseSync

\* Three active hosts (0, 1, 2) with one chiplet each; host 3, if any, is idle.
ThreeHostHome == [ch \in 0 .. 2 |-> ch]

\* A link between two hosts that are not the recorder, then one to it.
AwayFromRecorder == [c \in 0 .. 1 |-> IF c = 0 THEN {<<1, 2>>} ELSE {<<2, 0>>}]

=============================================================================
