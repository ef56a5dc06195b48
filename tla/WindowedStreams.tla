-------------------------- MODULE WindowedStreams ---------------------------
(***************************************************************************)
(* What a multi-bank DMA pipeline promises: in each lane N chunks are      *)
(* started in order, land in any order and are used in order, each once,   *)
(* and never more than Depth of them are started and not yet used.         *)
(***************************************************************************)
EXTENDS Integers

CONSTANTS
  StreamLanes,  \* the lanes
  N,            \* chunks of each lane
  Depth         \* the window

VARIABLES
  started,  \* started[m]: the number of chunks started in lane m
  landed,   \* landed[m]: the chunks that have landed
  used      \* used[m]: the number of chunks used

wvars == <<started, landed, used>>

Init ==
  /\ started = [m \in StreamLanes |-> 0]
  /\ landed = [m \in StreamLanes |-> {}]
  /\ used = [m \in StreamLanes |-> 0]

Start(m) ==
  /\ started[m] < N /\ started[m] < used[m] + Depth
  /\ started' = [started EXCEPT ![m] = @ + 1]
  /\ UNCHANGED <<landed, used>>

Land(m) ==
  /\ \E c \in (0 .. started[m] - 1) \ landed[m] :
       landed' = [landed EXCEPT ![m] = @ \union {c}]
  /\ UNCHANGED <<started, used>>

Use(m) ==
  /\ used[m] \in landed[m]
  /\ used' = [used EXCEPT ![m] = @ + 1]
  /\ UNCHANGED <<started, landed>>

Next == \E m \in StreamLanes : Start(m) \/ Land(m) \/ Use(m)

Spec == Init /\ [][Next]_wvars
=============================================================================
