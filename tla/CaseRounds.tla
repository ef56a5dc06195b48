----------------------------- MODULE CaseRounds -----------------------------
(***************************************************************************)
(* What one ICI slice run promises, free of barriers, keys and kernels.    *)
(* A fixed group of processes works through the same Rounds traffic cases. *)
(* A process starts a case when every process has finished the one before, *)
(* an idle process finishes a case after the metrics recorder has, and a   *)
(* process publishes its metrics when every process has finished every     *)
(* case.  A process may raise at any time before it publishes.             *)
(***************************************************************************)
EXTENDS Naturals

CONSTANTS
  Procs,      \* the JAX processes of the slice
  Active,     \* those that own a chiplet of the selected block
  Recorder,   \* the process that announces the end of a case
  Rounds      \* the number of traffic cases

VARIABLES
  started,    \* started[p]: the cases p has been let into
  finished,   \* finished[p]: the cases p has done its part of
  raised,     \* the processes that ended with an exception
  published   \* the processes that have emitted their metric lines

avars == <<started, finished, raised, published>>

Init ==
  /\ started = [p \in Procs |-> 0]
  /\ finished = [p \in Procs |-> 0]
  /\ raised = {}
  /\ published = {}

Start(p) ==
  /\ p \notin raised
  /\ started[p] = finished[p]
  /\ started[p] < Rounds
  /\ \A q \in Procs : started[p] <= finished[q]
  /\ started' = [started EXCEPT ![p] = @ + 1]
  /\ UNCHANGED <<finished, raised, published>>

Finish(p) ==
  /\ p \notin raised
  /\ finished[p] < started[p]
  /\ p \in Active \/ finished[p] < finished[Recorder]
  /\ finished' = [finished EXCEPT ![p] = @ + 1]
  /\ UNCHANGED <<started, raised, published>>

Raise(p) ==
  /\ p \notin raised \union published
  /\ raised' = raised \union {p}
  /\ UNCHANGED <<started, finished, published>>

Publish(p) ==
  /\ p \notin raised
  /\ \A q \in Procs : finished[q] = Rounds
  /\ published' = published \union {p}
  /\ UNCHANGED <<started, finished, raised>>

Next == \E p \in Procs : Start(p) \/ Finish(p) \/ Raise(p) \/ Publish(p)

Spec == Init /\ [][Next]_avars
=============================================================================
