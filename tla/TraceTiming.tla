---------------------------- MODULE TraceTiming -----------------------------
(***************************************************************************)
(* run_profiled_iterations and marker_durations_ms_from_trace              *)
(* (src/utils/profiling.py): the host makes one call per iteration on its  *)
(* devices under the profiler, and afterwards cuts the trace into as many  *)
(* chunks of events as there were iterations.  Nothing in an event says    *)
(* which iteration it belongs to; its place in the order of start times    *)
(* must.                                                                   *)
(*                                                                         *)
(* The trace is kept in the order of start times (sorted by "ts").  A      *)
(* duration is doubled, so that the median of two stays an integer.        *)
(***************************************************************************)
EXTENDS Integers, Sequences, SequencesExt, OrderedSets

CONSTANTS
  Configs,     \* devices: of the call; ops: kernels the filters select, per device
               \* and call; reducer: per_iteration_reducer
  Iterations,  \* --iteration
  Durations,   \* what a kernel may take
  Foreign      \* kinds of trace events the filters are there to leave out

ASSUME ConfigsAssumption ==
  \A c \in Configs : /\ c.devices \in Nat \ {0} /\ c.ops \in Nat \ {0}
                     /\ c.reducer \in {"max", "median"}
ASSUME IterationsAssumption == Iterations \in Nat \ {0}
ASSUME ForeignAssumption == "op" \notin Foreign

VARIABLES
  config,     \* what the benchmark asks of the profiler
  pc,         \* where the host stands
  calls,      \* calls it has made
  ran,        \* ran[d]: selected kernels device d has run
  trace,      \* the events, in the order of their start times
  durations   \* the result

vars == <<config, pc, calls, ran, trace, durations>>

Devices == 1 .. config.devices

\* "run", the device and the number of the kernel it ran, is for the properties
\* only: the code cannot see it.
Event(run, kind, dur, lost) == [run |-> run, kind |-> kind, dur |-> dur, lost |-> lost]

Init ==
  /\ config \in Configs
  /\ pc = "input" /\ calls = 0
  /\ ran = [d \in Devices |-> 0]
  /\ trace = <<>> /\ durations = <<>>

-----------------------------------------------------------------------------
(* The loop over the iterations.                                           *)

\* data_generator and block_until_ready on what it made; copying the input
\* may leave events of its own.
Prepare ==
  /\ pc = "input"
  /\ pc' = "call"
  /\ \/ trace' = trace
     \/ \E kind \in Foreign : trace' = Append(trace, Event(<<0, calls>>, kind, 2, FALSE))
  /\ UNCHANGED <<config, calls, ran, durations>>

Call ==
  /\ pc = "call"
  /\ calls' = calls + 1
  /\ pc' = "block"
  /\ UNCHANGED <<config, ran, trace, durations>>

\* Mutant: dispatch is taken for completion.
Dispatched == TRUE

\* block_until_ready on the result.
ResultReady == \A d \in Devices : ran[d] = calls * config.ops

Block ==
  /\ pc = "block"
  /\ ResultReady
  /\ pc' = IF calls < Iterations THEN "input" ELSE "extract"
  /\ UNCHANGED <<config, calls, ran, trace, durations>>

\* compiled_fn or block_until_ready raises.
CallRaises ==
  /\ pc \in {"call", "block"}
  /\ pc' = "raised"
  /\ UNCHANGED <<config, calls, ran, trace, durations>>

-----------------------------------------------------------------------------
(* The devices and the profiler (external).                                *)

\* A device runs the kernels of the calls in order.  The profiler may write
\* the event without its duration.
Run(d) ==
  /\ pc \in {"input", "call", "block", "extract"}
  /\ ran[d] < calls * config.ops
  /\ ran' = [ran EXCEPT ![d] = @ + 1]
  /\ \E dur \in Durations, lost \in BOOLEAN :
       trace' = Append(trace, Event(<<d, ran[d]>>, "op", dur, lost))
  /\ UNCHANGED <<config, pc, calls, durations>>

-----------------------------------------------------------------------------
(* The extraction.                                                         *)

\* Mutant: no filter on the kernel's name.
AnyEvent(e) == ~ e.lost

\* _marker_events: thread, marker, zero crop, name, source, kernel terms, and
\* an event that bears a duration.
Selected(e) == e.kind = "op" /\ ~ e.lost

\* The events at some places, in the order of the list.
Kept(events, places) == [n \in 1 .. Cardinality(places) |-> events[Ascending(places)[n]]]

Chosen == Kept(trace, {k \in DOMAIN trace : Selected(trace[k])})

PerIteration == Len(Chosen) \div Iterations

\* Mutant: the chunks overlap by one event.
ChunkOverlapping(i) ==
  SubSeq(Chosen, (i - 1) * PerIteration + 1, i * PerIteration + (IF i < Iterations THEN 1 ELSE 0))

\* sorted_events[start:end] of iteration i
Chunk(i) == SubSeq(Chosen, (i - 1) * PerIteration + 1, i * PerIteration)

\* _select_marker_duration_ms
Reduce(events, reducer) ==
  LET ds == SortSeq([k \in DOMAIN events |-> events[k].dur], <)
      n == Len(ds)
  IN  IF reducer = "max" THEN 2 * ds[n]
      ELSE ds[n \div 2 + 1] + ds[(n + 1) \div 2]

Divisible == Len(Chosen) > 0 /\ Len(Chosen) % Iterations = 0

Extract ==
  /\ pc = "extract"
  /\ IF Divisible
       THEN pc' = "done" /\ durations' = [i \in 1 .. Iterations |-> Reduce(Chunk(i), config.reducer)]
       ELSE pc' = "raised" /\ durations' = durations
  /\ UNCHANGED <<config, calls, ran, trace>>

Over == pc \in {"done", "raised"}

Next ==
  \/ Prepare \/ Call \/ Block \/ CallRaises \/ Extract
  \/ \E d \in Devices : Run(d)
  \/ Over /\ UNCHANGED vars

Spec == Init /\ [][Next]_vars

-----------------------------------------------------------------------------
(* Properties.                                                             *)

Complete == \A k \in DOMAIN trace : ~ trace[k].lost

\* Where the trace has the kernels that call i ran.
OwnPlaces(i) ==
  {k \in DOMAIN trace : /\ trace[k].kind = "op"
                        /\ trace[k].run[2] \div config.ops = i - 1}

OwnEvents(i) == Kept(trace, OwnPlaces(i))

\* When the profiler keeps every duration, the duration of iteration i is that
\* of the kernels call i ran, on however many devices they overlapped, and no
\* extraction fails (marker_durations_ms_from_trace).
DurationsAreTheirOwn ==
  Complete =>
    /\ pc = "done" => \A i \in 1 .. Iterations : durations[i] = Reduce(OwnEvents(i), config.reducer)
    /\ pc = "extract" => Divisible
=============================================================================
