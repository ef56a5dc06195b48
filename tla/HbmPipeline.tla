---------------------------- MODULE HbmPipeline -----------------------------
(***************************************************************************)
(* The double- and four-buffered DMA kernels of src/memory/kernels.py.     *)
(* hbm_read_kernel and hbm_write_kernel have four banks and one lane,      *)
(* hbm_copy_kernel has two banks and two lanes, a read and a write, that   *)
(* share nothing but the program.  The program walks the chunks of a lane  *)
(* in order; the DMA engine finishes what is in flight in any order.       *)
(*                                                                         *)
(* Chunk base + k is the one that bank k serves in the round chunk_base =  *)
(* base of the unrolled loop.                                              *)
(***************************************************************************)
EXTENDS Integers, Sequences, FiniteSets

CONSTANTS
  NIters,    \* n_iters, the number of chunks
  NumBanks,  \* VMEM banks of each lane
  Kinds      \* Kinds[m]: "read" or "write"

ASSUME NItersAssumption == NIters \in Nat
ASSUME NumBanksAssumption == NumBanks \in Nat \ {0}
ASSUME KindsAssumption == Kinds \in Seq({"read", "write"}) /\ Len(Kinds) > 0

NumLanes == Len(Kinds)
Lanes == 1 .. NumLanes
Banks == 0 .. NumBanks - 1
Chunks == 0 .. NIters - 1

VARIABLES
  pc,      \* "fill", then "wait", "touch", "next" for each chunk, then "done"
  base,    \* chunk_base
  k,       \* the bank the program is at
  l,       \* the lane it is at
  flight,  \* flight[m, j]: chunks being moved through bank j of lane m
  sem,     \* sem[m, j]: completions on its DMA semaphore not waited for
  vmem,    \* vmem[m, j]: the chunk a bank holds, NIters if none
  landed   \* landed[m, c]: how often chunk c has been moved

vars == <<pc, base, k, l, flight, sem, vmem, landed>>

TypeOK ==
  /\ pc \in {"fill", "wait", "touch", "next", "done"}
  /\ base \in Nat
  /\ k \in Banks
  /\ l \in Lanes
  /\ flight \in [Lanes \X Banks -> SUBSET Chunks]
  /\ sem \in [Lanes \X Banks -> Nat]
  /\ vmem \in [Lanes \X Banks -> 0 .. NIters]
  /\ landed \in [Lanes \X Chunks -> Nat]

Init ==
  /\ pc = IF NIters >= 1 THEN "fill" ELSE "done"
  /\ base = 0 /\ k = 0 /\ l = 1
  /\ flight = [b \in Lanes \X Banks |-> {}]
  /\ sem = [b \in Lanes \X Banks |-> 0]
  /\ vmem = [b \in Lanes \X Banks |-> NIters]
  /\ landed = [b \in Lanes \X Chunks |-> 0]

-----------------------------------------------------------------------------
\* Mutant: the next chunk of a bank is one too far.
SkippingChunk == base + k + NumBanks + 1

\* next_chunk, next_read, next_write
NextChunk == base + k + NumBanks

\* Mutant: the bound of the next chunk is off by one.
HasNextInclusive == NextChunk <= NIters

HasNext == NextChunk < NIters

Fills(j) == j < NumBanks /\ j < NIters

\* Mutant: the guard of the later banks is missing, so a short last round
\* waits for copies of the round before.
BankOfAnyRound(j) == j < NumBanks

InRound(j) == j < NumBanks /\ base + j < NIters

\* Mutant: the loop stops one round early.
OneRoundLess == base + 2 * NumBanks < NIters

MoreRounds == base + NumBanks < NIters

\* Mutant: the bank is used before its copy is waited for.
NotAwaited(m, j) == TRUE

Completed(m, j) == sem[<<m, j>>] > 0

-----------------------------------------------------------------------------
(* The program.                                                            *)

\* Mutant: the copy names the neighbour's bank and semaphore.
LaunchNextDoor(m, j, c) ==
  flight' = [flight EXCEPT ![<<m, (j + 1) % NumBanks>>] = @ \union {c}]

Launch(m, j, c) == flight' = [flight EXCEPT ![<<m, j>>] = @ \union {c}]

Fill ==
  /\ pc = "fill"
  /\ Launch(l, k, k)
  /\ \/ /\ l < NumLanes
        /\ l' = l + 1
        /\ UNCHANGED <<pc, k>>
     \/ /\ l = NumLanes /\ Fills(k + 1)
        /\ l' = 1 /\ k' = k + 1
        /\ UNCHANGED pc
     \/ /\ l = NumLanes /\ ~ Fills(k + 1)
        /\ l' = 1 /\ k' = 0
        /\ pc' = "wait"
  /\ UNCHANGED <<base, sem, vmem, landed>>

Wait ==
  /\ pc = "wait" /\ Completed(l, k)
  /\ sem' = [sem EXCEPT ![<<l, k>>] = @ - 1]
  /\ pc' = IF Kinds[l] = "read" THEN "touch" ELSE "next"
  /\ UNCHANGED <<base, k, l, flight, vmem, landed>>

Touch ==
  /\ pc = "touch"
  /\ pc' = "next"
  /\ UNCHANGED <<base, k, l, flight, sem, vmem, landed>>

\* The bank is given its next chunk, and the program goes on to the next lane,
\* bank or round.
Restart ==
  /\ pc = "next"
  /\ IF HasNext THEN Launch(l, k, NextChunk) ELSE UNCHANGED flight
  /\ \/ /\ l < NumLanes
        /\ l' = l + 1 /\ pc' = "wait"
        /\ UNCHANGED <<base, k>>
     \/ /\ l = NumLanes /\ InRound(k + 1)
        /\ l' = 1 /\ k' = k + 1 /\ pc' = "wait"
        /\ UNCHANGED base
     \/ /\ l = NumLanes /\ ~ InRound(k + 1) /\ MoreRounds
        /\ l' = 1 /\ k' = 0 /\ base' = base + NumBanks /\ pc' = "wait"
     \/ /\ l = NumLanes /\ ~ InRound(k + 1) /\ ~ MoreRounds
        /\ pc' = "done"
        /\ UNCHANGED <<base, k, l>>
  /\ UNCHANGED <<sem, vmem, landed>>

-----------------------------------------------------------------------------
(* The DMA engine (external).                                              *)

Complete(m, j) ==
  /\ \E c \in flight[<<m, j>>] :
       /\ flight' = [flight EXCEPT ![<<m, j>>] = @ \ {c}]
       /\ vmem' = [vmem EXCEPT ![<<m, j>>] = c]
       /\ landed' = [landed EXCEPT ![<<m, c>>] = @ + 1]
  /\ sem' = [sem EXCEPT ![<<m, j>>] = @ + 1]
  /\ UNCHANGED <<pc, base, k, l>>

Program == Fill \/ Wait \/ Touch \/ Restart

Engine == \E m \in Lanes, j \in Banks : Complete(m, j)

Next == Program \/ Engine \/ (pc = "done" /\ UNCHANGED vars)

Spec == Init /\ [][Next]_vars

FairSpec == Spec /\ WF_vars(Program)
                 /\ \A m \in Lanes, j \in Banks : WF_vars(Complete(m, j))

-----------------------------------------------------------------------------
(* Properties.                                                             *)

\* A bank serves one DMA at a time: the next one starts only when the one
\* before has been waited for, so no completion is taken for another's.
BankNotShared ==
  \A m \in Lanes, j \in Banks :
    Cardinality(flight[<<m, j>>]) + sem[<<m, j>>] <= 1

\* pltpu.touch sees the chunk it stands for, whole and not being overwritten.
TouchSeesItsChunk ==
  pc = "touch" => vmem[<<l, k>>] = base + k /\ flight[<<l, k>>] = {}

\* When the kernel returns, each lane has moved each chunk once, which is what
\* the bandwidth is computed from, and no DMA or semaphore is left behind.
AllChunksMoved ==
  pc = "done" =>
    /\ \A m \in Lanes, c \in Chunks : landed[<<m, c>>] = 1
    /\ \A m \in Lanes, j \in Banks : flight[<<m, j>>] = {} /\ sem[<<m, j>>] = 0

\* The pipeline is as deep as its banks: whenever the program waits, every
\* bank that still has a chunk to serve has been given it.
PipelineIsFull ==
  pc = "wait" => \A m \in Lanes, c \in Chunks :
    base + k <= c /\ c < base + k + NumBanks /\ landed[<<m, c>>] = 0 =>
      \E j \in Banks : c \in flight[<<m, j>>]

\* The kernel returns.
KernelEnds == <>(pc = "done")

-----------------------------------------------------------------------------
(* The kernel implements WindowedStreams.                                  *)

\* What lane m has used and started at this point of the program.
UsedInLane(m) ==
  CASE pc = "fill" -> 0
    [] pc = "done" -> NIters
    [] OTHER -> IF m < l \/ (m = l /\ pc # "wait") THEN base + k + 1 ELSE base + k

StartedInLane(m) ==
  LET upTo == CASE pc = "fill" -> IF m < l THEN k + 1 ELSE k
                [] pc = "done" -> NIters
                [] OTHER -> base + k + NumBanks + (IF m < l THEN 1 ELSE 0)
  IN  IF upTo < NIters THEN upTo ELSE NIters

startedBar == [m \in Lanes |-> StartedInLane(m)]
landedBar == [m \in Lanes |-> {c \in Chunks : landed[<<m, c>>] > 0}]
usedBar == [m \in Lanes |-> UsedInLane(m)]

WS == INSTANCE WindowedStreams WITH
  StreamLanes <- Lanes, N <- NIters, Depth <- NumBanks,
  started <- startedBar, landed <- landedBar, used <- usedBar

\* Each step of the kernel or the engine is a step of WindowedStreams.
ImplementsStreams == WS!Spec
=============================================================================
