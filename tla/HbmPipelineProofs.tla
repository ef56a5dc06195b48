------------------------- MODULE HbmPipelineProofs --------------------------
(***************************************************************************)
(* For every n_iters, every number of banks and every set of lanes: what   *)
(* each bank is doing follows from where the program stands (BankInv), and *)
(* from it the safety properties and the refinement of WindowedStreams.    *)
(***************************************************************************)
EXTENDS HbmPipeline, FiniteSetTheorems, TLAPS

\* The program has been at bank j of lane m in this round, or in the prologue.
Past(m, j) == j < k \/ (j = k /\ m < l)

IdleBank(m, j) == flight[<<m, j>>] = {} /\ sem[<<m, j>>] = 0

\* Bank j of lane m has been given chunk c, which is on its way or has landed.
Serves(m, j, c) ==
  \/ flight[<<m, j>>] = {c} /\ sem[<<m, j>>] = 0 /\ landed[<<m, c>>] = 0
  \/ /\ flight[<<m, j>>] = {} /\ sem[<<m, j>>] = 1
     /\ vmem[<<m, j>>] = c /\ landed[<<m, c>>] = 1

\* The chunk that bank j of lane m has or would have, were there enough.
ChunkOf(m, j) ==
  CASE pc = "fill" -> IF Past(m, j) THEN j ELSE NIters
    [] pc = "done" -> NIters
    [] OTHER -> IF Past(m, j) THEN base + NumBanks + j ELSE base + j

\* The bank whose copy has been waited for and which waits for its next one.
Between(m, j) == pc \in {"touch", "next"} /\ m = l /\ j = k

PositionInv ==
  /\ pc = "fill" => base = 0 /\ k < NIters
  /\ pc \in {"wait", "touch", "next"} => base + k < NIters
  /\ pc = "touch" => vmem[<<l, k>>] = base + k

BankInv ==
  \A m \in Lanes, j \in Banks : \A c \in Nat : c = ChunkOf(m, j) =>
    IF Between(m, j) \/ c >= NIters THEN IdleBank(m, j) ELSE Serves(m, j, c)

\* Chunks used before are landed, chunks not yet started are not.
LandedInv ==
  \A m \in Lanes, c \in Chunks :
    /\ c < UsedInLane(m) => landed[<<m, c>>] = 1
    /\ StartedInLane(m) <= c => landed[<<m, c>>] = 0

PipeInv == TypeOK /\ PositionInv /\ BankInv /\ LandedInv

-----------------------------------------------------------------------------
LEMMA Constants ==
  /\ NIters \in Nat /\ NumBanks \in Nat /\ NumBanks > 0
  /\ NumLanes \in Nat /\ NumLanes > 0
  /\ \A m \in Lanes : Kinds[m] \in {"read", "write"} /\ m \in Nat
BY NItersAssumption, NumBanksAssumption, KindsAssumption DEF NumLanes, Lanes

LEMMA InitPipeInv == Init => PipeInv
<1> SUFFICES ASSUME Init PROVE PipeInv
  OBVIOUS
<1> USE Constants DEF Init, Lanes, Banks, Chunks
<1>1. TypeOK
  BY DEF TypeOK
<1>2. PositionInv
  BY DEF PositionInv
<1>3. BankInv
  BY DEF BankInv, IdleBank, Serves, ChunkOf, Past, Between
<1>4. LandedInv
  BY DEF LandedInv, UsedInLane, StartedInLane
<1>5. QED
  BY <1>1, <1>2, <1>3, <1>4 DEF PipeInv

\* Starting a copy in an idle bank of a chunk that has not landed.
LEMMA LaunchServes ==
  ASSUME TypeOK, NEW m \in Lanes, NEW j \in Banks, NEW c \in Chunks,
         IdleBank(m, j), landed[<<m, c>>] = 0, Launch(m, j, c),
         UNCHANGED <<sem, vmem, landed>>
  PROVE  /\ Serves(m, j, c)'
         /\ flight' \in [Lanes \X Banks -> SUBSET Chunks]
         /\ \A n \in Lanes, i \in Banks : <<n, i>> # <<m, j>> =>
              /\ IdleBank(n, i) => IdleBank(n, i)'
              /\ \A d \in Nat : Serves(n, i, d) => Serves(n, i, d)'
<1>1. flight' = [flight EXCEPT ![<<m, j>>] = @ \union {c}] /\ <<m, j>> \in Lanes \X Banks
  BY DEF Launch
<1>2. flight'[<<m, j>>] = {c}
  BY <1>1 DEF TypeOK, IdleBank
<1>3. \A n \in Lanes, i \in Banks : <<n, i>> # <<m, j>> => flight'[<<n, i>>] = flight[<<n, i>>]
  BY <1>1 DEF TypeOK
<1>4. sem' = sem /\ vmem' = vmem /\ landed' = landed
  OBVIOUS
<1>5. Serves(m, j, c)'
  BY <1>2, <1>4 DEF IdleBank, Serves
<1>6. flight' \in [Lanes \X Banks -> SUBSET Chunks]
  BY <1>1 DEF TypeOK
<1>7. ASSUME NEW n \in Lanes, NEW i \in Banks, <<n, i>> # <<m, j>>
      PROVE  /\ IdleBank(n, i) => IdleBank(n, i)'
             /\ \A d \in Nat : Serves(n, i, d) => Serves(n, i, d)'
  BY <1>3, <1>4, <1>7 DEF IdleBank, Serves
<1>8. QED
  BY <1>5, <1>6, <1>7

\* The first lanes of the first banks are started; the others are idle.  (a
\* and b are the values of l and k before the step.)
LEMMA FillPipeInv ==
  ASSUME PipeInv, Fill, NEW a \in Lanes, NEW b \in Banks, a = l, b = k
  PROVE  PipeInv'
<1> USE Constants DEF PipeInv
<1>1. /\ pc = "fill" /\ base = 0 /\ base' = base /\ k \in Banks /\ l \in Lanes /\ k \in Chunks
      /\ k \in Nat /\ l \in Nat /\ Launch(a, b, b) /\ b \in Chunks
      /\ UNCHANGED <<sem, vmem, landed>>
  BY DEF Fill, PositionInv, TypeOK, Banks, Chunks, Lanes
<1>2. ~ Past(a, b) /\ ~ Between(a, b) /\ ChunkOf(a, b) = NIters
  BY <1>1 DEF Past, Between, ChunkOf
<1>3. IdleBank(a, b)
  BY <1>1, <1>2 DEF BankInv
<1>4. landed[<<a, b>>] = 0
  <2>1. StartedInLane(a) = b
    BY <1>1 DEF StartedInLane, Chunks
  <2>2. QED
    BY <1>1, <2>1 DEF LandedInv, Chunks
<1>5. /\ Serves(a, b, b)'
      /\ flight' \in [Lanes \X Banks -> SUBSET Chunks]
      /\ \A n \in Lanes, i \in Banks : <<n, i>> # <<a, b>> =>
           /\ IdleBank(n, i) => IdleBank(n, i)'
           /\ \A d \in Nat : Serves(n, i, d) => Serves(n, i, d)'
  BY <1>1, <1>3, <1>4, LaunchServes
<1>6. \/ l < NumLanes /\ l' = l + 1 /\ pc' = "fill" /\ k' = k
      \/ l = NumLanes /\ Fills(k + 1) /\ l' = 1 /\ k' = k + 1 /\ pc' = "fill"
      \/ l = NumLanes /\ ~ Fills(k + 1) /\ l' = 1 /\ k' = 0 /\ pc' = "wait"
  BY <1>1 DEF Fill, Lanes
<1>7. TypeOK'
  BY <1>1, <1>5, <1>6 DEF TypeOK, Fills, Banks, Lanes
<1>8. PositionInv'
  BY <1>1, <1>6 DEF PositionInv, Fills, Banks, Chunks
<1>9. BankInv'
  <2> SUFFICES ASSUME NEW m \in Lanes, NEW j \in Banks, NEW c \in Nat, c = ChunkOf(m, j)'
               PROVE  IF Between(m, j)' \/ c >= NIters THEN IdleBank(m, j)' ELSE Serves(m, j, c)'
    BY DEF BankInv
  <2>1. ~ Between(m, j)' /\ ~ Between(m, j) /\ m \in Nat /\ j \in Nat /\ m <= NumLanes /\ j < NumBanks
    BY <1>1, <1>6 DEF Between, Lanes, Banks
  <2>2. CASE m = a /\ j = b
    <3>1. c = b
      BY <1>1, <1>6, <2>2 DEF ChunkOf, Past, Fills
    <3>2. QED
      BY <2>1, <2>2, <3>1, <1>1, <1>5 DEF Chunks
  <2>3. CASE ~ (m = a /\ j = b)
    <3>1. ChunkOf(m, j) \in Nat /\ (c = ChunkOf(m, j) \/ (ChunkOf(m, j) >= NIters /\ c >= NIters))
      BY <1>1, <1>6, <2>1, <2>3 DEF ChunkOf, Past, Fills, Lanes, Banks, Chunks
    <3>2. QED
      BY <2>1, <2>3, <3>1, <1>5 DEF BankInv
  <2>4. QED
    BY <2>2, <2>3
<1>10. LandedInv'
  <2> SUFFICES ASSUME NEW m \in Lanes, NEW c \in Chunks
               PROVE  /\ c < UsedInLane(m)' => landed'[<<m, c>>] = 1
                      /\ StartedInLane(m)' <= c => landed'[<<m, c>>] = 0
    BY DEF LandedInv
  <2>1. UsedInLane(m)' = 0 /\ UsedInLane(m) = 0
    BY <1>1, <1>6 DEF UsedInLane, Lanes
  <2>2. StartedInLane(m) <= StartedInLane(m)' /\ StartedInLane(m) \in Int
        /\ StartedInLane(m)' \in Int
    BY <1>1, <1>6 DEF StartedInLane, Lanes, Fills, Banks, Chunks
  <2>3. QED
    BY <2>1, <2>2, <1>1 DEF LandedInv, Chunks
<1>11. QED
  BY <1>7, <1>8, <1>9, <1>10

\* Waiting takes the only completion of a bank that serves its chunk.
LEMMA WaitPipeInv ==
  ASSUME PipeInv, Wait, NEW a \in Lanes, NEW b \in Banks, a = l, b = k
  PROVE  PipeInv'
<1> USE Constants DEF PipeInv
<1>1. /\ pc = "wait" /\ pc' \in {"touch", "next"} /\ sem[<<a, b>>] > 0
      /\ UNCHANGED <<base, k, l, flight, vmem, landed>>
      /\ base \in Nat /\ k \in Nat /\ l \in Nat /\ base + k < NIters
      /\ base + b \in Chunks /\ base + b \in Nat
  BY DEF Wait, Completed, PositionInv, TypeOK, Banks, Chunks, Lanes
<1>2. ~ Between(a, b) /\ ChunkOf(a, b) = base + b
  BY <1>1 DEF Between, ChunkOf, Past
<1>3. Serves(a, b, base + b)
  BY <1>1, <1>2 DEF BankInv
<1>4. flight[<<a, b>>] = {} /\ sem[<<a, b>>] = 1 /\ vmem[<<a, b>>] = base + b
      /\ landed[<<a, base + b>>] = 1
  BY <1>1, <1>3 DEF Serves
<1>5. /\ sem'[<<a, b>>] = 0 /\ sem' \in [Lanes \X Banks -> Nat]
      /\ \A m \in Lanes, j \in Banks : <<m, j>> # <<a, b>> => sem'[<<m, j>>] = sem[<<m, j>>]
  BY <1>4 DEF Wait, TypeOK
<1>6. TypeOK'
  BY <1>1, <1>5 DEF TypeOK
<1>7. PositionInv'
  BY <1>1, <1>4 DEF PositionInv
<1>8. BankInv'
  <2> SUFFICES ASSUME NEW m \in Lanes, NEW j \in Banks, NEW c \in Nat, c = ChunkOf(m, j)'
               PROVE  IF Between(m, j)' \/ c >= NIters THEN IdleBank(m, j)' ELSE Serves(m, j, c)'
    BY DEF BankInv
  <2>1. c = ChunkOf(m, j) /\ ~ Between(m, j)
    BY <1>1 DEF ChunkOf, Past, Between
  <2>2. CASE m = a /\ j = b
    BY <2>2, <1>1, <1>4, <1>5 DEF Between, IdleBank
  <2>3. CASE ~ (m = a /\ j = b)
    <3>1. ~ Between(m, j)' /\ sem'[<<m, j>>] = sem[<<m, j>>]
      BY <2>3, <1>1, <1>5 DEF Between
    <3>2. QED
      BY <2>1, <3>1, <1>1 DEF BankInv, IdleBank, Serves
  <2>4. QED
    BY <2>2, <2>3
<1>9. LandedInv'
  <2> SUFFICES ASSUME NEW m \in Lanes, NEW c \in Chunks
               PROVE  /\ c < UsedInLane(m)' => landed[<<m, c>>] = 1
                      /\ StartedInLane(m)' <= c => landed[<<m, c>>] = 0
    BY <1>1 DEF LandedInv
  <2>1. StartedInLane(m)' = StartedInLane(m)
    BY <1>1 DEF StartedInLane
  <2>2. UsedInLane(m)' = UsedInLane(m) \/ (m = a /\ UsedInLane(m) = base + b /\ UsedInLane(m)' = base + b + 1)
    BY <1>1 DEF UsedInLane, Lanes
  <2>3. QED
    BY <2>1, <2>2, <1>1, <1>4 DEF LandedInv, Chunks
<1>10. QED
  BY <1>6, <1>7, <1>8, <1>9

LEMMA TouchPipeInv ==
  ASSUME PipeInv, Touch
  PROVE  PipeInv'
<1> USE DEF PipeInv
<1>1. pc = "touch" /\ pc' = "next" /\ UNCHANGED <<base, k, l, flight, sem, vmem, landed>>
  BY DEF Touch
<1>2. TypeOK' /\ PositionInv'
  BY <1>1 DEF TypeOK, PositionInv
<1>3. BankInv'
  <2> SUFFICES ASSUME NEW m \in Lanes, NEW j \in Banks, NEW c \in Nat, c = ChunkOf(m, j)'
               PROVE  IF Between(m, j)' \/ c >= NIters THEN IdleBank(m, j)' ELSE Serves(m, j, c)'
    BY DEF BankInv
  <2>1. c = ChunkOf(m, j) /\ (Between(m, j)' <=> Between(m, j))
    BY <1>1 DEF ChunkOf, Past, Between
  <2>2. IF Between(m, j) \/ c >= NIters THEN IdleBank(m, j) ELSE Serves(m, j, c)
    BY <2>1 DEF BankInv
  <2>3. QED
    BY <2>1, <2>2, <1>1 DEF IdleBank, Serves
<1>4. LandedInv'
  BY <1>1 DEF LandedInv, UsedInLane, StartedInLane
<1>5. QED
  BY <1>2, <1>3, <1>4

\* A copy that lands turns a bank in flight into one with a completion.
LEMMA CompletePipeInv ==
  ASSUME PipeInv, NEW a \in Lanes, NEW b \in Banks, Complete(a, b)
  PROVE  PipeInv'
<1> USE Constants DEF PipeInv
<1>1. PICK d \in flight[<<a, b>>] :
        /\ flight' = [flight EXCEPT ![<<a, b>>] = @ \ {d}]
        /\ vmem' = [vmem EXCEPT ![<<a, b>>] = d]
        /\ landed' = [landed EXCEPT ![<<a, d>>] = @ + 1]
        /\ sem' = [sem EXCEPT ![<<a, b>>] = @ + 1]
        /\ UNCHANGED <<pc, base, k, l>>
  BY DEF Complete
<1>2. d \in Chunks /\ d \in Nat
  BY DEF TypeOK, Chunks
<1>3. ChunkOf(a, b) \in Nat
  BY DEF ChunkOf, TypeOK, Banks
<1>4. ~ IdleBank(a, b)
  BY <1>1 DEF IdleBank
<1>5. /\ d = ChunkOf(a, b) /\ ~ Between(a, b) /\ ChunkOf(a, b) < NIters
      /\ flight[<<a, b>>] = {d} /\ sem[<<a, b>>] = 0 /\ landed[<<a, d>>] = 0
  <2>1. ~ Between(a, b) /\ ChunkOf(a, b) < NIters /\ Serves(a, b, ChunkOf(a, b))
    BY <1>3, <1>4 DEF BankInv
  <2>2. QED
    BY <1>1, <2>1 DEF Serves
<1>6. /\ flight'[<<a, b>>] = {} /\ sem'[<<a, b>>] = 1 /\ vmem'[<<a, b>>] = d
      /\ landed'[<<a, d>>] = 1
      /\ \A m \in Lanes, j \in Banks : <<m, j>> # <<a, b>> =>
           /\ flight'[<<m, j>>] = flight[<<m, j>>] /\ sem'[<<m, j>>] = sem[<<m, j>>]
           /\ vmem'[<<m, j>>] = vmem[<<m, j>>]
      /\ \A m \in Lanes, c \in Chunks : <<m, c>> # <<a, d>> => landed'[<<m, c>>] = landed[<<m, c>>]
  BY <1>1, <1>2, <1>5 DEF TypeOK
<1>7. TypeOK'
  BY <1>1, <1>2 DEF TypeOK, Chunks
<1>8. PositionInv'
  <2>1. pc = "touch" => Between(l, k) /\ l \in Lanes /\ k \in Banks
    BY DEF Between, TypeOK
  <2>2. pc = "touch" => <<l, k>> # <<a, b>>
    BY <2>1, <1>5
  <2>3. QED
    BY <1>1, <1>6, <2>1, <2>2 DEF PositionInv
<1>9. BankInv'
  <2> SUFFICES ASSUME NEW m \in Lanes, NEW j \in Banks, NEW c \in Nat, c = ChunkOf(m, j)
               PROVE  IF Between(m, j) \/ c >= NIters THEN IdleBank(m, j)' ELSE Serves(m, j, c)'
    BY <1>1 DEF BankInv, ChunkOf, Past, Between
  <2>1. CASE m = a /\ j = b
    BY <2>1, <1>5, <1>6 DEF Serves
  <2>2. CASE ~ (m = a /\ j = b) /\ (Between(m, j) \/ c >= NIters)
    BY <2>2, <1>6 DEF BankInv, IdleBank
  <2>3. CASE ~ (m = a /\ j = b) /\ ~ Between(m, j) /\ c < NIters
    <3>1. Serves(m, j, c) /\ c \in Chunks
      BY <2>3 DEF BankInv, Chunks
    <3>2. <<m, c>> # <<a, d>>
      <4>1. m = a => j # b
        BY <2>3
      <4>2. m = a => ChunkOf(m, j) # ChunkOf(a, b)
        <5>1. base \in Nat /\ k \in Nat /\ j \in 0 .. NumBanks - 1 /\ b \in 0 .. NumBanks - 1
          BY DEF TypeOK, Banks
        <5>2. m = a => ChunkOf(m, j) < NIters /\ ChunkOf(a, b) < NIters
          BY <2>3, <1>5
        <5>3. QED
          BY <5>1, <5>2, <4>1 DEF ChunkOf, Past
      <4>3. QED
        BY <4>2, <1>5
    <3>3. QED
      BY <2>3, <3>1, <3>2, <1>6 DEF Serves
  <2>4. QED
    BY <2>1, <2>2, <2>3
<1>10. LandedInv'
  <2>1. UsedInLane(a) <= d /\ d < StartedInLane(a)
    BY <1>2, <1>5 DEF ChunkOf, Between, Past, UsedInLane, StartedInLane, TypeOK, Banks, Lanes, Chunks
  <2>2. \A m : UsedInLane(m)' = UsedInLane(m) /\ StartedInLane(m)' = StartedInLane(m)
    BY <1>1 DEF UsedInLane, StartedInLane
  <2>3. UsedInLane(a) \in Int /\ StartedInLane(a) \in Int
    BY DEF UsedInLane, StartedInLane, TypeOK, Banks
  <2> SUFFICES ASSUME NEW m \in Lanes, NEW c \in Chunks
               PROVE  /\ c < UsedInLane(m) => landed'[<<m, c>>] = 1
                      /\ StartedInLane(m) <= c => landed'[<<m, c>>] = 0
    BY <2>2 DEF LandedInv
  <2>4. CASE m = a /\ c = d
    BY <2>1, <2>3, <2>4, <1>2
  <2>5. CASE ~ (m = a /\ c = d)
    BY <2>5, <1>6 DEF LandedInv
  <2>6. QED
    BY <2>4, <2>5
<1>11. QED
  BY <1>7, <1>8, <1>9, <1>10

\* Where Restart takes the program, in the terms of a and b.
LEMMA RestartSteps ==
  ASSUME PipeInv, Restart, NEW a \in Lanes, NEW b \in Banks, a = l, b = k
  PROVE  /\ pc = "next" /\ base \in Nat /\ base' \in Nat /\ b < NumBanks /\ b \in Nat
         /\ a \in Nat /\ 1 <= a /\ a <= NumLanes /\ base + b < NIters
         /\ UNCHANGED <<sem, vmem, landed>>
         /\ \/ a < NumLanes /\ l' = a + 1 /\ k' = b /\ base' = base /\ pc' = "wait"
            \/ /\ a = NumLanes /\ b + 1 < NumBanks /\ base + b + 1 < NIters
               /\ l' = 1 /\ k' = b + 1 /\ base' = base /\ pc' = "wait"
            \/ /\ a = NumLanes /\ b + 1 = NumBanks /\ base + NumBanks < NIters
               /\ l' = 1 /\ k' = 0 /\ base' = base + NumBanks /\ pc' = "wait"
            \/ /\ a = NumLanes /\ (base + b + 1 = NIters \/ b + 1 = NumBanks)
               /\ base + NumBanks >= NIters /\ base + b + 1 >= NIters
               /\ l' = a /\ k' = b /\ base' = base /\ pc' = "done"
<1> USE Constants DEF PipeInv
<1>1. /\ pc = "next" /\ base \in Nat /\ b < NumBanks /\ b \in Nat
      /\ a \in Nat /\ 1 <= a /\ a <= NumLanes /\ base + b < NIters
      /\ UNCHANGED <<sem, vmem, landed>>
  BY DEF Restart, PositionInv, TypeOK, Lanes, Banks
<1>2. CASE l < NumLanes /\ l' = l + 1 /\ pc' = "wait" /\ UNCHANGED <<base, k>>
  BY <1>1, <1>2
<1>3. CASE l = NumLanes /\ InRound(k + 1) /\ l' = 1 /\ k' = k + 1 /\ pc' = "wait" /\ UNCHANGED base
  BY <1>1, <1>3 DEF InRound
<1>4. CASE /\ l = NumLanes /\ ~ InRound(k + 1) /\ MoreRounds
           /\ l' = 1 /\ k' = 0 /\ base' = base + NumBanks /\ pc' = "wait"
  <2>1. b + 1 = NumBanks /\ base + NumBanks < NIters /\ base' \in Nat
    BY <1>1, <1>4 DEF InRound, MoreRounds
  <2>2. QED
    BY <1>1, <1>4, <2>1
<1>5. CASE l = NumLanes /\ ~ InRound(k + 1) /\ ~ MoreRounds /\ pc' = "done" /\ UNCHANGED <<base, k, l>>
  <2>1. /\ base + NumBanks >= NIters
        /\ base + b + 1 >= NIters /\ (base + b + 1 = NIters \/ b + 1 = NumBanks)
    BY <1>1, <1>5 DEF InRound, MoreRounds
  <2>2. QED
    BY <1>1, <1>5, <2>1
<1>6. QED
  BY <1>1, <1>2, <1>3, <1>4, <1>5 DEF Restart, Lanes

\* A bank that was waited for is given its next chunk, if there is one, and
\* the program goes on to the bank whose chunk is the next to be used.
LEMMA RestartPipeInv ==
  ASSUME PipeInv, Restart, NEW a \in Lanes, NEW b \in Banks, a = l, b = k,
         NEW n \in Nat, n = base + b + NumBanks
  PROVE  PipeInv'
<1> USE Constants DEF PipeInv
<1>1. /\ pc = "next" /\ base \in Nat /\ base' \in Nat /\ b < NumBanks /\ b \in Nat
      /\ a \in Nat /\ 1 <= a /\ a <= NumLanes /\ base + b < NIters
      /\ UNCHANGED <<sem, vmem, landed>>
  BY RestartSteps
<1>2. \/ a < NumLanes /\ l' = a + 1 /\ k' = b /\ base' = base /\ pc' = "wait"
      \/ /\ a = NumLanes /\ b + 1 < NumBanks /\ base + b + 1 < NIters
         /\ l' = 1 /\ k' = b + 1 /\ base' = base /\ pc' = "wait"
      \/ /\ a = NumLanes /\ b + 1 = NumBanks /\ base + NumBanks < NIters
         /\ l' = 1 /\ k' = 0 /\ base' = base + NumBanks /\ pc' = "wait"
      \/ /\ a = NumLanes /\ (base + b + 1 = NIters \/ b + 1 = NumBanks)
         /\ base + NumBanks >= NIters /\ base + b + 1 >= NIters
         /\ l' = a /\ k' = b /\ base' = base /\ pc' = "done"
  BY RestartSteps
<1>3. IdleBank(a, b)
  <2>1. Between(a, b) /\ ChunkOf(a, b) \in Nat
    BY <1>1 DEF Between, ChunkOf, Past
  <2>2. QED
    BY <2>1 DEF BankInv
<1>4. IF n < NIters THEN Launch(a, b, n) ELSE flight' = flight
  BY DEF Restart, HasNext, NextChunk
<1>5. n < NIters => n \in Chunks /\ landed[<<a, n>>] = 0
  <2>1. n < NIters => n \in Chunks /\ StartedInLane(a) = n
    BY <1>1 DEF StartedInLane, Chunks
  <2>2. QED
    BY <2>1, <1>1 DEF LandedInv
<1>6. /\ IF n < NIters THEN Serves(a, b, n)' ELSE IdleBank(a, b)'
      /\ flight' \in [Lanes \X Banks -> SUBSET Chunks]
      /\ \A m \in Lanes, i \in Banks : <<m, i>> # <<a, b>> =>
           /\ IdleBank(m, i) => IdleBank(m, i)'
           /\ \A d \in Nat : Serves(m, i, d) => Serves(m, i, d)'
  <2>1. CASE n < NIters
    <3>1. n \in Chunks /\ landed[<<a, n>>] = 0 /\ Launch(a, b, n)
      BY <2>1, <1>4, <1>5
    <3>2. QED
      BY <2>1, <3>1, <1>1, <1>3, LaunchServes
  <2>2. CASE ~ (n < NIters)
    BY <2>2, <1>1, <1>3, <1>4 DEF IdleBank, Serves, TypeOK
  <2>3. QED
    BY <2>1, <2>2
<1>7. TypeOK'
  BY <1>1, <1>2, <1>6 DEF TypeOK, Lanes, Banks
<1>8. PositionInv'
  BY <1>1, <1>2 DEF PositionInv
<1>9. BankInv'
  <2> SUFFICES ASSUME NEW m \in Lanes, NEW j \in Banks, NEW c \in Nat, c = ChunkOf(m, j)'
               PROVE  IF Between(m, j)' \/ c >= NIters THEN IdleBank(m, j)' ELSE Serves(m, j, c)'
    BY DEF BankInv
  <2>1. ~ Between(m, j)' /\ m \in 1 .. NumLanes /\ j \in 0 .. NumBanks - 1
    BY <1>2 DEF Between, Lanes, Banks
  <2>2. CASE m = a /\ j = b
    <3>1. c = n \/ (c >= NIters /\ n >= NIters)
      BY <1>1, <1>2, <2>2 DEF ChunkOf, Past
    <3>2. QED
      BY <2>1, <2>2, <3>1, <1>6
  <2>3. CASE ~ (m = a /\ j = b)
    <3>1. ChunkOf(m, j) \in Nat /\ (c = ChunkOf(m, j) \/ (ChunkOf(m, j) >= NIters /\ c >= NIters))
      <4>1. ChunkOf(m, j) = IF j < b \/ (j = b /\ m < a) THEN base + NumBanks + j ELSE base + j
        BY <1>1 DEF ChunkOf, Past
      <4>2. ChunkOf(m, j)' = IF pc' = "done" THEN NIters
                             ELSE IF j < k' \/ (j = k' /\ m < l') THEN base' + NumBanks + j
                             ELSE base' + j
        BY <1>2 DEF ChunkOf, Past
      <4>3. j \in Nat /\ j < NumBanks /\ m \in Nat /\ 1 <= m /\ m <= NumLanes
        BY <2>1
      <4>4. CASE pc' = "done"
        BY <1>1, <1>2, <2>3, <4>1, <4>2, <4>3, <4>4
      <4>5. CASE l' = a + 1 /\ k' = b /\ base' = base /\ pc' = "wait"
        BY <1>1, <2>3, <4>1, <4>2, <4>3, <4>5
      <4>6. CASE a = NumLanes /\ l' = 1 /\ k' = b + 1 /\ base' = base /\ pc' = "wait"
        BY <1>1, <2>3, <4>1, <4>2, <4>3, <4>6
      <4>7. CASE /\ a = NumLanes /\ b + 1 = NumBanks /\ l' = 1 /\ k' = 0
                 /\ base' = base + NumBanks /\ pc' = "wait"
        BY <1>1, <2>3, <4>1, <4>2, <4>3, <4>7
      <4>8. QED
        BY <1>2, <4>4, <4>5, <4>6, <4>7
    <3>2. ~ Between(m, j)
      BY <2>3 DEF Between
    <3>3. QED
      BY <2>1, <2>3, <3>1, <3>2, <1>6 DEF BankInv
  <2>4. QED
    BY <2>2, <2>3
<1>10. LandedInv'
  <2> SUFFICES ASSUME NEW m \in Lanes, NEW c \in Chunks
               PROVE  /\ c < UsedInLane(m)' => landed[<<m, c>>] = 1
                      /\ StartedInLane(m)' <= c => landed[<<m, c>>] = 0
    BY <1>1 DEF LandedInv
  <2>1. m \in 1 .. NumLanes /\ c \in Nat
    BY DEF Lanes, Chunks
  <2>2. UsedInLane(m)' = UsedInLane(m)
    <3>1. UsedInLane(m) = IF m <= a THEN base + b + 1 ELSE base + b
      BY <1>1, <2>1 DEF UsedInLane
    <3>2. UsedInLane(m)' = IF pc' = "done" THEN NIters
                           ELSE IF m < l' THEN base' + k' + 1 ELSE base' + k'
      BY <1>2 DEF UsedInLane
    <3>3. QED
      BY <1>1, <1>2, <2>1, <3>1, <3>2
  <2>3. StartedInLane(m) \in Int /\ StartedInLane(m)' \in Int /\ StartedInLane(m) <= StartedInLane(m)'
    BY <1>1, <1>2, <2>1 DEF StartedInLane
  <2>4. QED
    BY <2>1, <2>2, <2>3 DEF LandedInv
<1>11. QED
  BY <1>7, <1>8, <1>9, <1>10

LEMMA NextPipeInv == PipeInv /\ [Next]_vars => PipeInv'
<1> SUFFICES ASSUME PipeInv, [Next]_vars PROVE PipeInv'
  OBVIOUS
<1> PICK a \in Lanes, b \in Banks, n \in Nat : a = l /\ b = k /\ n = base + b + NumBanks
  BY Constants DEF PipeInv, TypeOK, Banks
<1>1. CASE Fill
  BY <1>1, FillPipeInv
<1>2. CASE Wait
  BY <1>2, WaitPipeInv
<1>3. CASE Touch
  BY <1>3, TouchPipeInv
<1>4. CASE Restart
  BY <1>4, RestartPipeInv
<1>5. CASE Engine
  BY <1>5, CompletePipeInv DEF Engine
<1>6. CASE UNCHANGED vars
  BY <1>6 DEF vars, PipeInv, TypeOK, PositionInv, BankInv, LandedInv, Between, ChunkOf, Past,
     IdleBank, Serves, UsedInLane, StartedInLane
<1>7. QED
  BY <1>1, <1>2, <1>3, <1>4, <1>5, <1>6 DEF Next, Program

-----------------------------------------------------------------------------
(* The safety properties.                                                  *)

\* PipeInv is an invariant of every instance of the kernel.
THEOREM PipeInvariance == Spec => []PipeInv
<1>1. QED
  BY InitPipeInv, NextPipeInv, PTL DEF Spec

\* The variables of the kernel keep their types; in particular no copy ever
\* names a chunk outside the array.
THEOREM TypeCorrect == Spec => []TypeOK
<1>1. PipeInv => TypeOK
  BY DEF PipeInv
<1>2. QED
  BY <1>1, PipeInvariance, PTL

\* A bank serves one DMA at a time.
THEOREM BanksApart == Spec => []BankNotShared
<1>1. ASSUME PipeInv, NEW m \in Lanes, NEW j \in Banks
      PROVE  Cardinality(flight[<<m, j>>]) + sem[<<m, j>>] <= 1
  <2>1. ChunkOf(m, j) \in Nat
    BY <1>1, Constants DEF ChunkOf, PipeInv, TypeOK, Banks
  <2>2. IdleBank(m, j) \/ Serves(m, j, ChunkOf(m, j))
    BY <1>1, <2>1 DEF PipeInv, BankInv
  <2>3. \/ flight[<<m, j>>] = {} /\ sem[<<m, j>>] \in {0, 1}
        \/ flight[<<m, j>>] = {ChunkOf(m, j)} /\ sem[<<m, j>>] = 0
    BY <2>2 DEF IdleBank, Serves
  <2>4. Cardinality({}) = 0 /\ Cardinality({ChunkOf(m, j)}) = 1
    BY FS_EmptySet, FS_Singleton
  <2>5. QED
    BY <2>3, <2>4
<1>2. PipeInv => BankNotShared
  BY <1>1 DEF BankNotShared
<1>3. QED
  BY <1>2, PipeInvariance, PTL

\* What is touched is the whole chunk it stands for.
THEOREM TouchIsSound == Spec => []TouchSeesItsChunk
<1>1. ASSUME PipeInv, pc = "touch"
      PROVE  vmem[<<l, k>>] = base + k /\ flight[<<l, k>>] = {}
  <2>1. PICK a \in Lanes, b \in Banks : a = l /\ b = k
    BY <1>1 DEF PipeInv, TypeOK
  <2>2. Between(a, b) /\ ChunkOf(a, b) \in Nat
    BY <1>1, <2>1, Constants DEF Between, ChunkOf, Past, PipeInv, TypeOK, Banks
  <2>3. IdleBank(a, b)
    BY <1>1, <2>2 DEF PipeInv, BankInv
  <2>4. QED
    BY <1>1, <2>1, <2>3 DEF IdleBank, PipeInv, PositionInv
<1>2. PipeInv => TouchSeesItsChunk
  BY <1>1 DEF TouchSeesItsChunk
<1>3. QED
  BY <1>2, PipeInvariance, PTL

\* A kernel that returns has moved every chunk of every lane once and has
\* left no DMA behind.
THEOREM MovesEverything == Spec => []AllChunksMoved
<1>1. ASSUME PipeInv, pc = "done", NEW m \in Lanes
      PROVE  /\ \A c \in Chunks : landed[<<m, c>>] = 1
             /\ \A j \in Banks : flight[<<m, j>>] = {} /\ sem[<<m, j>>] = 0
  <2>1. UsedInLane(m) = NIters /\ \A c \in Chunks : c < NIters
    BY <1>1, Constants DEF UsedInLane, Chunks
  <2>2. \A j \in Banks : ChunkOf(m, j) = NIters
    BY <1>1 DEF ChunkOf
  <2>3. QED
    BY <1>1, <2>1, <2>2, Constants DEF PipeInv, LandedInv, BankInv, IdleBank
<1>2. PipeInv => AllChunksMoved
  BY <1>1 DEF AllChunksMoved
<1>3. QED
  BY <1>2, PipeInvariance, PTL

\* Every bank that still has a chunk to serve is kept busy.
THEOREM StaysFull == Spec => []PipelineIsFull
<1>1. ASSUME PipeInv, pc = "wait", NEW m \in Lanes, NEW c \in Chunks,
             base + k <= c, c < base + k + NumBanks, landed[<<m, c>>] = 0
      PROVE  \E j \in Banks : c \in flight[<<m, j>>]
  <2>1. base \in Nat /\ k \in Nat /\ k < NumBanks /\ l \in Nat /\ m \in Nat /\ c \in Nat /\ c < NIters
    BY <1>1, Constants DEF PipeInv, TypeOK, Banks, Lanes, Chunks
  <2>2. ~ (c = base + k /\ m < l)
    <3>1. c = base + k /\ m < l => c < UsedInLane(m)
      BY <1>1, <2>1 DEF UsedInLane
    <3>2. QED
      BY <1>1, <3>1 DEF PipeInv, LandedInv
  <2>3. PICK j \in Banks : c = ChunkOf(m, j)
    <3>1. CASE c < base + NumBanks
      <4>1. c - base \in Banks /\ ChunkOf(m, c - base) = c
        BY <1>1, <2>1, <2>2, <3>1, Constants DEF Banks, ChunkOf, Past
      <4>2. QED
        BY <4>1
    <3>2. CASE base + NumBanks <= c
      <4>1. c - base - NumBanks \in Banks /\ ChunkOf(m, c - base - NumBanks) = c
        BY <1>1, <2>1, <3>2, Constants DEF Banks, ChunkOf, Past
      <4>2. QED
        BY <4>1
    <3>3. QED
      BY <2>1, <3>1, <3>2, Constants
  <2>4. Serves(m, j, c)
    BY <1>1, <2>1, <2>3, Constants DEF PipeInv, BankInv, Between
  <2>5. QED
    BY <1>1, <2>4 DEF Serves
<1>2. PipeInv => PipelineIsFull
  BY <1>1 DEF PipelineIsFull
<1>3. QED
  BY <1>2, PipeInvariance, PTL

-----------------------------------------------------------------------------
(* The refinement.                                                         *)

barVars == <<startedBar, landedBar, usedBar>>

LEMMA InitStreams == Init => WS!Init
<1> SUFFICES ASSUME Init PROVE WS!Init
  OBVIOUS
<1> USE Constants DEF Init, Lanes
<1>1. \A m \in Lanes : StartedInLane(m) = 0 /\ UsedInLane(m) = 0
  BY DEF StartedInLane, UsedInLane
<1>2. \A m \in Lanes : {c \in Chunks : landed[<<m, c>>] > 0} = {}
  OBVIOUS
<1>3. QED
  BY <1>1, <1>2 DEF WS!Init, startedBar, landedBar, usedBar

\* Only lane a starts a chunk, and nothing else is seen to change.
LEMMA StartRefines ==
  ASSUME PipeInv, NEW a \in Lanes, landed' = landed,
         \A m \in Lanes : UsedInLane(m)' = UsedInLane(m),
         \A m \in Lanes : m # a => StartedInLane(m)' = StartedInLane(m),
         \/ StartedInLane(a)' = StartedInLane(a)
         \/ /\ StartedInLane(a)' = StartedInLane(a) + 1
            /\ StartedInLane(a) < NIters
            /\ StartedInLane(a) < UsedInLane(a) + NumBanks
  PROVE  WS!Next \/ UNCHANGED barVars
<1>1. landedBar' = landedBar /\ usedBar' = usedBar
  BY DEF landedBar, usedBar
<1>2. CASE StartedInLane(a)' = StartedInLane(a)
  <2>1. \A m \in Lanes : StartedInLane(m)' = StartedInLane(m)
    BY <1>2
  <2>2. startedBar' = startedBar
    BY <2>1 DEF startedBar
  <2>3. QED
    BY <1>1, <2>2 DEF barVars
<1>3. CASE /\ StartedInLane(a)' = StartedInLane(a) + 1
           /\ StartedInLane(a) < NIters
           /\ StartedInLane(a) < UsedInLane(a) + NumBanks
  <2>1. startedBar[a] = StartedInLane(a) /\ usedBar[a] = UsedInLane(a)
    BY DEF startedBar, usedBar
  <2>2. startedBar' = [startedBar EXCEPT ![a] = @ + 1]
    BY <1>3, <2>1 DEF startedBar
  <2>3. WS!Start(a)
    BY <1>1, <1>3, <2>1, <2>2 DEF WS!Start
  <2>4. QED
    BY <2>3 DEF WS!Next
<1>4. QED
  BY <1>2, <1>3

LEMMA FillRefines ==
  ASSUME PipeInv, Fill
  PROVE  WS!Next \/ UNCHANGED barVars
<1> USE Constants
<1> PICK a \in Lanes, b \in Banks : a = l /\ b = k
  BY DEF PipeInv, TypeOK
<1>1. /\ pc = "fill" /\ base = 0 /\ base' = base /\ b \in Nat /\ b < NumBanks /\ b < NIters
      /\ a \in 1 .. NumLanes /\ landed' = landed
  BY DEF Fill, PipeInv, PositionInv, TypeOK, Banks, Lanes
<1>2. \/ a < NumLanes /\ l' = a + 1 /\ pc' = "fill" /\ k' = b
      \/ a = NumLanes /\ Fills(b + 1) /\ l' = 1 /\ k' = b + 1 /\ pc' = "fill"
      \/ a = NumLanes /\ ~ Fills(b + 1) /\ l' = 1 /\ k' = 0 /\ pc' = "wait"
  BY <1>1 DEF Fill, Lanes
<1>3. ASSUME NEW m \in Lanes
      PROVE  /\ UsedInLane(m) = 0 /\ UsedInLane(m)' = 0
             /\ StartedInLane(m) = IF m < a THEN b + 1 ELSE b
             /\ StartedInLane(m)' = IF m <= a THEN b + 1 ELSE b
  <2>1. m \in 1 .. NumLanes
    BY DEF Lanes
  <2>2. UsedInLane(m) = 0 /\ UsedInLane(m)' = 0
    BY <1>1, <1>2, <2>1 DEF UsedInLane
  <2>3. StartedInLane(m) = IF m < a THEN b + 1 ELSE b
    BY <1>1, <2>1 DEF StartedInLane
  <2>4. StartedInLane(m)' = IF m <= a THEN b + 1 ELSE b
    BY <1>1, <1>2, <2>1 DEF StartedInLane, Fills
  <2>5. QED
    BY <2>2, <2>3, <2>4
<1>4. \A m \in Lanes : m # a => StartedInLane(m)' = StartedInLane(m)
  BY <1>1, <1>3 DEF Lanes
<1>5. StartedInLane(a)' = StartedInLane(a) + 1 /\ StartedInLane(a) = b /\ UsedInLane(a) = 0
  BY <1>1, <1>3
<1>6. QED
  BY <1>1, <1>3, <1>4, <1>5, StartRefines

LEMMA RestartRefines ==
  ASSUME PipeInv, Restart
  PROVE  WS!Next \/ UNCHANGED barVars
<1> USE Constants
<1> PICK a \in Lanes, b \in Banks : a = l /\ b = k
  BY DEF PipeInv, TypeOK
<1> DEFINE Capped(x) == IF x < NIters THEN x ELSE NIters
<1>1. /\ pc = "next" /\ base \in Nat /\ base' \in Nat /\ b < NumBanks /\ b \in Nat
      /\ a \in Nat /\ 1 <= a /\ a <= NumLanes /\ base + b < NIters
      /\ UNCHANGED <<sem, vmem, landed>>
  BY RestartSteps
<1>2. \/ a < NumLanes /\ l' = a + 1 /\ k' = b /\ base' = base /\ pc' = "wait"
      \/ /\ a = NumLanes /\ b + 1 < NumBanks /\ base + b + 1 < NIters
         /\ l' = 1 /\ k' = b + 1 /\ base' = base /\ pc' = "wait"
      \/ /\ a = NumLanes /\ b + 1 = NumBanks /\ base + NumBanks < NIters
         /\ l' = 1 /\ k' = 0 /\ base' = base + NumBanks /\ pc' = "wait"
      \/ /\ a = NumLanes /\ (base + b + 1 = NIters \/ b + 1 = NumBanks)
         /\ base + NumBanks >= NIters /\ base + b + 1 >= NIters
         /\ l' = a /\ k' = b /\ base' = base /\ pc' = "done"
  BY RestartSteps
<1>3. ASSUME NEW m \in Lanes
      PROVE  /\ UsedInLane(m) = (IF m <= a THEN base + b + 1 ELSE base + b)
             /\ UsedInLane(m)' = UsedInLane(m)
             /\ StartedInLane(m) = Capped(base + b + NumBanks + (IF m < a THEN 1 ELSE 0))
             /\ StartedInLane(m)' = Capped(base + b + NumBanks + (IF m <= a THEN 1 ELSE 0))
  <2>1. m \in Nat /\ 1 <= m /\ m <= NumLanes
    BY DEF Lanes
  <2>2. UsedInLane(m) = IF m <= a THEN base + b + 1 ELSE base + b
    BY <1>1, <2>1 DEF UsedInLane
  <2>3. UsedInLane(m)' = IF pc' = "done" THEN NIters
                         ELSE IF m < l' THEN base' + k' + 1 ELSE base' + k'
    BY <1>2 DEF UsedInLane
  <2>4. UsedInLane(m)' = UsedInLane(m)
    BY <1>1, <1>2, <2>1, <2>2, <2>3
  <2>5. StartedInLane(m) = Capped(base + b + NumBanks + (IF m < a THEN 1 ELSE 0))
    BY <1>1, <2>1 DEF StartedInLane
  <2>6. StartedInLane(m)' = IF pc' = "done" THEN NIters
                            ELSE Capped(base' + k' + NumBanks + (IF m < l' THEN 1 ELSE 0))
    BY <1>2 DEF StartedInLane
  <2>7. StartedInLane(m)' = Capped(base + b + NumBanks + (IF m <= a THEN 1 ELSE 0))
    BY <1>1, <1>2, <2>1, <2>6
  <2>8. QED
    BY <2>2, <2>4, <2>5, <2>7
<1>4. \A m \in Lanes : m # a => StartedInLane(m)' = StartedInLane(m)
  BY <1>1, <1>3 DEF Lanes
<1>5. /\ StartedInLane(a) = Capped(base + b + NumBanks)
      /\ StartedInLane(a)' = Capped(base + b + NumBanks + 1)
      /\ UsedInLane(a) = base + b + 1
  BY <1>1, <1>3
<1>6. \/ StartedInLane(a)' = StartedInLane(a)
      \/ /\ StartedInLane(a)' = StartedInLane(a) + 1
         /\ StartedInLane(a) < NIters
         /\ StartedInLane(a) < UsedInLane(a) + NumBanks
  BY <1>1, <1>5
<1>7. QED
  BY <1>1, <1>3, <1>4, <1>6, StartRefines

LEMMA WaitRefines ==
  ASSUME PipeInv, Wait
  PROVE  WS!Next
<1> USE Constants
<1> PICK a \in Lanes, b \in Banks : a = l /\ b = k
  BY DEF PipeInv, TypeOK
<1>1. /\ pc = "wait" /\ pc' \in {"touch", "next"} /\ sem[<<a, b>>] > 0
      /\ UNCHANGED <<base, k, l, flight, vmem, landed>>
      /\ base \in Nat /\ b \in Nat /\ base + b \in Chunks /\ base + b \in Nat
  BY DEF Wait, Completed, PipeInv, PositionInv, TypeOK, Banks, Chunks
<1>2. /\ \A m \in Lanes : StartedInLane(m)' = StartedInLane(m)
      /\ \A m \in Lanes : m # a => UsedInLane(m)' = UsedInLane(m)
      /\ UsedInLane(a) = base + b /\ UsedInLane(a)' = base + b + 1
  BY <1>1 DEF StartedInLane, UsedInLane, Lanes
<1>3. landed[<<a, base + b>>] = 1
  <2>1. ~ Between(a, b) /\ ChunkOf(a, b) = base + b /\ base + b < NIters
    BY <1>1 DEF Between, ChunkOf, Past, Chunks
  <2>2. Serves(a, b, base + b)
    BY <1>1, <2>1 DEF PipeInv, BankInv
  <2>3. QED
    BY <1>1, <2>2 DEF Serves
<1>4. usedBar[a] = base + b /\ base + b \in landedBar[a]
  BY <1>1, <1>2, <1>3 DEF usedBar, landedBar
<1>5. usedBar' = [usedBar EXCEPT ![a] = @ + 1]
  BY <1>2, <1>4 DEF usedBar
<1>6. startedBar' = startedBar /\ landedBar' = landedBar
  BY <1>1, <1>2 DEF startedBar, landedBar
<1>7. WS!Use(a)
  BY <1>4, <1>5, <1>6 DEF WS!Use
<1>8. QED
  BY <1>7 DEF WS!Next

LEMMA CompleteRefines ==
  ASSUME PipeInv, NEW a \in Lanes, NEW b \in Banks, Complete(a, b)
  PROVE  WS!Next
<1> USE Constants
<1>1. PICK d \in flight[<<a, b>>] : landed' = [landed EXCEPT ![<<a, d>>] = @ + 1]
  BY DEF Complete
<1>2. d \in Chunks /\ d \in Nat /\ ChunkOf(a, b) \in Nat /\ ~ IdleBank(a, b)
  BY <1>1 DEF PipeInv, TypeOK, Chunks, ChunkOf, Banks, IdleBank
<1>3. /\ d = ChunkOf(a, b) /\ ~ Between(a, b) /\ ChunkOf(a, b) < NIters
      /\ landed[<<a, d>>] = 0
  <2>1. ~ Between(a, b) /\ ChunkOf(a, b) < NIters /\ Serves(a, b, ChunkOf(a, b))
    BY <1>2 DEF PipeInv, BankInv
  <2>2. QED
    BY <1>1, <2>1 DEF Serves
<1>4. d < StartedInLane(a) /\ StartedInLane(a) \in Nat
  BY <1>2, <1>3 DEF PipeInv, ChunkOf, Between, Past, StartedInLane, TypeOK, Banks, Lanes, Chunks
<1>5. startedBar' = startedBar /\ usedBar' = usedBar
  BY DEF Complete, startedBar, usedBar, StartedInLane, UsedInLane
<1>6. landedBar' = [landedBar EXCEPT ![a] = @ \union {d}]
  <2>1. ASSUME NEW m \in Lanes
        PROVE  {c \in Chunks : landed'[<<m, c>>] > 0} =
                 IF m = a THEN {c \in Chunks : landed[<<m, c>>] > 0} \union {d}
                          ELSE {c \in Chunks : landed[<<m, c>>] > 0}
    BY <1>1, <1>2, <1>3 DEF PipeInv, TypeOK
  <2>2. QED
    BY <2>1 DEF landedBar
<1>7. d \in (0 .. startedBar[a] - 1) \ landedBar[a]
  BY <1>2, <1>3, <1>4 DEF startedBar, landedBar
<1>8. WS!Land(a)
  BY <1>5, <1>6, <1>7 DEF WS!Land
<1>9. QED
  BY <1>8 DEF WS!Next

\* Each kernel, whatever its size, implements the windowed streams of its
\* lanes: chunks in order, each once, at most NumBanks of them outstanding.
THEOREM Refinement == Spec => ImplementsStreams
<1>1. ASSUME PipeInv, [Next]_vars
      PROVE  WS!Next \/ UNCHANGED barVars
  <2>1. CASE Fill
    BY <1>1, <2>1, FillRefines
  <2>2. CASE Wait
    BY <1>1, <2>2, WaitRefines
  <2>3. CASE Touch \/ UNCHANGED vars
    <3>1. \A m : UsedInLane(m)' = UsedInLane(m) /\ StartedInLane(m)' = StartedInLane(m)
      BY <2>3 DEF Touch, vars, UsedInLane, StartedInLane
    <3>2. landed' = landed
      BY <2>3 DEF Touch, vars
    <3>3. QED
      BY <3>1, <3>2 DEF barVars, startedBar, landedBar, usedBar
  <2>4. CASE Restart
    BY <1>1, <2>4, RestartRefines
  <2>5. CASE Engine
    BY <1>1, <2>5, CompleteRefines DEF Engine
  <2>6. QED
    BY <1>1, <2>1, <2>2, <2>3, <2>4, <2>5 DEF Next, Program
<1>2. PipeInv /\ [Next]_vars => [WS!Next]_barVars
  BY <1>1
<1>3. QED
  BY InitStreams, <1>2, PipeInvariance, PTL DEF Spec, ImplementsStreams, WS!Spec, WS!wvars, barVars
=============================================================================
