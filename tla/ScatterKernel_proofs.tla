------------------------ MODULE ScatterKernel_proofs ------------------------
(***************************************************************************)
(* The kernel's safety, for every launch the host can produce, any number  *)
(* of cores and every interleaving of cores and transfers.                 *)
(***************************************************************************)
EXTENDS ScatterKernel, SequenceTheorems, TLAPS

-----------------------------------------------------------------------------
(* The pair arithmetic of ScatterPairs.                                    *)

(* Division with remainder by a positive number.                           *)
LEMMA DivMod ==
  ASSUME NEW a \in Int, NEW n \in Nat \ {0}
  PROVE  /\ a \div n \in Int
         /\ a % n \in 0 .. n - 1
         /\ a = (a \div n) * n + (a % n)
  BY SMT

(* Multiplication by a positive number preserves and reflects order.       *)
LEMMA MulMono ==
  ASSUME NEW a \in Int, NEW b \in Int, NEW n \in Nat \ {0}
  PROVE  /\ a <= b => a * n <= b * n
         /\ a < b => a * n < b * n
         /\ a * n < b * n => a < b
         /\ a * n <= b * n => a <= b
  BY SMT

(* Quotient and remainder are unique.                                      *)
LEMMA DivUnique ==
  ASSUME NEW q \in Int, NEW n \in Nat \ {0}, NEW r \in 0 .. n - 1
  PROVE  (q * n + r) \div n = q /\ (q * n + r) % n = r
  BY SMT

-----------------------------------------------------------------------------

(* Dividing a number below m * n by n gives a quotient below m.            *)
LEMMA DivBelow ==
  ASSUME NEW m \in Nat, NEW n \in Nat \ {0}, NEW p \in 0 .. m * n - 1
  PROVE  /\ p \div n \in 0 .. m - 1
         /\ p - (p \div n) * n \in 0 .. n - 1
<1> DEFINE q == p \div n
<1>1. q \in Int /\ p = q * n + (p % n) /\ p % n \in 0 .. n - 1
  BY DivMod
<1> HIDE DEF q
<1>2. q * n < m * n /\ (0 - 1) * n < q * n
  BY <1>1
<1>3. q < m /\ 0 - 1 < q
  BY <1>1, <1>2, MulMono
<1>4. q \in 0 .. m - 1 /\ p - q * n \in 0 .. n - 1
  BY <1>1, <1>3
<1> QED BY <1>4 DEF q

(* A flat pair is slot CopyIdx of row BatchIdx, and both are in range.     *)
LEMMA PairPosition ==
  ASSUME NEW L, IsTiling(L), NEW p \in Pairs(L)
  PROVE  /\ BatchIdx(L, p) \in 0 .. L.batchSize - 1
         /\ CopyIdx(L, p) \in 0 .. L.copyCap - 1
         /\ p = BatchIdx(L, p) * L.copyCap + CopyIdx(L, p)
<1> DEFINE m == L.batchSize
           n == L.copyCap
           q == p \div n
<1>1. m \in Nat \ {0} /\ n \in Nat \ {0} /\ p \in 0 .. m * n - 1
  BY DEF IsTiling, Pairs
<1> HIDE DEF m, n
<1>2. q \in 0 .. m - 1 /\ p - q * n \in 0 .. n - 1
  BY <1>1, DivBelow
<1> HIDE DEF q
<1>3. p = q * n + (p - q * n)
  BY <1>1, <1>2
<1> QED BY <1>2, <1>3 DEF BatchIdx, CopyIdx, m, n, q

(* The clamped count of a row is between 0 and the cap.                    *)
LEMMA ClampedCountRange ==
  ASSUME NEW L, IsTiling(L), IsMetadata(L), NEW b \in 0 .. L.batchSize - 1
  PROVE  ClampedCount(L, b) \in 0 .. L.copyCap
<1>1. L.copyCap \in Nat /\ L.copyCounts[b] \in Int
  BY DEF IsTiling, IsMetadata
<1> QED BY <1>1 DEF ClampedCount

(* The pair one stride on is the next pair of the same core.               *)
LEMMA NextOnStride ==
  ASSUME NEW n \in Nat \ {0}, NEW c \in 0 .. n - 1,
         NEW f \in Nat, f % n = c
  PROVE  /\ (f + n) % n = c
         /\ \A q \in Nat : q % n = c /\ q < f + n => q <= f
<1> DEFINE j == f \div n
<1>1. j \in Int /\ f = j * n + c
  BY DivMod
<1> HIDE DEF j
<1>2. (f + n) % n = c
  <2>1. f + n = (j + 1) * n + c
    BY <1>1
  <2> QED BY <1>1, <2>1, DivUnique
<1>3. ASSUME NEW q \in Nat, q % n = c, q < f + n
      PROVE  q <= f
  <2> DEFINE i == q \div n
  <2>1. i \in Int /\ q = i * n + c
    BY <1>3, DivMod
  <2> HIDE DEF i
  <2>2. i * n < (j + 1) * n
    BY <1>1, <1>3, <2>1
  <2>3. i < j + 1
    BY <1>1, <2>1, <2>2, MulMono
  <2>4. i * n <= j * n
    BY <1>1, <2>1, <2>3, MulMono
  <2> QED BY <1>1, <2>1, <2>4
<1> QED BY <1>2, <1>3

(* FirstFlatPairAtOrAfter returns the least pair of the core's stride that *)
(* is not below start: the jump neither leaves the stride nor overshoots.  *)
LEMMA FirstFlatPairIsLeast ==
  ASSUME NEW L, IsTiling(L), NEW c \in 0 .. L.usedCoreNum - 1, NEW start \in Nat
  PROVE  LET f == FirstFlatPairAtOrAfter(L, c, start)
         IN  /\ f \in Nat
             /\ f % L.usedCoreNum = c
             /\ start <= f
             /\ \A q \in Nat : q % L.usedCoreNum = c /\ start <= q => f <= q
<1> DEFINE n == L.usedCoreNum
           f == FirstFlatPairAtOrAfter(L, c, start)
<1>1. n \in Nat \ {0} /\ c \in 0 .. n - 1
  BY DEF IsTiling
<1> HIDE DEF n
<1>2. CASE start <= c
  <2>1. f = c
    BY <1>2 DEF FirstFlatPairAtOrAfter, n
  <2>2. c % n = c
    BY <1>1, 0 * n + c = c, DivUnique
  <2>3. ASSUME NEW q \in Nat, q % n = c PROVE c <= q
    <3> DEFINE i == q \div n
    <3>1. i \in Int /\ q = i * n + c
      BY <1>1, <2>3, DivMod
    <3> HIDE DEF i
    <3>2. (0 - 1) * n < i * n
      BY <1>1, <2>3, <3>1
    <3>3. 0 - 1 < i
      BY <1>1, <3>1, <3>2, MulMono
    <3>4. 0 * n <= i * n
      BY <1>1, <3>1, <3>3, MulMono
    <3> QED BY <1>1, <3>1, <3>4
  <2> QED BY <1>1, <1>2, <2>1, <2>2, <2>3 DEF n
<1>3. CASE start > c
  <2> DEFINE a == (start - c) + n - 1
             s == a \div n
  <2>0. a \in Nat
    BY <1>1, <1>3
  <2> HIDE DEF a
  <2>1. s \in Int /\ a % n \in 0 .. n - 1 /\ a = s * n + (a % n)
    BY <1>1, <2>0, DivMod
  <2>2. f = c + s * n
    BY <1>1, <1>3 DEF FirstFlatPairAtOrAfter, n, a
  <2> HIDE DEF f, s
  <2>3. f \in Nat /\ start <= f
    BY <1>1, <1>3, <2>0, <2>1, <2>2 DEF a
  <2>4. f % n = c
    <3>1. f = s * n + c
      BY <1>1, <2>1, <2>2
    <3> QED BY <1>1, <2>1, <3>1, DivUnique
  <2>5. ASSUME NEW q \in Nat, q % n = c, start <= q PROVE f <= q
    <3> DEFINE i == q \div n
    <3>1. i \in Int /\ q = i * n + c
      BY <1>1, <2>5, DivMod
    <3>2. s * n < (i + 1) * n
      BY <1>1, <1>3, <2>1, <2>5, <3>1 DEF a
    <3> HIDE DEF i
    <3>3. s <= i
      <4>1. s < i + 1
        BY <1>1, <2>1, <3>1, <3>2, MulMono
      <4> QED BY <2>1, <3>1, <4>1
    <3>4. s * n <= i * n
      BY <1>1, <2>1, <3>1, <3>3, MulMono
    <3> QED BY <1>1, <2>1, <2>2, <3>1, <3>4
  <2> QED BY <2>3, <2>4, <2>5 DEF f, n
<1> QED BY <1>1, <1>2, <1>3

(* Row-major indexing of an m by n table stays inside the table.           *)
LEMMA TableIndex ==
  ASSUME NEW m \in Nat, NEW n \in Nat \ {0}, NEW i \in 0 .. m - 1, NEW j \in 0 .. n - 1
  PROVE  i * n + j \in 0 .. m * n - 1
<1>1. (i + 1) * n <= m * n /\ 0 * n <= i * n
  BY MulMono
<1> QED BY <1>1

(* The block column of a token id is a natural number.                     *)
LEMMA ColumnNonNegative ==
  ASSUME NEW a \in Nat, NEW n \in Nat \ {0}
  PROVE  a \div n \in Nat
<1> DEFINE q == a \div n
<1>1. q \in Int /\ a = q * n + (a % n) /\ a % n \in 0 .. n - 1
  BY DivMod
<1> HIDE DEF q
<1>2. (0 - 1) * n < q * n
  BY <1>1
<1>3. 0 - 1 < q
  BY <1>1, <1>2, MulMono
<1>4. q \in Nat
  BY <1>1, <1>3
<1> QED BY <1>4 DEF q

(* An active pair reads a row of the DRAM cache and writes a row of the    *)
(* HBM cache: with block tables in range no address leaves its cache.      *)
LEMMA TokensInCache ==
  ASSUME NEW L, IsLaunch(L), NEW p \in ActivePairs(L)
  PROVE  SrcToken(L, p) \in DramRows(L) /\ DstToken(L, p) \in HbmRows(L)
<1> DEFINE b == BatchIdx(L, p)
<1>1. p \in Pairs(L) /\ Resolves(L, p)
  BY DEF ActivePairs
<1>2. b \in 0 .. L.batchSize - 1
  BY <1>1, PairPosition DEF IsLaunch
<1> HIDE DEF b
<1> DEFINE src == L.srcTokenIds[p]
           dst == L.dstSlots[p]
<1>3. src \in Nat /\ dst \in Nat
  <2>1. src \in Int /\ dst \in Int
    BY <1>1 DEF IsLaunch, IsMetadata, Pairs
  <2>2. src >= 0 /\ dst >= 0
    BY <1>1 DEF Resolves
  <2> QED BY <2>1, <2>2
<1>4. SrcPhysicalBlock(L, p) \in 0 .. L.dramBlocks - 1
  <2> DEFINE col == SrcBlockCol(L, p)
             i == b * L.dramMaxBlockNum + col
  <2>1. col \in 0 .. L.dramMaxBlockNum - 1
    <3>1. col < L.dramMaxBlockNum
      BY <1>1 DEF Resolves
    <3>2. col \in Nat
      BY <1>3, BlockSizeAssumption, ColumnNonNegative DEF SrcBlockCol
    <3>3. L.dramMaxBlockNum \in Nat
      BY DEF IsLaunch, IsTiling
    <3> QED BY <3>1, <3>2, <3>3
  <2> HIDE DEF col
  <2>2. i \in 0 .. L.batchSize * L.dramMaxBlockNum - 1
    BY <1>2, <2>1, TableIndex DEF IsLaunch, IsTiling
  <2> HIDE DEF i
  <2>3. L.dramBlockTable[i] \in Int /\ L.dramBlockTable[i] < L.dramBlocks
    BY <2>2 DEF IsLaunch, IsMetadata, TablesInRange
  <2>4. SrcPhysicalBlock(L, p) = L.dramBlockTable[i]
    BY DEF SrcPhysicalBlock, i, b, col
  <2> QED BY <1>1, <2>3, <2>4 DEF Resolves, IsLaunch, IsMetadata
<1>5. DstPhysicalBlock(L, p) \in 0 .. L.hbmBlocks - 1
  <2> DEFINE col == DstBlockCol(L, p)
             i == b * L.hbmMaxBlockNum + col
  <2>1. col \in 0 .. L.hbmMaxBlockNum - 1
    <3>1. col < L.hbmMaxBlockNum
      BY <1>1 DEF Resolves
    <3>2. col \in Nat
      BY <1>3, BlockSizeAssumption, ColumnNonNegative DEF DstBlockCol
    <3>3. L.hbmMaxBlockNum \in Nat
      BY DEF IsLaunch, IsTiling
    <3> QED BY <3>1, <3>2, <3>3
  <2> HIDE DEF col
  <2>2. i \in 0 .. L.batchSize * L.hbmMaxBlockNum - 1
    BY <1>2, <2>1, TableIndex DEF IsLaunch, IsTiling
  <2> HIDE DEF i
  <2>3. L.hbmBlockTable[i] \in Int /\ L.hbmBlockTable[i] < L.hbmBlocks
    BY <2>2 DEF IsLaunch, IsMetadata, TablesInRange
  <2>4. DstPhysicalBlock(L, p) = L.hbmBlockTable[i]
    BY DEF DstPhysicalBlock, i, b, col
  <2> QED BY <1>1, <2>3, <2>4 DEF Resolves, IsLaunch, IsMetadata
<1>6. src % BlockSize \in 0 .. BlockSize - 1 /\ dst % BlockSize \in 0 .. BlockSize - 1
  <2> HIDE DEF src, dst
  <2> QED BY <1>3, BlockSizeAssumption, DivMod
<1>7. L.dramBlocks \in Nat /\ L.hbmBlocks \in Nat
  BY DEF IsLaunch, IsMetadata
<1>8. SrcToken(L, p) \in DramRows(L)
  BY <1>4, <1>6, <1>7, BlockSizeAssumption, TableIndex DEF SrcToken, DramRows
<1>9. DstToken(L, p) \in HbmRows(L)
  BY <1>5, <1>6, <1>7, BlockSizeAssumption, TableIndex DEF DstToken, HbmRows
<1> QED BY <1>8, <1>9

-----------------------------------------------------------------------------
(* The inductive invariant.                                                *)

(* Where the scan of a core stands relative to its program counter: it     *)
(* never leaves the core's stride, and what lies before it has been        *)
(* dealt with.                                                             *)
ScanOK(c) ==
  /\ flat[c] % launch.usedCoreNum = c
  /\ pc[c] \in {"seek", "resolve", "copyin"} => nxt[c] = NoPair
  /\ pc[c] = "resolve" =>
       /\ flat[c] \in Pairs(launch)
       /\ CopyIdx(launch, flat[c]) < ClampedCount(launch, BatchIdx(launch, flat[c]))
  /\ pc[c] = "copyin" => flat[c] \in ActivePairs(launch)
  /\ pc[c] = "copyout" =>
       /\ cur[c] # NoPair
       /\ nxt[c] = NoPair => flat[c] >= launch.totalPairSlots
       /\ nxt[c] # NoPair => nxt[c] = flat[c]
  /\ pc[c] = "done" =>
       /\ cur[c] = NoPair
       /\ nxt[c] = NoPair
       /\ flat[c] >= launch.totalPairSlots

(* The pairs in flight in the scalar unit are active pairs of the core,    *)
(* the current one behind the scan.                                        *)
PairsOK(c) ==
  /\ cur[c] # NoPair =>
       /\ cur[c] \in ActivePairs(launch)
       /\ cur[c] % launch.usedCoreNum = c
       /\ cur[c] < flat[c]
  /\ nxt[c] # NoPair =>
       /\ nxt[c] \in ActivePairs(launch)
       /\ cur[c] # NoPair

(* The queue holds the buffers being loaded or loaded, each once, in the   *)
(* order current, next.                                                    *)
QueueOK(c) ==
  /\ Len(copyQueue[c]) = (IF cur[c] = NoPair THEN 0 ELSE 1)
                           + (IF nxt[c] = NoPair THEN 0 ELSE 1)
  /\ cur[c] # NoPair => buf[c][copyQueue[c][1]].in = cur[c]
  /\ nxt[c] # NoPair => /\ buf[c][copyQueue[c][2]].in = nxt[c]
                        /\ copyQueue[c][1] # copyQueue[c][2]
  /\ \A k \in Buffers : buf[c][k].stage \in InQueue <=>
       \/ cur[c] # NoPair /\ copyQueue[c][1] = k
       \/ nxt[c] # NoPair /\ copyQueue[c][2] = k

IsStoring(c, k) == buf[c][k].stage \in {"storeCkv", "storeKpe"}

(* A buffer holds what its transfers have brought, and its stores are for  *)
(* an active pair of the core that the scalar unit is done with.           *)
BufferOK(c, k) ==
  /\ buf[c][k].stage \in InQueue => buf[c][k].in \in ActivePairs(launch)
  /\ buf[c][k].stage \in {"loadKpe", "full"} =>
       buf[c][k].ckv = SrcToken(launch, buf[c][k].in)
  /\ buf[c][k].stage = "full" =>
       buf[c][k].kpe = SrcToken(launch, buf[c][k].in)
  /\ buf[c][k].stage = "storeCkv" =>
       buf[c][k].ckv = SrcToken(launch, buf[c][k].out)
  /\ buf[c][k].stage = "storeKpe" => hbmCkv[DstToken(launch, buf[c][k].out)] # Poison
  /\ IsStoring(c, k) =>
       /\ buf[c][k].out \in ActivePairs(launch)
       /\ buf[c][k].out % launch.usedCoreNum = c
       /\ buf[c][k].out < flat[c]
       /\ buf[c][k].out # cur[c]
       /\ buf[c][k].kpe = SrcToken(launch, buf[c][k].out)
       /\ \A j \in Buffers : IsStoring(c, j) /\ j # k => buf[c][j].out # buf[c][k].out

CoreOK(c) ==
  ScanOK(c) /\ PairsOK(c) /\ QueueOK(c) /\ \A k \in Buffers : BufferOK(c, k)

IInv ==
  /\ TypeOK
  /\ CacheCoherent
  /\ \A c \in Cores : CoreOK(c)
  /\ Provenance
  /\ NoPairSkipped

-----------------------------------------------------------------------------
(* Frames: what a step that leaves a core alone leaves true of it.         *)

(* A row that has been written is not forgotten.                           *)
Kept ==
  \A r \in HbmRows(launch) :
    /\ hbmCkv[r] # Poison => hbmCkv'[r] # Poison
    /\ hbmKpe[r] # Poison => hbmKpe'[r] # Poison

ScalarKept(c) ==
  /\ pc'[c] = pc[c]
  /\ flat'[c] = flat[c]
  /\ cur'[c] = cur[c]
  /\ nxt'[c] = nxt[c]
  /\ copyQueue'[c] = copyQueue[c]

(* The facts about a launch that the proofs use.                           *)
LEMMA LaunchFacts ==
  ASSUME TypeOK
  PROVE  /\ IsLaunch(launch) /\ IsTiling(launch) /\ IsMetadata(launch)
         /\ launch.usedCoreNum \in Nat \ {0}
         /\ launch.copyCap \in Nat \ {0}
         /\ launch.batchSize \in Nat \ {0}
         /\ launch.totalPairSlots \in Nat
         /\ \A p \in ActivePairs(launch) :
              /\ p \in Pairs(launch)
              /\ SrcToken(launch, p) \in DramRows(launch)
              /\ DstToken(launch, p) \in HbmRows(launch)
         /\ \A p \in Pairs(launch) : p \in Nat /\ p < launch.totalPairSlots
         /\ \A c \in Cores : c \in Nat
<1>1. IsLaunch(launch) /\ IsTiling(launch) /\ IsMetadata(launch)
  BY DEF TypeOK, IsLaunch
<1>2. \A p \in ActivePairs(launch) :
         /\ p \in Pairs(launch)
         /\ SrcToken(launch, p) \in DramRows(launch)
         /\ DstToken(launch, p) \in HbmRows(launch)
  <2>1. \A p \in ActivePairs(launch) : p \in Pairs(launch)
    BY DEF ActivePairs
  <2> QED BY <1>1, <2>1, TokensInCache
<1>3. /\ launch.usedCoreNum \in Nat \ {0}
      /\ launch.copyCap \in Nat \ {0}
      /\ launch.batchSize \in Nat \ {0}
      /\ launch.totalPairSlots \in Nat
  BY <1>1 DEF IsTiling
<1>4. \A p \in Pairs(launch) : p \in Nat /\ p < launch.totalPairSlots
  BY <1>3 DEF Pairs
<1>5. \A c \in Cores : c \in Nat
  BY <1>3 DEF Cores
<1> QED BY <1>1, <1>2, <1>3, <1>4, <1>5

LEMMA CoreFrame ==
  ASSUME TypeOK, NEW c \in Cores, CoreOK(c), launch' = launch,
         ScalarKept(c), buf'[c] = buf[c], Kept
  PROVE  CoreOK(c)'
<1>1. ScanOK(c)'
  BY DEF CoreOK, ScanOK, ScalarKept
<1>2. PairsOK(c)'
  BY DEF CoreOK, PairsOK, ScalarKept
<1>3. QueueOK(c)'
  BY DEF CoreOK, QueueOK, ScalarKept
<1>4. ASSUME NEW k \in Buffers PROVE BufferOK(c, k)'
  <2>1. BufferOK(c, k)
    BY DEF CoreOK
  <2>2. buf[c][k].stage = "storeKpe" =>
          DstToken(launch, buf[c][k].out) \in HbmRows(launch)
    BY <2>1, LaunchFacts DEF BufferOK, IsStoring
  <2> QED BY <2>1, <2>2 DEF BufferOK, IsStoring, ScalarKept, Kept
<1> QED BY <1>1, <1>2, <1>3, <1>4 DEF CoreOK

-----------------------------------------------------------------------------
(* Types.                                                                  *)

(* A scan that is inside the launch looks at a slot of a row, and the      *)
(* count it uses is that row's.                                            *)
LEMMA ScanFacts ==
  ASSUME TypeOK, CacheCoherent, NEW c \in Cores, flat[c] < launch.totalPairSlots
  PROVE  /\ flat[c] \in Pairs(launch)
         /\ BatchIdx(launch, flat[c]) \in 0 .. launch.batchSize - 1
         /\ CopyIdx(launch, flat[c]) \in 0 .. launch.copyCap - 1
         /\ flat[c] = BatchIdx(launch, flat[c]) * launch.copyCap + CopyIdx(launch, flat[c])
         /\ CountFor(c) = ClampedCount(launch, BatchIdx(launch, flat[c]))
         /\ CountFor(c) \in 0 .. launch.copyCap
<1>1. flat[c] \in Pairs(launch)
  BY LaunchFacts DEF TypeOK, Pairs
<1>2. /\ BatchIdx(launch, flat[c]) \in 0 .. launch.batchSize - 1
      /\ CopyIdx(launch, flat[c]) \in 0 .. launch.copyCap - 1
      /\ flat[c] = BatchIdx(launch, flat[c]) * launch.copyCap + CopyIdx(launch, flat[c])
  BY <1>1, LaunchFacts, PairPosition
<1>3. CountFor(c) = ClampedCount(launch, BatchIdx(launch, flat[c]))
  BY <1>2 DEF CountFor, CacheCoherent, NoBatch
<1>4. CountFor(c) \in 0 .. launch.copyCap
  BY <1>2, <1>3, LaunchFacts, ClampedCountRange
<1> QED BY <1>1, <1>2, <1>3, <1>4

(* The jump over the tail of a row lands on a natural number.              *)
LEMMA SkipFacts ==
  ASSUME TypeOK, CacheCoherent, NEW c \in Cores, flat[c] < launch.totalPairSlots
  PROVE  LET end == (BatchIdx(launch, flat[c]) + 1) * launch.copyCap
             f == FirstFlatPairAtOrAfter(launch, c, end)
         IN  /\ end \in Nat
             /\ flat[c] < end
             /\ f \in Nat
             /\ f % launch.usedCoreNum = c
             /\ end <= f
             /\ \A q \in Nat : q % launch.usedCoreNum = c /\ end <= q => f <= q
<1> DEFINE end == (BatchIdx(launch, flat[c]) + 1) * launch.copyCap
<1>1. end \in Nat /\ flat[c] < end
  BY ScanFacts, LaunchFacts
<1>2. c \in 0 .. launch.usedCoreNum - 1
  BY DEF Cores
<1> HIDE DEF end
<1>3. LET f == FirstFlatPairAtOrAfter(launch, c, end)
      IN  /\ f \in Nat
          /\ f % launch.usedCoreNum = c
          /\ end <= f
          /\ \A q \in Nat : q % launch.usedCoreNum = c /\ end <= q => f <= q
  BY <1>1, <1>2, LaunchFacts, FirstFlatPairIsLeast
<1> QED BY <1>1, <1>3 DEF end

(* The buffers stay well-formed when one of them is replaced.              *)
LEMMA BufferSet ==
  ASSUME TypeOK, launch' = launch, NEW c \in Cores, NEW k \in Buffers, NEW b,
         b \in BufferType, buf' = [buf EXCEPT ![c][k] = b]
  PROVE  /\ buf' \in [Cores -> [Buffers -> BufferType]]'
         /\ buf'[c][k] = b
         /\ \A d \in Cores, j \in Buffers :
              d # c \/ j # k => buf'[d][j] = buf[d][j]
         /\ \A d \in Cores : d # c => buf'[d] = buf[d]
<1>1. Cores' = Cores /\ BufferType' = BufferType
  BY DEF Cores, BufferType
<1> QED BY <1>1 DEF TypeOK

(* Every action on one buffer gives it a new stage and at most one other   *)
(* new field.                                                              *)
LEMMA BufferFields ==
  ASSUME TypeOK, NEW c \in Cores, NEW k \in Buffers, NEW stage \in Stages
  PROVE  LET b == buf[c][k]
         IN  /\ b.stage \in Stages
             /\ \A p \in Pairs(launch) : Buffer(stage, p, b.out, b.ckv, b.kpe) \in BufferType
             /\ \A p \in Pairs(launch) : Buffer(stage, b.in, p, b.ckv, b.kpe) \in BufferType
             /\ \A s \in DramRows(launch) : Buffer(stage, b.in, b.out, s, b.kpe) \in BufferType
             /\ \A s \in DramRows(launch) : Buffer(stage, b.in, b.out, b.ckv, s) \in BufferType
             /\ Buffer(stage, b.in, b.out, b.ckv, b.kpe) \in BufferType
             /\ b.ckv \in DramRows(launch) \cup {Garbage}
             /\ b.kpe \in DramRows(launch) \cup {Garbage}
<1>1. buf[c][k] \in BufferType
  BY DEF TypeOK
<1> QED BY <1>1 DEF BufferType, Buffer

LEMMA TypeStep ==
  ASSUME IInv, [Next]_vars
  PROVE  TypeOK'
<1>0. TypeOK /\ CacheCoherent /\ \A c \in Cores : CoreOK(c)
  BY DEF IInv
<1>1. ASSUME NEW c \in Cores, ScanCounted(c) PROVE TypeOK'
  <2>1. /\ BatchIdx(launch, flat[c]) \in 0 .. launch.batchSize - 1
        /\ CountFor(c) \in 0 .. launch.copyCap
    BY <1>0, <1>1, ScanFacts DEF ScanCounted, Scanning
  <2> QED BY <1>0, <1>1, <2>1 DEF TypeOK, ScanCounted, CacheRow, Cores, hbmVars, BufferType
<1>2. ASSUME NEW c \in Cores, ScanSkipRow(c) PROVE TypeOK'
  <2>1. /\ BatchIdx(launch, flat[c]) \in 0 .. launch.batchSize - 1
        /\ CountFor(c) \in 0 .. launch.copyCap
    BY <1>0, <1>2, ScanFacts DEF ScanSkipRow, Scanning
  <2>2. FirstFlatPairAtOrAfter(launch, c,
          (BatchIdx(launch, flat[c]) + 1) * launch.copyCap) \in Nat
    BY <1>0, <1>2, SkipFacts DEF ScanSkipRow, Scanning
  <2> QED BY <1>0, <1>2, <2>1, <2>2
          DEF TypeOK, ScanSkipRow, CacheRow, Cores, hbmVars, BufferType
<1>3. ASSUME NEW c \in Cores, ScanEnd(c) PROVE TypeOK'
  BY <1>0, <1>3 DEF TypeOK, ScanEnd, Cores, hbmVars, BufferType
<1>4. ASSUME NEW c \in Cores, ResolveOk(c) PROVE TypeOK'
  BY <1>0, <1>4 DEF TypeOK, ResolveOk, Cores, hbmVars, BufferType
<1>5. ASSUME NEW c \in Cores, ResolveFail(c) PROVE TypeOK'
  <2>1. flat[c] + launch.usedCoreNum \in Nat
    BY <1>0, LaunchFacts DEF TypeOK
  <2>2. flat' \in [Cores -> Nat]
    BY <1>0, <1>5, <2>1 DEF TypeOK, ResolveFail
  <2> QED BY <1>0, <1>5, <2>2 DEF TypeOK, ResolveFail, Cores, hbmVars, BufferType
<1>6. ASSUME NEW c \in Cores, NEW k \in Buffers, CopyIn(c, k) PROVE TypeOK'
  <2>1. flat[c] \in Pairs(launch)
    BY <1>0, <1>6, LaunchFacts DEF CopyIn, Enqueue, CoreOK, ScanOK
  <2>2. copyQueue' \in [Cores -> Seq(Buffers)]
    BY <1>0, <1>6 DEF TypeOK, CopyIn, Enqueue
  <2>3. buf' \in [Cores -> [Buffers -> BufferType]]'
    <3>1. Buffer("loadCkv", flat[c], buf[c][k].out, buf[c][k].ckv, buf[c][k].kpe) \in BufferType
      BY <1>0, <2>1, BufferFields DEF Stages
    <3> QED BY <1>0, <1>6, <3>1, BufferSet DEF CopyIn, Enqueue
  <2>4. Cores' = Cores
    BY <1>6 DEF CopyIn, Enqueue, Cores
  <2>5. /\ pc' \in [Cores -> {"seek", "resolve", "copyin", "copyout", "done"}]
        /\ flat' \in [Cores -> Nat]
        /\ cur' \in [Cores -> Pairs(launch) \cup {NoPair}]
        /\ nxt' \in [Cores -> Pairs(launch) \cup {NoPair}]
    <3>1. CASE cur[c] = NoPair
      <4>1. flat[c] + launch.usedCoreNum \in Nat
        BY <1>0, LaunchFacts DEF TypeOK
      <4>2. flat' \in [Cores -> Nat]
        BY <1>0, <1>6, <3>1, <4>1 DEF TypeOK, CopyIn, Enqueue
      <4> QED BY <1>0, <1>6, <2>1, <3>1, <4>2 DEF TypeOK, CopyIn, Enqueue
    <3>2. CASE cur[c] # NoPair
      BY <1>0, <1>6, <2>1, <3>2 DEF TypeOK, CopyIn, Enqueue
    <3> QED BY <3>1, <3>2
  <2> QED BY <1>0, <1>6, <2>2, <2>3, <2>4, <2>5 DEF TypeOK, CopyIn, Enqueue, hbmVars
<1>7. ASSUME NEW c \in Cores, CopyOut(c) PROVE TypeOK'
  <2> DEFINE k == Head(copyQueue[c])
  <2>1. copyQueue' \in [Cores -> Seq(Buffers)] /\ k \in Buffers
    BY <1>0, <1>7 DEF TypeOK, CopyOut, Loaded, StoredPair
  <2>2. cur[c] \in Pairs(launch)
    BY <1>0, <1>7, LaunchFacts DEF CopyOut, Loaded, StoredPair, CoreOK, ScanOK, PairsOK
  <2>3. buf' \in [Cores -> [Buffers -> BufferType]]'
    <3>1. Buffer("storeCkv", buf[c][k].in, cur[c], buf[c][k].ckv, buf[c][k].kpe) \in BufferType
      BY <1>0, <2>1, <2>2, BufferFields DEF Stages
    <3> QED BY <1>0, <1>7, <2>1, <3>1, BufferSet DEF CopyOut, Loaded, StoredPair
  <2>4. nxt[c] # NoPair => nxt[c] + launch.usedCoreNum \in Nat
    BY <1>0, LaunchFacts DEF TypeOK
  <2>5. Cores' = Cores
    BY <1>7 DEF CopyOut, Loaded, StoredPair, Cores
  <2>6. /\ pc' \in [Cores -> {"seek", "resolve", "copyin", "copyout", "done"}]
        /\ flat' \in [Cores -> Nat]
        /\ cur' \in [Cores -> Pairs(launch) \cup {NoPair}]
        /\ nxt' \in [Cores -> Pairs(launch) \cup {NoPair}]
    <3>1. CASE nxt[c] = NoPair
      BY <1>0, <1>7, <3>1 DEF TypeOK, CopyOut, Loaded, StoredPair
    <3>2. CASE nxt[c] # NoPair
      BY <1>0, <1>7, <2>4, <3>2 DEF TypeOK, CopyOut, Loaded, StoredPair
    <3> QED BY <3>1, <3>2
  <2> QED BY <1>0, <1>7, <2>1, <2>3, <2>5, <2>6 DEF TypeOK, CopyOut, Loaded, StoredPair, hbmVars
<1>8. ASSUME NEW c \in Cores, NEW k \in Buffers, Transfer(c, k) PROVE TypeOK'
  <2>0. BufferOK(c, k)
    BY <1>0 DEF CoreOK
  <2> DEFINE b == buf[c][k]
  <2>1. CASE LoadCkv(c, k)
    <3>1. SrcToken(launch, b.in) \in DramRows(launch)
      BY <1>0, <2>0, <2>1, LaunchFacts DEF BufferOK, LoadCkv, InQueue
    <3>2. Buffer("loadKpe", b.in, b.out, SrcToken(launch, b.in), b.kpe) \in BufferType
      BY <1>0, <3>1, BufferFields DEF Stages
    <3>3. buf' \in [Cores -> [Buffers -> BufferType]]'
      BY <1>0, <2>1, <3>2, BufferSet DEF LoadCkv
    <3> QED BY <1>0, <2>1, <3>3 DEF TypeOK, LoadCkv, Cores, scalarVars, hbmVars
  <2>2. CASE LoadKpe(c, k)
    <3>1. SrcToken(launch, b.in) \in DramRows(launch)
      BY <1>0, <2>0, <2>2, LaunchFacts DEF BufferOK, LoadKpe, InQueue
    <3>2. Buffer("full", b.in, b.out, b.ckv, SrcToken(launch, b.in)) \in BufferType
      BY <1>0, <3>1, BufferFields DEF Stages
    <3>3. buf' \in [Cores -> [Buffers -> BufferType]]'
      BY <1>0, <2>2, <3>2, BufferSet DEF LoadKpe
    <3> QED BY <1>0, <2>2, <3>3 DEF TypeOK, LoadKpe, Cores, scalarVars, hbmVars
  <2>3. CASE StoreCkv(c, k)
    <3>1. /\ Buffer("storeKpe", b.in, b.out, b.ckv, b.kpe) \in BufferType
          /\ b.ckv \in DramRows(launch) \cup {Garbage}
      BY <1>0, BufferFields DEF Stages
    <3>2. buf' \in [Cores -> [Buffers -> BufferType]]'
      BY <1>0, <2>3, <3>1, BufferSet DEF StoreCkv
    <3> QED BY <1>0, <2>3, <3>1, <3>2 DEF TypeOK, StoreCkv, Cores, scalarVars
  <2>4. CASE StoreKpe(c, k)
    <3>1. /\ Buffer("free", b.in, b.out, b.ckv, b.kpe) \in BufferType
          /\ b.kpe \in DramRows(launch) \cup {Garbage}
      BY <1>0, BufferFields DEF Stages
    <3>2. buf' \in [Cores -> [Buffers -> BufferType]]'
      BY <1>0, <2>4, <3>1, BufferSet DEF StoreKpe
    <3> QED BY <1>0, <2>4, <3>1, <3>2 DEF TypeOK, StoreKpe, Cores, scalarVars
  <2> QED BY <1>8, <2>1, <2>2, <2>3, <2>4 DEF Transfer
<1>9. CASE UNCHANGED vars
  BY <1>0, <1>9 DEF TypeOK, vars, scalarVars, hbmVars, Cores, BufferType
<1> QED
  BY <1>1, <1>2, <1>3, <1>4, <1>5, <1>6, <1>7, <1>8, <1>9
     DEF Next, Scalar, Scan, Resolve, Terminated

-----------------------------------------------------------------------------
(* The cached count.                                                       *)

LEMMA CacheStep ==
  ASSUME IInv, [Next]_vars
  PROVE  CacheCoherent'
<1>0. TypeOK /\ CacheCoherent
  BY DEF IInv
<1>1. ASSUME NEW c \in Cores, Scanning(c), CacheRow(c), launch' = launch
      PROVE  CacheCoherent'
  <2>1. CountFor(c) = ClampedCount(launch, BatchIdx(launch, flat[c]))
    BY <1>0, <1>1, ScanFacts DEF Scanning
  <2>2. /\ cachedCopyCount'[c] = ClampedCount(launch, cachedBatchIdx'[c])
        /\ \A d \in Cores : d # c => /\ cachedBatchIdx'[d] = cachedBatchIdx[d]
                                     /\ cachedCopyCount'[d] = cachedCopyCount[d]
    BY <1>0, <1>1, <2>1 DEF CacheRow, TypeOK
  <2> QED BY <1>0, <1>1, <2>2 DEF CacheCoherent, Cores
<1>2. CASE UNCHANGED <<launch, cachedBatchIdx, cachedCopyCount>>
  BY <1>0, <1>2 DEF CacheCoherent, Cores
<1>3. ASSUME NEW c \in Cores, ScanCounted(c) \/ ScanSkipRow(c) PROVE CacheCoherent'
  BY <1>1, <1>3 DEF ScanCounted, ScanSkipRow
<1>4. ASSUME NEW c \in Cores,
             ScanEnd(c) \/ Resolve(c) \/ (\E k \in Buffers : CopyIn(c, k)) \/ CopyOut(c)
      PROVE  CacheCoherent'
  BY <1>2, <1>4 DEF ScanEnd, Resolve, ResolveOk, ResolveFail, CopyIn, Enqueue, CopyOut, Loaded, StoredPair
<1>5. ASSUME NEW c \in Cores, NEW k \in Buffers, Transfer(c, k) PROVE CacheCoherent'
  BY <1>2, <1>5 DEF Transfer, LoadCkv, LoadKpe, StoreCkv, StoreKpe, scalarVars
<1>6. CASE UNCHANGED vars
  BY <1>2, <1>6 DEF vars, scalarVars
<1> QED BY <1>3, <1>4, <1>5, <1>6 DEF Next, Scalar, Scan, Terminated

-----------------------------------------------------------------------------
(* The cores.  A step of core c leaves the others as they are, so each     *)
(* lemma is about c, and OthersOK adds the rest.                           *)

LEMMA OthersOK ==
  ASSUME IInv, NEW c \in Cores, launch' = launch, Kept, CoreOK(c)',
         \A d \in Cores : d # c => ScalarKept(d) /\ buf'[d] = buf[d]
  PROVE  \A d \in Cores' : CoreOK(d)'
<1>1. Cores' = Cores
  BY DEF Cores
<1>2. ASSUME NEW d \in Cores, d # c PROVE CoreOK(d)'
  BY <1>2, CoreFrame DEF IInv
<1> QED BY <1>1, <1>2

(* Going on to the next pair of the stride.                                *)
NextFlat(c) ==
  /\ flat[c] + launch.usedCoreNum \in Nat
  /\ flat[c] < flat[c] + launch.usedCoreNum
  /\ (flat[c] + launch.usedCoreNum) % launch.usedCoreNum = c
  /\ \A q \in Nat :
       q % launch.usedCoreNum = c /\ q < flat[c] + launch.usedCoreNum => q <= flat[c]
  /\ flat[c] \in Nat

LEMMA NextFlatFacts ==
  ASSUME TypeOK, NEW c \in Cores, ScanOK(c)
  PROVE  NextFlat(c)
<1>1. /\ flat[c] \in Nat /\ flat[c] % launch.usedCoreNum = c
      /\ launch.usedCoreNum \in Nat \ {0} /\ c \in 0 .. launch.usedCoreNum - 1
  BY LaunchFacts DEF TypeOK, ScanOK, Cores
<1>2. /\ (flat[c] + launch.usedCoreNum) % launch.usedCoreNum = c
      /\ \A q \in Nat :
           q % launch.usedCoreNum = c /\ q < flat[c] + launch.usedCoreNum => q <= flat[c]
  BY <1>1, NextOnStride
<1> QED BY <1>1, <1>2 DEF NextFlat

(* Enqueueing behind one element, dequeueing one of at most two.           *)
LEMMA QueueFacts ==
  ASSUME NEW S, NEW q \in Seq(S), NEW k \in S
  PROVE  /\ Len(q) = 1 => /\ q[1] \in S
                          /\ Len(Append(q, k)) = 2
                          /\ Append(q, k)[1] = q[1]
                          /\ Append(q, k)[2] = k
                          /\ Head(q) = q[1]
                          /\ Len(Tail(q)) = 0
         /\ Len(q) = 2 => /\ q[1] \in S
                          /\ q[2] \in S
                          /\ Head(q) = q[1]
                          /\ Len(Tail(q)) = 1
                          /\ Tail(q)[1] = q[2]
<1>1. CASE Len(q) = 1
  <2>1. 1 \in 1 .. Len(q) /\ q # <<>>
    BY <1>1
  <2>2. q[1] \in S /\ Head(q) = q[1]
    BY <2>1, ElementOfSeq
  <2>3. Len(Tail(q)) = 0
    BY <1>1, <2>1, HeadTailProperties
  <2>4. Len(Append(q, k)) = 2 /\ Append(q, k)[1] = q[1] /\ Append(q, k)[2] = k
    <3>1. /\ Len(Append(q, k)) = Len(q) + 1
          /\ \A i \in 1 .. Len(q) : Append(q, k)[i] = q[i]
          /\ Append(q, k)[Len(q) + 1] = k
      BY AppendProperties
    <3> QED BY <1>1, <3>1
  <2> QED BY <1>1, <2>2, <2>3, <2>4
<1>2. CASE Len(q) = 2
  <2>1. 1 \in 1 .. Len(q) /\ 2 \in 1 .. Len(q) /\ q # <<>>
    BY <1>2
  <2>2. q[1] \in S /\ q[2] \in S /\ Head(q) = q[1]
    BY <2>1, ElementOfSeq
  <2>3. Len(Tail(q)) = 1 /\ Tail(q)[1] = q[2]
    <3>1. /\ Len(Tail(q)) = Len(q) - 1
          /\ \A i \in 1 .. Len(Tail(q)) : Tail(q)[i] = q[i + 1]
      BY <2>1, HeadTailProperties
    <3>2. Len(Tail(q)) = 1
      BY <1>2, <3>1
    <3>3. 1 \in 1 .. Len(Tail(q))
      BY <3>2
    <3>4. Tail(q)[1] = q[1 + 1]
      BY <3>1, <3>3
    <3> QED BY <3>2, <3>4
  <2> QED BY <1>2, <2>2, <2>3
<1> QED BY <1>1, <1>2

(* One buffer is replaced and no other is touched.                         *)
BufferSetTo(c, k, b) ==
  /\ buf'[c][k] = b
  /\ \A j \in Buffers : j # k => buf'[c][j] = buf[c][j]
  /\ \A d \in Cores : d # c => buf'[d] = buf[d]

LEMMA BufferSetFacts ==
  ASSUME TypeOK, NEW c \in Cores, NEW k \in Buffers, NEW b,
         buf' = [buf EXCEPT ![c][k] = b]
  PROVE  BufferSetTo(c, k, b)
<1>1. buf \in [Cores -> [Buffers -> BufferType]]
  BY DEF TypeOK
<1> QED BY <1>1 DEF BufferSetTo

LEMMA ScanCountedCore ==
  ASSUME IInv, NEW c \in Cores, ScanCounted(c)
  PROVE  \A d \in Cores' : CoreOK(d)'
<1>0. TypeOK /\ CacheCoherent /\ CoreOK(c)
  BY DEF IInv
<1>1. /\ pc'[c] = "resolve"
      /\ pc[c] = "seek"
      /\ launch' = launch /\ flat' = flat /\ cur' = cur /\ nxt' = nxt
      /\ copyQueue' = copyQueue /\ buf' = buf /\ hbmCkv' = hbmCkv /\ hbmKpe' = hbmKpe
      /\ \A d \in Cores : d # c => pc'[d] = pc[d]
  BY <1>0 DEF ScanCounted, Scanning, TypeOK, hbmVars
<1>2. /\ flat[c] \in Pairs(launch)
      /\ CopyIdx(launch, flat[c]) < ClampedCount(launch, BatchIdx(launch, flat[c]))
  BY <1>0, ScanFacts DEF ScanCounted, Scanning
<1>3. ScanOK(c)'
  BY <1>0, <1>1, <1>2 DEF CoreOK, ScanOK
<1>4. PairsOK(c)' /\ QueueOK(c)'
  BY <1>0, <1>1 DEF CoreOK, PairsOK, QueueOK
<1>5. \A k \in Buffers : BufferOK(c, k)'
  BY <1>0, <1>1 DEF CoreOK, BufferOK, IsStoring
<1>6. CoreOK(c)'
  BY <1>3, <1>4, <1>5 DEF CoreOK
<1> QED BY <1>1, <1>6, OthersOK DEF Kept, ScalarKept

LEMMA ScanSkipRowCore ==
  ASSUME IInv, NEW c \in Cores, ScanSkipRow(c)
  PROVE  \A d \in Cores' : CoreOK(d)'
<1>0. TypeOK /\ CacheCoherent /\ CoreOK(c)
  BY DEF IInv
<1> DEFINE f == FirstFlatPairAtOrAfter(launch, c,
                  (BatchIdx(launch, flat[c]) + 1) * launch.copyCap)
<1>1. /\ pc[c] = "seek"
      /\ flat'[c] = f
      /\ launch' = launch /\ pc' = pc /\ cur' = cur /\ nxt' = nxt
      /\ copyQueue' = copyQueue /\ buf' = buf /\ hbmCkv' = hbmCkv /\ hbmKpe' = hbmKpe
      /\ \A d \in Cores : d # c => flat'[d] = flat[d]
  BY <1>0 DEF ScanSkipRow, Scanning, TypeOK, hbmVars
<1>2. f \in Nat /\ f % launch.usedCoreNum = c /\ flat[c] < f /\ flat[c] \in Nat
  BY <1>0, SkipFacts DEF ScanSkipRow, Scanning, TypeOK
<1> HIDE DEF f
<1>3. ScanOK(c)'
  BY <1>0, <1>1, <1>2 DEF CoreOK, ScanOK
<1>4. PairsOK(c)'
  BY <1>0, <1>1, <1>2, LaunchFacts DEF CoreOK, PairsOK
<1>5. QueueOK(c)'
  BY <1>0, <1>1 DEF CoreOK, QueueOK
<1>6. ASSUME NEW k \in Buffers PROVE BufferOK(c, k)'
  <2>1. BufferOK(c, k) /\ (IsStoring(c, k) => buf[c][k].out \in Nat)
    BY <1>0, LaunchFacts DEF CoreOK, BufferOK
  <2> QED BY <1>1, <1>2, <2>1 DEF BufferOK, IsStoring
<1>7. CoreOK(c)'
  BY <1>3, <1>4, <1>5, <1>6 DEF CoreOK
<1> QED BY <1>1, <1>7, OthersOK DEF Kept, ScalarKept

LEMMA ScanEndCore ==
  ASSUME IInv, NEW c \in Cores, ScanEnd(c)
  PROVE  \A d \in Cores' : CoreOK(d)'
<1>0. TypeOK /\ CoreOK(c)
  BY DEF IInv
<1>1. /\ pc[c] = "seek" /\ flat[c] >= launch.totalPairSlots
      /\ pc'[c] = IF cur[c] = NoPair THEN "done" ELSE "copyout"
      /\ launch' = launch /\ flat' = flat /\ cur' = cur /\ nxt' = nxt
      /\ copyQueue' = copyQueue /\ buf' = buf /\ hbmCkv' = hbmCkv /\ hbmKpe' = hbmKpe
      /\ \A d \in Cores : d # c => pc'[d] = pc[d]
  BY <1>0 DEF ScanEnd, TypeOK, hbmVars
<1>2. ScanOK(c)'
  BY <1>0, <1>1 DEF CoreOK, ScanOK
<1>3. PairsOK(c)' /\ QueueOK(c)'
  BY <1>0, <1>1 DEF CoreOK, PairsOK, QueueOK
<1>4. \A k \in Buffers : BufferOK(c, k)'
  BY <1>0, <1>1 DEF CoreOK, BufferOK, IsStoring
<1>5. CoreOK(c)'
  BY <1>2, <1>3, <1>4 DEF CoreOK
<1> QED BY <1>1, <1>5, OthersOK DEF Kept, ScalarKept

LEMMA ResolveOkCore ==
  ASSUME IInv, NEW c \in Cores, ResolveOk(c)
  PROVE  \A d \in Cores' : CoreOK(d)'
<1>0. TypeOK /\ CoreOK(c)
  BY DEF IInv
<1>1. /\ pc[c] = "resolve" /\ Resolves(launch, flat[c])
      /\ pc'[c] = "copyin"
      /\ launch' = launch /\ flat' = flat /\ cur' = cur /\ nxt' = nxt
      /\ copyQueue' = copyQueue /\ buf' = buf /\ hbmCkv' = hbmCkv /\ hbmKpe' = hbmKpe
      /\ \A d \in Cores : d # c => pc'[d] = pc[d]
  BY <1>0 DEF ResolveOk, TypeOK, hbmVars
<1>2. flat[c] \in ActivePairs(launch)
  BY <1>0, <1>1 DEF CoreOK, ScanOK, ActivePairs
<1>3. ScanOK(c)'
  BY <1>0, <1>1, <1>2 DEF CoreOK, ScanOK
<1>4. PairsOK(c)' /\ QueueOK(c)'
  BY <1>0, <1>1 DEF CoreOK, PairsOK, QueueOK
<1>5. \A k \in Buffers : BufferOK(c, k)'
  BY <1>0, <1>1 DEF CoreOK, BufferOK, IsStoring
<1>6. CoreOK(c)'
  BY <1>3, <1>4, <1>5 DEF CoreOK
<1> QED BY <1>1, <1>6, OthersOK DEF Kept, ScalarKept

LEMMA ResolveFailCore ==
  ASSUME IInv, NEW c \in Cores, ResolveFail(c)
  PROVE  \A d \in Cores' : CoreOK(d)'
<1>0. TypeOK /\ CoreOK(c)
  BY DEF IInv
<1>1. /\ pc[c] = "resolve"
      /\ pc'[c] = "seek"
      /\ flat'[c] = flat[c] + launch.usedCoreNum
      /\ launch' = launch /\ cur' = cur /\ nxt' = nxt
      /\ copyQueue' = copyQueue /\ buf' = buf /\ hbmCkv' = hbmCkv /\ hbmKpe' = hbmKpe
      /\ \A d \in Cores : d # c => pc'[d] = pc[d] /\ flat'[d] = flat[d]
  BY <1>0 DEF ResolveFail, TypeOK, hbmVars
<1>2. NextFlat(c)
  BY <1>0, NextFlatFacts DEF CoreOK
<1>3. ScanOK(c)'
  BY <1>0, <1>1, <1>2 DEF CoreOK, ScanOK, NextFlat
<1>4. PairsOK(c)'
  BY <1>0, <1>1, <1>2, LaunchFacts DEF CoreOK, PairsOK, NextFlat
<1>5. QueueOK(c)'
  BY <1>0, <1>1 DEF CoreOK, QueueOK
<1>6. ASSUME NEW k \in Buffers PROVE BufferOK(c, k)'
  <2>1. BufferOK(c, k) /\ (IsStoring(c, k) => buf[c][k].out \in Nat)
    BY <1>0, LaunchFacts DEF CoreOK, BufferOK
  <2> QED BY <1>1, <1>2, <2>1 DEF BufferOK, IsStoring, NextFlat
<1>7. CoreOK(c)'
  BY <1>3, <1>4, <1>5, <1>6 DEF CoreOK
<1> QED BY <1>1, <1>7, OthersOK DEF Kept, ScalarKept

(* The two cases of CopyIn: the first pair of the core, and a later one.   *)
LEMMA CopyInFirstCore ==
  ASSUME IInv, NEW c \in Cores, NEW k \in Buffers, CopyIn(c, k), cur[c] = NoPair
  PROVE  \A d \in Cores' : CoreOK(d)'
<1>0. TypeOK /\ CoreOK(c)
  BY DEF IInv
<1>1. /\ pc[c] = "copyin" /\ buf[c][k].stage = "free"
      /\ nxt[c] = NoPair /\ Len(copyQueue[c]) = 0
      /\ flat[c] \in ActivePairs(launch) /\ flat[c] \in Nat /\ flat[c] # NoPair
      /\ flat[c] % launch.usedCoreNum = c
  BY <1>0, LaunchFacts DEF CopyIn, Enqueue, CoreOK, ScanOK, QueueOK, NoPair
<1>2. /\ pc'[c] = "seek"
      /\ flat'[c] = flat[c] + launch.usedCoreNum
      /\ cur'[c] = flat[c]
      /\ nxt' = nxt
      /\ launch' = launch /\ hbmCkv' = hbmCkv /\ hbmKpe' = hbmKpe
      /\ \A d \in Cores : d # c => /\ pc'[d] = pc[d] /\ flat'[d] = flat[d]
                                   /\ cur'[d] = cur[d] /\ copyQueue'[d] = copyQueue[d]
  BY <1>0 DEF CopyIn, Enqueue, TypeOK, hbmVars
<1>3. copyQueue'[c][1] = k /\ Len(copyQueue'[c]) = 1
  BY <1>0, <1>1 DEF CopyIn, Enqueue, TypeOK
<1>4. BufferSetTo(c, k, Buffer("loadCkv", flat[c], buf[c][k].out, buf[c][k].ckv, buf[c][k].kpe))
  BY <1>0, BufferSetFacts DEF CopyIn, Enqueue
<1>5. NextFlat(c)
  BY <1>0, NextFlatFacts DEF CoreOK
<1>6. ScanOK(c)'
  BY <1>1, <1>2, <1>5 DEF ScanOK, NextFlat
<1>7. PairsOK(c)'
  BY <1>1, <1>2, <1>5 DEF PairsOK, NextFlat
<1>8. QueueOK(c)'
  BY <1>0, <1>1, <1>2, <1>3, <1>4 DEF CoreOK, QueueOK, BufferSetTo, Buffer, InQueue
<1>9. ASSUME NEW j \in Buffers PROVE BufferOK(c, j)'
  <2>1. BufferOK(c, j) /\ (IsStoring(c, j) => buf[c][j].out \in Nat)
    BY <1>0, LaunchFacts DEF CoreOK, BufferOK
  <2>2. CASE j = k
    BY <1>1, <1>2, <1>4, <2>2 DEF BufferOK, IsStoring, BufferSetTo, Buffer, InQueue
  <2>3. CASE j # k
    <3>1. buf'[c][j] = buf[c][j] /\ ~IsStoring(c, k)'
      BY <1>4, <2>3 DEF BufferSetTo, Buffer, IsStoring
    <3>2. \A i \in Buffers : IsStoring(c, i)' => IsStoring(c, i) /\ buf'[c][i] = buf[c][i]
      BY <1>4, <3>1 DEF BufferSetTo, IsStoring
    <3> QED BY <1>1, <1>2, <1>5, <2>1, <3>1, <3>2 DEF BufferOK, IsStoring, NextFlat
  <2> QED BY <2>2, <2>3
<1>10. CoreOK(c)'
  BY <1>6, <1>7, <1>8, <1>9 DEF CoreOK
<1> QED BY <1>2, <1>4, <1>10, OthersOK DEF Kept, ScalarKept, BufferSetTo

LEMMA CopyInNextCore ==
  ASSUME IInv, NEW c \in Cores, NEW k \in Buffers, CopyIn(c, k), cur[c] # NoPair
  PROVE  \A d \in Cores' : CoreOK(d)'
<1>0. TypeOK /\ CoreOK(c)
  BY DEF IInv
<1>1. /\ pc[c] = "copyin" /\ buf[c][k].stage = "free"
      /\ nxt[c] = NoPair /\ Len(copyQueue[c]) = 1
      /\ flat[c] \in ActivePairs(launch) /\ flat[c] \in Nat /\ flat[c] # NoPair
      /\ flat[c] % launch.usedCoreNum = c
  BY <1>0, LaunchFacts DEF CopyIn, Enqueue, CoreOK, ScanOK, QueueOK, NoPair
<1>2. /\ pc'[c] = "copyout"
      /\ nxt'[c] = flat[c]
      /\ flat' = flat /\ cur' = cur
      /\ launch' = launch /\ hbmCkv' = hbmCkv /\ hbmKpe' = hbmKpe
      /\ \A d \in Cores : d # c => /\ pc'[d] = pc[d] /\ nxt'[d] = nxt[d]
                                   /\ copyQueue'[d] = copyQueue[d]
  BY <1>0 DEF CopyIn, Enqueue, TypeOK, hbmVars
<1>3. /\ copyQueue'[c][1] = copyQueue[c][1] /\ copyQueue'[c][2] = k
      /\ Len(copyQueue'[c]) = 2
      /\ copyQueue[c][1] \in Buffers
  <2>1. copyQueue[c] \in Seq(Buffers) /\ copyQueue'[c] = Append(copyQueue[c], k)
    BY <1>0 DEF CopyIn, Enqueue, TypeOK
  <2> QED BY <1>1, <2>1, QueueFacts
<1>4. BufferSetTo(c, k, Buffer("loadCkv", flat[c], buf[c][k].out, buf[c][k].ckv, buf[c][k].kpe))
  BY <1>0, BufferSetFacts DEF CopyIn, Enqueue
<1>5. copyQueue[c][1] \in Buffers /\ copyQueue[c][1] # k
  BY <1>0, <1>1, <1>3 DEF CoreOK, QueueOK, InQueue
<1>6. ScanOK(c)'
  BY <1>1, <1>2 DEF ScanOK
<1>7. PairsOK(c)'
  BY <1>0, <1>1, <1>2 DEF CoreOK, PairsOK
<1>8. QueueOK(c)'
  <2>1. /\ buf'[c][copyQueue[c][1]].in = cur[c]
        /\ buf'[c][k].in = flat[c]
    BY <1>0, <1>4, <1>5 DEF CoreOK, QueueOK, BufferSetTo, Buffer
  <2>2. \A j \in Buffers : buf'[c][j].stage \in InQueue <=> j = copyQueue[c][1] \/ j = k
    BY <1>0, <1>1, <1>4, <1>5 DEF CoreOK, QueueOK, BufferSetTo, Buffer, InQueue
  <2> QED BY <1>1, <1>2, <1>3, <1>5, <2>1, <2>2 DEF QueueOK
<1>9. ASSUME NEW j \in Buffers PROVE BufferOK(c, j)'
  <2>1. BufferOK(c, j) /\ (IsStoring(c, j) => buf[c][j].out \in Nat)
    BY <1>0, LaunchFacts DEF CoreOK, BufferOK
  <2>2. CASE j = k
    BY <1>1, <1>2, <1>4, <2>2 DEF BufferOK, IsStoring, BufferSetTo, Buffer, InQueue
  <2>3. CASE j # k
    <3>1. buf'[c][j] = buf[c][j] /\ ~IsStoring(c, k)'
      BY <1>4, <2>3 DEF BufferSetTo, Buffer, IsStoring
    <3>2. \A i \in Buffers : IsStoring(c, i)' => IsStoring(c, i) /\ buf'[c][i] = buf[c][i]
      BY <1>4, <3>1 DEF BufferSetTo, IsStoring
    <3> QED BY <1>1, <1>2, <2>1, <3>1, <3>2 DEF BufferOK, IsStoring
  <2> QED BY <2>2, <2>3
<1>10. CoreOK(c)'
  BY <1>6, <1>7, <1>8, <1>9 DEF CoreOK
<1> QED BY <1>2, <1>4, <1>10, OthersOK DEF Kept, ScalarKept, BufferSetTo

LEMMA CopyOutCore ==
  ASSUME IInv, NEW c \in Cores, CopyOut(c)
  PROVE  \A d \in Cores' : CoreOK(d)'
<1>0. TypeOK /\ CoreOK(c)
  BY DEF IInv
<1> DEFINE k == Head(copyQueue[c])
           b == Buffer("storeCkv", buf[c][k].in, cur[c], buf[c][k].ckv, buf[c][k].kpe)
<1>1. /\ pc[c] = "copyout" /\ cur[c] # NoPair
      /\ cur[c] \in ActivePairs(launch) /\ cur[c] \in Nat
      /\ cur[c] % launch.usedCoreNum = c /\ cur[c] < flat[c]
      /\ flat[c] \in Nat /\ flat[c] % launch.usedCoreNum = c
      /\ nxt[c] = NoPair => flat[c] >= launch.totalPairSlots
      /\ nxt[c] # NoPair => nxt[c] = flat[c] /\ nxt[c] \in ActivePairs(launch)
      /\ Len(copyQueue[c]) = IF nxt[c] = NoPair THEN 1 ELSE 2
  BY <1>0, LaunchFacts DEF CopyOut, Loaded, StoredPair, CoreOK, ScanOK, PairsOK, QueueOK, TypeOK
<1>2. /\ buf[c][k].stage = "full"
      /\ cur'[c] = nxt[c] /\ nxt'[c] = NoPair
      /\ launch' = launch /\ hbmCkv' = hbmCkv /\ hbmKpe' = hbmKpe
      /\ \A d \in Cores : d # c => /\ pc'[d] = pc[d] /\ flat'[d] = flat[d]
                                   /\ cur'[d] = cur[d] /\ nxt'[d] = nxt[d]
                                   /\ copyQueue'[d] = copyQueue[d]
  BY <1>0 DEF CopyOut, Loaded, StoredPair, TypeOK, hbmVars
<1>3. /\ nxt[c] = NoPair => pc'[c] = "done" /\ flat'[c] = flat[c]
      /\ nxt[c] # NoPair => pc'[c] = "seek" /\ flat'[c] = flat[c] + launch.usedCoreNum
  BY <1>0, <1>1 DEF CopyOut, Loaded, StoredPair, TypeOK
<1>4. /\ k \in Buffers /\ k = copyQueue[c][1]
      /\ nxt[c] = NoPair => Len(copyQueue'[c]) = 0
      /\ nxt[c] # NoPair => /\ Len(copyQueue'[c]) = 1
                            /\ copyQueue'[c][1] = copyQueue[c][2]
                            /\ copyQueue[c][2] \in Buffers
  <2>1. copyQueue[c] \in Seq(Buffers) /\ copyQueue'[c] = Tail(copyQueue[c])
    BY <1>0 DEF CopyOut, Loaded, StoredPair, TypeOK
  <2>2. 1 \in Buffers
    BY DEF Buffers
  <2>3. CASE nxt[c] = NoPair
    <3>1. Len(copyQueue[c]) = 1
      BY <1>1, <2>3
    <3> QED BY <2>1, <2>2, <2>3, <3>1, QueueFacts
  <2>4. CASE nxt[c] # NoPair
    <3>1. Len(copyQueue[c]) = 2
      BY <1>1, <2>4
    <3> QED BY <2>1, <2>2, <2>4, <3>1, QueueFacts
  <2> QED BY <2>3, <2>4
<1>5. BufferSetTo(c, k, b)
  BY <1>0, <1>4, BufferSetFacts DEF CopyOut, Loaded, StoredPair
<1>6. NextFlat(c)
  BY <1>0, NextFlatFacts DEF CoreOK
<1>7. /\ buf[c][k].in = cur[c]
      /\ buf[c][k].ckv = SrcToken(launch, cur[c])
      /\ buf[c][k].kpe = SrcToken(launch, cur[c])
  BY <1>0, <1>1, <1>2, <1>4 DEF CoreOK, QueueOK, BufferOK
<1> HIDE DEF k
<1>8. ScanOK(c)'
  BY <1>1, <1>2, <1>3, <1>6 DEF ScanOK, NextFlat
<1>9. PairsOK(c)'
  BY <1>1, <1>2, <1>3, <1>6 DEF PairsOK, NextFlat
<1>10. QueueOK(c)'
  <2>1. nxt[c] # NoPair => /\ copyQueue[c][2] # k
                           /\ buf'[c][copyQueue[c][2]].in = nxt[c]
    BY <1>0, <1>1, <1>4, <1>5 DEF CoreOK, QueueOK, BufferSetTo
  <2>2. \A j \in Buffers : buf'[c][j].stage \in InQueue <=>
          nxt[c] # NoPair /\ copyQueue[c][2] = j
    <3> TAKE j \in Buffers
    <3>1. CASE j = k
      BY <1>5, <2>1, <3>1 DEF BufferSetTo, Buffer, InQueue
    <3>2. CASE j # k
      BY <1>0, <1>1, <1>4, <1>5, <3>2 DEF CoreOK, QueueOK, BufferSetTo
    <3> QED BY <3>1, <3>2
  <2>3. CASE nxt[c] = NoPair
    BY <1>2, <1>4, <2>2, <2>3 DEF QueueOK
  <2>4. CASE nxt[c] # NoPair
    BY <1>2, <1>4, <2>1, <2>2, <2>4 DEF QueueOK
  <2> QED BY <2>3, <2>4
<1>11. ASSUME NEW j \in Buffers PROVE BufferOK(c, j)'
  <2>1. \A i \in Buffers : BufferOK(c, i) /\ (IsStoring(c, i) => buf[c][i].out \in Nat)
    BY <1>0, LaunchFacts DEF CoreOK, BufferOK
  <2>2. \A i \in Buffers : i # k /\ IsStoring(c, i) =>
          buf[c][i].out # cur[c] /\ buf[c][i].out < flat[c]
    BY <2>1 DEF BufferOK
  <2>3. \A i \in Buffers : i # k =>
          (IsStoring(c, i)' <=> IsStoring(c, i)) /\ buf'[c][i] = buf[c][i]
    BY <1>5 DEF BufferSetTo, IsStoring
  <2>4. CASE j = k
    <3>1. buf'[c][j] = b
      BY <1>5, <2>4 DEF BufferSetTo
    <3>2. \A i \in Buffers : IsStoring(c, i)' /\ i # j => buf'[c][i].out # cur[c]
      BY <2>2, <2>3, <2>4
    <3>3. cur[c] < flat'[c] /\ cur[c] # cur'[c]
      BY <1>1, <1>2, <1>3, <1>6 DEF NextFlat
    <3> QED BY <1>1, <1>2, <1>7, <3>1, <3>2, <3>3 DEF BufferOK, IsStoring, Buffer, InQueue
  <2>5. CASE j # k
    <3>1. BufferOK(c, j) /\ buf'[c][j] = buf[c][j]
      BY <2>1, <2>3, <2>5
    <3>2. IsStoring(c, j) => buf[c][j].out < flat'[c] /\ buf[c][j].out # cur'[c]
      <4>1. IsStoring(c, j) => buf[c][j].out \in Nat /\ buf[c][j].out < flat[c]
        BY <2>1, <2>2, <2>5
      <4>2. flat[c] <= flat'[c] /\ flat'[c] \in Nat /\ (cur'[c] = NoPair \/ cur'[c] = flat[c])
        BY <1>1, <1>2, <1>3, <1>6 DEF NextFlat
      <4> QED BY <1>1, <4>1, <4>2 DEF NoPair
    <3>3. buf'[c][k].out = cur[c]
      BY <1>5 DEF BufferSetTo, Buffer
    <3>4. IsStoring(c, j) =>
            \A i \in Buffers : IsStoring(c, i)' /\ i # j => buf'[c][i].out # buf[c][j].out
      BY <2>1, <2>2, <2>3, <2>5, <3>1, <3>3 DEF BufferOK
    <3>5. IsStoring(c, j)' <=> IsStoring(c, j)
      BY <2>3, <2>5
    <3> QED BY <1>2, <3>1, <3>2, <3>4, <3>5 DEF BufferOK, IsStoring
  <2> QED BY <2>4, <2>5
<1>12. CoreOK(c)'
  BY <1>8, <1>9, <1>10, <1>11 DEF CoreOK
<1> QED BY <1>2, <1>5, <1>12, OthersOK DEF Kept, ScalarKept, BufferSetTo

(* The transfers leave the scalar unit of every core alone and change one  *)
(* buffer, to b, of which they keep the pairs.                             *)
LEMMA TransferCore ==
  ASSUME IInv, NEW c \in Cores, NEW k \in Buffers, NEW b,
         launch' = launch, UNCHANGED scalarVars, Kept,
         buf' = [buf EXCEPT ![c][k] = b],
         b.in = buf[c][k].in, b.out = buf[c][k].out,
         b.stage \in InQueue <=> buf[c][k].stage \in InQueue,
         b.stage \in {"storeCkv", "storeKpe"} => IsStoring(c, k) /\ b.kpe = buf[c][k].kpe,
         b.stage \in {"loadKpe", "full"} => b.ckv = SrcToken(launch, b.in),
         b.stage = "full" => b.kpe = SrcToken(launch, b.in),
         b.stage # "storeCkv",
         b.stage = "storeKpe" => hbmCkv'[DstToken(launch, b.out)] # Poison
  PROVE  \A d \in Cores' : CoreOK(d)'
<1>0. TypeOK /\ CoreOK(c)
  BY DEF IInv
<1>1. BufferSetTo(c, k, b)
  BY <1>0, BufferSetFacts
<1>2. ScanOK(c)' /\ PairsOK(c)'
  BY <1>0 DEF CoreOK, ScanOK, PairsOK, scalarVars
<1>3. QueueOK(c)'
  <2>1. \A j \in Buffers : /\ buf'[c][j].in = buf[c][j].in
                           /\ buf'[c][j].stage \in InQueue <=> buf[c][j].stage \in InQueue
    BY <1>1 DEF BufferSetTo
  <2>2. /\ cur[c] # NoPair => copyQueue[c][1] \in Buffers
        /\ nxt[c] # NoPair => copyQueue[c][2] \in Buffers
    <3>1. copyQueue[c] \in Seq(Buffers) /\ 1 \in Buffers
      BY <1>0 DEF TypeOK, Buffers
    <3>2. cur[c] # NoPair => Len(copyQueue[c]) \in {1, 2}
      BY <1>0 DEF CoreOK, QueueOK
    <3>3. nxt[c] # NoPair => Len(copyQueue[c]) = 2
      BY <1>0 DEF CoreOK, QueueOK, PairsOK
    <3> QED BY <3>1, <3>2, <3>3, QueueFacts
  <2> QED BY <1>0, <2>1, <2>2 DEF CoreOK, QueueOK, scalarVars
<1>4. ASSUME NEW j \in Buffers PROVE BufferOK(c, j)'
  <2>1. BufferOK(c, j)
    BY <1>0 DEF CoreOK
  <2>2. \A i \in Buffers : /\ buf'[c][i].out = buf[c][i].out
                           /\ IsStoring(c, i)' => IsStoring(c, i)
    BY <1>1 DEF BufferSetTo, IsStoring
  <2>3. CASE j = k
    <3>1. buf'[c][j] = b
      BY <1>1, <2>3 DEF BufferSetTo
    <3> QED BY <2>1, <2>2, <2>3, <3>1 DEF BufferOK, IsStoring, scalarVars
  <2>4. CASE j # k
    <3>1. buf'[c][j] = buf[c][j]
      BY <1>1, <2>4 DEF BufferSetTo
    <3>2. buf[c][j].stage = "storeKpe" =>
            DstToken(launch, buf[c][j].out) \in HbmRows(launch)
      BY <1>0, <2>1, LaunchFacts DEF BufferOK, IsStoring
    <3> QED BY <2>1, <2>2, <3>1, <3>2 DEF BufferOK, IsStoring, scalarVars, Kept
  <2> QED BY <2>3, <2>4
<1>5. CoreOK(c)'
  BY <1>2, <1>3, <1>4 DEF CoreOK
<1> QED BY <1>1, <1>5, OthersOK DEF ScalarKept, BufferSetTo, scalarVars

(* A half that is stored is the half of the pair it is stored for, and     *)
(* what a store does to the cache.                                         *)
LEMMA StoreFacts ==
  ASSUME IInv, NEW c \in Cores, NEW k \in Buffers, IsStoring(c, k)
  PROVE  LET p == buf[c][k].out
         IN  /\ p \in ActivePairs(launch)
             /\ DstToken(launch, p) \in HbmRows(launch)
             /\ SrcToken(launch, p) # Poison
             /\ buf[c][k].kpe = SrcToken(launch, p)
             /\ buf[c][k].stage = "storeCkv" => buf[c][k].ckv = SrcToken(launch, p)
<1>1. TypeOK /\ BufferOK(c, k)
  BY DEF IInv, CoreOK
<1>2. \A s \in DramRows(launch) : s # Poison
  BY <1>1, LaunchFacts, BlockSizeAssumption DEF DramRows, Poison, IsLaunch, IsMetadata
<1> QED BY <1>1, <1>2, LaunchFacts DEF BufferOK

LEMMA TransferCores ==
  ASSUME IInv, NEW c \in Cores, NEW k \in Buffers, Transfer(c, k)
  PROVE  \A d \in Cores' : CoreOK(d)'
<1>0. TypeOK /\ BufferOK(c, k)
  BY DEF IInv, CoreOK
<1> DEFINE b == buf[c][k]
<1>1. CASE LoadCkv(c, k)
  <2> DEFINE new == Buffer("loadKpe", b.in, b.out, SrcToken(launch, b.in), b.kpe)
  <2>1. /\ b.stage = "loadCkv" /\ buf' = [buf EXCEPT ![c][k] = new]
        /\ launch' = launch /\ UNCHANGED scalarVars /\ Kept
    BY <1>1 DEF LoadCkv, Kept, hbmVars
  <2>2. /\ new.stage = "loadKpe" /\ new.in = b.in /\ new.out = b.out
        /\ new.ckv = SrcToken(launch, b.in)
    BY DEF Buffer
  <2> HIDE DEF new
  <2> QED BY <2>1, <2>2, TransferCore DEF InQueue
<1>2. CASE LoadKpe(c, k)
  <2> DEFINE new == Buffer("full", b.in, b.out, b.ckv, SrcToken(launch, b.in))
  <2>1. /\ b.stage = "loadKpe" /\ buf' = [buf EXCEPT ![c][k] = new]
        /\ launch' = launch /\ UNCHANGED scalarVars /\ Kept
    BY <1>2 DEF LoadKpe, Kept, hbmVars
  <2>2. /\ new.stage = "full" /\ new.in = b.in /\ new.out = b.out
        /\ new.ckv = b.ckv /\ new.kpe = SrcToken(launch, b.in)
    BY DEF Buffer
  <2>3. b.ckv = SrcToken(launch, b.in)
    BY <1>0, <2>1 DEF BufferOK
  <2> HIDE DEF new
  <2> QED BY <2>1, <2>2, <2>3, TransferCore DEF InQueue
<1>3. CASE StoreCkv(c, k)
  <2> DEFINE new == Buffer("storeKpe", b.in, b.out, b.ckv, b.kpe)
  <2>1. /\ b.stage = "storeCkv" /\ buf' = [buf EXCEPT ![c][k] = new]
        /\ launch' = launch /\ UNCHANGED scalarVars /\ hbmKpe' = hbmKpe
        /\ hbmCkv' = [hbmCkv EXCEPT ![DstToken(launch, b.out)] = b.ckv]
    BY <1>3 DEF StoreCkv
  <2>2. /\ new.stage = "storeKpe" /\ new.in = b.in /\ new.out = b.out
        /\ new.kpe = b.kpe
    BY DEF Buffer
  <2>3. IsStoring(c, k) /\ b.ckv # Poison /\ DstToken(launch, b.out) \in HbmRows(launch)
    BY <2>1, StoreFacts DEF IsStoring
  <2>4. Kept /\ hbmCkv'[DstToken(launch, b.out)] # Poison
    BY <1>0, <2>1, <2>3 DEF Kept, TypeOK
  <2> HIDE DEF new
  <2> QED BY <2>1, <2>2, <2>3, <2>4, TransferCore DEF InQueue
<1>4. CASE StoreKpe(c, k)
  <2> DEFINE new == Buffer("free", b.in, b.out, b.ckv, b.kpe)
  <2>1. /\ b.stage = "storeKpe" /\ buf' = [buf EXCEPT ![c][k] = new]
        /\ launch' = launch /\ UNCHANGED scalarVars /\ hbmCkv' = hbmCkv
        /\ hbmKpe' = [hbmKpe EXCEPT ![DstToken(launch, b.out)] = b.kpe]
    BY <1>4 DEF StoreKpe
  <2>2. new.stage = "free" /\ new.in = b.in /\ new.out = b.out
    BY DEF Buffer
  <2>3. b.kpe # Poison /\ DstToken(launch, b.out) \in HbmRows(launch)
    BY <2>1, StoreFacts DEF IsStoring
  <2>4. Kept
    BY <1>0, <2>1, <2>3 DEF Kept, TypeOK
  <2> HIDE DEF new
  <2> QED BY <2>1, <2>2, <2>4, TransferCore DEF InQueue
<1> QED BY <1>1, <1>2, <1>3, <1>4 DEF Transfer

LEMMA CoresStep ==
  ASSUME IInv, [Next]_vars
  PROVE  \A d \in Cores' : CoreOK(d)'
<1>1. ASSUME NEW c \in Cores, NEW k \in Buffers, CopyIn(c, k)
      PROVE  \A d \in Cores' : CoreOK(d)'
  BY <1>1, CopyInFirstCore, CopyInNextCore
<1>2. CASE UNCHANGED vars
  <2>1. Cores' = Cores /\ Kept
    BY <1>2 DEF vars, hbmVars, Cores, Kept
  <2>2. \A d \in Cores : ScalarKept(d) /\ buf'[d] = buf[d] /\ launch' = launch
    BY <1>2 DEF vars, scalarVars, ScalarKept
  <2> QED BY <2>1, <2>2, CoreFrame DEF IInv
<1> QED BY <1>1, <1>2, ScanCountedCore, ScanSkipRowCore, ScanEndCore, ResolveOkCore,
           ResolveFailCore, CopyOutCore, TransferCores
        DEF Next, Scalar, Scan, Resolve, Terminated

-----------------------------------------------------------------------------
(* What HBM holds.                                                         *)

LEMMA ProvenanceStep ==
  ASSUME IInv, [Next]_vars
  PROVE  Provenance'
<1>0. TypeOK /\ Provenance
  BY DEF IInv
<1>1. CASE UNCHANGED <<launch, hbmVars>>
  BY <1>0, <1>1 DEF Provenance, hbmVars
<1>2. ASSUME NEW c \in Cores, NEW k \in Buffers, IsStoring(c, k)
      PROVE  LET p == buf[c][k].out
             IN  p \in Writers(launch, DstToken(launch, p))
  BY <1>2, StoreFacts DEF Writers
<1>3. ASSUME NEW c \in Cores, NEW k \in Buffers, StoreCkv(c, k) PROVE Provenance'
  <2> DEFINE p == buf[c][k].out
  <2>1. /\ p \in Writers(launch, DstToken(launch, p))
        /\ buf[c][k].ckv = SrcToken(launch, p)
    BY <1>2, <1>3, StoreFacts DEF StoreCkv, IsStoring
  <2> HIDE DEF p
  <2>2. /\ launch' = launch /\ hbmKpe' = hbmKpe
        /\ hbmCkv' = [hbmCkv EXCEPT ![DstToken(launch, p)] = SrcToken(launch, p)]
    BY <1>3, <2>1 DEF StoreCkv, p
  <2> QED BY <1>0, <2>1, <2>2 DEF Provenance, TypeOK
<1>4. ASSUME NEW c \in Cores, NEW k \in Buffers, StoreKpe(c, k) PROVE Provenance'
  <2> DEFINE p == buf[c][k].out
  <2>1. /\ p \in Writers(launch, DstToken(launch, p))
        /\ buf[c][k].kpe = SrcToken(launch, p)
    BY <1>2, <1>4, StoreFacts DEF StoreKpe, IsStoring
  <2> HIDE DEF p
  <2>2. /\ launch' = launch /\ hbmCkv' = hbmCkv
        /\ hbmKpe' = [hbmKpe EXCEPT ![DstToken(launch, p)] = SrcToken(launch, p)]
    BY <1>4, <2>1 DEF StoreKpe, p
  <2> QED BY <1>0, <2>1, <2>2 DEF Provenance, TypeOK
<1>5. ASSUME NEW c \in Cores, Scalar(c) PROVE UNCHANGED <<launch, hbmVars>>
  BY <1>5 DEF Scalar, Scan, Resolve, ScanCounted, ScanSkipRow, ScanEnd,
              ResolveOk, ResolveFail, CopyIn, Enqueue, CopyOut, Loaded, StoredPair
<1>6. ASSUME NEW c \in Cores, NEW k \in Buffers, LoadCkv(c, k) \/ LoadKpe(c, k)
      PROVE  UNCHANGED <<launch, hbmVars>>
  BY <1>6 DEF LoadCkv, LoadKpe
<1>7. CASE UNCHANGED vars
  BY <1>1, <1>7 DEF vars
<1> QED BY <1>1, <1>3, <1>4, <1>5, <1>6, <1>7 DEF Next, Transfer, Terminated

-----------------------------------------------------------------------------
(* No active pair is lost.                                                 *)

SkipOK(c) ==
  \A p \in ActivePairs(launch) :
    OnStride(c, p) /\ p < flat[c] => p = cur[c] \/ Storing(c, p) \/ Settled(p)

(* It is enough that a step passes no active pair but the new current one, *)
(* lets go of the current one only into a store, and ends a store only     *)
(* with both halves written.                                               *)
LEMMA SkipFrame ==
  ASSUME TypeOK, NEW c \in Cores, SkipOK(c), launch' = launch, Kept,
         \A p \in ActivePairs(launch) :
           OnStride(c, p) /\ p < flat'[c] => p < flat[c] \/ p = cur'[c],
         \A p \in ActivePairs(launch) :
           p = cur[c] => p = cur'[c] \/ Storing(c, p)',
         \A p \in ActivePairs(launch) : Storing(c, p) => Storing(c, p)' \/ Settled(p)'
  PROVE  SkipOK(c)'
<1>1. ASSUME NEW p \in ActivePairs(launch), Settled(p) PROVE Settled(p)'
  BY <1>1, LaunchFacts DEF Settled, Kept
<1>2. ASSUME NEW p \in ActivePairs(launch), OnStride(c, p), p < flat'[c]
      PROVE  p = cur'[c] \/ Storing(c, p)' \/ Settled(p)'
  <2>2. p = cur'[c] \/ p = cur[c] \/ Storing(c, p) \/ Settled(p)
    BY <1>2 DEF SkipOK
  <2> QED BY <1>1, <2>2
<1> QED BY <1>2 DEF SkipOK, OnStride

(* The jump over the tail of a row passes no active pair of the core.      *)
LEMMA SkipRowPassesNone ==
  ASSUME IInv, NEW c \in Cores, ScanSkipRow(c),
         NEW p \in ActivePairs(launch), OnStride(c, p), p < flat'[c]
  PROVE  p < flat[c]
<1> DEFINE cap == launch.copyCap
           row == BatchIdx(launch, flat[c])
           end == (row + 1) * cap
<1>0. TypeOK /\ CacheCoherent /\ flat[c] < launch.totalPairSlots /\ flat[c] \in Nat
  BY DEF IInv, ScanSkipRow, Scanning, TypeOK
<1>1. /\ cap \in Nat \ {0} /\ row \in Nat
      /\ flat[c] = row * cap + CopyIdx(launch, flat[c])
      /\ CopyIdx(launch, flat[c]) \in Int
      /\ CopyIdx(launch, flat[c]) >= ClampedCount(launch, row)
      /\ ClampedCount(launch, row) \in Int
  BY <1>0, ScanFacts, LaunchFacts DEF ScanSkipRow
<1>2. /\ p \in Nat /\ p \in Pairs(launch)
      /\ CopyIdx(launch, p) < ClampedCount(launch, BatchIdx(launch, p))
  BY <1>0, LaunchFacts DEF ActivePairs
<1>3. /\ p = BatchIdx(launch, p) * cap + CopyIdx(launch, p)
      /\ CopyIdx(launch, p) \in 0 .. cap - 1
      /\ BatchIdx(launch, p) \in Nat
  BY <1>0, <1>2, LaunchFacts, PairPosition
<1>4. p < end
  <2>1. flat'[c] = FirstFlatPairAtOrAfter(launch, c, end)
    BY <1>0 DEF ScanSkipRow, TypeOK
  <2>2. end \in Nat /\ (end <= p => flat'[c] <= p) /\ flat'[c] \in Nat
    BY <1>0, <1>2, <2>1, SkipFacts DEF OnStride
  <2> HIDE DEF end
  <2> QED BY <1>2, <2>2
<1> HIDE DEF cap, row
<1>5. SUFFICES ASSUME flat[c] <= p PROVE FALSE
  BY <1>0, <1>2
<1>6. BatchIdx(launch, p) = row
  <2> DEFINE b == BatchIdx(launch, p)
             i == CopyIdx(launch, p)
  <2>1. b * cap < (row + 1) * cap
    BY <1>1, <1>2, <1>3, <1>4
  <2>0. b \in Nat
    BY <1>3
  <2>2. b < row + 1
    BY <1>1, <1>3, <2>1, MulMono
  <2>3. row * cap < (b + 1) * cap
    <3>1. CopyIdx(launch, flat[c]) >= 0
      BY <1>0, ScanFacts, LaunchFacts
    <3> QED BY <1>1, <1>2, <1>3, <1>5, <3>1
  <2>4. row < b + 1
    BY <1>1, <1>3, <2>3, MulMono
  <2> HIDE DEF b
  <2>5. b = row
    BY <1>1, <2>0, <2>2, <2>4
  <2> QED BY <2>5 DEF b
<1> QED BY <1>0, <1>1, <1>2, <1>3, <1>5, <1>6

(* A transfer forgets nothing, and ends the stores of a pair only when     *)
(* both its halves are written.                                            *)
LEMMA TransferSettles ==
  ASSUME IInv, NEW c \in Cores, NEW k \in Buffers, Transfer(c, k)
  PROVE  Kept /\ \A p \in ActivePairs(launch) : Storing(c, p) => Storing(c, p)' \/ Settled(p)'
<1> DEFINE b == buf[c][k]
<1>0. TypeOK /\ BufferOK(c, k)
  BY DEF IInv, CoreOK
<1>1. CASE LoadCkv(c, k) \/ LoadKpe(c, k)
  <2>1. Kept /\ ~IsStoring(c, k) /\ \A j \in Buffers : j # k => buf'[c][j] = buf[c][j]
    BY <1>0, <1>1 DEF LoadCkv, LoadKpe, Kept, hbmVars, IsStoring, TypeOK
  <2> QED BY <2>1 DEF Storing, IsStoring
<1>2. CASE StoreCkv(c, k)
  <2> DEFINE new == Buffer("storeKpe", b.in, b.out, b.ckv, b.kpe)
  <2>1. /\ b.stage = "storeCkv" /\ buf' = [buf EXCEPT ![c][k] = new]
        /\ hbmKpe' = hbmKpe
        /\ hbmCkv' = [hbmCkv EXCEPT ![DstToken(launch, b.out)] = b.ckv]
    BY <1>2 DEF StoreCkv
  <2>2. b.ckv # Poison /\ DstToken(launch, b.out) \in HbmRows(launch)
    BY <2>1, StoreFacts DEF IsStoring
  <2>3. Kept
    BY <1>0, <2>1, <2>2 DEF Kept, TypeOK
  <2>4. /\ buf'[c][k].stage = "storeKpe" /\ buf'[c][k].out = b.out
        /\ \A j \in Buffers : j # k => buf'[c][j] = buf[c][j]
    <3>1. new.stage = "storeKpe" /\ new.out = b.out
      BY DEF Buffer
    <3> HIDE DEF new
    <3>2. BufferSetTo(c, k, new)
      BY <1>0, <2>1, BufferSetFacts
    <3> QED BY <3>1, <3>2 DEF BufferSetTo
  <2> QED BY <2>3, <2>4 DEF Storing
<1>3. CASE StoreKpe(c, k)
  <2> DEFINE new == Buffer("free", b.in, b.out, b.ckv, b.kpe)
  <2>1. /\ b.stage = "storeKpe" /\ buf' = [buf EXCEPT ![c][k] = new]
        /\ hbmCkv' = hbmCkv /\ launch' = launch
        /\ hbmKpe' = [hbmKpe EXCEPT ![DstToken(launch, b.out)] = b.kpe]
    BY <1>3 DEF StoreKpe
  <2>2. b.kpe # Poison /\ DstToken(launch, b.out) \in HbmRows(launch)
    BY <2>1, StoreFacts DEF IsStoring
  <2>3. Kept /\ hbmKpe'[DstToken(launch, b.out)] # Poison
    BY <1>0, <2>1, <2>2 DEF Kept, TypeOK
  <2>4. hbmCkv'[DstToken(launch, b.out)] # Poison
    BY <1>0, <2>1 DEF BufferOK
  <2>5. \A j \in Buffers : j # k => buf'[c][j] = buf[c][j]
    BY <1>0, <2>1, BufferSetFacts DEF BufferSetTo
  <2>6. ASSUME NEW p \in ActivePairs(launch), Storing(c, p), p # b.out
        PROVE  Storing(c, p)'
    BY <2>5, <2>6 DEF Storing
  <2>7. ASSUME NEW p \in ActivePairs(launch), p = b.out PROVE Settled(p)'
    BY <2>1, <2>3, <2>4, <2>7 DEF Settled
  <2> QED BY <2>3, <2>6, <2>7
<1> QED BY <1>1, <1>2, <1>3 DEF Transfer

LEMMA SkipStep ==
  ASSUME IInv, [Next]_vars
  PROVE  NoPairSkipped'
<1>0. TypeOK /\ CacheCoherent /\ \A c \in Cores : CoreOK(c) /\ SkipOK(c)
  BY DEF IInv, NoPairSkipped, SkipOK
<1>1. launch' = launch /\ Cores' = Cores
  <2>1. launch' = launch
    BY DEF Next, Scalar, Scan, Resolve, ScanCounted, ScanSkipRow, ScanEnd, ResolveOk,
           ResolveFail, CopyIn, Enqueue, CopyOut, Loaded, StoredPair, Transfer, LoadCkv, LoadKpe, StoreCkv, StoreKpe,
           Terminated, vars
  <2> QED BY <2>1 DEF Cores
<1>2. SUFFICES \A d \in Cores : SkipOK(d)'
  BY <1>1 DEF NoPairSkipped, SkipOK
(* Cores whose scan, current pair and buffers are left alone.              *)
<1>3. ASSUME NEW d \in Cores, Kept,
             buf'[d] = buf[d], cur'[d] = cur[d], flat'[d] = flat[d]
      PROVE  SkipOK(d)'
  BY <1>0, <1>1, <1>3, SkipFrame DEF Storing
<1>4. ASSUME NEW c \in Cores, ScanCounted(c) \/ ScanEnd(c) \/ ResolveOk(c)
      PROVE  \A d \in Cores : SkipOK(d)'
  BY <1>3, <1>4 DEF ScanCounted, ScanEnd, ResolveOk, Kept, hbmVars
<1>5. ASSUME NEW c \in Cores, ScanSkipRow(c) PROVE \A d \in Cores : SkipOK(d)'
  <2>1. Kept /\ buf' = buf /\ cur' = cur /\ \A d \in Cores : d # c => flat'[d] = flat[d]
    BY <1>0, <1>5 DEF ScanSkipRow, Kept, hbmVars, TypeOK
  <2>2. SkipOK(c)'
    BY <1>0, <1>1, <1>5, <2>1, SkipFrame, SkipRowPassesNone DEF Storing
  <2> QED BY <1>3, <2>1, <2>2
<1>6. ASSUME NEW c \in Cores, ResolveFail(c) PROVE \A d \in Cores : SkipOK(d)'
  <2>1. /\ Kept /\ buf' = buf /\ cur' = cur
        /\ flat'[c] = flat[c] + launch.usedCoreNum
        /\ \A d \in Cores : d # c => flat'[d] = flat[d]
    BY <1>0, <1>6 DEF ResolveFail, Kept, hbmVars, TypeOK
  <2>2. flat[c] \notin ActivePairs(launch)
    BY <1>6 DEF ResolveFail, ActivePairs
  <2>3. NextFlat(c)
    BY <1>0, NextFlatFacts DEF CoreOK
  <2>4. ASSUME NEW p \in ActivePairs(launch), OnStride(c, p), p < flat'[c]
        PROVE  p < flat[c]
    <3>1. p \in Nat /\ p <= flat[c]
      BY <1>0, <2>1, <2>3, <2>4, LaunchFacts DEF NextFlat, OnStride
    <3> QED BY <2>2, <2>3, <3>1 DEF NextFlat
  <2>5. SkipOK(c)'
    BY <1>0, <1>1, <2>1, <2>4, SkipFrame DEF Storing
  <2> QED BY <1>3, <2>1, <2>5
<1>7. ASSUME NEW c \in Cores, NEW k \in Buffers, CopyIn(c, k)
      PROVE  \A d \in Cores : SkipOK(d)'
  <2>1. /\ Kept /\ buf[c][k].stage = "free"
        /\ BufferSetTo(c, k, Buffer("loadCkv", flat[c], buf[c][k].out, buf[c][k].ckv, buf[c][k].kpe))
        /\ \A d \in Cores : d # c => cur'[d] = cur[d] /\ flat'[d] = flat[d]
    BY <1>0, <1>7, BufferSetFacts DEF CopyIn, Enqueue, Kept, hbmVars, TypeOK
  <2>2. ASSUME NEW p \in ActivePairs(launch), Storing(c, p) PROVE Storing(c, p)'
    BY <2>1, <2>2 DEF Storing, BufferSetTo
  <2>3. ASSUME NEW p \in ActivePairs(launch), OnStride(c, p), p < flat'[c]
        PROVE  p < flat[c] \/ p = cur'[c]
    <3>1. CASE cur[c] = NoPair
      <4>1. flat'[c] = flat[c] + launch.usedCoreNum /\ cur'[c] = flat[c]
        BY <1>0, <1>7, <3>1 DEF CopyIn, Enqueue, TypeOK
      <4>2. p \in Nat /\ p <= flat[c] /\ flat[c] \in Nat
        BY <1>0, <2>3, <4>1, LaunchFacts, NextFlatFacts DEF NextFlat, OnStride, CoreOK
      <4> QED BY <4>1, <4>2
    <3>2. CASE cur[c] # NoPair
      BY <1>7, <2>3, <3>2 DEF CopyIn, Enqueue
    <3> QED BY <3>1, <3>2
  <2>4. ASSUME NEW p \in ActivePairs(launch), p = cur[c] PROVE p = cur'[c]
    <3>1. p # NoPair
      BY <1>0, LaunchFacts DEF NoPair
    <3> QED BY <1>7, <2>4, <3>1 DEF CopyIn, Enqueue
  <2>5. SkipOK(c)'
    BY <1>0, <1>1, <2>1, <2>2, <2>3, <2>4, SkipFrame
  <2> QED BY <1>3, <2>1, <2>5 DEF BufferSetTo
<1>8. ASSUME NEW c \in Cores, CopyOut(c) PROVE \A d \in Cores : SkipOK(d)'
  <2> DEFINE k == Head(copyQueue[c])
             b == Buffer("storeCkv", buf[c][k].in, cur[c], buf[c][k].ckv, buf[c][k].kpe)
  <2>1. k \in Buffers
    BY <1>0, <1>8 DEF CopyOut, Loaded, StoredPair, TypeOK
  <2>2. /\ Kept /\ buf[c][k].stage = "full"
        /\ BufferSetTo(c, k, b) /\ cur'[c] = nxt[c]
        /\ \A d \in Cores : d # c => cur'[d] = cur[d] /\ flat'[d] = flat[d]
    BY <1>0, <1>8, <2>1, BufferSetFacts DEF CopyOut, Loaded, StoredPair, Kept, hbmVars, TypeOK
  <2> HIDE DEF k
  <2>3. ASSUME NEW p \in ActivePairs(launch), Storing(c, p) PROVE Storing(c, p)'
    BY <2>2, <2>3 DEF Storing, BufferSetTo
  <2>4. ASSUME NEW p \in ActivePairs(launch), p = cur[c] PROVE Storing(c, p)'
    <3>1. buf'[c][k].stage = "storeCkv" /\ buf'[c][k].out = p
      BY <2>2, <2>4 DEF BufferSetTo, Buffer
    <3> QED BY <2>1, <3>1 DEF Storing
  <2>5. ASSUME NEW p \in ActivePairs(launch), OnStride(c, p), p < flat'[c]
        PROVE  p < flat[c] \/ p = cur'[c]
    <3>1. CASE nxt[c] = NoPair
      BY <1>8, <2>5, <3>1 DEF CopyOut, Loaded, StoredPair
    <3>2. CASE nxt[c] # NoPair
      <4>1. flat'[c] = flat[c] + launch.usedCoreNum /\ cur'[c] = flat[c]
        BY <1>0, <1>8, <3>2 DEF CopyOut, Loaded, StoredPair, TypeOK, CoreOK, ScanOK
      <4>2. p \in Nat /\ p <= flat[c] /\ flat[c] \in Nat
        BY <1>0, <2>5, <4>1, LaunchFacts, NextFlatFacts DEF NextFlat, OnStride, CoreOK
      <4> QED BY <4>1, <4>2
    <3> QED BY <3>1, <3>2
  <2>6. SkipOK(c)'
    BY <1>0, <1>1, <2>2, <2>3, <2>4, <2>5, SkipFrame
  <2> QED BY <1>3, <2>2, <2>6 DEF BufferSetTo
<1>9. ASSUME NEW c \in Cores, NEW k \in Buffers, Transfer(c, k)
      PROVE  \A d \in Cores : SkipOK(d)'
  <2>1. /\ cur' = cur /\ flat' = flat
        /\ \A d \in Cores : d # c => buf'[d] = buf[d]
        /\ \A j \in Buffers : j # k => buf'[c][j] = buf[c][j]
    BY <1>0, <1>9 DEF Transfer, LoadCkv, LoadKpe, StoreCkv, StoreKpe, scalarVars, TypeOK
  <2>2. Kept /\ \A p \in ActivePairs(launch) : Storing(c, p) => Storing(c, p)' \/ Settled(p)'
    BY <1>9, TransferSettles
  <2>3. SkipOK(c)'
    BY <1>0, <1>1, <2>1, <2>2, SkipFrame
  <2> QED BY <1>3, <2>1, <2>2, <2>3
<1>10. CASE UNCHANGED vars
  BY <1>3, <1>10 DEF vars, scalarVars, hbmVars, Kept
<1> QED
  BY <1>4, <1>5, <1>6, <1>7, <1>8, <1>9, <1>10 DEF Next, Scalar, Scan, Resolve, Terminated

-----------------------------------------------------------------------------
(* The theorems.                                                           *)

(* No step forgets a written row.                                          *)
LEMMA KeptStep ==
  ASSUME IInv, [Next]_vars
  PROVE  Kept
<1>1. CASE UNCHANGED hbmVars
  BY <1>1 DEF hbmVars, Kept
<1>2. ASSUME NEW c \in Cores, Scalar(c) PROVE UNCHANGED hbmVars
  BY <1>2 DEF Scalar, Scan, Resolve, ScanCounted, ScanSkipRow, ScanEnd,
              ResolveOk, ResolveFail, CopyIn, Enqueue, CopyOut, Loaded, StoredPair
<1> QED BY <1>1, <1>2, TransferSettles DEF Next, Terminated, vars

LEMMA IInvInit ==
  ASSUME Init
  PROVE  IInv
<1>0. launch \in Launches /\ IsLaunch(launch)
  BY LaunchesAssumption DEF Init
<1>1. TypeOK
  <2>1. buf \in [Cores -> [Buffers -> BufferType]]
    BY DEF Init, BufferType, Buffer, Stages
  <2>2. launch.copyCap \in Nat /\ \A c \in Cores : c \in Nat
    BY <1>0 DEF IsLaunch, IsTiling, Cores
  <2>3. /\ pc \in [Cores -> {"seek", "resolve", "copyin", "copyout", "done"}]
        /\ flat \in [Cores -> Nat]
        /\ cachedBatchIdx \in [Cores -> 0 .. launch.batchSize - 1 \cup {NoBatch}]
        /\ cachedCopyCount \in [Cores -> 0 .. launch.copyCap]
        /\ cur \in [Cores -> Pairs(launch) \cup {NoPair}]
        /\ nxt \in [Cores -> Pairs(launch) \cup {NoPair}]
    BY <2>2 DEF Init
  <2>4. copyQueue \in [Cores -> Seq(Buffers)]
    BY DEF Init
  <2>5. /\ hbmCkv \in [HbmRows(launch) -> DramRows(launch) \cup {Poison, Garbage}]
        /\ hbmKpe \in [HbmRows(launch) -> DramRows(launch) \cup {Poison, Garbage}]
    BY DEF Init
  <2> QED BY <1>0, <2>1, <2>3, <2>4, <2>5 DEF TypeOK
<1>2. CacheCoherent
  BY DEF Init, CacheCoherent
<1>3. ASSUME NEW c \in Cores PROVE CoreOK(c)
  <2>1. /\ pc[c] = "seek" /\ flat[c] = c /\ cur[c] = NoPair /\ nxt[c] = NoPair
        /\ Len(copyQueue[c]) = 0
        /\ \A k \in Buffers : buf[c][k].stage = "free"
    BY DEF Init, Buffer
  <2>2. c % launch.usedCoreNum = c
    <3>1. launch.usedCoreNum \in Nat \ {0} /\ c \in 0 .. launch.usedCoreNum - 1
      BY <1>0 DEF IsLaunch, IsTiling, Cores
    <3>2. 0 * launch.usedCoreNum + c = c
      BY <3>1
    <3> QED BY <3>1, <3>2, DivUnique
  <2> QED BY <2>1, <2>2 DEF CoreOK, ScanOK, PairsOK, QueueOK, BufferOK, IsStoring, InQueue
<1>4. Provenance
  BY DEF Init, Provenance
<1>5. NoPairSkipped
  <2>1. ASSUME NEW c \in Cores, NEW p \in ActivePairs(launch), OnStride(c, p), p < flat[c]
        PROVE  FALSE
    <3>1. /\ launch.usedCoreNum \in Nat \ {0} /\ c \in 0 .. launch.usedCoreNum - 1
          /\ p \in Nat /\ flat[c] = c
      BY <1>1, LaunchFacts DEF Cores, Init
    <3>2. 0 * launch.usedCoreNum + p = p /\ p \in 0 .. launch.usedCoreNum - 1
      BY <2>1, <3>1
    <3>3. p % launch.usedCoreNum = p
      BY <3>1, <3>2, DivUnique
    <3> QED BY <2>1, <3>1, <3>3 DEF OnStride
  <2> QED BY <2>1 DEF NoPairSkipped
<1> QED BY <1>1, <1>2, <1>3, <1>4, <1>5 DEF IInv

LEMMA IInvStep == IInv /\ [Next]_vars => IInv'
  BY TypeStep, CacheStep, CoresStep, ProvenanceStep, SkipStep DEF IInv

(* In every reachable state of every launch all parts of the inductive     *)
(* invariant hold.                                                         *)
THEOREM Invariance == Spec => []IInv
<1>1. Init => IInv
  BY IInvInit
<1>2. IInv /\ [Next]_vars => IInv'
  BY IInvStep
<1> QED BY <1>1, <1>2, PTL DEF Spec

(* Every variable keeps its type: no core leaves the slots of the launch,  *)
(* no count the cap, no buffer its stages.                                 *)
THEOREM TypeCorrect == Spec => []TypeOK
  BY Invariance, PTL DEF IInv

(* A core never applies one row's count to another row.                    *)
THEOREM CacheCorrect == Spec => []CacheCoherent
  BY Invariance, PTL DEF IInv

(* CopyOut always finds the current pair's data at the head of the queue.  *)
THEOREM QueueCorrect == Spec => []QueueHoldsCurrent
<1>1. IInv => QueueHoldsCurrent
  BY DEF IInv, CoreOK, QueueOK, PairsOK, QueueHoldsCurrent
<1> QED BY <1>1, Invariance, PTL

(* HBM never holds anything but the sources of the pairs that name a row.  *)
THEOREM ProvenanceCorrect == Spec => []Provenance
  BY Invariance, PTL DEF IInv

(* No core passes an active pair without copying it.                       *)
THEOREM NoPairSkippedCorrect == Spec => []NoPairSkipped
  BY Invariance, PTL DEF IInv

(* A core waiting for a buffer has one that is free or draining.           *)
THEOREM AllocCorrect == Spec => []AllocCompletes
<1>1. ASSUME IInv, NEW c \in Cores, pc[c] = "copyin"
      PROVE  \E k \in Buffers : buf[c][k].stage \in {"free", "storeCkv", "storeKpe"}
  <2>1. /\ nxt[c] = NoPair /\ TypeOK
        /\ \A k \in Buffers : buf[c][k].stage \in InQueue => copyQueue[c][1] = k
    BY <1>1 DEF IInv, CoreOK, ScanOK, QueueOK
  <2>2. \E k \in Buffers : copyQueue[c][1] # k
    BY DEF Buffers
  <2>3. PICK k \in Buffers : buf[c][k].stage \notin InQueue
    BY <2>1, <2>2
  <2>4. buf[c][k].stage \in Stages
    <3>1. buf[c][k] \in BufferType
      BY <2>1 DEF TypeOK
    <3> QED BY <3>1 DEF BufferType
  <2> QED BY <2>3, <2>4 DEF Stages, InQueue
<1>2. IInv => AllocCompletes
  BY <1>1 DEF AllocCompletes
<1> QED BY <1>2, Invariance, PTL

(* When all cores have returned and their stores are complete, every       *)
(* active pair is copied, and with distinct destinations each destination  *)
(* row holds exactly its own source.                                       *)
THEOREM FinalCorrect == Spec => []FinalContents
<1>1. ASSUME IInv, Finished PROVE \A p \in ActivePairs(launch) : Settled(p)
  <2> TAKE p \in ActivePairs(launch)
  <2> DEFINE c == p % launch.usedCoreNum
  <2>1. c \in Cores /\ p < launch.totalPairSlots /\ p # NoPair /\ p \in Nat
    <3>1. p \in Nat /\ p < launch.totalPairSlots /\ launch.usedCoreNum \in Nat \ {0}
      BY <1>1, LaunchFacts DEF IInv
    <3>2. c \in 0 .. launch.usedCoreNum - 1
      <4> DEFINE n == launch.usedCoreNum
      <4>1. n \in Nat \ {0}
        BY <3>1
      <4> HIDE DEF n
      <4>2. p % n \in 0 .. n - 1
        BY <3>1, <4>1, DivMod
      <4> QED BY <4>2 DEF n
    <3>3. c \in Cores
      BY <3>2 DEF Cores
    <3> QED BY <3>1, <3>3 DEF NoPair
  <2>2. OnStride(c, p)
    BY DEF OnStride
  <2> HIDE DEF c
  <2>3. /\ flat[c] >= launch.totalPairSlots /\ flat[c] \in Nat /\ launch.totalPairSlots \in Nat
        /\ cur[c] = NoPair
    BY <1>1, <2>1, LaunchFacts DEF Finished, IInv, CoreOK, ScanOK, TypeOK
  <2>4. ~Storing(c, p)
    BY <1>1, <2>1 DEF Finished, Storing
  <2> QED BY <1>1, <2>1, <2>2, <2>3, <2>4 DEF IInv, NoPairSkipped
<1>2. ASSUME IInv, Finished, DistinctDestinations(launch),
             NEW p \in ActivePairs(launch)
      PROVE  /\ hbmCkv[DstToken(launch, p)] = SrcToken(launch, p)
             /\ hbmKpe[DstToken(launch, p)] = SrcToken(launch, p)
  <2>1. Settled(p) /\ DstToken(launch, p) \in HbmRows(launch)
    BY <1>1, <1>2, LaunchFacts DEF IInv
  <2>2. Writers(launch, DstToken(launch, p)) = {p}
    BY <1>2 DEF Writers, DistinctDestinations
  <2> QED BY <1>2, <2>1, <2>2 DEF IInv, Provenance, Settled
<1>3. IInv => FinalContents
  BY <1>1, <1>2 DEF FinalContents, IInv
<1> QED BY <1>3, Invariance, PTL

(* With distinct destinations a row that has been written never changes:   *)
(* the only value it can take is the source of its one pair.               *)
THEOREM WrittenOnceCorrect == Spec => WrittenOnce
<1>1. ASSUME IInv, IInv', [Next]_vars, DistinctDestinations(launch),
             NEW r \in HbmRows(launch)
      PROVE  /\ hbmCkv[r] # Poison => hbmCkv'[r] = hbmCkv[r]
             /\ hbmKpe[r] # Poison => hbmKpe'[r] = hbmKpe[r]
  <2>1. launch' = launch
    BY <1>1 DEF Next, Scalar, Scan, Resolve, ScanCounted, ScanSkipRow, ScanEnd, ResolveOk,
                ResolveFail, CopyIn, Enqueue, CopyOut, Loaded, StoredPair, Transfer, LoadCkv, LoadKpe, StoreCkv, StoreKpe,
                Terminated, vars
  <2>2. \A p, q \in Writers(launch, r) : p = q
    BY <1>1 DEF Writers, DistinctDestinations
  <2>3. /\ hbmCkv[r] # Poison => hbmCkv'[r] # Poison
        /\ hbmKpe[r] # Poison => hbmKpe'[r] # Poison
    BY <1>1, KeptStep DEF Kept
  <2>4. \A h \in {hbmCkv[r], hbmKpe[r], hbmCkv'[r], hbmKpe'[r]} :
          h # Poison => \E p \in Writers(launch, r) : h = SrcToken(launch, p)
    BY <1>1, <2>1 DEF IInv, Provenance
  <2> QED BY <2>2, <2>3, <2>4
<1>2. IInv /\ IInv' /\ [Next]_vars =>
        [DistinctDestinations(launch) =>
           \A r \in HbmRows(launch) :
             /\ hbmCkv[r] # Poison => hbmCkv'[r] = hbmCkv[r]
             /\ hbmKpe[r] # Poison => hbmKpe'[r] = hbmKpe[r]]_vars
  BY <1>1
<1> QED BY <1>2, Invariance, PTL DEF Spec, WrittenOnce
=============================================================================
