---------------------------- MODULE ScatterPairs ----------------------------
(***************************************************************************)
(* The address arithmetic of the A5KvcacheScatterCopy kernel               *)
(* (csrc/src/kvcache_scatter_copy/op_kernel/a5_kvcache_scatter_copy.cpp).  *)
(*                                                                         *)
(* A launch has one slot per (request row, metadata column): "flat pair"   *)
(* p stands for row p \div copyCap and column p - row * copyCap.  Each     *)
(* slot may name a source token of the DRAM cache and a destination slot   *)
(* of the HBM cache, both translated through a per-row block table.        *)
(*                                                                         *)
(* A launch L is a record: the tiling data the host computed and the       *)
(* metadata tensors, each as a function over its flat element index.       *)
(***************************************************************************)
EXTENDS Integers

CONSTANT
  BlockSize    \* tokens in one cache block, 128 in the code

ASSUME BlockSizeAssumption == BlockSize \in Nat \ {0}

-----------------------------------------------------------------------------

(* What the kernel relies on: the tiling data TilingFunc produces, tensors *)
(* of the sizes it checked, and block-table entries that are negative      *)
(* (unmapped) or below the number of blocks of the cache they point into.  *)
(* The last is the caller's duty: neither the host nor the kernel checks   *)
(* the upper end.                                                          *)
IsTiling(L) ==
  /\ L.batchSize \in Nat \ {0}
  /\ L.copyCap \in Nat \ {0}
  /\ L.usedCoreNum \in Nat \ {0}
  /\ L.dramMaxBlockNum \in Nat \ {0}
  /\ L.hbmMaxBlockNum \in Nat \ {0}
  /\ L.totalPairSlots = L.batchSize * L.copyCap

IsMetadata(L) ==
  /\ L.dramBlocks \in Nat
  /\ L.hbmBlocks \in Nat
  /\ L.copyCounts \in [0 .. L.batchSize - 1 -> Int]
  /\ L.srcTokenIds \in [0 .. L.totalPairSlots - 1 -> Int]
  /\ L.dstSlots \in [0 .. L.totalPairSlots - 1 -> Int]
  /\ L.dramBlockTable \in [0 .. L.batchSize * L.dramMaxBlockNum - 1 -> Int]
  /\ L.hbmBlockTable \in [0 .. L.batchSize * L.hbmMaxBlockNum - 1 -> Int]

TablesInRange(L) ==
  /\ \A i \in DOMAIN L.dramBlockTable : L.dramBlockTable[i] < L.dramBlocks
  /\ \A i \in DOMAIN L.hbmBlockTable : L.hbmBlockTable[i] < L.hbmBlocks

IsLaunch(L) == IsTiling(L) /\ IsMetadata(L) /\ TablesInRange(L)

-----------------------------------------------------------------------------

Pairs(L) == 0 .. L.totalPairSlots - 1

BatchIdx(L, p) == p \div L.copyCap

CopyIdx(L, p) == p - BatchIdx(L, p) * L.copyCap

(* copy_counts[b] clamped to 0 .. copyCap, as FindNextValidPair caches it. *)
ClampedCount(L, b) ==
  LET count == L.copyCounts[b]
  IN  IF count < 0 THEN 0
      ELSE IF count > L.copyCap THEN L.copyCap
      ELSE count

(* A mistake FirstFlatPairAtOrAfter could make: rounding up a start that   *)
(* is already on the stride.                                               *)
FirstFlatPairAfter(L, c, start) ==
  IF start <= c
    THEN c
    ELSE c + ((start - c) \div L.usedCoreNum + 1) * L.usedCoreNum

(* The first flat pair of core c (c, c + n, c + 2n, ...) not below start.  *)
FirstFlatPairAtOrAfter(L, c, start) ==
  IF start <= c
    THEN c
    ELSE c + (((start - c) + L.usedCoreNum - 1) \div L.usedCoreNum)
               * L.usedCoreNum

SrcBlockCol(L, p) == L.srcTokenIds[p] \div BlockSize
DstBlockCol(L, p) == L.dstSlots[p] \div BlockSize

SrcPhysicalBlock(L, p) ==
  L.dramBlockTable[BatchIdx(L, p) * L.dramMaxBlockNum + SrcBlockCol(L, p)]

DstPhysicalBlock(L, p) ==
  L.hbmBlockTable[BatchIdx(L, p) * L.hbmMaxBlockNum + DstBlockCol(L, p)]

(* ResolveAddress returns true: both ids are non-negative, inside their    *)
(* row of the block table, and mapped to a physical block.                 *)
Resolves(L, p) ==
  /\ L.srcTokenIds[p] >= 0
  /\ L.dstSlots[p] >= 0
  /\ SrcBlockCol(L, p) < L.dramMaxBlockNum
  /\ DstBlockCol(L, p) < L.hbmMaxBlockNum
  /\ SrcPhysicalBlock(L, p) >= 0
  /\ DstPhysicalBlock(L, p) >= 0

(* Token rows of the two caches.  The kernel scales a token row by the     *)
(* bytes of a row; a row is the unit here.                                 *)
SrcToken(L, p) ==
  SrcPhysicalBlock(L, p) * BlockSize + (L.srcTokenIds[p] % BlockSize)

DstToken(L, p) ==
  DstPhysicalBlock(L, p) * BlockSize + (L.dstSlots[p] % BlockSize)

-----------------------------------------------------------------------------
(* The reference: what one launch has to copy, stated per request row as   *)
(* the interface describes it, without cores, strides or cached counts.    *)

ActivePairs(L) ==
  {p \in Pairs(L) : CopyIdx(L, p) < ClampedCount(L, BatchIdx(L, p))
                      /\ Resolves(L, p)}

HbmRows(L) == 0 .. L.hbmBlocks * BlockSize - 1
DramRows(L) == 0 .. L.dramBlocks * BlockSize - 1

(* The active pairs whose destination is the HBM row r.                    *)
Writers(L, r) == {p \in ActivePairs(L) : DstToken(L, p) = r}

DistinctDestinations(L) ==
  \A p, q \in ActivePairs(L) : DstToken(L, p) = DstToken(L, q) => p = q
=============================================================================
