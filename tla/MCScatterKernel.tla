--------------------------- MODULE MCScatterKernel ---------------------------
(***************************************************************************)
(* Launches for ScatterKernel.                                             *)
(*                                                                         *)
(* ShapeLaunches vary the schedule: rows, copy cap, cores and per-row      *)
(* counts (negative and beyond the cap included), every counted slot       *)
(* resolving to a destination of its own.  SlotLaunches vary the slots of  *)
(* one fixed shape: unresolvable for each reason ResolveAddress has, or    *)
(* sharing a destination within a core or between two cores.               *)
(***************************************************************************)
EXTENDS ScatterKernel

LOCAL Smaller(a, b) == IF a < b THEN a ELSE b

(* A launch of batch rows of cap slots on cores AIV cores (what TilingFunc *)
(* makes of it), two block-table columns per row: row b owns blocks 2b and *)
(* 2b + 1 of both caches, listed in opposite orders.                       *)
Launch(batch, cap, cores, counts, src, dst) ==
  [usedCoreNum |-> Smaller(batch * cap, cores),
   batchSize |-> batch, copyCap |-> cap,
   hbmMaxBlockNum |-> 2, dramMaxBlockNum |-> 2,
   totalPairSlots |-> batch * cap,
   hbmBlocks |-> 2 * batch, dramBlocks |-> 2 * batch,
   copyCounts |-> counts, srcTokenIds |-> src, dstSlots |-> dst,
   hbmBlockTable |-> [i \in 0 .. 2 * batch - 1 |-> i],
   dramBlockTable |-> [i \in 0 .. 2 * batch - 1 |->
                         IF i % 2 = 0 THEN i + 1 ELSE i - 1]]

(* Column j of a row copies token cap - 1 - j of the row to slot j.        *)
Straight(batch, cap, cores, counts) ==
  Launch(batch, cap, cores, counts,
         [p \in 0 .. batch * cap - 1 |-> cap - 1 - (p % cap)],
         [p \in 0 .. batch * cap - 1 |-> p % cap])

Sizes == {<<1, 4, 2>>, <<2, 2, 2>>, <<3, 1, 2>>, <<2, 3, 2>>, <<2, 4, 1>>,
          <<1, 2, 3>>, <<4, 1, 1>>}

ShapeLaunches ==
  UNION {{Straight(s[1], s[2], s[3], counts) :
            counts \in [0 .. s[1] - 1 -> {-1, 1, s[2] + 1}]} : s \in Sizes}

-----------------------------------------------------------------------------

(* Two rows of two slots on two cores: core 0 has pairs 0 and 2, core 1    *)
(* has pairs 1 and 3.  In the base launch each slot moves its own token.   *)
Base == Straight(2, 2, 2, [b \in 0 .. 1 |-> 2])

(* A slot that does not resolve, for each of the reasons: a negative id, a *)
(* column past the row of the block table (token 4 is column 2), a table   *)
(* entry that maps to no block.                                            *)
SourceUnresolved(p) ==
  {[Base EXCEPT !.srcTokenIds[p] = v] : v \in {-1, 4}}
    \cup {[Base EXCEPT !.srcTokenIds[p] = 2,
                       !.dramBlockTable[2 * (p \div 2) + 1] = -1]}

DestinationUnresolved(p) ==
  {[Base EXCEPT !.dstSlots[p] = v] : v \in {-1, 4}}
    \cup {[Base EXCEPT !.dstSlots[p] = 2,
                       !.hbmBlockTable[2 * (p \div 2) + 1] = -1]}

(* Two slots with one destination: of one row (two cores), or of two rows  *)
(* whose tables share a block (one core, or two).                          *)
SameDestination ==
  {[Base EXCEPT !.dstSlots[1] = 0],
   [Base EXCEPT !.hbmBlockTable[2] = 0],
   [Base EXCEPT !.hbmBlockTable[2] = 0, !.dstSlots[2] = 1, !.dstSlots[3] = 0]}

(* Unresolved: the first pair of a core, or the last.                      *)
SlotLaunches ==
  SourceUnresolved(0) \cup DestinationUnresolved(3) \cup SameDestination
=============================================================================
