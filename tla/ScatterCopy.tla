----------------------------- MODULE ScatterCopy -----------------------------
(***************************************************************************)
(* What one kvcache_scatter_copy call promises, with no cores, queues or   *)
(* DMA: every active (source, destination) pair has two halves, its CKV    *)
(* row and its KPE row, and each half is moved from DRAM to HBM exactly    *)
(* once, in an order the caller cannot rely on.                            *)
(*                                                                         *)
(* DRAM is read-only during the call, so the content of a DRAM row is      *)
(* represented by the row's index; an HBM row the call has not written     *)
(* holds Poison (the fill value of the repository's tests).                *)
(***************************************************************************)
EXTENDS ScatterPairs

CONSTANT
  Launches     \* the launches considered

VARIABLES
  launch,      \* the tiling data and metadata of this call
  pending,     \* the halves still to be moved
  hbmCkv,      \* HBM CKV cache, by token row
  hbmKpe       \* HBM KPE cache, by token row

vars == <<launch, pending, hbmCkv, hbmKpe>>

Poison == -1
Halves == {"ckv", "kpe"}

Init ==
  /\ launch \in Launches
  /\ pending = ActivePairs(launch) \X Halves
  /\ hbmCkv = [r \in HbmRows(launch) |-> Poison]
  /\ hbmKpe = [r \in HbmRows(launch) |-> Poison]

MoveCkv(p) ==
  /\ <<p, "ckv">> \in pending
  /\ pending' = pending \ {<<p, "ckv">>}
  /\ hbmCkv' = [hbmCkv EXCEPT ![DstToken(launch, p)] = SrcToken(launch, p)]
  /\ UNCHANGED <<launch, hbmKpe>>

MoveKpe(p) ==
  /\ <<p, "kpe">> \in pending
  /\ pending' = pending \ {<<p, "kpe">>}
  /\ hbmKpe' = [hbmKpe EXCEPT ![DstToken(launch, p)] = SrcToken(launch, p)]
  /\ UNCHANGED <<launch, hbmCkv>>

Next == \E p \in ActivePairs(launch) : MoveCkv(p) \/ MoveKpe(p)

Spec == Init /\ [][Next]_vars

FairSpec == Spec /\ WF_vars(Next)
=============================================================================
