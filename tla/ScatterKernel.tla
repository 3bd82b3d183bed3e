---------------------------- MODULE ScatterKernel ----------------------------
(***************************************************************************)
(* The A5KvcacheScatterCopy kernel as its AIV cores run it                 *)
(* (csrc/src/kvcache_scatter_copy/op_kernel/a5_kvcache_scatter_copy.cpp).  *)
(*                                                                         *)
(* Each core walks the flat pairs c, c + n, c + 2n, ... of the launch,     *)
(* skips the slots its row does not count or that do not resolve, and      *)
(* streams the rest through a two-deep queue of local buffers: the load of *)
(* the next pair is started before the store of the current one.           *)
(*                                                                         *)
(* The scalar unit of a core only issues the loads (MTE2) and stores       *)
(* (MTE3); they complete later, concurrently with the scalar unit and with *)
(* each other.  Two transfers on one buffer complete in issue order.       *)
(*                                                                         *)
(* A DRAM row is represented by its index (the call only reads DRAM), so   *)
(* "hbmCkv[r] = s" reads "HBM row r holds the CKV half of DRAM row s".     *)
(***************************************************************************)
EXTENDS ScatterPairs, Sequences

CONSTANTS
  AivCoreNum,  \* AIV cores of the device
  Launches     \* the launches considered

ASSUME LaunchesAssumption ==
  \A L \in Launches : IsLaunch(L) /\ L.usedCoreNum <= AivCoreNum

VARIABLES
  launch,            \* tiling data and metadata tensors of this call
  pc,                \* where the scalar unit of a core is in Process
  flat,              \* the flat pair the scan of a core looks at
  cachedBatchIdx,    \* cachedBatchIdx_
  cachedCopyCount,   \* cachedCopyCount_
  cur,               \* currentFlatPair, its address already resolved
  nxt,               \* nextFlatPair once it is copied in
  copyQueue,         \* copyQueue_: the enqueued buffers, oldest first
  buf,               \* the two local buffers of a core
  hbmCkv,            \* hbmKvCacheGm_, by token row
  hbmKpe             \* hbmKRoPEGm_, by token row

scalarVars == <<pc, flat, cachedBatchIdx, cachedCopyCount, cur, nxt, copyQueue>>
hbmVars == <<hbmCkv, hbmKpe>>
vars == <<launch, scalarVars, buf, hbmVars>>

NoBatch == -1     \* static_cast<uint32_t>(-1)
NoPair == -1
Poison == -1      \* what an HBM row holds before the call
Garbage == -2     \* what local memory holds before the first load

OneBuffer == 1 .. 1    \* a mistake: a queue of depth one

Buffers == 1 .. 2
Stages == {"free", "loadCkv", "loadKpe", "full", "storeCkv", "storeKpe"}
InQueue == {"loadCkv", "loadKpe", "full"}
Cores == 0 .. launch.usedCoreNum - 1

(* A local buffer: how far its transfers are, the pair its loads were      *)
(* issued for, the pair its stores were issued for, and its two halves.    *)
Buffer(stage, in, out, ckv, kpe) ==
  [stage |-> stage, in |-> in, out |-> out, ckv |-> ckv, kpe |-> kpe]

(* Definitions marked "a mistake" are wrong variants of the definition     *)
(* they precede.  They are not part of the model: each shows which         *)
(* property would notice the mistake.                                      *)

-----------------------------------------------------------------------------

Init ==
  /\ launch \in Launches
  /\ pc = [c \in Cores |-> "seek"]
  /\ flat = [c \in Cores |-> c]
  /\ cachedBatchIdx = [c \in Cores |-> NoBatch]
  /\ cachedCopyCount = [c \in Cores |-> 0]
  /\ cur = [c \in Cores |-> NoPair]
  /\ nxt = [c \in Cores |-> NoPair]
  /\ copyQueue = [c \in Cores |-> <<>>]
  /\ buf = [c \in Cores |-> [k \in Buffers |->
                              Buffer("free", NoPair, NoPair, Garbage, Garbage)]]
  /\ hbmCkv = [r \in HbmRows(launch) |-> Poison]
  /\ hbmKpe = [r \in HbmRows(launch) |-> Poison]

-----------------------------------------------------------------------------
(* FindNextValidPair, one iteration of its loop per action.                *)

(* A mistake: caching the count as it was read, unclamped.                 *)
CountForUnclamped(c) ==
  IF BatchIdx(launch, flat[c]) = cachedBatchIdx[c]
    THEN cachedCopyCount[c]
    ELSE launch.copyCounts[BatchIdx(launch, flat[c])]

(* The clamped count of the row of flat[c]: read again only when the scan  *)
(* has moved to another row than the cached one.                           *)
CountFor(c) ==
  IF BatchIdx(launch, flat[c]) = cachedBatchIdx[c]
    THEN cachedCopyCount[c]
    ELSE ClampedCount(launch, BatchIdx(launch, flat[c]))

Scanning(c) == pc[c] = "seek" /\ flat[c] < launch.totalPairSlots

(* A mistake: reading the count of the first row only.                     *)
CacheFirstRow(c) ==
  /\ cachedBatchIdx' = [cachedBatchIdx EXCEPT ![c] = BatchIdx(launch, flat[c])]
  /\ cachedCopyCount' = [cachedCopyCount EXCEPT
       ![c] = IF cachedBatchIdx[c] = NoBatch THEN CountFor(c) ELSE @]

CacheRow(c) ==
  /\ cachedBatchIdx' = [cachedBatchIdx EXCEPT ![c] = BatchIdx(launch, flat[c])]
  /\ cachedCopyCount' = [cachedCopyCount EXCEPT ![c] = CountFor(c)]

ScanCounted(c) ==
  /\ Scanning(c)
  /\ CopyIdx(launch, flat[c]) < CountFor(c)
  /\ CacheRow(c)
  /\ pc' = [pc EXCEPT ![c] = "resolve"]
  /\ UNCHANGED <<launch, flat, cur, nxt, copyQueue, buf, hbmVars>>

(* The rest of the row is not counted: go on with this core's first pair   *)
(* of a later row.                                                         *)
ScanSkipRow(c) ==
  /\ Scanning(c)
  /\ CopyIdx(launch, flat[c]) >= CountFor(c)
  /\ CacheRow(c)
  /\ flat' = [flat EXCEPT ![c] =
       FirstFlatPairAtOrAfter(launch, c,
         (BatchIdx(launch, flat[c]) + 1) * launch.copyCap)]
  /\ UNCHANGED <<launch, pc, cur, nxt, copyQueue, buf, hbmVars>>

(* No pair is left (the code returns totalPairSlots, which nothing uses    *)
(* but as "none"): with nothing copied in the core returns, otherwise it   *)
(* drains its last pair.                                                   *)
ScanEnd(c) ==
  /\ pc[c] = "seek"
  /\ flat[c] >= launch.totalPairSlots
  /\ pc' = [pc EXCEPT ![c] = IF cur[c] = NoPair THEN "done" ELSE "copyout"]
  /\ UNCHANGED <<launch, flat, cachedBatchIdx, cachedCopyCount, cur, nxt,
                 copyQueue, buf, hbmVars>>

-----------------------------------------------------------------------------
(* ResolveAddress: a slot that does not resolve is stepped over.           *)

ResolveOk(c) ==
  /\ pc[c] = "resolve"
  /\ Resolves(launch, flat[c])
  /\ pc' = [pc EXCEPT ![c] = "copyin"]
  /\ UNCHANGED <<launch, flat, cachedBatchIdx, cachedCopyCount, cur, nxt,
                 copyQueue, buf, hbmVars>>

ResolveFail(c) ==
  /\ pc[c] = "resolve"
  /\ ~Resolves(launch, flat[c])
  /\ pc' = [pc EXCEPT ![c] = "seek"]
  /\ flat' = [flat EXCEPT ![c] = @ + launch.usedCoreNum]
  /\ UNCHANGED <<launch, cachedBatchIdx, cachedCopyCount, cur, nxt,
                 copyQueue, buf, hbmVars>>

-----------------------------------------------------------------------------
(* CopyIn and CopyOut.  AllocTensor waits for a free buffer, DeQue for the *)
(* oldest enqueued buffer to be loaded; FreeTensor takes effect when the   *)
(* stores issued before it are complete.                                   *)

Push(queue, k) == <<k>> \o queue      \* a mistake: newest first

Enqueue(queue, k) == Append(queue, k)

(* Copy in the pair at flat[c] through buffer k: the first pair of the     *)
(* core becomes the current one and the scan goes on behind it; a later    *)
(* pair is the next one, and the current one is copied out.                *)
CopyIn(c, k) ==
  /\ pc[c] = "copyin"
  /\ buf[c][k].stage = "free"
  /\ buf' = [buf EXCEPT ![c][k] = Buffer("loadCkv", flat[c], @.out, @.ckv, @.kpe)]
  /\ copyQueue' = [copyQueue EXCEPT ![c] = Enqueue(@, k)]
  /\ \/ /\ cur[c] = NoPair
        /\ cur' = [cur EXCEPT ![c] = flat[c]]
        /\ flat' = [flat EXCEPT ![c] = @ + launch.usedCoreNum]
        /\ pc' = [pc EXCEPT ![c] = "seek"]
        /\ UNCHANGED nxt
     \/ /\ cur[c] # NoPair
        /\ nxt' = [nxt EXCEPT ![c] = flat[c]]
        /\ pc' = [pc EXCEPT ![c] = "copyout"]
        /\ UNCHANGED <<cur, flat>>
  /\ UNCHANGED <<launch, cachedBatchIdx, cachedCopyCount, hbmVars>>

(* Mistakes: storing without waiting for the loads, or for the second one; *)
(* storing to the next address.                                            *)
LoadedNoWait(c, k) == TRUE
LoadedCkvOnly(c, k) == buf[c][k].stage \in {"loadKpe", "full"}
StoredNextPair(c) == IF nxt[c] = NoPair THEN cur[c] ELSE nxt[c]

Loaded(c, k) == buf[c][k].stage = "full"
StoredPair(c) == cur[c]

CopyOut(c) ==
  /\ pc[c] = "copyout"
  /\ copyQueue[c] # <<>>
  /\ LET k == Head(copyQueue[c])
     IN  /\ Loaded(c, k)
         /\ buf' = [buf EXCEPT ![c][k] =
                       Buffer("storeCkv", @.in, StoredPair(c), @.ckv, @.kpe)]
  /\ copyQueue' = [copyQueue EXCEPT ![c] = Tail(@)]
  /\ cur' = [cur EXCEPT ![c] = nxt[c]]
  /\ nxt' = [nxt EXCEPT ![c] = NoPair]
  /\ \/ /\ nxt[c] = NoPair
        /\ pc' = [pc EXCEPT ![c] = "done"]
        /\ UNCHANGED flat
     \/ /\ nxt[c] # NoPair
        /\ flat' = [flat EXCEPT ![c] = nxt[c] + launch.usedCoreNum]
        /\ pc' = [pc EXCEPT ![c] = "seek"]
  /\ UNCHANGED <<launch, cachedBatchIdx, cachedCopyCount, hbmVars>>

-----------------------------------------------------------------------------
(* Completion of the transfers CopyIn and CopyOut issued.                  *)

LoadCkv(c, k) ==
  /\ buf[c][k].stage = "loadCkv"
  /\ buf' = [buf EXCEPT ![c][k] =
                Buffer("loadKpe", @.in, @.out, SrcToken(launch, @.in), @.kpe)]
  /\ UNCHANGED <<launch, scalarVars, hbmVars>>

LoadKpe(c, k) ==
  /\ buf[c][k].stage = "loadKpe"
  /\ buf' = [buf EXCEPT ![c][k] =
                Buffer("full", @.in, @.out, @.ckv, SrcToken(launch, @.in))]
  /\ UNCHANGED <<launch, scalarVars, hbmVars>>

StoreCkv(c, k) ==
  /\ buf[c][k].stage = "storeCkv"
  /\ buf' = [buf EXCEPT ![c][k] = Buffer("storeKpe", @.in, @.out, @.ckv, @.kpe)]
  /\ hbmCkv' = [hbmCkv EXCEPT ![DstToken(launch, buf[c][k].out)] = buf[c][k].ckv]
  /\ UNCHANGED <<launch, scalarVars, hbmKpe>>

(* A mistake: CopyOut without FreeTensor.                                  *)
StoreKpeNoFree(c, k) ==
  /\ buf[c][k].stage = "storeKpe"
  /\ buf' = [buf EXCEPT ![c][k] = Buffer("full", @.in, @.out, @.ckv, @.kpe)]
  /\ hbmKpe' = [hbmKpe EXCEPT ![DstToken(launch, buf[c][k].out)] = buf[c][k].kpe]
  /\ UNCHANGED <<launch, scalarVars, hbmCkv>>

StoreKpe(c, k) ==
  /\ buf[c][k].stage = "storeKpe"
  /\ buf' = [buf EXCEPT ![c][k] = Buffer("free", @.in, @.out, @.ckv, @.kpe)]
  /\ hbmKpe' = [hbmKpe EXCEPT ![DstToken(launch, buf[c][k].out)] = buf[c][k].kpe]
  /\ UNCHANGED <<launch, scalarVars, hbmCkv>>

-----------------------------------------------------------------------------

Scan(c) == ScanCounted(c) \/ ScanSkipRow(c) \/ ScanEnd(c)
Resolve(c) == ResolveOk(c) \/ ResolveFail(c)
Scalar(c) == Scan(c) \/ Resolve(c) \/ (\E k \in Buffers : CopyIn(c, k)) \/ CopyOut(c)
Transfer(c, k) == LoadCkv(c, k) \/ LoadKpe(c, k) \/ StoreCkv(c, k) \/ StoreKpe(c, k)

(* The call is over when every core has returned and its stores are done.  *)
Finished ==
  \A c \in Cores : pc[c] = "done" /\ \A k \in Buffers : buf[c][k].stage = "free"

Terminated == Finished /\ UNCHANGED vars

Next ==
  \/ \E c \in Cores : Scalar(c) \/ \E k \in Buffers : Transfer(c, k)
  \/ Terminated

Spec == Init /\ [][Next]_vars

(* A core that can take its next instruction does, and an issued transfer  *)
(* completes.  Cores and transfers are independent of each other, and each *)
(* stays enabled until it happens, so weak fairness per core is enough.    *)
Fairness ==
  \A c \in 0 .. AivCoreNum - 1 :
    /\ WF_vars(c \in Cores /\ Scalar(c))
    /\ \A k \in Buffers : WF_vars(c \in Cores /\ Transfer(c, k))

FairSpec == Spec /\ Fairness

-----------------------------------------------------------------------------
(* Properties.                                                             *)

BufferType ==
  [stage : Stages,
   in : Pairs(launch) \cup {NoPair}, out : Pairs(launch) \cup {NoPair},
   ckv : DramRows(launch) \cup {Garbage}, kpe : DramRows(launch) \cup {Garbage}]

TypeOK ==
  /\ IsLaunch(launch)
  /\ pc \in [Cores -> {"seek", "resolve", "copyin", "copyout", "done"}]
  /\ flat \in [Cores -> Nat]
  /\ cachedBatchIdx \in [Cores -> 0 .. launch.batchSize - 1 \cup {NoBatch}]
  /\ cachedCopyCount \in [Cores -> 0 .. launch.copyCap]
  /\ cur \in [Cores -> Pairs(launch) \cup {NoPair}]
  /\ nxt \in [Cores -> Pairs(launch) \cup {NoPair}]
  /\ copyQueue \in [Cores -> Seq(Buffers)]
  /\ buf \in [Cores -> [Buffers -> BufferType]]
  /\ hbmCkv \in [HbmRows(launch) -> DramRows(launch) \cup {Poison, Garbage}]
  /\ hbmKpe \in [HbmRows(launch) -> DramRows(launch) \cup {Poison, Garbage}]

(* The cached count is the count of the cached row, so a core whose stride *)
(* jumps between rows never applies one row's count to another.            *)
CacheCoherent ==
  \A c \in Cores : cachedBatchIdx[c] # NoBatch =>
    cachedCopyCount[c] = ClampedCount(launch, cachedBatchIdx[c])

(* CopyOut pairs an address kept in the scalar unit with whatever buffer   *)
(* DeQue hands out: the oldest buffer is always the one the current pair   *)
(* was loaded into, the one behind it the next pair's.                     *)
QueueHoldsCurrent ==
  \A c \in Cores :
    /\ Len(copyQueue[c]) = (IF cur[c] = NoPair THEN 0 ELSE 1)
                             + (IF nxt[c] = NoPair THEN 0 ELSE 1)
    /\ cur[c] # NoPair => buf[c][copyQueue[c][1]].in = cur[c]
    /\ nxt[c] # NoPair => cur[c] # NoPair /\ buf[c][copyQueue[c][2]].in = nxt[c]

(* Two buffers suffice: a core that waits in AllocTensor has a buffer that *)
(* is free or draining, which needs nothing more of the core.              *)
AllocCompletes ==
  \A c \in Cores : pc[c] = "copyin" =>
    \E k \in Buffers : buf[c][k].stage \in {"free", "storeCkv", "storeKpe"}

(* Nothing but an active pair's source reaches HBM, and only in that       *)
(* pair's destination row: rows no pair names keep what they held.         *)
Provenance ==
  \A r \in HbmRows(launch) :
    LET sources == {SrcToken(launch, p) : p \in Writers(launch, r)} \cup {Poison}
    IN  hbmCkv[r] \in sources /\ hbmKpe[r] \in sources

(* The pairs of core c: every n-th flat pair from c.                       *)
OnStride(c, p) == p % launch.usedCoreNum = c

Storing(c, p) ==
  \E k \in Buffers : /\ buf[c][k].stage \in {"storeCkv", "storeKpe"}
                      /\ buf[c][k].out = p

Settled(p) ==
  /\ hbmCkv[DstToken(launch, p)] # Poison
  /\ hbmKpe[DstToken(launch, p)] # Poison

(* No active pair is lost behind the scan of its core: the jump over the   *)
(* tail of a row lands on the core's very next pair, and a pair already    *)
(* passed is copied or on its way.                                         *)
NoPairSkipped ==
  \A c \in Cores : \A p \in ActivePairs(launch) :
    OnStride(c, p) /\ p < flat[c] => p = cur[c] \/ Storing(c, p) \/ Settled(p)

(* The result of the call.  With one writer per destination (the caller's  *)
(* duty: "HBM destinations remain private to each request") every active   *)
(* destination holds both halves of its own source; when destinations      *)
(* repeat, each half still comes from one of the pairs that name the row.  *)
FinalContents ==
  Finished =>
    /\ Provenance
    /\ \A p \in ActivePairs(launch) : Settled(p)
    /\ DistinctDestinations(launch) =>
         \A p \in ActivePairs(launch) :
           /\ hbmCkv[DstToken(launch, p)] = SrcToken(launch, p)
           /\ hbmKpe[DstToken(launch, p)] = SrcToken(launch, p)

(* With distinct destinations a row, once written, is final: no core       *)
(* rewrites it, neither its own nor another's.                             *)
WrittenOnce ==
  [][DistinctDestinations(launch) =>
       \A r \in HbmRows(launch) :
         /\ hbmCkv[r] # Poison => hbmCkv'[r] = hbmCkv[r]
         /\ hbmKpe[r] # Poison => hbmKpe'[r] = hbmKpe[r]]_vars

(* Every call ends, with every issued store complete.                      *)
Termination == <>Finished

-----------------------------------------------------------------------------
(* The kernel implements ScatterCopy.  A half is pending while its pair is *)
(* ahead of its core's scan or current, or while its store has not         *)
(* completed.                                                              *)

Unfinished(c) ==
  LET ahead == {p \in ActivePairs(launch) :
                  OnStride(c, p) /\ (flat[c] <= p \/ p = cur[c])}
      out(stages) == {buf[c][k].out : k \in {j \in Buffers : buf[c][j].stage \in stages}}
  IN  ahead \X {"ckv", "kpe"}
        \cup out({"storeCkv"}) \X {"ckv"}
        \cup out({"storeCkv", "storeKpe"}) \X {"kpe"}

Abs == INSTANCE ScatterCopy
         WITH pending <- UNION {Unfinished(c) : c \in Cores}

(* Whatever the interleaving of cores and transfers, the call moves every  *)
(* half of every active pair exactly once, and it gets to all of them.     *)
ImplementsScatterCopy == Abs!FairSpec
=============================================================================
