----------------------- MODULE ScatterRefinement_proofs -----------------------
(***************************************************************************)
(* The kernel implements ScatterCopy: under the mapping of ScatterKernel   *)
(* every execution of the cores and their transfers is one in which each   *)
(* half of each active pair is moved once.                                 *)
(***************************************************************************)
EXTENDS ScatterKernel_proofs

(* The halves that are still to be moved, pair by pair: those of the pairs *)
(* the scalar unit is not done with, and those in a store.                 *)
Ahead(c, p) ==
  p \in ActivePairs(launch) /\ OnStride(c, p) /\ (flat[c] <= p \/ p = cur[c])

InStore(c, p, stages) ==
  \E k \in Buffers : buf[c][k].stage \in stages /\ buf[c][k].out = p

CkvPending(c, p) == Ahead(c, p) \/ InStore(c, p, {"storeCkv"})
KpePending(c, p) == Ahead(c, p) \/ InStore(c, p, {"storeCkv", "storeKpe"})

LEMMA UnfinishedHalves ==
  ASSUME NEW c
  PROVE  \A x : x \in Unfinished(c) <=>
                  \/ \E p : x = <<p, "ckv">> /\ CkvPending(c, p)
                  \/ \E p : x = <<p, "kpe">> /\ KpePending(c, p)
BY DEF Unfinished, CkvPending, KpePending, Ahead, InStore

LEMMA UnfinishedHalvesNext ==
  ASSUME NEW c
  PROVE  \A x : x \in Unfinished(c)' <=>
                  \/ \E p : x = <<p, "ckv">> /\ CkvPending(c, p)'
                  \/ \E p : x = <<p, "kpe">> /\ KpePending(c, p)'
BY DEF Unfinished, CkvPending, KpePending, Ahead, InStore

(* A step after which the same halves are pending.                         *)
Undisturbed(c) ==
  \A p : /\ CkvPending(c, p)' <=> CkvPending(c, p)
         /\ KpePending(c, p)' <=> KpePending(c, p)

LEMMA UndisturbedKeeps ==
  ASSUME NEW c, Undisturbed(c)
  PROVE  Unfinished(c)' = Unfinished(c)
BY UnfinishedHalves, UnfinishedHalvesNext DEF Undisturbed

(* A core whose scalar state and buffers are left alone.                   *)
LEMMA AloneKeeps ==
  ASSUME NEW c \in Cores, launch' = launch, buf'[c] = buf[c],
         flat'[c] = flat[c], cur'[c] = cur[c]
  PROVE  Undisturbed(c)
BY DEF Undisturbed, CkvPending, KpePending, Ahead, InStore, OnStride

(* A scan that passes nothing but pairs that are not active.               *)
LEMMA PassingKeeps ==
  ASSUME NEW c \in Cores, launch' = launch, buf'[c] = buf[c], cur'[c] = cur[c],
         \A p \in ActivePairs(launch) :
           OnStride(c, p) => (flat'[c] <= p <=> flat[c] <= p)
  PROVE  Undisturbed(c)
BY DEF Undisturbed, CkvPending, KpePending, Ahead, InStore, OnStride

LEMMA ScanSkipRowKeeps ==
  ASSUME IInv, NEW c \in Cores, ScanSkipRow(c)
  PROVE  Undisturbed(c)
<1>1. TypeOK /\ CacheCoherent /\ launch' = launch /\ buf' = buf /\ cur' = cur
  BY DEF IInv, ScanSkipRow
<1>2. flat[c] \in Nat /\ flat'[c] \in Nat /\ flat[c] <= flat'[c]
  <2>1. /\ flat[c] < launch.totalPairSlots /\ flat[c] \in Nat
        /\ flat'[c] = FirstFlatPairAtOrAfter(launch, c,
                        (BatchIdx(launch, flat[c]) + 1) * launch.copyCap)
    BY <1>1 DEF ScanSkipRow, Scanning, TypeOK
  <2> QED BY <1>1, <2>1, SkipFacts
<1>3. ASSUME NEW p \in ActivePairs(launch), OnStride(c, p)
      PROVE  flat'[c] <= p <=> flat[c] <= p
  <2>1. p \in Nat
    BY <1>1, LaunchFacts
  <2>2. p < flat'[c] => p < flat[c]
    BY <1>3, SkipRowPassesNone
  <2> QED BY <1>2, <2>1, <2>2
<1> QED BY <1>1, <1>3, PassingKeeps

LEMMA ResolveFailKeeps ==
  ASSUME IInv, NEW c \in Cores, ResolveFail(c)
  PROVE  Undisturbed(c)
<1>1. TypeOK /\ CoreOK(c) /\ launch' = launch /\ buf' = buf /\ cur' = cur
  BY DEF IInv, ResolveFail
<1>2. flat'[c] = flat[c] + launch.usedCoreNum /\ flat[c] \notin ActivePairs(launch)
  BY <1>1 DEF ResolveFail, TypeOK, ActivePairs
<1>3. NextFlat(c)
  BY <1>1, NextFlatFacts DEF CoreOK
<1>4. ASSUME NEW p \in ActivePairs(launch), OnStride(c, p)
      PROVE  flat'[c] <= p <=> flat[c] <= p
  <2>1. p \in Nat /\ p # flat[c] /\ launch.usedCoreNum \in Nat
    BY <1>1, <1>2, LaunchFacts
  <2>2. p < flat'[c] => p <= flat[c]
    BY <1>2, <1>3, <1>4, <2>1 DEF NextFlat, OnStride
  <2> QED BY <1>2, <1>3, <2>1, <2>2 DEF NextFlat
<1> QED BY <1>1, <1>4, PassingKeeps

(* A buffer's transfers before its first store leave everything pending.   *)
LEMMA CopyInKeeps ==
  ASSUME IInv, NEW c \in Cores, NEW k \in Buffers, CopyIn(c, k)
  PROVE  Undisturbed(c)
<1>1. TypeOK /\ CoreOK(c) /\ launch' = launch
  BY DEF IInv, CopyIn
<1> DEFINE b == Buffer("loadCkv", flat[c], buf[c][k].out, buf[c][k].ckv, buf[c][k].kpe)
<1>2. /\ buf[c][k].stage = "free" /\ BufferSetTo(c, k, b)
  BY <1>1, BufferSetFacts DEF CopyIn
<1>3. b.stage = "loadCkv"
  BY DEF Buffer
<1> HIDE DEF b
<1>4. \A p, stages : stages \in {{"storeCkv"}, {"storeCkv", "storeKpe"}} =>
        (\E j \in Buffers : buf'[c][j].stage \in stages /\ buf'[c][j].out = p)
          <=> InStore(c, p, stages)
  BY <1>2, <1>3 DEF InStore, BufferSetTo
<1>5. ASSUME NEW p \in ActivePairs(launch), OnStride(c, p)
      PROVE  flat'[c] <= p \/ p = cur'[c] <=> flat[c] <= p \/ p = cur[c]
  <2>1. p \in Nat /\ NextFlat(c) /\ launch.usedCoreNum \in Nat
    BY <1>1, LaunchFacts, NextFlatFacts DEF CoreOK
  <2>2. CASE cur[c] = NoPair
    <3>1. /\ cur'[c] = flat[c] /\ flat'[c] = flat[c] + launch.usedCoreNum
      BY <1>1, <2>2 DEF CopyIn, TypeOK
    <3>2. p < flat[c] + launch.usedCoreNum => p <= flat[c]
      BY <1>5, <2>1 DEF NextFlat, OnStride
    <3> QED BY <2>1, <2>2, <3>1, <3>2 DEF NextFlat, NoPair
  <2>3. CASE cur[c] # NoPair
    BY <2>3 DEF CopyIn
  <2> QED BY <2>2, <2>3
<1> QED BY <1>1, <1>4, <1>5
        DEF Undisturbed, CkvPending, KpePending, Ahead, InStore, OnStride

LEMMA LoadKeeps ==
  ASSUME IInv, NEW c \in Cores, NEW k \in Buffers, LoadCkv(c, k) \/ LoadKpe(c, k)
  PROVE  Undisturbed(c)
<1>1. TypeOK /\ launch' = launch /\ flat' = flat /\ cur' = cur
  BY DEF IInv, LoadCkv, LoadKpe, scalarVars
<1>2. \E b : BufferSetTo(c, k, b) /\ b.stage \in InQueue
  <2>1. CASE LoadCkv(c, k)
    <3> DEFINE b == Buffer("loadKpe", buf[c][k].in, buf[c][k].out,
                           SrcToken(launch, buf[c][k].in), buf[c][k].kpe)
    <3>1. BufferSetTo(c, k, b)
      BY <1>1, <2>1, BufferSetFacts DEF LoadCkv
    <3>2. b.stage \in InQueue
      BY DEF Buffer, InQueue
    <3> HIDE DEF b
    <3> QED BY <3>1, <3>2
  <2>2. CASE LoadKpe(c, k)
    <3> DEFINE b == Buffer("full", buf[c][k].in, buf[c][k].out,
                           buf[c][k].ckv, SrcToken(launch, buf[c][k].in))
    <3>1. BufferSetTo(c, k, b)
      BY <1>1, <2>2, BufferSetFacts DEF LoadKpe
    <3>2. b.stage \in InQueue
      BY DEF Buffer, InQueue
    <3> HIDE DEF b
    <3> QED BY <3>1, <3>2
  <2> QED BY <2>1, <2>2
<1>3. buf[c][k].stage \in InQueue
  BY DEF LoadCkv, LoadKpe, InQueue
<1>4. \A p, stages : stages \in {{"storeCkv"}, {"storeCkv", "storeKpe"}} =>
        (\E j \in Buffers : buf'[c][j].stage \in stages /\ buf'[c][j].out = p)
          <=> InStore(c, p, stages)
  BY <1>2, <1>3 DEF InStore, BufferSetTo, InQueue
<1> QED BY <1>1, <1>4
        DEF Undisturbed, CkvPending, KpePending, Ahead, InStore, OnStride

(* The current pair passes from the scalar unit to its stores.             *)
LEMMA CopyOutKeeps ==
  ASSUME IInv, NEW c \in Cores, CopyOut(c)
  PROVE  Undisturbed(c)
<1>1. /\ TypeOK /\ CoreOK(c) /\ launch' = launch
      /\ cur'[c] = nxt[c]
  BY DEF IInv, CopyOut, TypeOK
<1> DEFINE k == Head(copyQueue[c])
           b == Buffer("storeCkv", buf[c][k].in, cur[c], buf[c][k].ckv, buf[c][k].kpe)
<1>2. k \in Buffers
  BY <1>1 DEF CopyOut, TypeOK
<1>3. buf[c][k].stage = "full" /\ BufferSetTo(c, k, b)
  BY <1>1, <1>2, BufferSetFacts DEF CopyOut, Loaded, StoredPair
<1>4. b.stage = "storeCkv" /\ b.out = cur[c]
  BY DEF Buffer
<1> HIDE DEF k, b
<1>5. \A p, stages : stages \in {{"storeCkv"}, {"storeCkv", "storeKpe"}} =>
        ((\E j \in Buffers : buf'[c][j].stage \in stages /\ buf'[c][j].out = p)
          <=> InStore(c, p, stages) \/ p = cur[c])
  BY <1>2, <1>3, <1>4 DEF InStore, BufferSetTo
<1>6. /\ cur[c] \in ActivePairs(launch) /\ OnStride(c, cur[c]) /\ cur[c] < flat[c]
      /\ cur[c] \in Nat /\ cur[c] < launch.totalPairSlots
      /\ NextFlat(c) /\ launch.usedCoreNum \in Nat \ {0}
  BY <1>1, LaunchFacts, NextFlatFacts DEF CopyOut, CoreOK, ScanOK, PairsOK, OnStride
<1>7. ASSUME NEW p \in ActivePairs(launch), OnStride(c, p)
      PROVE  (flat'[c] <= p \/ p = cur'[c]) \/ p = cur[c] <=> flat[c] <= p \/ p = cur[c]
  <2>1. p \in Nat
    BY <1>1, LaunchFacts
  <2>2. CASE nxt[c] = NoPair
    <3>1. flat'[c] = flat[c]
      BY <2>2 DEF CopyOut
    <3> QED BY <1>1, <2>1, <2>2, <3>1 DEF NoPair
  <2>3. CASE nxt[c] # NoPair
    <3>1. flat'[c] = flat[c] + launch.usedCoreNum /\ cur'[c] = flat[c]
      BY <1>1, <2>3 DEF CopyOut, TypeOK, CoreOK, ScanOK
    <3>2. p < flat[c] + launch.usedCoreNum => p <= flat[c]
      BY <1>6, <1>7, <2>1 DEF NextFlat, OnStride
    <3> QED BY <1>6, <2>1, <3>1, <3>2 DEF NextFlat
  <2> QED BY <2>2, <2>3
<1> QED BY <1>1, <1>5, <1>6, <1>7
        DEF Undisturbed, CkvPending, KpePending, Ahead, InStore, OnStride

(* A step of the scalar unit, or a load, leaves every half where it was.   *)
LEMMA QuietStep ==
  ASSUME IInv, NEW c \in Cores,
         Scalar(c) \/ \E k \in Buffers : LoadCkv(c, k) \/ LoadKpe(c, k)
  PROVE  /\ UNCHANGED <<launch, hbmCkv, hbmKpe>>
         /\ \A d \in Cores : Unfinished(d)' = Unfinished(d)
<1>1. TypeOK
  BY DEF IInv
<1>2. UNCHANGED <<launch, hbmCkv, hbmKpe>>
  BY DEF Scalar, Scan, Resolve, ScanCounted, ScanSkipRow, ScanEnd, ResolveOk,
         ResolveFail, CopyIn, CopyOut, LoadCkv, LoadKpe, hbmVars
<1>3. ASSUME NEW d \in Cores, d # c
      PROVE  buf'[d] = buf[d] /\ flat'[d] = flat[d] /\ cur'[d] = cur[d]
  BY <1>1, <1>3 DEF Scalar, Scan, Resolve, ScanCounted, ScanSkipRow, ScanEnd, ResolveOk,
         ResolveFail, CopyIn, CopyOut, LoadCkv, LoadKpe, scalarVars, TypeOK
<1>4. ASSUME ScanCounted(c) \/ ScanEnd(c) \/ ResolveOk(c) PROVE Undisturbed(c)
  BY <1>4, AloneKeeps DEF ScanCounted, ScanEnd, ResolveOk
<1>5. Undisturbed(c)
  BY <1>4, ScanSkipRowKeeps, ResolveFailKeeps, CopyInKeeps, CopyOutKeeps, LoadKeeps
     DEF Scalar, Scan, Resolve
<1> QED BY <1>2, <1>3, <1>5, AloneKeeps, UndisturbedKeeps

-----------------------------------------------------------------------------
(* The stores move a half each.                                            *)

(* Only the core on whose stride a pair lies has halves of it pending.     *)
LEMMA PendingOnStride ==
  ASSUME IInv, NEW d \in Cores, NEW p, CkvPending(d, p) \/ KpePending(d, p)
  PROVE  p % launch.usedCoreNum = d
<1>1. ASSUME NEW k \in Buffers, IsStoring(d, k), buf[d][k].out = p
      PROVE  p % launch.usedCoreNum = d
  BY <1>1 DEF IInv, CoreOK, BufferOK
<1>2. InStore(d, p, {"storeCkv"}) \/ InStore(d, p, {"storeCkv", "storeKpe"}) =>
        \E k \in Buffers : IsStoring(d, k) /\ buf[d][k].out = p
  BY DEF InStore, IsStoring
<1> QED BY <1>1, <1>2 DEF CkvPending, KpePending, Ahead, OnStride

(* A pair in a store is neither ahead nor in another store of its core.    *)
LEMMA StoredOnce ==
  ASSUME IInv, NEW c \in Cores, NEW k \in Buffers, IsStoring(c, k)
  PROVE  /\ buf[c][k].out % launch.usedCoreNum = c
         /\ ~Ahead(c, buf[c][k].out)
         /\ \A j \in Buffers : IsStoring(c, j) /\ buf[c][j].out = buf[c][k].out => j = k
<1>1. TypeOK /\ BufferOK(c, k)
  BY DEF IInv, CoreOK
<1>2. buf[c][k].out \in Nat /\ flat[c] \in Nat
  BY <1>1, LaunchFacts DEF BufferOK, TypeOK
<1> QED BY <1>1, <1>2 DEF BufferOK, Ahead

(* The union over the cores loses exactly the halves the acting core loses *)
LEMMA UnionLoses ==
  ASSUME NEW c \in Cores, NEW x, Cores' = Cores,
         Unfinished(c)' = Unfinished(c) \ {x},
         \A d \in Cores : d # c => Unfinished(d)' = Unfinished(d) /\ x \notin Unfinished(d)
  PROVE  UNION {Unfinished(d)' : d \in Cores'} =
           (UNION {Unfinished(d) : d \in Cores}) \ {x}
OBVIOUS

LEMMA StoreCkvMoves ==
  ASSUME IInv, NEW c \in Cores, NEW k \in Buffers, StoreCkv(c, k)
  PROVE  LET p == buf[c][k].out
         IN  /\ p \in ActivePairs(launch)
             /\ <<p, "ckv">> \in Unfinished(c)
             /\ Unfinished(c)' = Unfinished(c) \ {<<p, "ckv">>}
             /\ hbmCkv' = [hbmCkv EXCEPT ![DstToken(launch, p)] = SrcToken(launch, p)]
             /\ UNCHANGED <<launch, hbmKpe>>
             /\ \A d \in Cores : d # c => /\ Unfinished(d)' = Unfinished(d)
                                         /\ <<p, "ckv">> \notin Unfinished(d)
<1> DEFINE p == buf[c][k].out
           b == Buffer("storeKpe", buf[c][k].in, p, buf[c][k].ckv, buf[c][k].kpe)
<1>1. /\ TypeOK /\ buf[c][k].stage = "storeCkv" /\ IsStoring(c, k)
      /\ UNCHANGED <<launch, hbmKpe, flat, cur>>
      /\ hbmCkv' = [hbmCkv EXCEPT ![DstToken(launch, p)] = buf[c][k].ckv]
  BY DEF IInv, StoreCkv, IsStoring, scalarVars
<1>2. BufferSetTo(c, k, b)
  BY <1>1, BufferSetFacts DEF StoreCkv
<1>3. b.stage = "storeKpe" /\ b.out = p
  BY DEF Buffer
<1>4. p \in ActivePairs(launch) /\ buf[c][k].ckv = SrcToken(launch, p)
  BY <1>1, StoreFacts
<1>5. /\ p % launch.usedCoreNum = c /\ ~Ahead(c, p)
      /\ \A j \in Buffers : IsStoring(c, j) /\ buf[c][j].out = p => j = k
  BY <1>1, StoredOnce
<1> HIDE DEF b, p
<1>6. ASSUME NEW q
      PROVE  /\ CkvPending(c, q)' <=> CkvPending(c, q) /\ q # p
             /\ KpePending(c, q)' <=> KpePending(c, q)
  <2>1. Ahead(c, q)' <=> Ahead(c, q)
    BY <1>1 DEF Ahead, OnStride
  <2>2. InStore(c, q, {"storeCkv"})' <=> InStore(c, q, {"storeCkv"}) /\ q # p
    BY <1>1, <1>2, <1>3, <1>5 DEF InStore, BufferSetTo, IsStoring, p
  <2>3. InStore(c, q, {"storeCkv", "storeKpe"})' <=> InStore(c, q, {"storeCkv", "storeKpe"})
    BY <1>1, <1>2, <1>3 DEF InStore, BufferSetTo, p
  <2> QED BY <1>5, <2>1, <2>2, <2>3 DEF CkvPending, KpePending
<1>7. Unfinished(c)' = Unfinished(c) \ {<<p, "ckv">>}
  BY <1>6, UnfinishedHalves, UnfinishedHalvesNext
<1>8. <<p, "ckv">> \in Unfinished(c)
  BY <1>1, UnfinishedHalves DEF CkvPending, InStore, p
<1>9. ASSUME NEW d \in Cores, d # c
      PROVE  Unfinished(d)' = Unfinished(d) /\ <<p, "ckv">> \notin Unfinished(d)
  <2>1. Undisturbed(d)
    BY <1>1, <1>2, <1>9, AloneKeeps DEF BufferSetTo
  <2>2. ~CkvPending(d, p)
    BY <1>5, <1>9, PendingOnStride
  <2> QED BY <2>1, <2>2, UndisturbedKeeps, UnfinishedHalves
<1> QED BY <1>1, <1>4, <1>7, <1>8, <1>9 DEF p

LEMMA StoreKpeMoves ==
  ASSUME IInv, NEW c \in Cores, NEW k \in Buffers, StoreKpe(c, k)
  PROVE  LET p == buf[c][k].out
         IN  /\ p \in ActivePairs(launch)
             /\ <<p, "kpe">> \in Unfinished(c)
             /\ Unfinished(c)' = Unfinished(c) \ {<<p, "kpe">>}
             /\ hbmKpe' = [hbmKpe EXCEPT ![DstToken(launch, p)] = SrcToken(launch, p)]
             /\ UNCHANGED <<launch, hbmCkv>>
             /\ \A d \in Cores : d # c => /\ Unfinished(d)' = Unfinished(d)
                                         /\ <<p, "kpe">> \notin Unfinished(d)
<1> DEFINE p == buf[c][k].out
           b == Buffer("free", buf[c][k].in, p, buf[c][k].ckv, buf[c][k].kpe)
<1>1. /\ TypeOK /\ buf[c][k].stage = "storeKpe" /\ IsStoring(c, k)
      /\ UNCHANGED <<launch, hbmCkv, flat, cur>>
      /\ hbmKpe' = [hbmKpe EXCEPT ![DstToken(launch, p)] = buf[c][k].kpe]
  BY DEF IInv, StoreKpe, IsStoring, scalarVars
<1>2. BufferSetTo(c, k, b)
  BY <1>1, BufferSetFacts DEF StoreKpe
<1>3. b.stage = "free" /\ b.out = p
  BY DEF Buffer
<1>4. p \in ActivePairs(launch) /\ buf[c][k].kpe = SrcToken(launch, p)
  BY <1>1, StoreFacts
<1>5. /\ p % launch.usedCoreNum = c /\ ~Ahead(c, p)
      /\ \A j \in Buffers : IsStoring(c, j) /\ buf[c][j].out = p => j = k
  BY <1>1, StoredOnce
<1> HIDE DEF b, p
<1>6. ASSUME NEW q
      PROVE  /\ CkvPending(c, q)' <=> CkvPending(c, q)
             /\ KpePending(c, q)' <=> KpePending(c, q) /\ q # p
  <2>1. Ahead(c, q)' <=> Ahead(c, q)
    BY <1>1 DEF Ahead, OnStride
  <2>2. InStore(c, q, {"storeCkv"})' <=> InStore(c, q, {"storeCkv"})
    BY <1>1, <1>2, <1>3 DEF InStore, BufferSetTo, p
  <2>3. InStore(c, q, {"storeCkv", "storeKpe"})' <=>
          InStore(c, q, {"storeCkv", "storeKpe"}) /\ q # p
    BY <1>1, <1>2, <1>3, <1>5 DEF InStore, BufferSetTo, IsStoring, p
  <2> QED BY <1>5, <2>1, <2>2, <2>3 DEF CkvPending, KpePending
<1>7. Unfinished(c)' = Unfinished(c) \ {<<p, "kpe">>}
  BY <1>6, UnfinishedHalves, UnfinishedHalvesNext
<1>8. <<p, "kpe">> \in Unfinished(c)
  BY <1>1, UnfinishedHalves DEF KpePending, InStore, p
<1>9. ASSUME NEW d \in Cores, d # c
      PROVE  Unfinished(d)' = Unfinished(d) /\ <<p, "kpe">> \notin Unfinished(d)
  <2>1. Undisturbed(d)
    BY <1>1, <1>2, <1>9, AloneKeeps DEF BufferSetTo
  <2>2. ~KpePending(d, p)
    BY <1>5, <1>9, PendingOnStride
  <2> QED BY <2>1, <2>2, UndisturbedKeeps, UnfinishedHalves
<1> QED BY <1>1, <1>4, <1>7, <1>8, <1>9 DEF p

-----------------------------------------------------------------------------
(* The refinement.                                                         *)

(* ScatterCopy's operators are those of ScatterKernel.                     *)
LEMMA SameOperators ==
  /\ Abs!ActivePairs(launch) = ActivePairs(launch)
  /\ Abs!HbmRows(launch) = HbmRows(launch)
  /\ \A p : /\ Abs!SrcToken(launch, p) = SrcToken(launch, p)
            /\ Abs!DstToken(launch, p) = DstToken(launch, p)
<1>1. \A p : /\ Abs!Resolves(launch, p) <=> Resolves(launch, p)
            /\ Abs!SrcToken(launch, p) = SrcToken(launch, p)
            /\ Abs!DstToken(launch, p) = DstToken(launch, p)
  BY DEF Abs!Resolves, Resolves, Abs!SrcToken, SrcToken, Abs!DstToken, DstToken,
         Abs!SrcPhysicalBlock, SrcPhysicalBlock, Abs!DstPhysicalBlock, DstPhysicalBlock,
         Abs!SrcBlockCol, SrcBlockCol, Abs!DstBlockCol, DstBlockCol,
         Abs!BatchIdx, BatchIdx
<1>2. Abs!ActivePairs(launch) = ActivePairs(launch)
  BY <1>1 DEF Abs!ActivePairs, ActivePairs, Abs!Pairs, Pairs, Abs!CopyIdx, CopyIdx,
              Abs!ClampedCount, ClampedCount, Abs!BatchIdx, BatchIdx
<1>3. Abs!HbmRows(launch) = HbmRows(launch)
  BY DEF Abs!HbmRows, HbmRows
<1> QED BY <1>1, <1>2, <1>3

LEMMA InitRefines == Init => Abs!Init
<1> SUFFICES ASSUME Init PROVE Abs!Init
  OBVIOUS
<1>1. TypeOK /\ launch.usedCoreNum \in Nat \ {0}
  BY IInvInit, LaunchFacts DEF IInv
<1>2. ASSUME NEW c \in Cores, NEW p
      PROVE  /\ CkvPending(c, p) <=> p \in ActivePairs(launch) /\ OnStride(c, p)
             /\ KpePending(c, p) <=> p \in ActivePairs(launch) /\ OnStride(c, p)
  <2>1. flat[c] = c /\ cur[c] = NoPair /\ \A k \in Buffers : buf[c][k].stage = "free"
    BY DEF Init, Buffer
  <2>2. ~InStore(c, p, {"storeCkv"}) /\ ~InStore(c, p, {"storeCkv", "storeKpe"})
    BY <2>1 DEF InStore
  <2>3. p \in ActivePairs(launch) /\ OnStride(c, p) => c <= p
    <3> SUFFICES ASSUME p \in ActivePairs(launch), OnStride(c, p) PROVE c <= p
      OBVIOUS
    <3> DEFINE n == launch.usedCoreNum
               i == p \div n
    <3>1. p \in Nat /\ n \in Nat \ {0} /\ c \in Nat /\ p % n = c
      BY <1>1, LaunchFacts DEF OnStride
    <3> HIDE DEF n
    <3>2. i \in Int /\ p = i * n + c /\ c \in 0 .. n - 1
      BY <3>1, DivMod
    <3> HIDE DEF i
    <3>3. (0 - 1) * n < i * n
      BY <3>1, <3>2
    <3>4. i \in Nat
      BY <3>1, <3>2, <3>3, MulMono
    <3>5. 0 * n <= i * n
      BY <3>1, <3>4, MulMono
    <3> QED BY <3>1, <3>2, <3>5
  <2> QED BY <2>1, <2>2, <2>3 DEF CkvPending, KpePending, Ahead
<1>3. \A p \in ActivePairs(launch) : \E c \in Cores : OnStride(c, p)
  <2> TAKE p \in ActivePairs(launch)
  <2> DEFINE n == launch.usedCoreNum
  <2>1. p \in Nat /\ n \in Nat \ {0}
    BY <1>1, LaunchFacts
  <2> HIDE DEF n
  <2>2. p % n \in 0 .. n - 1
    BY <2>1, DivMod
  <2> QED BY <2>2 DEF n, Cores, OnStride
<1>4. UNION {Unfinished(c) : c \in Cores} = ActivePairs(launch) \X {"ckv", "kpe"}
  <2>1. ASSUME NEW c \in Cores, NEW x \in Unfinished(c)
        PROVE  x \in ActivePairs(launch) \X {"ckv", "kpe"}
    BY <1>2, UnfinishedHalves
  <2>2. ASSUME NEW p \in ActivePairs(launch), NEW h \in {"ckv", "kpe"}
        PROVE  \E c \in Cores : <<p, h>> \in Unfinished(c)
    BY <1>2, <1>3, UnfinishedHalves
  <2>3. ASSUME NEW x \in ActivePairs(launch) \X {"ckv", "kpe"}
        PROVE  \E c \in Cores : x \in Unfinished(c)
    <3>1. PICK p \in ActivePairs(launch), h \in {"ckv", "kpe"} : x = <<p, h>>
      OBVIOUS
    <3> QED BY <2>2, <3>1
  <2> QED BY <2>1, <2>3
<1> QED BY <1>4, SameOperators DEF Init, Abs!Init, Abs!Halves, Abs!Poison, Poison

LEMMA StepRefines == IInv /\ [Next]_vars => [Abs!Next]_(Abs!vars)
<1> SUFFICES ASSUME IInv, [Next]_vars PROVE Abs!Next \/ UNCHANGED Abs!vars
  OBVIOUS
<1> DEFINE P == UNION {Unfinished(c) : c \in Cores}
<1>1. ASSUME UNCHANGED <<launch, hbmCkv, hbmKpe>>,
             \A d \in Cores : Unfinished(d)' = Unfinished(d)
      PROVE  UNCHANGED Abs!vars
  <2>1. Cores' = Cores
    BY <1>1 DEF Cores
  <2> QED BY <1>1, <2>1 DEF Abs!vars
<1>2. CASE UNCHANGED vars
  BY <1>1, <1>2 DEF vars, scalarVars, hbmVars, Unfinished, OnStride
<1>3. ASSUME NEW c \in Cores, NEW k \in Buffers, StoreCkv(c, k)
      PROVE  Abs!Next
  <2> DEFINE p == buf[c][k].out
  <2>1. Cores' = Cores
    BY <1>3, StoreCkvMoves DEF Cores
  <2>2. P' = P \ {<<p, "ckv">>} /\ <<p, "ckv">> \in P
    BY <1>3, <2>1, StoreCkvMoves, UnionLoses
  <2>3. Abs!MoveCkv(p)
    BY <1>3, <2>2, StoreCkvMoves, SameOperators DEF Abs!MoveCkv
  <2> QED BY <1>3, <2>3, StoreCkvMoves, SameOperators DEF Abs!Next
<1>4. ASSUME NEW c \in Cores, NEW k \in Buffers, StoreKpe(c, k)
      PROVE  Abs!Next
  <2> DEFINE p == buf[c][k].out
  <2>1. Cores' = Cores
    BY <1>4, StoreKpeMoves DEF Cores
  <2>2. P' = P \ {<<p, "kpe">>} /\ <<p, "kpe">> \in P
    BY <1>4, <2>1, StoreKpeMoves, UnionLoses
  <2>3. Abs!MoveKpe(p)
    BY <1>4, <2>2, StoreKpeMoves, SameOperators DEF Abs!MoveKpe
  <2> QED BY <1>4, <2>3, StoreKpeMoves, SameOperators DEF Abs!Next
<1> QED BY <1>1, <1>2, <1>3, <1>4, QuietStep DEF Next, Transfer, Terminated

(* Every execution of the kernel, whatever the interleaving of its cores   *)
(* and transfers, is an execution of ScatterCopy: each half of each active *)
(* pair is moved, from its own source to its own destination, at most once *)
(* and nothing else happens to the caches.                                 *)
THEOREM Refinement == Spec => Abs!Spec
<1>1. Init => Abs!Init
  BY InitRefines
<1>2. IInv /\ [Next]_vars => [Abs!Next]_(Abs!vars)
  BY StepRefines
<1> QED BY <1>1, <1>2, Invariance, PTL DEF Spec, Abs!Spec
=============================================================================
