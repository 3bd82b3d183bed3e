------------------------- MODULE ScatterHost_proofs -------------------------
(***************************************************************************)
(* Whatever calls are made and however many cores there are, the tiling    *)
(* data of a launched call is what the kernel relies on.                   *)
(***************************************************************************)
EXTENDS ScatterHost, TLAPS

LEMMA SmallMod ==
  ASSUME NEW n \in Nat, NEW m \in Nat \ {0}, n < m
  PROVE  n % m = n
  BY SMT

LEMMA ProductPositive ==
  ASSUME NEW a \in Nat \ {0}, NEW b \in Nat \ {0}
  PROVE  a * b \in Nat \ {0}
  BY SMT

(* Where the torch operator puts a tensor is where op_host looks for it.   *)
LEMMA PositionsAgree ==
  \A t \in Tensors : InputIndex[t] \in 1 .. 9 /\ Arguments[InputIndex[t]] = t
<1> SUFFICES ASSUME NEW t \in Tensors
             PROVE  InputIndex[t] \in 1 .. 9 /\ Arguments[InputIndex[t]] = t
  OBVIOUS
<1>1. CASE t \in CacheTensors
  BY <1>1 DEF CacheTensors, InputIndex, Arguments
<1>2. CASE t \in MetadataTensors
  BY <1>2 DEF MetadataTensors, InputIndex, Arguments
<1> QED BY <1>1, <1>2 DEF Tensors

(* op_host sees the shapes of the request's tensors.                       *)
LEMMA SeenShapes ==
  ASSUME NEW r \in Requests
  PROVE  /\ r.shape \in [Tensors -> Seq(Nat)]
         /\ Inputs(r).shape = r.shape
         /\ \A t \in Tensors : Inputs(r).dtype[t] = AclDataType(r.dtype[t])
<1>1. r.shape \in [Tensors -> Seq(Nat)]
  BY HostAssumption DEF IsRequest
<1>2. \A t \in Tensors : /\ Input(r, t).shape = r.shape[t]
                         /\ Input(r, t).dtype = AclDataType(r.dtype[t])
  BY PositionsAgree DEF Input, Handle
<1>3. /\ Inputs(r).shape = [t \in Tensors |-> Input(r, t).shape]
      /\ Inputs(r).dtype = [t \in Tensors |-> Input(r, t).dtype]
  BY DEF Inputs
<1>4. Inputs(r).shape = r.shape
  BY <1>1, <1>2, <1>3
<1> QED BY <1>1, <1>2, <1>3, <1>4

(* A dimension of a well-formed request is a natural number.               *)
LEMMA DimNat ==
  ASSUME NEW r, r.shape \in [Tensors -> Seq(Nat)],
         NEW t \in Tensors, NEW i \in Nat, i < Rank(r, t)
  PROVE  Dim(r, t, i) \in Nat
<1>1. r.shape[t] \in Seq(Nat)
  OBVIOUS
<1>2. i + 1 \in 1 .. Len(r.shape[t])
  BY <1>1 DEF Rank
<1> QED BY <1>1, <1>2 DEF Dim

LEMMA Matrix ==
  ASSUME NEW s \in Seq(Nat), Len(s) = 2
  PROVE  s = <<s[1], s[2]>>
  OBVIOUS

LEMMA Vector ==
  ASSUME NEW s \in Seq(Nat), Len(s) = 1
  PROVE  s = <<s[1]>>
  OBVIOUS

(* What an accepted call's dimensions are.                                 *)
LEMMA AcceptedDims ==
  ASSUME NEW r, r.shape \in [Tensors -> Seq(Nat)], TilingAccepts(r)
  PROVE  /\ Dim(r, "copyCounts", 0) \in Nat \ {0}
         /\ Dim(r, "srcTokenIds", 1) \in Nat \ {0}
         /\ Dim(r, "hbmBlockTable", 1) \in Nat \ {0}
         /\ Dim(r, "dramBlockTable", 1) \in Nat \ {0}
         /\ Dim(r, "srcTokenIds", 1) < Uint32Mod
         /\ Dim(r, "dramBlockTable", 1) < Uint32Mod
         /\ r.shape["copyCounts"] = <<Dim(r, "copyCounts", 0)>>
         /\ \A t \in MetadataTensors \ {"copyCounts"} :
              r.shape[t] = <<Dim(r, "copyCounts", 0), Dim(r, t, 1)>>
         /\ Dim(r, "dstSlots", 1) = Dim(r, "srcTokenIds", 1)
         /\ AivCoreNum \in Nat \ {0}
<1>1. /\ Rank(r, "copyCounts") = 1
      /\ \A t \in MetadataTensors \ {"copyCounts"} : Rank(r, t) = 2
  BY DEF TilingAccepts, MetadataRanksOk
<1>2. /\ Dim(r, "copyCounts", 0) \in Nat
      /\ \A t \in MetadataTensors \ {"copyCounts"} :
           Dim(r, t, 0) \in Nat /\ Dim(r, t, 1) \in Nat
  <2>1. \A t \in MetadataTensors : t \in Tensors
    BY DEF Tensors
  <2>2. Dim(r, "copyCounts", 0) \in Nat
    <3>1. Rank(r, "copyCounts") = 1 /\ "copyCounts" \in Tensors
      BY <1>1, <2>1 DEF MetadataTensors
    <3> QED BY <3>1, DimNat
  <2>3. ASSUME NEW t \in MetadataTensors \ {"copyCounts"}
        PROVE  Dim(r, t, 0) \in Nat /\ Dim(r, t, 1) \in Nat
    <3>1. Rank(r, t) = 2 /\ t \in Tensors
      BY <1>1, <2>1
    <3>2. Dim(r, t, 0) \in Nat
      BY <3>1, DimNat
    <3>3. Dim(r, t, 1) \in Nat
      BY <3>1, DimNat
    <3> QED BY <3>2, <3>3
  <2> QED BY <2>2, <2>3
<1>3. /\ Dim(r, "copyCounts", 0) > 0
      /\ Dim(r, "srcTokenIds", 1) > 0
      /\ Dim(r, "srcTokenIds", 1) <= MaxCopyCap
      /\ \A t \in MetadataTensors \ {"copyCounts"} : Dim(r, t, 0) = Dim(r, "copyCounts", 0)
      /\ Dim(r, "dstSlots", 1) = Dim(r, "srcTokenIds", 1)
      /\ Dim(r, "hbmBlockTable", 1) > 0
      /\ Dim(r, "dramBlockTable", 1) > 0
      /\ Dim(r, "dramBlockTable", 1) * BlockSize <= MaxSourceCapacity
      /\ AivCoreNum # 0
  BY DEF TilingAccepts, MetadataTensors
<1>4. Dim(r, "dramBlockTable", 1) <= MaxSourceCapacity
  <2>1. \A d, b, m \in Nat : b # 0 /\ d * b <= m => d <= m
    BY SMT
  <2>2. Dim(r, "dramBlockTable", 1) \in Nat
    BY <1>2 DEF MetadataTensors
  <2>3. BlockSize \in Nat /\ BlockSize # 0 /\ MaxSourceCapacity \in Nat
    BY BlockSizeAssumption, HostAssumption
  <2> QED BY <1>3, <2>1, <2>2, <2>3
<1>5. /\ r.shape["copyCounts"] = <<Dim(r, "copyCounts", 0)>>
      /\ \A t \in MetadataTensors \ {"copyCounts"} :
           r.shape[t] = <<Dim(r, "copyCounts", 0), Dim(r, t, 1)>>
  <2>1. \A t \in MetadataTensors : r.shape[t] \in Seq(Nat)
    BY DEF Tensors
  <2>2. r.shape["copyCounts"] = <<r.shape["copyCounts"][1]>>
    BY <1>1, <2>1, Vector DEF Rank, MetadataTensors
  <2>3. ASSUME NEW t \in MetadataTensors \ {"copyCounts"}
        PROVE  r.shape[t] = <<r.shape[t][1], r.shape[t][2]>>
    BY <1>1, <2>1, Matrix DEF Rank
  <2>4. /\ Dim(r, "copyCounts", 0) = r.shape["copyCounts"][1]
        /\ \A t : Dim(r, t, 0) = r.shape[t][1] /\ Dim(r, t, 1) = r.shape[t][2]
    BY DEF Dim
  <2>5. r.shape["copyCounts"] = <<Dim(r, "copyCounts", 0)>>
    BY <2>2, <2>4
  <2>6. ASSUME NEW t \in MetadataTensors \ {"copyCounts"}
        PROVE  r.shape[t] = <<Dim(r, "copyCounts", 0), Dim(r, t, 1)>>
    BY <1>3, <2>3, <2>4
  <2> QED BY <2>5, <2>6
<1> QED BY <1>2, <1>3, <1>4, <1>5, HostAssumption DEF MetadataTensors

(* The tiling data computed for an accepted call describes its tensors.    *)
LEMMA TilingDataSound ==
  ASSUME NEW r, r.shape \in [Tensors -> Seq(Nat)], TilingAccepts(r), FitsUint32(r)
  PROVE  LET t == TilingData(r)
         IN  /\ IsTiling(t)
             /\ t.usedCoreNum <= AivCoreNum
             /\ t.usedCoreNum <= t.totalPairSlots
             /\ t.batchSize = Dim(r, "copyCounts", 0)
             /\ t.copyCap = Dim(r, "srcTokenIds", 1)
             /\ t.hbmMaxBlockNum = Dim(r, "hbmBlockTable", 1)
             /\ t.dramMaxBlockNum = Dim(r, "dramBlockTable", 1)
<1> DEFINE b == Dim(r, "copyCounts", 0)
           k == Dim(r, "srcTokenIds", 1)
           h == Dim(r, "hbmBlockTable", 1)
           d == Dim(r, "dramBlockTable", 1)
           n == b * k
           t == TilingData(r)
<1>1. /\ b \in Nat \ {0} /\ k \in Nat \ {0} /\ h \in Nat \ {0} /\ d \in Nat \ {0}
      /\ b < Uint32Mod /\ k < Uint32Mod /\ h < Uint32Mod /\ d < Uint32Mod
      /\ AivCoreNum \in Nat \ {0}
  BY AcceptedDims DEF FitsUint32
<1>2. t = [usedCoreNum |-> UsedCoreNum(n), batchSize |-> Uint32(b), copyCap |-> Uint32(k),
           hbmMaxBlockNum |-> Uint32(h), dramMaxBlockNum |-> Uint32(d),
           totalPairSlots |-> n]
  BY DEF TilingData
<1> HIDE DEF b, k, h, d, t
<1>3. Uint32(b) = b /\ Uint32(k) = k /\ Uint32(h) = h /\ Uint32(d) = d
  BY <1>1, SmallMod, HostAssumption DEF Uint32
<1>4. n \in Nat \ {0}
  BY <1>1, ProductPositive
<1>5. UsedCoreNum(n) \in Nat \ {0} /\ UsedCoreNum(n) <= AivCoreNum /\ UsedCoreNum(n) <= n
  <2> HIDE DEF n
  <2>1. CASE n < AivCoreNum
    <3>1. Uint32(n) = n
      BY <1>4, <2>1, <1>1, SmallMod, HostAssumption DEF Uint32
    <3> QED BY <1>1, <1>4, <2>1, <3>1 DEF UsedCoreNum
  <2>2. CASE ~(n < AivCoreNum)
    BY <1>1, <1>4, <2>2 DEF UsedCoreNum
  <2> QED BY <2>1, <2>2
<1>6. t = [usedCoreNum |-> UsedCoreNum(n), batchSize |-> b, copyCap |-> k,
           hbmMaxBlockNum |-> h, dramMaxBlockNum |-> d, totalPairSlots |-> n]
  BY <1>2, <1>3
<1> HIDE DEF n
<1>7. n = b * k
  BY DEF n
<1>8. IsTiling(t)
  BY <1>1, <1>5, <1>6, <1>7 DEF IsTiling
<1> QED BY <1>5, <1>6, <1>8 DEF b, k, h, d, t

(* A launched call is an accepted one, and its tiling data is its own.     *)
HostInv ==
  /\ request \in Requests
  /\ phase = "launched" => /\ TilingAccepts(Inputs(request))
                           /\ tiling = TilingData(Inputs(request))

LEMMA HostInvariance == Spec => []HostInv
<1>1. Init => HostInv
  BY DEF Init, HostInv
<1>2. HostInv /\ [Next]_vars => HostInv'
  BY DEF HostInv, Next, Check, Raise, Launch, FailLate, LibraryAccepts, vars
<1> QED BY <1>1, <1>2, PTL DEF Spec

(* Every launched call carries tiling data that describes its tensors:     *)
(* what ScatterKernel assumes of a launch (IsTiling, and no more cores     *)
(* than the device has) is what TilingFunc delivers.                       *)
THEOREM TilingCorrect == Spec => []TilingSound
<1>1. HostInv => TilingSound
  <2> SUFFICES ASSUME HostInv, phase = "launched", FitsUint32(request) PROVE TilingSound
    BY DEF TilingSound
  <2> DEFINE seen == Inputs(request)
  <2>1. /\ TilingAccepts(seen) /\ tiling = TilingData(seen)
        /\ seen.shape = request.shape
        /\ seen.shape \in [Tensors -> Seq(Nat)]
    BY SeenShapes DEF HostInv
  <2> HIDE DEF seen
  <2>2. FitsUint32(seen)
    BY <2>1 DEF FitsUint32, Dim
  <2>3. /\ IsTiling(tiling)
        /\ tiling.usedCoreNum <= AivCoreNum
        /\ tiling.usedCoreNum <= tiling.totalPairSlots
        /\ tiling.batchSize = Dim(seen, "copyCounts", 0)
        /\ tiling.copyCap = Dim(seen, "srcTokenIds", 1)
        /\ tiling.hbmMaxBlockNum = Dim(seen, "hbmBlockTable", 1)
        /\ tiling.dramMaxBlockNum = Dim(seen, "dramBlockTable", 1)
    BY <2>1, <2>2, TilingDataSound
  <2>4. /\ request.shape["copyCounts"] = <<tiling.batchSize>>
        /\ \A t \in MetadataTensors \ {"copyCounts"} :
             request.shape[t] = <<tiling.batchSize, Dim(seen, t, 1)>>
        /\ Dim(seen, "dstSlots", 1) = tiling.copyCap
    BY <2>1, <2>3, AcceptedDims
  <2> QED BY <2>3, <2>4 DEF TilingSound, MetadataTensors
<1> QED BY <1>1, HostInvariance, PTL

(* The elements of a tensor of rank 1 or 2.                                *)
Size(r, t) == IF Rank(r, t) = 1 THEN Dim(r, t, 0) ELSE Dim(r, t, 0) * Dim(r, t, 1)

(* L is the call as the kernel finds it: the tiling data, blocks as many   *)
(* as the caches have, and metadata with the elements of their tensors.    *)
IsLaunchOf(L, r, t) ==
  /\ \A f \in {"usedCoreNum", "batchSize", "copyCap", "hbmMaxBlockNum",
               "dramMaxBlockNum", "totalPairSlots"} : L[f] = t[f]
  /\ L.hbmBlocks = Dim(r, "hbmKRoPE", 0)
  /\ L.dramBlocks = Dim(r, "dramKRoPE", 0)
  /\ \A a \in MetadataTensors : L[a] \in [0 .. Size(r, a) - 1 -> Int]

LaunchesSound ==
  phase = "launched" /\ FitsUint32(request) =>
    \A L : IsLaunchOf(L, request, tiling) /\ TablesInRange(L) =>
      IsLaunch(L) /\ L.usedCoreNum <= AivCoreNum

(* Host and kernel fit together: the launch of an accepted call, whatever  *)
(* its tensors contain, is one of those the kernel's theorems are about    *)
(* (LaunchesAssumption), if its block tables stay inside their caches.     *)
THEOREM LaunchesCorrect == Spec => []LaunchesSound
<1>1. HostInv /\ TilingSound => LaunchesSound
  <2> SUFFICES ASSUME HostInv, TilingSound, phase = "launched", FitsUint32(request),
                      NEW L, IsLaunchOf(L, request, tiling), TablesInRange(L)
               PROVE  IsLaunch(L) /\ L.usedCoreNum <= AivCoreNum
    BY DEF LaunchesSound
  <2>1. /\ IsTiling(tiling) /\ tiling.usedCoreNum <= AivCoreNum
        /\ request.shape["copyCounts"] = <<tiling.batchSize>>
        /\ \A t \in {"srcTokenIds", "dstSlots"} :
             request.shape[t] = <<tiling.batchSize, tiling.copyCap>>
        /\ request.shape["hbmBlockTable"] = <<tiling.batchSize, tiling.hbmMaxBlockNum>>
        /\ request.shape["dramBlockTable"] = <<tiling.batchSize, tiling.dramMaxBlockNum>>
    BY DEF TilingSound
  <2>2. /\ L.usedCoreNum = tiling.usedCoreNum /\ L.batchSize = tiling.batchSize
        /\ L.copyCap = tiling.copyCap /\ L.hbmMaxBlockNum = tiling.hbmMaxBlockNum
        /\ L.dramMaxBlockNum = tiling.dramMaxBlockNum
        /\ L.totalPairSlots = tiling.totalPairSlots
    BY DEF IsLaunchOf
  <2>3. IsTiling(L)
    BY <2>1, <2>2 DEF IsTiling
  <2>4. /\ Size(request, "copyCounts") = L.batchSize
        /\ \A t \in {"srcTokenIds", "dstSlots"} : Size(request, t) = L.batchSize * L.copyCap
        /\ Size(request, "hbmBlockTable") = L.batchSize * L.hbmMaxBlockNum
        /\ Size(request, "dramBlockTable") = L.batchSize * L.dramMaxBlockNum
    BY <2>1, <2>2 DEF Size, Rank, Dim
  <2>5. L.hbmBlocks \in Nat /\ L.dramBlocks \in Nat
    <3>1. /\ Inputs(request).shape = request.shape
          /\ request.shape \in [Tensors -> Seq(Nat)]
          /\ TilingAccepts(Inputs(request))
      BY SeenShapes DEF HostInv
    <3>2. \A t \in {"hbmKRoPE", "dramKRoPE"} : t \in Tensors /\ Rank(request, t) = 3
      BY <3>1 DEF TilingAccepts, CacheShapesOk, HasShape, Rank, Tensors, CacheTensors
    <3>3. \A t \in {"hbmKRoPE", "dramKRoPE"} : Dim(request, t, 0) \in Nat
      BY <3>1, <3>2, DimNat
    <3> QED BY <3>3 DEF IsLaunchOf
  <2>6. \A a \in MetadataTensors : L[a] \in [0 .. Size(request, a) - 1 -> Int]
    BY DEF IsLaunchOf
  <2>7. L.totalPairSlots = L.batchSize * L.copyCap
    BY <2>3 DEF IsTiling
  <2>8. IsMetadata(L)
    BY <2>4, <2>5, <2>6, <2>7 DEF IsMetadata, MetadataTensors
  <2> QED BY <2>1, <2>2, <2>3, <2>8 DEF IsLaunch
<1> QED BY <1>1, HostInvariance, TilingCorrect, PTL

(* Types the operator lets through have ACL types that are registered and  *)
(* that TilingFunc accepts.                                                *)
LEMMA TypesAccepted ==
  ASSUME NEW r \in Requests, DtypesOk(r)
  PROVE  /\ \A i \in DOMAIN Arguments : Handle(r, Arguments[i]).dtype # Undefined
         /\ Registered(r)
         /\ TilingDtypesOk(Inputs(r))
<1> DEFINE k == IF r.dtype["hbmKRoPE"] = "BFloat16" THEN 1 ELSE 2
<1>1. /\ AclDataType("BFloat16") = "ACL_BF16"
      /\ AclDataType("Half") = "ACL_FLOAT16"
      /\ AclDataType("Int") = "ACL_INT32"
  BY DEF AclDataType, Acl
<1>2. /\ k \in 1 .. 2
      /\ \A t \in CacheTensors : AclDataType(r.dtype[t]) = DataTypes[k]
      /\ \A t \in MetadataTensors : AclDataType(r.dtype[t]) = IntTypes[k]
  BY <1>1 DEF DtypesOk, CacheTypes, DataTypes, IntTypes
<1> HIDE DEF k
<1>3. \A i \in DOMAIN Arguments :
        /\ i \in 1 .. 11
        /\ i \in 5 .. 9 => Arguments[i] \in MetadataTensors
        /\ i \notin 5 .. 9 => Arguments[i] \in CacheTensors
  BY DEF Arguments, MetadataTensors, CacheTensors
<1>4. \A i \in DOMAIN Arguments :
        Handle(r, Arguments[i]).dtype = IF i \in 5 .. 9 THEN IntTypes[k] ELSE DataTypes[k]
  BY <1>2, <1>3 DEF Handle
<1>5. Registered(r)
  BY <1>2, <1>4 DEF Registered
<1>6. \A i \in DOMAIN Arguments : Handle(r, Arguments[i]).dtype # Undefined
  BY <1>2, <1>4 DEF Undefined, DataTypes, IntTypes
<1>7. TilingDtypesOk(Inputs(r))
  <2>1. \A t \in Tensors : Inputs(r).dtype[t] = AclDataType(r.dtype[t])
    BY SeenShapes
  <2>2. DataTypes[k] \in {"ACL_BF16", "ACL_FLOAT16"} /\ IntTypes[k] = "ACL_INT32"
    BY <1>2 DEF DataTypes, IntTypes
  <2> QED BY <1>2, <2>1, <2>2 DEF TilingDtypesOk, Tensors, CacheTensors
<1> QED BY <1>5, <1>6, <1>7

(* A call that passed the operator's checks is refused later only for an   *)
(* empty batch or a platform without AIV cores.                            *)
THEOREM LateFailureCorrect == Spec => []LateFailureOnlyWhenEmpty
<1> DEFINE Inv ==
      /\ request \in Requests
      /\ phase \in {"checked", "failed"} => CheckScatterInputs(request)
      /\ phase = "failed" => ~LibraryAccepts(request)
<1>1. Init => Inv
  BY DEF Init
<1>2. Inv /\ [Next]_vars => Inv'
  BY DEF Next, Check, Raise, Launch, FailLate, vars
<1>3. Inv => LateFailureOnlyWhenEmpty
  <2> SUFFICES ASSUME Inv, phase = "failed", AivCoreNum # 0,
                      Dim(request, "copyCounts", 0) # 0
               PROVE  FALSE
    BY DEF LateFailureOnlyWhenEmpty
  <2> DEFINE seen == Inputs(request)
  <2>1. CheckScatterInputs(request) /\ ~LibraryAccepts(request)
    OBVIOUS
  <2>2. ~TilingAccepts(seen) /\ TilingDtypesOk(seen)
    BY <2>1, TypesAccepted DEF CheckScatterInputs, LibraryAccepts
  <2>3. request.shape \in [Tensors -> Seq(Nat)] /\ seen.shape = request.shape
    BY SeenShapes
  <2> HIDE DEF seen
  <2>4. CacheShapesOk(seen) /\ MetadataRanksOk(seen)
    BY <2>1, <2>3 DEF CheckScatterInputs, CacheShapesOk, HasShape, MetadataRanksOk,
                      Rank, Dim
  <2>5. \A t, i : Dim(seen, t, i) = Dim(request, t, i)
    BY <2>3 DEF Dim
  <2>6. Dim(request, "copyCounts", 0) > 0
    <3>1. Dim(request, "copyCounts", 0) \in Nat
      <4>1. Rank(request, "copyCounts") = 1 /\ "copyCounts" \in Tensors
        BY <2>1 DEF CheckScatterInputs, MetadataRanksOk, Tensors, MetadataTensors
      <4> QED BY <2>3, <4>1, DimNat
    <3> QED BY <3>1
  <2>7. /\ Dim(request, "dstSlots", 0) = Dim(request, "srcTokenIds", 0)
        /\ Dim(request, "dstSlots", 1) = Dim(request, "srcTokenIds", 1)
    BY <2>1 DEF CheckScatterInputs, Dim
  <2> QED BY <2>1, <2>2, <2>4, <2>5, <2>6, <2>7
          DEF CheckScatterInputs, CheckCaps, TilingAccepts
<1> QED BY <1>1, <1>2, <1>3, PTL DEF Spec

(* The ACL types the library accepts are each that of one torch type.      *)
LEMMA TypesRecovered ==
  ASSUME NEW t
  PROVE  /\ AclDataType(t) = "ACL_BF16" => t = "BFloat16"
         /\ AclDataType(t) = "ACL_FLOAT16" => t = "Half"
         /\ AclDataType(t) = "ACL_INT32" => t = "Int"
BY DEF AclDataType, Acl, Undefined

(* A call the library accepts, its tensors on the NPU, passes the torch    *)
(* operator's checks.                                                      *)
LEMMA AcceptedIsChecked ==
  ASSUME NEW r \in Requests, LibraryAccepts(r), \A t \in Tensors : r.onNpu[t]
  PROVE  CheckScatterInputs(r)
<1> DEFINE seen == Inputs(r)
<1>1. /\ r.shape \in [Tensors -> Seq(Nat)] /\ seen.shape = r.shape
      /\ \A t \in Tensors : seen.dtype[t] = AclDataType(r.dtype[t])
      /\ TilingAccepts(seen)
  BY SeenShapes DEF LibraryAccepts
<1> HIDE DEF seen
<1>2. \A t, i : Dim(seen, t, i) = Dim(r, t, i) /\ Rank(seen, t) = Rank(r, t)
  BY <1>1 DEF Dim, Rank
<1>3. CacheShapesOk(r) /\ MetadataRanksOk(r)
  BY <1>1, <1>2 DEF TilingAccepts, CacheShapesOk, HasShape, MetadataRanksOk
<1>4. /\ Dim(r, "srcTokenIds", 1) > 0 /\ Dim(r, "srcTokenIds", 1) <= MaxCopyCap
      /\ Dim(r, "dramBlockTable", 1) * BlockSize <= MaxSourceCapacity
      /\ Dim(r, "hbmBlockTable", 1) > 0 /\ Dim(r, "dramBlockTable", 1) > 0
      /\ \A t \in {"srcTokenIds", "hbmBlockTable", "dramBlockTable"} :
           Dim(r, t, 0) = Dim(r, "copyCounts", 0)
  BY <1>1, <1>2 DEF TilingAccepts
<1>5. r.shape["srcTokenIds"] = r.shape["dstSlots"]
  <2>1. /\ Dim(seen, "dstSlots", 1) = Dim(seen, "srcTokenIds", 1)
        /\ \A t \in MetadataTensors \ {"copyCounts"} :
             seen.shape[t] = <<Dim(seen, "copyCounts", 0), Dim(seen, t, 1)>>
    BY <1>1, AcceptedDims
  <2> QED BY <1>1, <2>1 DEF MetadataTensors
<1>6. DtypesOk(r)
  <2>1. /\ seen.dtype["hbmKRoPE"] \in {"ACL_BF16", "ACL_FLOAT16"}
        /\ \A t \in CacheTensors : seen.dtype[t] = seen.dtype["hbmKRoPE"]
        /\ \A t \in MetadataTensors : seen.dtype[t] = "ACL_INT32"
    BY <1>1 DEF TilingAccepts, TilingDtypesOk
  <2>2. /\ "hbmKRoPE" \in CacheTensors
        /\ \A t \in CacheTensors \cup MetadataTensors : seen.dtype[t] = AclDataType(r.dtype[t])
    BY <1>1 DEF CacheTensors, Tensors
  <2>3. \A t \in CacheTensors :
          /\ seen.dtype[t] = "ACL_BF16" => r.dtype[t] = "BFloat16"
          /\ seen.dtype[t] = "ACL_FLOAT16" => r.dtype[t] = "Half"
    BY <2>2, TypesRecovered
  <2>4. \A t \in MetadataTensors : r.dtype[t] = "Int"
    BY <2>1, <2>2, TypesRecovered
  <2> QED BY <2>1, <2>2, <2>3, <2>4 DEF DtypesOk, CacheTypes
<1> QED BY <1>3, <1>4, <1>5, <1>6 DEF CheckScatterInputs, CheckOneDeviceAndContiguous, CheckCaps

(* CheckScatterInputs raises for no call on the NPU that the library and   *)
(* TilingFunc would have accepted.                                         *)
THEOREM RaiseCorrect == Spec => []RaiseIsJustified
<1> DEFINE Inv ==
      /\ request \in Requests
      /\ phase = "raised" => ~CheckScatterInputs(request)
<1>1. Init => Inv
  BY DEF Init
<1>2. Inv /\ [Next]_vars => Inv'
  BY DEF Next, Check, Raise, Launch, FailLate, vars
<1>3. Inv => RaiseIsJustified
  BY AcceptedIsChecked DEF RaiseIsJustified
<1> QED BY <1>1, <1>2, <1>3, PTL DEF Spec

(* The kernel has a parameter for every tensor, at its argument's position.*)
LEMMA KernelPositions ==
  /\ \A t \in Tensors : \E i \in DOMAIN KernelParameters : KernelParameters[i] = t
  /\ \A i \in DOMAIN KernelParameters : Arguments[i] = KernelParameters[i]
<1>1. ASSUME NEW t \in Tensors
      PROVE  \E i \in DOMAIN KernelParameters : KernelParameters[i] = t
  <2>1. InputIndex[t] \in DOMAIN KernelParameters /\ KernelParameters[InputIndex[t]] = t
    <3>1. CASE t \in CacheTensors
      BY <3>1 DEF CacheTensors, InputIndex, KernelParameters
    <3>2. CASE t \in MetadataTensors
      BY <3>2 DEF MetadataTensors, InputIndex, KernelParameters
    <3> QED BY <3>1, <3>2 DEF Tensors
  <2> QED BY <2>1
<1>2. \A i \in DOMAIN KernelParameters : Arguments[i] = KernelParameters[i]
  BY DEF KernelParameters, Arguments
<1> QED BY <1>1, <1>2

(* The kernel of a launched call finds the caller's tensors under its own  *)
(* names for them.                                                         *)
THEOREM KernelTensorsCorrect == Spec => []KernelGetsItsTensors
<1>1. HostInv => KernelGetsItsTensors
  <2> SUFFICES ASSUME HostInv, phase = "launched", NEW t \in Tensors
               PROVE  KernelMemory(request)[t] = t
    BY DEF KernelGetsItsTensors
  <2>1. KernelMemory(request)[t] = Handle(request, t).memory
    BY KernelPositions DEF KernelMemory
  <2>2. request.shape \in [Tensors -> Seq(Nat)] /\ Inputs(request).shape = request.shape
        /\ TilingAccepts(Inputs(request))
    BY SeenShapes DEF HostInv
  <2>3. Rank(request, t) # 0
    <3>1. CacheShapesOk(request) /\ MetadataRanksOk(request)
      BY <2>2 DEF TilingAccepts, CacheShapesOk, MetadataRanksOk, HasShape, Rank, Dim
    <3>2. CASE t \in CacheTensors
      <4>1. Rank(request, t) = 3
        BY <3>1, <3>2 DEF CacheShapesOk, HasShape, CacheTensors
      <4> QED BY <4>1
    <3>3. CASE t \in MetadataTensors
      <4>1. Rank(request, t) \in {1, 2}
        BY <3>1, <3>3 DEF MetadataRanksOk
      <4> QED BY <4>1
    <3> QED BY <3>2, <3>3 DEF Tensors
  <2> QED BY <2>1, <2>3 DEF Handle
<1> QED BY <1>1, HostInvariance, PTL

(* The outputs of a launched call are inferred, returned and declared as   *)
(* what the kernel writes to.                                              *)
THEOREM OutputsCorrect == Spec => []OutputsAgree
<1>1. /\ "hbmKRoPE" \in Tensors /\ "hbmKvCache" \in Tensors
      /\ Len(KernelParameters) = 9
      /\ Arguments[10] = "hbmKRoPE" /\ Arguments[11] = "hbmKvCache"
      /\ KernelParameters[1] = "hbmKRoPE" /\ KernelParameters[2] = "hbmKvCache"
  BY DEF Tensors, CacheTensors, KernelParameters, Arguments
<1>2. \A r : Inferred(r)[1] = Handle(r, "hbmKRoPE") /\ Inferred(r)[2] = Handle(r, "hbmKvCache")
  BY <1>1, PositionsAgree DEF Inferred, Input
<1>3. /\ Returned[1] = "hbmKRoPE" /\ Returned[2] = "hbmKvCache"
      /\ SchemaAliases[1] = "hbmKRoPE" /\ SchemaAliases[2] = "hbmKvCache"
  BY DEF Returned, SchemaAliases
<1>4. KernelGetsItsTensors => OutputsAgree
  <2> SUFFICES ASSUME KernelGetsItsTensors, phase = "launched", NEW k \in 1 .. 2
               PROVE  LET output == Handle(request, Arguments[Len(KernelParameters) + k])
                      IN  /\ output.shape = Inferred(request)[k].shape
                          /\ output.dtype = Inferred(request)[k].dtype
                          /\ output.memory = Returned[k]
                          /\ output.memory = SchemaAliases[k]
                          /\ output.memory = KernelMemory(request)[KernelParameters[k]]
    BY DEF OutputsAgree
  <2> DEFINE t == KernelParameters[k]
  <2>1. /\ t \in Tensors /\ Arguments[Len(KernelParameters) + k] = t
        /\ Inferred(request)[k] = Handle(request, t)
        /\ Returned[k] = t /\ SchemaAliases[k] = t
    <3>1. CASE k = 1
      BY <1>1, <1>2, <1>3, <3>1
    <3>2. CASE k = 2
      BY <1>1, <1>2, <1>3, <3>2
    <3> QED BY <3>1, <3>2
  <2>2. KernelMemory(request)[t] = t
    BY <2>1 DEF KernelGetsItsTensors
  <2>3. Handle(request, t).memory = t
    <3>1. PICK i \in DOMAIN KernelParameters :
             KernelMemory(request)[t] = Handle(request, Arguments[i]).memory
             /\ KernelParameters[i] = t
      BY <2>1, KernelPositions DEF KernelMemory
    <3>2. Arguments[i] = t
      BY <3>1, KernelPositions
    <3> QED BY <2>2, <3>1, <3>2
  <2> QED BY <2>1, <2>2, <2>3
<1> QED BY <1>4, KernelTensorsCorrect, PTL
=============================================================================
