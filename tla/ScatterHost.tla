----------------------------- MODULE ScatterHost -----------------------------
(***************************************************************************)
(* The host side of one kvcache_scatter_copy call: the checks of the torch *)
(* operator (torch_extension/csrc/npu_kvcache_scatter_copy.cpp), which     *)
(* raise before anything is set up, and the definition of the operator     *)
(* with its TilingFunc                                                     *)
(* (csrc/src/kvcache_scatter_copy/op_host/a5_kvcache_scatter_copy.cpp),    *)
(* which the vendor library runs while the call is being launched: it      *)
(* checks once more and computes the tiling data the kernel works from.    *)
(*                                                                         *)
(* Between the two, tensors are known by their position only.  The torch   *)
(* operator lists them as arguments of EXEC_NPU_CMD_ORDERED; TilingFunc,   *)
(* InferShape, the registered types and the kernel's parameters each have  *)
(* an order of their own.                                                  *)
(*                                                                         *)
(* A request is a record of functions over the nine tensors of the call:   *)
(* shape (a sequence of dimensions), torch dtype, and whether the tensor   *)
(* is a contiguous one on the NPU of hbmKRoPE.                             *)
(***************************************************************************)
EXTENDS ScatterPairs, AclTypes, Sequences

CONSTANTS
  KRopeDim,           \* 64
  KvCacheDim,         \* 512
  MaxCopyCap,         \* 65536
  MaxSourceCapacity,  \* 2^18 tokens
  Uint32Mod,          \* 2^32
  AivCoreNum,         \* PlatformAscendC::GetCoreNumAiv()
  Requests            \* the calls considered

CacheTensors == {"hbmKRoPE", "hbmKvCache", "dramKRoPE", "dramKvCache"}
MetadataTensors ==
  {"hbmBlockTable", "dramBlockTable", "srcTokenIds", "dstSlots", "copyCounts"}
Tensors == CacheTensors \cup MetadataTensors

CacheTypes == {"BFloat16", "Half"}

IsRequest(r) ==
  /\ r.shape \in [Tensors -> Seq(Nat)]
  /\ DOMAIN r.dtype = Tensors
  /\ r.onNpu \in [Tensors -> BOOLEAN]

ASSUME HostAssumption ==
  /\ AivCoreNum \in Nat
  /\ Uint32Mod \in Nat \ {0}
  /\ AivCoreNum < Uint32Mod
  /\ MaxCopyCap \in Nat
  /\ MaxCopyCap < Uint32Mod
  /\ MaxSourceCapacity \in Nat
  /\ MaxSourceCapacity < Uint32Mod
  /\ \A r \in Requests : IsRequest(r)

-----------------------------------------------------------------------------

Rank(r, t) == Len(r.shape[t])
Dim(r, t, i) == r.shape[t][i + 1]

HasShape(r, t, dim0, dim1) ==
  Rank(r, t) = 3 /\ Dim(r, t, 1) = dim0 /\ Dim(r, t, 2) = dim1

CacheShapesOk(r) ==
  /\ HasShape(r, "hbmKRoPE", BlockSize, KRopeDim)
  /\ HasShape(r, "dramKRoPE", BlockSize, KRopeDim)
  /\ HasShape(r, "hbmKvCache", BlockSize, KvCacheDim)
  /\ HasShape(r, "dramKvCache", BlockSize, KvCacheDim)
  /\ Dim(r, "hbmKRoPE", 0) = Dim(r, "hbmKvCache", 0)
  /\ Dim(r, "dramKRoPE", 0) = Dim(r, "dramKvCache", 0)

MetadataRanksOk(r) ==
  /\ \A t \in MetadataTensors \ {"copyCounts"} : Rank(r, t) = 2
  /\ Rank(r, "copyCounts") = 1

DtypesOk(r) ==
  /\ r.dtype["hbmKRoPE"] \in CacheTypes
  /\ \A t \in CacheTensors : r.dtype[t] = r.dtype["hbmKRoPE"]
  /\ \A t \in MetadataTensors : r.dtype[t] = "Int"

(* Definitions marked "a mistake" are wrong variants of the definition     *)
(* they precede; they show which property would notice the mistake.        *)

(* A mistake: refusing the largest cap.                                    *)
CapsExclusive(r) ==
  /\ Dim(r, "srcTokenIds", 1) > 0
  /\ Dim(r, "srcTokenIds", 1) < MaxCopyCap
  /\ Dim(r, "dramBlockTable", 1) * BlockSize <= MaxSourceCapacity

CheckCaps(r) ==
  /\ Dim(r, "srcTokenIds", 1) > 0
  /\ Dim(r, "srcTokenIds", 1) <= MaxCopyCap
  /\ Dim(r, "dramBlockTable", 1) * BlockSize <= MaxSourceCapacity

CheckOneDeviceAndContiguous(r) == \A t \in Tensors : r.onNpu[t]

CheckScatterInputs(r) ==
  /\ CacheShapesOk(r)
  /\ MetadataRanksOk(r)
  /\ r.shape["srcTokenIds"] = r.shape["dstSlots"]
  /\ \A t \in {"srcTokenIds", "hbmBlockTable", "dramBlockTable"} :
       Dim(r, t, 0) = Dim(r, "copyCounts", 0)
  /\ Dim(r, "hbmBlockTable", 1) > 0
  /\ Dim(r, "dramBlockTable", 1) > 0
  /\ CheckCaps(r)
  /\ DtypesOk(r)
  /\ CheckOneDeviceAndContiguous(r)

-----------------------------------------------------------------------------
(* From the torch operator to the library: positions.                      *)

(* A mistake: two tensors of the same shape and type in the other order.   *)
ArgumentsSwapped ==
  <<"hbmKRoPE", "hbmKvCache", "dramKRoPE", "dramKvCache", "hbmBlockTable",
    "dramBlockTable", "dstSlots", "srcTokenIds", "copyCounts",
    "hbmKRoPE", "hbmKvCache">>

(* The arguments of EXEC_NPU_CMD_ORDERED: nine inputs and two outputs.     *)
Arguments ==
  <<"hbmKRoPE", "hbmKvCache", "dramKRoPE", "dramKvCache", "hbmBlockTable",
    "dramBlockTable", "srcTokenIds", "dstSlots", "copyCounts",
    "hbmKRoPE", "hbmKvCache">>

(* ConvertType: a number wrapped as a tensor, always of rank 0, would be   *)
(* copied to memory that is gone when ConvertType returns.                 *)
Handle(r, t) ==
  [shape |-> r.shape[t],
   dtype |-> AclDataType(r.dtype[t]),
   memory |-> IF Rank(r, t) = 0 THEN "gone" ELSE t]

(* HBM_K_ROPE .. COPY_COUNTS, counted from 1.                              *)
InputIndex ==
  [hbmKRoPE |-> 1, hbmKvCache |-> 2, dramKRoPE |-> 3, dramKvCache |-> 4,
   hbmBlockTable |-> 5, dramBlockTable |-> 6, srcTokenIds |-> 7,
   dstSlots |-> 8, copyCounts |-> 9]

(* The tensors as op_host sees them, by the names of its indices.          *)
Input(r, t) == Handle(r, Arguments[InputIndex[t]])
Inputs(r) ==
  [shape |-> [t \in Tensors |-> Input(r, t).shape],
   dtype |-> [t \in Tensors |-> Input(r, t).dtype]]

(* The types the operator is registered for: bf16 caches or fp16 caches,   *)
(* with int32 metadata.  The two outputs are registered like the caches.   *)
DataTypes == <<"ACL_BF16", "ACL_FLOAT16">>
IntTypes == <<"ACL_INT32", "ACL_INT32">>
Registered(r) ==
  \E k \in 1 .. 2 : \A i \in DOMAIN Arguments :
    Handle(r, Arguments[i]).dtype = IF i \in 5 .. 9 THEN IntTypes[k] ELSE DataTypes[k]

(* A mistake: both outputs inferred from the first input.                  *)
InferredFromFirst(r) == <<Input(r, "hbmKRoPE"), Input(r, "hbmKRoPE")>>

(* InferShape and InferDataType: the two outputs.                          *)
Inferred(r) == <<Input(r, "hbmKRoPE"), Input(r, "hbmKvCache")>>

(* The tensors KvcacheScatterCopyNpu and KvcacheScatterCopyMeta return.    *)
Returned == <<"hbmKRoPE", "hbmKvCache">>

(* "Tensor(a!) hbm_kpe, Tensor(b!) hbm_ckv, ... -> (Tensor(a!),            *)
(* Tensor(b!))": the arguments the schema says are changed and returned.   *)
SchemaAliases == <<"hbmKRoPE", "hbmKvCache">>

(* The parameters of a5_kvcache_scatter_copy, as it hands them to Init.    *)
(* The two outputs that follow are not used: the kernel writes to inputs.  *)
KernelParameters ==
  <<"hbmKRoPE", "hbmKvCache", "dramKRoPE", "dramKvCache", "hbmBlockTable",
    "dramBlockTable", "srcTokenIds", "dstSlots", "copyCounts">>

(* The memory the kernel finds under each of its names.                    *)
KernelMemory(r) ==
  [t \in Tensors |->
     LET i == CHOOSE i \in DOMAIN KernelParameters : KernelParameters[i] = t
     IN  Handle(r, Arguments[i]).memory]

-----------------------------------------------------------------------------

TilingDtypesOk(s) ==
  /\ s.dtype["hbmKRoPE"] \in {"ACL_BF16", "ACL_FLOAT16"}
  /\ \A t \in CacheTensors : s.dtype[t] = s.dtype["hbmKRoPE"]
  /\ \A t \in MetadataTensors : s.dtype[t] = "ACL_INT32"

(* The conditions under which TilingFunc does not return GRAPH_FAILED.     *)
TilingAccepts(s) ==
  /\ TilingDtypesOk(s)
  /\ CacheShapesOk(s)
  /\ MetadataRanksOk(s)
  /\ LET batchSize == Dim(s, "copyCounts", 0)
         copyCap == Dim(s, "srcTokenIds", 1)
     IN  /\ batchSize > 0
         /\ copyCap > 0
         /\ copyCap <= MaxCopyCap
         /\ Dim(s, "srcTokenIds", 0) = batchSize
         /\ Dim(s, "dstSlots", 0) = batchSize
         /\ Dim(s, "dstSlots", 1) = copyCap
         /\ Dim(s, "hbmBlockTable", 0) = batchSize
         /\ Dim(s, "dramBlockTable", 0) = batchSize
         /\ Dim(s, "hbmBlockTable", 1) > 0
         /\ Dim(s, "dramBlockTable", 1) > 0
         /\ Dim(s, "dramBlockTable", 1) * BlockSize <= MaxSourceCapacity
  /\ AivCoreNum # 0

Uint32(n) == n % Uint32Mod

(* A mistake: starting every core, with pairs for it or not.               *)
AllCores(totalPairSlots) == AivCoreNum

UsedCoreNum(totalPairSlots) ==
  IF totalPairSlots < AivCoreNum THEN Uint32(totalPairSlots) ELSE AivCoreNum

(* What TilingFunc stores; elementBytes is always 2 and left out.          *)
TilingData(s) ==
  LET batchSize == Dim(s, "copyCounts", 0)
      copyCap == Dim(s, "srcTokenIds", 1)
  IN  [usedCoreNum |-> UsedCoreNum(batchSize * copyCap),
       batchSize |-> Uint32(batchSize),
       copyCap |-> Uint32(copyCap),
       hbmMaxBlockNum |-> Uint32(Dim(s, "hbmBlockTable", 1)),
       dramMaxBlockNum |-> Uint32(Dim(s, "dramBlockTable", 1)),
       totalPairSlots |-> batchSize * copyCap]

(* The launch fails late unless every argument has an ACL type, the types  *)
(* are registered and TilingFunc accepts.                                  *)
LibraryAccepts(r) ==
  /\ \A i \in DOMAIN Arguments : Handle(r, Arguments[i]).dtype # Undefined
  /\ Registered(r)
  /\ TilingAccepts(Inputs(r))

-----------------------------------------------------------------------------

VARIABLES
  request,   \* the call
  phase,     \* called, checked, raised, failed or launched
  tiling     \* the tiling data of a launched call

vars == <<request, phase, tiling>>

NoTiling == [usedCoreNum |-> 0]

Init ==
  /\ request \in Requests
  /\ phase = "called"
  /\ tiling = NoTiling

Check ==
  /\ phase = "called"
  /\ CheckScatterInputs(request)
  /\ phase' = "checked"
  /\ UNCHANGED <<request, tiling>>

Raise ==
  /\ phase = "called"
  /\ ~CheckScatterInputs(request)
  /\ phase' = "raised"
  /\ UNCHANGED <<request, tiling>>

(* GetWorkspaceSize succeeds: the tiling data goes to the kernel.          *)
Launch ==
  /\ phase = "checked"
  /\ LibraryAccepts(request)
  /\ tiling' = TilingData(Inputs(request))
  /\ phase' = "launched"
  /\ UNCHANGED request

(* Thread-local memory has been set up by now, and handles created.        *)
FailLate ==
  /\ phase = "checked"
  /\ ~LibraryAccepts(request)
  /\ phase' = "failed"
  /\ UNCHANGED <<request, tiling>>

Next == Check \/ Raise \/ Launch \/ FailLate

Spec == Init /\ [][Next]_vars

-----------------------------------------------------------------------------
(* Properties.                                                             *)

(* The dimensions TilingFunc narrows without a bound of its own.  (Those   *)
(* of the other tensors are bounded by MAX_COPY_CAP and the source         *)
(* capacity.)                                                              *)
FitsUint32(r) ==
  /\ Dim(r, "copyCounts", 0) < Uint32Mod
  /\ Dim(r, "hbmBlockTable", 1) < Uint32Mod

(* The tiling data of a launched call describes the tensors it was called  *)
(* with: the kernel's rows, columns and table rows are theirs, the cores   *)
(* are there, and each of them owns at least one pair.                     *)
TilingSound ==
  phase = "launched" /\ FitsUint32(request) =>
    /\ IsTiling(tiling)
    /\ tiling.usedCoreNum <= AivCoreNum
    /\ tiling.usedCoreNum <= tiling.totalPairSlots
    /\ request.shape["copyCounts"] = <<tiling.batchSize>>
    /\ \A t \in {"srcTokenIds", "dstSlots"} :
         request.shape[t] = <<tiling.batchSize, tiling.copyCap>>
    /\ request.shape["hbmBlockTable"] = <<tiling.batchSize, tiling.hbmMaxBlockNum>>
    /\ request.shape["dramBlockTable"] = <<tiling.batchSize, tiling.dramMaxBlockNum>>

(* A call that passed the operator's own checks is refused later, after    *)
(* memory and handles for it have been set up, only for an empty batch (or *)
(* a platform without AIV cores): the checks of the two code bases and the *)
(* table of types between them agree on everything else.                   *)
LateFailureOnlyWhenEmpty ==
  phase = "failed" => Dim(request, "copyCounts", 0) = 0 \/ AivCoreNum = 0

(* The caller is refused nothing the kernel could run: what raises is a    *)
(* call the library would refuse too, or one on the wrong device.          *)
RaiseIsJustified ==
  phase = "raised" =>
    ~LibraryAccepts(request) \/ \E t \in Tensors : ~request.onNpu[t]

(* Through the orders of four lists in three files, the kernel finds the   *)
(* caller's tensor under each of its names, and in memory the call holds.  *)
KernelGetsItsTensors ==
  phase = "launched" => \A t \in Tensors : KernelMemory(request)[t] = t

(* The outputs of a launch are what shape and type inference say they are, *)
(* the tensors the caller gets back, those the schema declares as changed, *)
(* and the ones the kernel writes to, though it writes to its inputs and   *)
(* ignores its outputs.                                                    *)
OutputsAgree ==
  phase = "launched" =>
    \A k \in 1 .. 2 :
      LET output == Handle(request, Arguments[Len(KernelParameters) + k])
      IN  /\ output.shape = Inferred(request)[k].shape
          /\ output.dtype = Inferred(request)[k].dtype
          /\ output.memory = Returned[k]
          /\ output.memory = SchemaAliases[k]
          /\ output.memory = KernelMemory(request)[KernelParameters[k]]
=============================================================================
