------------------------------- MODULE AclTypes -------------------------------
(***************************************************************************)
(* kATenScalarTypeToAclDataTypeTable (torch_extension/csrc/                *)
(* op_api_common.h): the ACL data type of a torch scalar type.  The code   *)
(* indexes the table with the position of the type in torch's own list.    *)
(***************************************************************************)

Acl ==
  [Byte |-> "ACL_UINT8", Char |-> "ACL_INT8", Short |-> "ACL_INT16",
   Int |-> "ACL_INT32", Long |-> "ACL_INT64", Half |-> "ACL_FLOAT16",
   Float |-> "ACL_FLOAT", Double |-> "ACL_DOUBLE", Bool |-> "ACL_BOOL",
   ComplexHalf |-> "ACL_COMPLEX32", ComplexFloat |-> "ACL_COMPLEX64",
   ComplexDouble |-> "ACL_COMPLEX128", BFloat16 |-> "ACL_BF16",
   Float8_e5m2 |-> "ACL_FLOAT8_E5M2", Float8_e4m3fn |-> "ACL_FLOAT8_E4M3FN",
   UInt16 |-> "ACL_UINT16", UInt32 |-> "ACL_UINT32", UInt64 |-> "ACL_UINT64",
   Float8_e8m0fnu |-> "ACL_FLOAT8_E8M0", Float4_e2m1fn_x2 |-> "ACL_FLOAT4_E2M1"]

Undefined == "ACL_DT_UNDEFINED"

(* A mistake: a row too few, so that BFloat16 gets the next type's.        *)
AclDataTypeRowLost(t) ==
  IF t \in DOMAIN Acl \ {"BFloat16"} THEN Acl[t] ELSE Undefined

(* The quantized, bit, sub-byte and fnuz types have no ACL type.           *)
AclDataType(t) == IF t \in DOMAIN Acl THEN Acl[t] ELSE Undefined
=============================================================================
