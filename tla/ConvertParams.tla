---------------------------- MODULE ConvertParams ----------------------------
(***************************************************************************)
(* ConvertTypes and ReleaseConvertTypes (torch_extension/csrc/             *)
(* op_api_common.h): EXEC_NPU_CMD_ORDERED turns its arguments into ACL     *)
(* handles before the launch and releases them after it.                   *)
(*                                                                         *)
(* The ACL functions that create and destroy handles are looked up at run  *)
(* time and may be missing.  std::make_tuple evaluates the conversions in  *)
(* an order of the compiler's choice, and one of them may raise.           *)
(*                                                                         *)
(* A parameter is a record: its kind; for all but plain values whether it  *)
(* is there at all (an optional that is empty and an undefined tensor are  *)
(* not); the scalar type of a tensor or scalar; the items of a list.       *)
(***************************************************************************)
EXTENDS Naturals, Sequences, AclTypes

CONSTANTS
  Calls,      \* the argument lists considered
  Lacking     \* the sets of ACL functions a process may lack

VARIABLES
  params,     \* the arguments of the call
  missing,    \* the ACL functions that were not found
  pc,         \* converting, raised, failed, used or released
  converted,  \* the arguments whose conversion has begun
  made,       \* the handles created: <<argument, 0>> or <<list, item>>
  destroyed,  \* the number of times each handle was destroyed
  next        \* the argument ReleaseConvertTypes has come to

vars == <<params, missing, pc, converted, made, destroyed, next>>

Lists == {"TensorList", "ScalarList"}
AclKinds == {"Tensor", "Scalar", "IntArray", "BoolArray"} \cup Lists
Create(kind) == <<"aclCreate", kind>>
Destroy(kind) == <<"aclDestroy", kind>>

Items(p) == IF p.kind \in Lists THEN p.items ELSE <<>>

(* What Scalar::type() may answer.                                         *)
ScalarTypes == {"Double", "Long", "Bool", "ComplexDouble", "UInt64"}

IsItem(p) ==
  /\ p.kind \in {"Tensor", "TensorWrapper", "Scalar"}
  /\ p.kind = "Scalar" /\ p.given => p.type \in ScalarTypes

IsParameter(p) ==
  \/ IsItem(p)
  \/ p.kind \in {"Value", "IntArray", "BoolArray"}
  \/ /\ p.kind \in Lists
     /\ p.items \in Seq({p.items[j] : j \in DOMAIN p.items})
     /\ \A j \in DOMAIN p.items : IsItem(p.items[j])
     /\ ~p.given => p.items = <<>>

ASSUME ConvertAssumption ==
  \A ps \in Calls : /\ ps \in Seq({ps[i] : i \in DOMAIN ps})
                    /\ \A i \in DOMAIN ps : IsParameter(ps[i])

Handles(ps) == UNION {{i} \X (0 .. Len(Items(ps[i]))) : i \in DOMAIN ps}

Init ==
  /\ params \in Calls
  /\ missing \in Lacking
  /\ pc = "converting"
  /\ converted = {}
  /\ made = {}
  /\ destroyed = [h \in Handles(params) |-> 0]
  /\ next = 1

-----------------------------------------------------------------------------

AclKind(p) == IF p.kind = "TensorWrapper" THEN "Tensor" ELSE p.kind

(* The conversion looks for the ACL function first: without it there is a  *)
(* null handle and no complaint.                                           *)
Attempted(p) ==
  p.kind # "Value" /\ p.given /\ Create(AclKind(p)) \notin missing

(* A TensorWrapper brings its ACL type and skips the table.                *)
Raises(p) ==
  Attempted(p) /\ p.kind \in {"Tensor", "Scalar"} /\ AclDataType(p.type) = Undefined

(* A mistake: a case of the switch forgotten.                              *)
ScalarCasesNoDouble == {"Long", "Bool", "ComplexDouble"}

(* The types aclCreateScalar is called for; every other is a null handle.  *)
ScalarCases == {"Double", "Long", "Bool", "ComplexDouble"}

Converts(p) ==
  Attempted(p) /\ ~Raises(p) /\ (p.kind = "Scalar" => p.type \in ScalarCases)

(* The items of a list are converted first, in order.                      *)
RaisingItems(p) == {j \in DOMAIN Items(p) : Raises(Items(p)[j])}

ItemRaises(p) == Attempted(p) /\ RaisingItems(p) # {}

ItemHandles(i) ==
  LET p == params[i]
  IN  IF Attempted(p)
      THEN {<<i, j>> : j \in {j \in DOMAIN Items(p) :
              Converts(Items(p)[j]) /\ \A k \in RaisingItems(p) : j < k}}
      ELSE {}

ConvertType(i) ==
  /\ pc = "converting" /\ i \in DOMAIN params \ converted
  /\ converted' = converted \cup {i}
  /\ IF Raises(params[i]) \/ ItemRaises(params[i])
       THEN /\ made' = made \cup ItemHandles(i)
            /\ pc' = "raised"
       ELSE /\ made' = made \cup ItemHandles(i)
                            \cup IF Converts(params[i]) THEN {<<i, 0>>} ELSE {}
            /\ UNCHANGED pc
  /\ UNCHANGED <<params, missing, destroyed, next>>

(* GetWorkspaceSize or the launch refuses: nothing is released.            *)
Fail ==
  /\ pc = "converting" /\ converted = DOMAIN params
  /\ pc' = "failed"
  /\ UNCHANGED <<params, missing, converted, made, destroyed, next>>

Use ==
  /\ pc = "converting" /\ converted = DOMAIN params
  /\ pc' = "used"
  /\ UNCHANGED <<params, missing, converted, made, destroyed, next>>

(* A mistake: a list falls to the template for plain values.               *)
DestroyedByNoList(i) ==
  IF <<i, 0>> \in made /\ params[i].kind \notin Lists
     /\ Destroy(AclKind(params[i])) \notin missing
  THEN {<<i, 0>>} ELSE {}

(* Release.  ACL destroys the items of a list with the list; a null handle *)
(* is destroyed without effect.                                            *)
DestroyedBy(i) ==
  IF <<i, 0>> \in made /\ Destroy(AclKind(params[i])) \notin missing
  THEN {h \in made : h[1] = i} ELSE {}

(* CallRelease goes from left to right.                                    *)
Release ==
  /\ pc = "used"
  /\ next \in DOMAIN params
  /\ destroyed' = [h \in DOMAIN destroyed |->
       IF h \in DestroyedBy(next) THEN destroyed[h] + 1 ELSE destroyed[h]]
  /\ next' = next + 1
  /\ pc' = IF next = Len(params) THEN "released" ELSE pc
  /\ UNCHANGED <<params, missing, converted, made>>

Next == (\E i \in DOMAIN params : ConvertType(i)) \/ Fail \/ Use \/ Release

Spec == Init /\ [][Next]_vars

-----------------------------------------------------------------------------
(* Properties.                                                             *)

(* No handle is destroyed twice, or before the launch has used it, and     *)
(* after a launch none is left but those ACL has no function to destroy.   *)
HandlesAccountedFor ==
  /\ \A h \in DOMAIN destroyed :
       /\ destroyed[h] <= 1
       /\ destroyed[h] = 1 => h \in made /\ pc \in {"used", "released"}
  /\ pc = "released" =>
       \A h \in made : Destroy(AclKind(params[h[1]])) \notin missing => destroyed[h] = 1

(* In a process that found every function a launch gets a handle for each  *)
(* argument it was given, and for each item of a list, whatever the order  *)
(* of the conversions; only an unsigned scalar is passed as a null pointer.*)
Unsigned(p) == p.kind = "Scalar" /\ p.type = "UInt64"

Passed(h, p) == p.kind # "Value" /\ p.given /\ ~Unsigned(p) => h \in made

UsesWhatWasGiven ==
  pc = "used" /\ missing = {} =>
    \A i \in DOMAIN params :
      /\ Passed(<<i, 0>>, params[i])
      /\ \A j \in DOMAIN Items(params[i]) : Passed(<<i, j>>, Items(params[i])[j])
=============================================================================
