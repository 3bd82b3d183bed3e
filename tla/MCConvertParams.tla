--------------------------- MODULE MCConvertParams ---------------------------
(***************************************************************************)
(* The arguments of kvcache_scatter_copy itself (eleven tensors and two    *)
(* addresses), and short lists of every other kind of argument, with types *)
(* that convert and types that do not.                                     *)
(***************************************************************************)
EXTENDS ConvertParams, SequencesExt

Value == [kind |-> "Value"]
Tensor(t) == [kind |-> "Tensor", given |-> TRUE, type |-> t]
Scalar(t) == [kind |-> "Scalar", given |-> TRUE, type |-> t]
NoTensor == [kind |-> "Tensor", given |-> FALSE, type |-> "Float"]
Wrapper == [kind |-> "TensorWrapper", given |-> TRUE]
Array(k) == [kind |-> k, given |-> TRUE]
List(k, items) == [kind |-> k, given |-> TRUE, items |-> items]

Copy(cacheType) ==
  [i \in 1 .. 13 |-> IF i \in {1, 2, 3, 4, 10, 11} THEN Tensor(cacheType)
                     ELSE IF i \in 5 .. 9 THEN Tensor("Int") ELSE Value]

Tensors == {Tensor("Float"), Tensor("QInt8"), NoTensor, Wrapper}
Scalars == {Scalar("Double"), Scalar("UInt64")}

Arguments ==
  Tensors \cup Scalars \cup {Value, Array("IntArray"), Array("BoolArray")}
    \cup {List("TensorList", s) : s \in BoundedSeq(Tensors, 2)}
    \cup {List("ScalarList", s) : s \in BoundedSeq(Scalars, 2)}
    \cup {[kind |-> "TensorList", given |-> FALSE, items |-> <<>>]}

MCCalls == {Copy("BFloat16"), Copy("Half")} \cup (Arguments \X Arguments)

Functions1 == {Create(k) : k \in AclKinds} \cup {Destroy(k) : k \in AclKinds}

MCLacking == {{}} \cup {{f} : f \in Functions1}
=============================================================================
