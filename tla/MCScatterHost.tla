---------------------------- MODULE MCScatterHost ----------------------------
(***************************************************************************)
(* Requests for ScatterHost: a well-formed call of every small size, and   *)
(* each of its deviations in the shape of one or two tensors, in one       *)
(* dtype or in one placement.  Sizes are scaled down (BlockSize 2,         *)
(* MaxCopyCap 3, MaxSourceCapacity 5) so that every limit is met, passed   *)
(* and missed by one.                                                      *)
(***************************************************************************)
EXTENDS ScatterHost

Good(batch, cap, hbmCols, dramCols) ==
  [shape |->
     [hbmKRoPE |-> <<3, 2, 1>>, hbmKvCache |-> <<3, 2, 4>>,
      dramKRoPE |-> <<5, 2, 1>>, dramKvCache |-> <<5, 2, 4>>,
      hbmBlockTable |-> <<batch, hbmCols>>,
      dramBlockTable |-> <<batch, dramCols>>,
      srcTokenIds |-> <<batch, cap>>, dstSlots |-> <<batch, cap>>,
      copyCounts |-> <<batch>>],
   dtype |->
     [hbmKRoPE |-> "BFloat16", hbmKvCache |-> "BFloat16",
      dramKRoPE |-> "BFloat16", dramKvCache |-> "BFloat16",
      hbmBlockTable |-> "Int", dramBlockTable |-> "Int",
      srcTokenIds |-> "Int", dstSlots |-> "Int", copyCounts |-> "Int"],
   onNpu |->
     [hbmKRoPE |-> TRUE, hbmKvCache |-> TRUE,
      dramKRoPE |-> TRUE, dramKvCache |-> TRUE,
      hbmBlockTable |-> TRUE, dramBlockTable |-> TRUE,
      srcTokenIds |-> TRUE, dstSlots |-> TRUE, copyCounts |-> TRUE]]

GoodRequests ==
  {Good(b, k, h, d) : b \in 0 .. 3, k \in 0 .. 4, h \in 0 .. 2, d \in 0 .. 3}

Typical == Good(2, 3, 2, 2)

Changed(r, t, shape) == [r EXCEPT !.shape[t] = shape]

OddShapes ==
  {<<>>, <<2>>, <<3>>, <<2, 2>>, <<2, 3>>, <<3, 2>>, <<3, 3>>,
   <<3, 2, 1>>, <<3, 2, 4>>, <<5, 2, 1>>, <<5, 2, 4>>, <<3, 1, 1>>, <<2, 3, 1>>}

OneShapeOff ==
  {Changed(Typical, t, s) : t \in DOMAIN Typical.shape, s \in OddShapes}

TwoShapesOff ==
  {Changed(Changed(Typical, t, s), u, s) :
     t, u \in DOMAIN Typical.shape, s \in OddShapes}

DtypeOff ==
  {[Typical EXCEPT !.dtype[t] = d] :
     t \in DOMAIN Typical.dtype, d \in {"BFloat16", "Half", "Int", "Long"}}
    \cup {[Typical EXCEPT !.dtype = [t \in DOMAIN @ |->
             IF @[t] = "BFloat16" THEN d ELSE @[t]]] : d \in {"Half", "Float", "QInt8"}}

PlacementOff == {[Typical EXCEPT !.onNpu[t] = FALSE] : t \in DOMAIN Typical.onNpu}

MCRequests ==
  GoodRequests \cup OneShapeOff \cup TwoShapesOff \cup DtypeOff \cup PlacementOff
=============================================================================
