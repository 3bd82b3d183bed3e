------------------------ MODULE ConvertParams_proofs ------------------------
(***************************************************************************)
(* The handles of a launch, for any arguments in any order of conversion   *)
(* and whichever ACL functions the process lacks.                          *)
(***************************************************************************)
EXTENDS ConvertParams, TLAPS

(* What a conversion that does not raise creates.                          *)
MadeBy(i) == ItemHandles(i) \cup IF Converts(params[i]) THEN {<<i, 0>>} ELSE {}

RaisedBy(i) == Raises(params[i]) \/ ItemRaises(params[i])

TypeOK ==
  /\ params \in Calls
  /\ pc \in {"converting", "raised", "failed", "used", "released"}
  /\ converted \in SUBSET DOMAIN params
  /\ made \in SUBSET Handles(params)
  /\ destroyed \in [Handles(params) -> Nat]
  /\ next \in Nat \ {0}

(* Unless one has raised, the conversions begun have all come to an end,   *)
(* and a call that goes on has begun them all.                             *)
ConvertedOK ==
  /\ pc # "raised" =>
       /\ \A i \in converted : ~RaisedBy(i)
       /\ \A i \in DOMAIN params : {h \in made : h[1] = i} = IF i \in converted THEN MadeBy(i) ELSE {}
  /\ pc \in {"failed", "used", "released"} => converted = DOMAIN params

(* The arguments before the next one have been released, and no others.    *)
ReleasedOK ==
  /\ pc \notin {"used", "released"} => next = 1
  /\ pc = "released" => next = Len(params) + 1
  /\ \A h \in Handles(params) :
       destroyed[h] = IF h[1] < next /\ h \in DestroyedBy(h[1]) THEN 1 ELSE 0

IInv == TypeOK /\ ConvertedOK /\ ReleasedOK

-----------------------------------------------------------------------------
(* Facts about arguments and their handles.                                *)

LEMMA ParamFacts ==
  ASSUME params \in Calls
  PROVE  /\ Len(params) \in Nat /\ DOMAIN params = 1 .. Len(params)
         /\ \A i \in DOMAIN params : IsParameter(params[i])
<1>1. params \in Seq({params[i] : i \in DOMAIN params})
  BY ConvertAssumption
<1>2. Len(params) \in Nat /\ DOMAIN params = 1 .. Len(params)
  BY <1>1
<1>3. \A i \in DOMAIN params : IsParameter(params[i])
  BY ConvertAssumption
<1> QED BY <1>2, <1>3

LEMMA ItemsFacts ==
  ASSUME NEW p, IsParameter(p)
  PROVE  /\ Len(Items(p)) \in Nat /\ DOMAIN Items(p) = 1 .. Len(Items(p))
         /\ DOMAIN Items(p) # {} => p.kind \in Lists /\ p.given
         /\ \A j \in DOMAIN Items(p) : IsItem(Items(p)[j])
<1>1. CASE p.kind \in Lists
  <2>1. Items(p) = p.items
    BY <1>1 DEF Items
  <2>2. /\ p.items \in Seq({p.items[j] : j \in DOMAIN p.items})
        /\ \A j \in DOMAIN p.items : IsItem(p.items[j])
        /\ ~p.given => p.items = <<>>
    BY <1>1 DEF IsParameter, IsItem, Lists
  <2>3. Len(p.items) \in Nat /\ DOMAIN p.items = 1 .. Len(p.items)
    BY <2>2
  <2>4. p.items = <<>> => DOMAIN p.items = {}
    OBVIOUS
  <2> QED BY <1>1, <2>1, <2>2, <2>3, <2>4
<1>2. CASE p.kind \notin Lists
  <2>1. Items(p) = <<>>
    BY <1>2 DEF Items
  <2> QED BY <2>1
<1> QED BY <1>1, <1>2

LEMMA HandlesFacts ==
  ASSUME params \in Calls
  PROVE  /\ \A h \in Handles(params) :
              \E i \in DOMAIN params : \E j \in 0 .. Len(Items(params[i])) : h = <<i, j>>
         /\ \A i \in DOMAIN params : \A j \in 0 .. Len(Items(params[i])) :
              <<i, j>> \in Handles(params)
BY DEF Handles

(* What a conversion creates belongs to its argument, the list with its    *)
(* items.                                                                  *)
LEMMA MadeByFacts ==
  ASSUME params \in Calls, NEW i \in DOMAIN params
  PROVE  /\ MadeBy(i) \in SUBSET Handles(params) /\ ItemHandles(i) \in SUBSET Handles(params)
         /\ \A h \in MadeBy(i) : h[1] = i
         /\ \A h \in ItemHandles(i) : h[1] = i
         /\ MadeBy(i) # {} => <<i, 0>> \in MadeBy(i)
<1> DEFINE p == params[i]
<1>1. /\ Len(Items(p)) \in Nat /\ DOMAIN Items(p) = 1 .. Len(Items(p))
      /\ DOMAIN Items(p) # {} => p.kind \in Lists
  BY ParamFacts, ItemsFacts
<1>2. \A h \in ItemHandles(i) : Attempted(p) /\ \E j \in DOMAIN Items(p) : h = <<i, j>>
  BY DEF ItemHandles
<1>3. \A j \in 0 .. Len(Items(p)) : <<i, j>> \in Handles(params)
  BY HandlesFacts
<1> HIDE DEF p
<1>4. ItemHandles(i) \in SUBSET Handles(params) /\ \A h \in ItemHandles(i) : h[1] = i
  BY <1>1, <1>2, <1>3
<1>5. <<i, 0>> \in Handles(params)
  BY <1>1, <1>3
<1>6. ItemHandles(i) # {} => Converts(p)
  BY <1>1, <1>2 DEF Converts, Raises, Lists
<1> QED BY <1>4, <1>5, <1>6 DEF MadeBy, p

-----------------------------------------------------------------------------
(* The invariant.                                                          *)

(* Nothing has been converted yet.                                         *)
THEOREM InitOK == Init => IInv
<1> SUFFICES ASSUME Init
             PROVE  IInv
  OBVIOUS
<1>1. TypeOK
  BY DEF Init, TypeOK
<1>2. ConvertedOK
  BY DEF Init, ConvertedOK
<1>3. ReleasedOK
  <2>1. \A h \in Handles(params) : h[1] \in Nat /\ ~(h[1] < 1) /\ destroyed[h] = 0
    BY ParamFacts, HandlesFacts DEF Init
  <2> QED BY <2>1 DEF Init, ReleasedOK
<1> QED BY <1>1, <1>2, <1>3 DEF IInv

LEMMA ConvertTypeKeeps ==
  ASSUME IInv, NEW i \in DOMAIN params, ConvertType(i)
  PROVE  IInv'
<1>1. TypeOK /\ ConvertedOK /\ ReleasedOK
  BY DEF IInv
<1>2. /\ pc = "converting" /\ i \notin converted /\ converted' = converted \cup {i}
      /\ UNCHANGED <<params, missing, destroyed, next>>
      /\ \/ RaisedBy(i) /\ made' = made \cup ItemHandles(i) /\ pc' = "raised"
         \/ ~RaisedBy(i) /\ made' = made \cup MadeBy(i) /\ pc' = pc
  BY DEF ConvertType, RaisedBy, MadeBy
<1>3. /\ MadeBy(i) \in SUBSET Handles(params) /\ ItemHandles(i) \in SUBSET Handles(params)
      /\ \A h \in MadeBy(i) : h[1] = i
  BY <1>1, MadeByFacts DEF TypeOK
<1>4. TypeOK'
  BY <1>1, <1>2, <1>3 DEF TypeOK
<1>5. ConvertedOK'
  <2> SUFFICES ASSUME pc' # "raised"
               PROVE  ConvertedOK'
    BY <1>2 DEF ConvertedOK
  <2>1. ~RaisedBy(i) /\ made' = made \cup MadeBy(i) /\ pc' = "converting"
    BY <1>2
  <2>2. ASSUME NEW k
        PROVE  MadeBy(k)' = MadeBy(k) /\ (RaisedBy(k)' <=> RaisedBy(k))
    BY <1>2 DEF MadeBy, ItemHandles, RaisedBy, ItemRaises, RaisingItems, Converts, Raises,
                Attempted
  <2>3. \A k \in converted' : ~RaisedBy(k)
    BY <1>1, <1>2, <2>1 DEF ConvertedOK
  <2>4. \A k \in DOMAIN params :
          {h \in made' : h[1] = k} = IF k \in converted' THEN MadeBy(k) ELSE {}
    <3> SUFFICES ASSUME NEW k \in DOMAIN params
                 PROVE  {h \in made' : h[1] = k} = IF k \in converted' THEN MadeBy(k) ELSE {}
      OBVIOUS
    <3>1. {h \in made : h[1] = k} = IF k \in converted THEN MadeBy(k) ELSE {}
      BY <1>1, <1>2 DEF ConvertedOK
    <3>2. CASE k = i
      <4>1. {h \in made' : h[1] = i} = MadeBy(i)
        BY <1>2, <1>3, <2>1, <3>1, <3>2
      <4> QED BY <1>2, <3>2, <4>1
    <3>3. CASE k # i
      <4>1. {h \in made' : h[1] = k} = {h \in made : h[1] = k}
        BY <1>3, <2>1, <3>3
      <4> QED BY <1>2, <3>1, <3>3, <4>1
    <3> QED BY <3>2, <3>3
  <2>5. \A k \in converted' : ~RaisedBy(k)'
    BY <1>1, <1>2, <2>2, <2>3 DEF TypeOK
  <2>6. \A k \in DOMAIN params' :
          {h \in made' : h[1] = k} = IF k \in converted' THEN MadeBy(k)' ELSE {}
    BY <1>2, <2>2, <2>4
  <2> QED BY <2>1, <2>5, <2>6 DEF ConvertedOK
<1>6. ReleasedOK'
  <2>1. next = 1 /\ pc' \notin {"used", "released"}
    BY <1>1, <1>2 DEF ReleasedOK
  <2>2. \A h \in Handles(params) : ~(h[1] < 1)
    BY <1>1, ParamFacts, HandlesFacts DEF TypeOK
  <2>3. \A h \in Handles(params) : destroyed[h] = 0
    BY <1>1, <2>1, <2>2 DEF ReleasedOK
  <2> QED BY <1>2, <2>1, <2>2, <2>3 DEF ReleasedOK
<1> QED BY <1>4, <1>5, <1>6 DEF IInv

(* Once the conversions are over nothing is made.                          *)
LEMMA MadeStays ==
  ASSUME UNCHANGED <<params, missing, made>>, NEW i
  PROVE  MadeBy(i)' = MadeBy(i) /\ (RaisedBy(i)' <=> RaisedBy(i)) /\ DestroyedBy(i)' = DestroyedBy(i)
BY DEF MadeBy, ItemHandles, RaisedBy, ItemRaises, RaisingItems, Converts, Raises, Attempted,
       DestroyedBy

LEMMA EndKeeps ==
  ASSUME IInv, Fail \/ Use
  PROVE  IInv'
<1>1. TypeOK /\ ConvertedOK /\ ReleasedOK
  BY DEF IInv
<1>2. /\ pc = "converting" /\ converted = DOMAIN params /\ pc' \in {"failed", "used"}
      /\ UNCHANGED <<params, missing, converted, made, destroyed, next>>
  BY DEF Fail, Use
<1>3. TypeOK'
  BY <1>1, <1>2 DEF TypeOK
<1>4. ConvertedOK'
  BY <1>1, <1>2, MadeStays DEF ConvertedOK
<1>5. ReleasedOK'
  BY <1>1, <1>2, MadeStays DEF ReleasedOK
<1> QED BY <1>3, <1>4, <1>5 DEF IInv

LEMMA ReleaseKeeps ==
  ASSUME IInv, Release
  PROVE  IInv'
<1>1. TypeOK /\ ConvertedOK /\ ReleasedOK
  BY DEF IInv
<1>2. /\ pc = "used" /\ next \in DOMAIN params /\ next' = next + 1
      /\ destroyed' = [h \in DOMAIN destroyed |->
           IF h \in DestroyedBy(next) THEN destroyed[h] + 1 ELSE destroyed[h]]
      /\ pc' = IF next = Len(params) THEN "released" ELSE pc
      /\ UNCHANGED <<params, missing, converted, made>>
  BY DEF Release
<1>3. next \in Nat \ {0} /\ DOMAIN destroyed = Handles(params)
  BY <1>1 DEF TypeOK
<1>4. TypeOK'
  <2>1. \A h \in Handles(params) : destroyed[h] \in Nat /\ destroyed[h] + 1 \in Nat
    BY <1>1 DEF TypeOK
  <2>2. destroyed' \in [Handles(params) -> Nat]
    BY <1>2, <1>3, <2>1
  <2> QED BY <1>1, <1>2, <1>3, <2>2 DEF TypeOK
<1>5. ConvertedOK'
  BY <1>1, <1>2, MadeStays DEF ConvertedOK
<1>6. ReleasedOK'
  <2>1. pc' = "released" => next' = Len(params) + 1
    BY <1>2
  <2>2. ASSUME NEW h \in Handles(params)
        PROVE  destroyed'[h] = IF h[1] < next' /\ h \in DestroyedBy(h[1]) THEN 1 ELSE 0
    <3>1. h[1] \in Nat
      BY <1>1, ParamFacts, HandlesFacts DEF TypeOK
    <3>2. /\ destroyed'[h] = IF h \in DestroyedBy(next) THEN destroyed[h] + 1 ELSE destroyed[h]
          /\ destroyed[h] = IF h[1] < next /\ h \in DestroyedBy(h[1]) THEN 1 ELSE 0
      BY <1>1, <1>2, <1>3 DEF ReleasedOK
    <3>3. h \in DestroyedBy(next) => h[1] = next
      BY DEF DestroyedBy
    <3> QED BY <1>2, <1>3, <3>1, <3>2, <3>3
  <2> QED BY <1>2, <2>1, <2>2, MadeStays DEF ReleasedOK
<1> QED BY <1>4, <1>5, <1>6 DEF IInv

(* Every conversion, the call's end and every release keep the invariant.  *)
THEOREM StepOK == IInv /\ [Next]_vars => IInv'
<1> SUFFICES ASSUME IInv, [Next]_vars
             PROVE  IInv'
  OBVIOUS
<1>1. CASE Next
  BY <1>1, ConvertTypeKeeps, EndKeeps, ReleaseKeeps DEF Next
<1>2. CASE UNCHANGED vars
  <2>1. UNCHANGED <<params, missing, pc, converted, made, destroyed, next>>
    BY <1>2 DEF vars
  <2> QED BY <2>1, MadeStays DEF IInv, TypeOK, ConvertedOK, ReleasedOK
<1> QED BY <1>1, <1>2

(* The invariant holds throughout every call.                              *)
THEOREM Invariance == Spec => []IInv
<1> QED BY InitOK, StepOK, PTL DEF Spec

-----------------------------------------------------------------------------
(* The theorems.                                                           *)

(* ReleaseConvertTypes destroys no handle twice and none that the launch   *)
(* has yet to use; after it none is left that ACL can destroy.             *)
THEOREM HandlesCorrect == Spec => []HandlesAccountedFor
<1>1. IInv => HandlesAccountedFor
  <2> SUFFICES ASSUME IInv
               PROVE  HandlesAccountedFor
    OBVIOUS
  <2>1. TypeOK /\ ConvertedOK /\ ReleasedOK /\ DOMAIN destroyed = Handles(params)
    BY DEF IInv, TypeOK
  <2>2. ASSUME NEW h \in Handles(params)
        PROVE  /\ destroyed[h] <= 1
               /\ destroyed[h] = 1 => h \in made /\ pc \in {"used", "released"}
    <3>1. h[1] \in Nat /\ h[1] >= 1
      BY <2>1, ParamFacts, HandlesFacts DEF TypeOK
    <3>2. destroyed[h] = IF h[1] < next /\ h \in DestroyedBy(h[1]) THEN 1 ELSE 0
      BY <2>1 DEF ReleasedOK
    <3>3. DestroyedBy(h[1]) \subseteq made
      BY DEF DestroyedBy
    <3>4. h[1] < next => pc \in {"used", "released"}
      BY <2>1, <3>1 DEF ReleasedOK
    <3> QED BY <3>2, <3>3, <3>4
  <2>3. ASSUME pc = "released", NEW h \in made,
               Destroy(AclKind(params[h[1]])) \notin missing
        PROVE  destroyed[h] = 1
    <3>1. h \in Handles(params) /\ h[1] \in DOMAIN params /\ h[1] < next
      BY <2>1, <2>3, ParamFacts, HandlesFacts DEF TypeOK, ReleasedOK
    <3>2. {g \in made : g[1] = h[1]} = MadeBy(h[1])
      BY <2>1, <2>3, <3>1 DEF ConvertedOK
    <3>3. <<h[1], 0>> \in made
      BY <2>1, <3>1, <3>2, MadeByFacts DEF TypeOK
    <3>4. h \in DestroyedBy(h[1])
      BY <2>3, <3>3 DEF DestroyedBy
    <3> QED BY <2>1, <3>1, <3>4 DEF ReleasedOK
  <2> QED BY <2>1, <2>2, <2>3 DEF HandlesAccountedFor
<1> QED BY Invariance, <1>1, PTL

(* Where no ACL function is missing, ConvertTypes passes a handle for all  *)
(* that was given, but for an unsigned scalar.                             *)
THEOREM UsesCorrect == Spec => []UsesWhatWasGiven
<1>1. IInv => UsesWhatWasGiven
  <2> SUFFICES ASSUME IInv, pc = "used", missing = {}, NEW i \in DOMAIN params
               PROVE  /\ Passed(<<i, 0>>, params[i])
                      /\ \A j \in DOMAIN Items(params[i]) : Passed(<<i, j>>, Items(params[i])[j])
    BY DEF UsesWhatWasGiven
  <2> DEFINE p == params[i]
  <2>1. IsParameter(p) /\ ~Raises(p) /\ ~ItemRaises(p) /\ MadeBy(i) \subseteq made
    <3>1. TypeOK /\ ConvertedOK /\ i \in converted
      BY DEF IInv, ConvertedOK
    <3> QED BY <3>1, ParamFacts DEF TypeOK, ConvertedOK, RaisedBy
  <2>2. /\ DOMAIN Items(p) # {} => p.kind \in Lists /\ p.given
        /\ \A j \in DOMAIN Items(p) : IsItem(Items(p)[j])
    BY <2>1, ItemsFacts
  <2>3. \A q : Attempted(q) <=> q.kind # "Value" /\ q.given
    BY DEF Attempted
  <2>4. ASSUME NEW q, IsParameter(q) \/ IsItem(q), ~Raises(q), q.kind # "Value", q.given, ~Unsigned(q)
        PROVE  Converts(q)
    <3>1. q.kind = "Scalar" => q.type \in ScalarTypes
      BY <2>4 DEF IsParameter, IsItem, Lists
    <3> QED BY <2>3, <2>4, <3>1 DEF Converts, Unsigned, ScalarTypes, ScalarCases
  <2>5. Passed(<<i, 0>>, p)
    BY <2>1, <2>4 DEF Passed, MadeBy
  <2>6. ASSUME NEW j \in DOMAIN Items(p)
        PROVE  Passed(<<i, j>>, Items(p)[j])
    <3>1. Attempted(p)
      BY <2>2, <2>3 DEF Lists
    <3>2. RaisingItems(p) = {}
      BY <2>1, <3>1 DEF ItemRaises
    <3>3. ~Raises(Items(p)[j]) /\ IsItem(Items(p)[j])
      BY <2>2, <3>2 DEF RaisingItems
    <3>4. Converts(Items(p)[j]) => <<i, j>> \in ItemHandles(i)
      BY <3>1, <3>2 DEF ItemHandles
    <3> QED BY <2>1, <2>4, <3>3, <3>4 DEF Passed, MadeBy
  <2> QED BY <2>5, <2>6
<1> QED BY Invariance, <1>1, PTL
=============================================================================
