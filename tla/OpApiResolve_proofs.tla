------------------------ MODULE OpApiResolve_proofs ------------------------
(***************************************************************************)
(* Which library a call runs, for any number of threads and calls, any     *)
(* libraries, search path and environment, and whatever happens to them.   *)
(***************************************************************************)
EXTENDS OpApiResolve, FiniteSetTheorems, TLAPS

Changes == {"set", "cleared", "files"}

TypeOK ==
  /\ exports \in [Libraries -> SUBSET ApiNames]
  /\ files \in SUBSET Libraries
  /\ loadable \in SUBSET Libraries
  /\ env \in Libraries \cup {None}
  /\ opp \in Seq(ToSet(opp))
  /\ package \in {"new", "configured", "imported"}
  /\ selected \in Libraries \cup {None}
  /\ customLibPath \in Seq(ToSet(customLibPath))
  /\ explicitHandler \in Libraries \cup {None, Program, "unset"}
  /\ addr \in [ApiNames -> Libraries \cup {Cann, None, "unset"}]
  /\ holder \in [ApiNames -> Threads \cup {None}]
  /\ pc \in [Threads -> {"idle", "static", "explicit", "search", "check"}]
  /\ api \in [Threads -> DOMAIN Apis]
  /\ pos \in [Threads -> Nat \ {0}]
  /\ calls \in [Threads -> Nat]
  /\ ran \in SUBSET [ApiNames -> Libraries \cup {Cann, None, "unset"}]
  /\ disturbed \in SUBSET Changes

Untouched ==
  /\ explicitHandler = "unset" /\ ran = {}
  /\ \A a \in ApiNames : addr[a] = "unset"
  /\ \A t \in Threads : pc[t] = "idle"

(* Nothing is looked up before the import, and nothing counts as a change  *)
(* before the first choice.                                                *)
ImportOK ==
  /\ package # "imported" => Untouched
  /\ selected = None => package = "new" /\ disturbed = {}

(* What the environment says, unless somebody has changed it.              *)
ChoiceOK ==
  selected # None =>
    /\ "cleared" \notin disturbed => env # None
    /\ "set" \notin disturbed => env \in {selected, None}
    /\ "files" \notin disturbed => selected \in files
    /\ opp # <<>> /\ opp[1] = Home[selected]
    /\ package = "imported" => customLibPath = opp

(* A call checks what it has looked up; a lookup starts at the beginning.  *)
CallsOK ==
  \A t \in Threads :
    /\ pc[t] # "idle" => \A i \in 1 .. api[t] - 1 : addr[Apis[i]] # "unset"
    /\ pc[t] = "check" => \A a \in ApiNames : addr[a] # "unset"
    /\ pc[t] = "explicit" => pos[t] = 1

(* Nobody has got past the explicit library.                               *)
NothingFound ==
  /\ ran = {}
  /\ \A a \in ApiNames : addr[a] = "unset"
  /\ \A t \in Threads : pc[t] \notin {"search", "check"}

HandlerOK ==
  /\ "cleared" \notin disturbed =>
       /\ explicitHandler # Program
       /\ explicitHandler \in {None, "unset"} => NothingFound
  /\ "set" \notin disturbed =>
       /\ explicitHandler \in {selected, None, Program, "unset"}
       /\ explicitHandler = None /\ "files" \notin disturbed => selected \notin loadable

(* Undiverted, what the chosen library exports is taken from it, at the    *)
(* latest as the first of the search path.                                 *)
ReportedOK ==
  package = "imported" /\ Undiverted =>
    \A a \in exports[selected] :
      /\ addr[a] \in {selected, "unset"}
      /\ \A call \in ran : call[a] = selected
      /\ \A t \in Threads : pc[t] = "search" /\ Name(t) = a =>
           pos[t] = 1 /\ "cleared" \in disturbed

(* The search for any required function ends at the same library.          *)
Hit(i) ==
  LET l == Dlopen(SearchPath[i])
  IN  l \in Libraries /\ Required \subseteq exports[l]

Answer(l) ==
  IF explicitHandler \in Libraries /\ Required \subseteq exports[explicitHandler]
    THEN l = explicitHandler
    ELSE \/ \E i \in DOMAIN SearchPath : /\ Hit(i) /\ l = SearchPath[i]
                                         /\ \A j \in 1 .. i - 1 : ~Hit(j)
         \/ l \in {Cann, None} /\ \A i \in DOMAIN SearchPath : ~Hit(i)

Steady == PairedExports /\ disturbed \cap {"cleared", "files"} = {}

SameAnswerOK ==
  Steady =>
    /\ \A a \in Required : addr[a] # "unset" => Answer(addr[a])
    /\ \A t \in Threads : pc[t] = "search" /\ Name(t) \in Required =>
         /\ ~(explicitHandler \in Libraries /\ Required \subseteq exports[explicitHandler])
         /\ \A i \in 1 .. pos[t] - 1 : i \in DOMAIN SearchPath => ~Hit(i)
    /\ \A call \in ran : \A a, b \in Required : call[a] = call[b]

IInv ==
  TypeOK /\ ImportOK /\ ChoiceOK /\ CallsOK /\ HandlerOK /\ ReportedOK /\ SameAnswerOK

-----------------------------------------------------------------------------
(* Facts about the operators.                                              *)

LEMMA OwnSeq == ASSUME NEW S, NEW s \in Seq(S)
                PROVE  s \in Seq(ToSet(s))
BY DEF ToSet

LEMMA VendorComesFirst ==
  ASSUME NEW vendor, NEW S, NEW existing \in Seq(S)
  PROVE  /\ WithVendorFirst(vendor, existing) \in Seq(ToSet(WithVendorFirst(vendor, existing)))
         /\ WithVendorFirst(vendor, existing) # <<>>
         /\ WithVendorFirst(vendor, existing)[1] = vendor
<1> DEFINE entries == <<vendor>> \o existing
           firsts == {i \in DOMAIN entries : \A j \in 1 .. i - 1 : entries[j] # entries[i]}
           upTo(i) == firsts \cap (1 .. i)
           place(n) == CHOOSE i \in firsts : Cardinality(upTo(i)) = n
           n0 == Cardinality(firsts)
           w == [n \in 1 .. n0 |-> entries[place(n)]]
<1>1. /\ Len(existing) \in Nat /\ DOMAIN entries = 1 .. (Len(existing) + 1)
      /\ entries[1] = vendor
  OBVIOUS
<1>2. 1 \in firsts /\ firsts \in SUBSET (1 .. (Len(existing) + 1))
  BY <1>1
<1>3. /\ IsFiniteSet(firsts) /\ n0 \in Nat
      /\ \A i \in firsts : IsFiniteSet(upTo(i))
  <2>1. IsFiniteSet(1 .. (Len(existing) + 1))
    BY <1>1, FS_Interval
  <2>2. IsFiniteSet(firsts)
    BY <1>2, <2>1, FS_Subset
  <2>3. \A i \in firsts : upTo(i) \in SUBSET firsts
    OBVIOUS
  <2> HIDE DEF firsts, upTo
  <2> QED BY <2>2, <2>3, FS_Subset, FS_CardinalityType
<1>4. n0 # 0
  BY <1>2, <1>3, FS_EmptySet
<1>5. \A i \in firsts : Cardinality(upTo(i)) = 1 <=> i = 1
  <2> SUFFICES ASSUME NEW i \in firsts
               PROVE  Cardinality(upTo(i)) = 1 <=> i = 1
    OBVIOUS
  <2>1. i \in Nat /\ i >= 1 /\ {1, i} \subseteq upTo(i) /\ (i = 1 => upTo(i) = {1})
    BY <1>1, <1>2
  <2>2. IsFiniteSet(upTo(i))
    BY <1>3
  <2> HIDE DEF upTo, firsts
  <2>3. Cardinality(upTo(i)) = 1 <=> \E x : upTo(i) = {x}
    BY <2>2, FS_Singleton
  <2> QED BY <2>1, <2>3
<1>6. place(1) = 1
  <2> HIDE DEF upTo, firsts
  <2> QED BY <1>2, <1>5
<1>7. w = WithVendorFirst(vendor, existing)
  BY DEF WithVendorFirst
<1>8. w \in Seq(ToSet(w)) /\ w # <<>> /\ w[1] = vendor
  <2> HIDE DEF place, firsts, entries, n0
  <2>1. DOMAIN w = 1 .. n0 /\ 1 \in 1 .. n0 /\ n0 \in Nat
    BY <1>3, <1>4
  <2>2. w \in [1 .. n0 -> ToSet(w)]
    BY <2>1 DEF ToSet
  <2>3. w \in Seq(ToSet(w))
    BY <2>1, <2>2
  <2>4. w[1] = entries[1]
    BY <1>6, <2>1
  <2> QED BY <1>1, <2>1, <2>3, <2>4
<1> QED BY <1>7, <1>8

LEMMA NameFacts ==
  ASSUME TypeOK, NEW t \in Threads
  PROVE  /\ Name(t) \in ApiNames /\ api[t] \in Nat /\ api[t] >= 1 /\ api[t] <= Len(Apis)
         /\ Len(Apis) \in Nat /\ DOMAIN Apis = 1 .. Len(Apis)
         /\ ApiNames = {Apis[i] : i \in 1 .. Len(Apis)}
<1>1. Apis \in Seq(ApiNames) /\ api[t] \in DOMAIN Apis
  BY OpApiAssumption DEF TypeOK
<1>2. Len(Apis) \in Nat /\ DOMAIN Apis = 1 .. Len(Apis)
  BY <1>1
<1> QED BY <1>1, <1>2 DEF Name, ApiNames, ToSet

(* The next static, or the check after the last.                           *)
LEMMA AdvanceFacts ==
  ASSUME TypeOK, CallsOK, NEW t \in Threads, Advance(t), pc[t] # "idle",
         addr'[Name(t)] # "unset", \A a \in ApiNames : addr[a] # "unset" => addr'[a] # "unset"
  PROVE  /\ pc' = [pc EXCEPT ![t] = pc'[t]] /\ pc'[t] \in {"static", "check"}
         /\ api' \in [Threads -> DOMAIN Apis]
         /\ \A u \in Threads \ {t} : api'[u] = api[u] /\ pc'[u] = pc[u]
         /\ \A i \in 1 .. api'[t] - 1 : addr'[Apis[i]] # "unset"
         /\ pc'[t] = "check" => \A a \in ApiNames : addr'[a] # "unset"
<1>1. /\ Name(t) = Apis[api[t]] /\ api[t] \in Nat /\ api[t] >= 1 /\ api[t] <= Len(Apis)
      /\ Len(Apis) \in Nat /\ DOMAIN Apis = 1 .. Len(Apis)
      /\ ApiNames = {Apis[i] : i \in 1 .. Len(Apis)}
  BY NameFacts DEF Name
<1>2. \A i \in 1 .. api[t] : addr'[Apis[i]] # "unset"
  BY <1>1 DEF CallsOK
<1>3. CASE api[t] < Len(Apis)
  <2>1. api' = [api EXCEPT ![t] = api[t] + 1] /\ pc' = [pc EXCEPT ![t] = "static"]
    BY <1>3 DEF Advance
  <2> QED BY <1>1, <1>2, <1>3, <2>1 DEF TypeOK
<1>4. CASE ~(api[t] < Len(Apis))
  <2>1. api' = api /\ pc' = [pc EXCEPT ![t] = "check"] /\ api[t] = Len(Apis)
    BY <1>1, <1>4 DEF Advance
  <2> QED BY <1>1, <1>2, <2>1 DEF TypeOK
<1> QED BY <1>3, <1>4

LEMMA SameLibraries ==
  ASSUME UNCHANGED <<exports, files, loadable, customLibPath>>
  PROVE  /\ SearchPath' = SearchPath
         /\ \A i \in Nat : Hit(i)' <=> Hit(i)
         /\ UNCHANGED explicitHandler => \A l : Answer(l)' <=> Answer(l)
         /\ PairedExports' <=> PairedExports
BY DEF SearchPath, Dlopen, Hit, Answer, PairedExports

-----------------------------------------------------------------------------
(* The invariant: the import and the rest of the world.                    *)

(* IInv holds in a process that has not imported the package.              *)
THEOREM InitOK == Init => IInv
<1> SUFFICES ASSUME Init
             PROVE  IInv
  OBVIOUS
<1>1. DOMAIN Apis = 1 .. Len(Apis) /\ Len(Apis) \in Nat /\ 1 \in DOMAIN Apis
  BY OpApiAssumption
<1>2. opp \in Seq(ToSet(opp)) /\ customLibPath \in Seq(ToSet(customLibPath))
  BY OwnSeq, OpApiAssumption DEF Init
<1>3. TypeOK
  BY <1>1, <1>2, OpApiAssumption DEF Init, TypeOK, Changes
<1>4. ImportOK /\ ChoiceOK /\ CallsOK /\ HandlerOK /\ ReportedOK /\ SameAnswerOK
  BY OpApiAssumption DEF Init, ImportOK, Untouched, ChoiceOK, CallsOK, HandlerOK, NothingFound,
     ReportedOK, SameAnswerOK
<1> QED BY <1>3, <1>4 DEF IInv

(* While nothing has been looked up the rest holds by itself.              *)
LEMMA UntouchedKeeps ==
  ASSUME IInv, TypeOK', ImportOK', ChoiceOK', Untouched, package # "imported",
         UNCHANGED <<explicitHandler, addr, holder, thread, ran>>
  PROVE  IInv'
<1>1. Untouched'
  BY DEF Untouched, thread
<1>2. CallsOK' /\ HandlerOK' /\ SameAnswerOK'
  BY <1>1, OpApiAssumption DEF Untouched, CallsOK, HandlerOK, NothingFound, SameAnswerOK,
     TypeOK
<1>3. ReportedOK'
  <2>1. package' = "imported" => exports'[selected'] \subseteq ApiNames
    BY DEF ImportOK, TypeOK
  <2> QED BY <1>1, <2>1 DEF Untouched, ReportedOK
<1> QED BY <1>2, <1>3 DEF IInv

LEMMA ImportKeeps ==
  ASSUME IInv, Import
  PROVE  IInv'
<1>1. TypeOK /\ ImportOK /\ ChoiceOK /\ Untouched /\ package # "imported"
  BY DEF IInv, Import, Configure, TorchNpuFails, LoadExtension, ImportOK
<1>2. UNCHANGED <<explicitHandler, addr, holder, thread, ran>>
  BY DEF Import, Configure, TorchNpuFails, LoadExtension, world
<1>3. Untouched'
  BY <1>1, <1>2 DEF Untouched, thread
<1>4. CASE Configure
  <2>1. PICK l \in Candidates :
          selected' = l /\ env' = l /\ opp' = WithVendorFirst(Home[l], opp)
    BY <1>4 DEF Configure
  <2>2. /\ package' = "configured"
        /\ UNCHANGED <<exports, files, loadable, disturbed, customLibPath>>
    BY <1>4 DEF Configure
  <2>3. l \in files /\ l \in Libraries
    BY <1>1 DEF Candidates, TypeOK
  <2>4. opp' \in Seq(ToSet(opp')) /\ opp' # <<>> /\ opp'[1] = Home[l]
    BY <1>1, <2>1, VendorComesFirst DEF TypeOK
  <2>5. TypeOK'
    BY <1>1, <1>2, <2>1, <2>2, <2>3, <2>4 DEF TypeOK, thread
  <2>6. l # None
    BY <2>3, OpApiAssumption
  <2>7. ImportOK' /\ ChoiceOK'
    BY <1>3, <2>1, <2>2, <2>3, <2>4, <2>6 DEF ImportOK, ChoiceOK
  <2> QED BY <1>1, <1>2, <2>5, <2>7, UntouchedKeeps
<1>5. CASE TorchNpuFails \/ LoadExtension
  <2>1. /\ UNCHANGED <<exports, files, loadable, env, opp, disturbed, selected>>
        /\ package = "configured"
        /\ \/ package' = "new" /\ customLibPath' = customLibPath
           \/ package' = "imported" /\ customLibPath' = opp
    BY <1>5 DEF TorchNpuFails, LoadExtension, world
  <2>2. TypeOK'
    BY <1>1, <1>2, <2>1 DEF TypeOK, thread
  <2>3. ImportOK' /\ ChoiceOK'
    BY <1>1, <1>3, <2>1 DEF ImportOK, ChoiceOK
  <2> QED BY <1>1, <1>2, <2>2, <2>3, UntouchedKeeps
<1> QED BY <1>4, <1>5 DEF Import

LEMMA DisturbKeeps ==
  ASSUME IInv, Disturb
  PROVE  IInv'
<1>1. TypeOK /\ ImportOK /\ ChoiceOK /\ CallsOK /\ HandlerOK /\ ReportedOK /\ SameAnswerOK
  BY DEF IInv
<1>2. /\ UNCHANGED <<exports, loadable, opp, package, selected, customLibPath,
                     explicitHandler, addr, holder, pc, api, pos, calls, ran>>
      /\ UNCHANGED thread
      /\ env' \in Libraries \cup {None} /\ files' \in SUBSET Libraries
      /\ disturbed' \in SUBSET Changes
      /\ selected # None => disturbed \subseteq disturbed'
      /\ selected = None => disturbed' = {}
      /\ selected # None /\ "cleared" \notin disturbed' => env' # None \/ env' = env
      /\ selected # None /\ "set" \notin disturbed' => env' \in {selected, None} \/ env' = env
      /\ selected # None /\ "files" \notin disturbed' => files' = files
  <2>1. /\ UNCHANGED <<exports, loadable, opp, package, selected, customLibPath,
                       explicitHandler, addr, holder, pc, api, pos, calls, ran>>
        /\ UNCHANGED thread
    BY DEF Disturb, SetVariable, ClearVariable, ChangeFile, module, thread
  <2>2. \A change \in Changes :
          Note(change) => /\ disturbed' \in SUBSET Changes
                          /\ selected # None => disturbed' = disturbed \cup {change}
                          /\ selected = None => disturbed' = {}
    BY <1>1 DEF Note, TypeOK
  <2>3. ASSUME NEW l \in Libraries, SetVariable(l)
        PROVE  /\ env' = l /\ env' \in Libraries \cup {None} /\ files' = files
               /\ l # None
               /\ \/ disturbed' = disturbed /\ l = selected
                  \/ Note("set")
    BY <2>3, OpApiAssumption DEF SetVariable
  <2>4. ASSUME ClearVariable
        PROVE  env' = None /\ files' = files /\ Note("cleared")
    BY <2>4 DEF ClearVariable
  <2>5. ASSUME NEW l \in Libraries, ChangeFile(l)
        PROVE  env' = env /\ files' \in SUBSET Libraries /\ Note("files")
    BY <1>1, <2>5 DEF ChangeFile, TypeOK
  <2>6. CASE \E l \in Libraries : SetVariable(l)
    <3>1. PICK l \in Libraries : SetVariable(l)
      BY <2>6
    <3>2. CASE Note("set")
      <4>1. /\ disturbed' \in SUBSET Changes
            /\ selected # None => disturbed' = disturbed \cup {"set"}
            /\ selected = None => disturbed' = {}
        BY <2>2, <3>2 DEF Changes
      <4>2. env' = l /\ l # None /\ l \in Libraries /\ UNCHANGED files
        BY <2>3, <3>1
      <4>3. files' \in SUBSET Libraries
        BY <1>1, <4>2 DEF TypeOK
      <4> QED BY <2>1, <4>1, <4>2, <4>3
    <3>3. CASE disturbed' = disturbed /\ l = selected
      BY <1>1, <2>1, <2>3, <3>1, <3>3 DEF TypeOK
    <3> QED BY <2>3, <3>1, <3>2, <3>3
  <2>7. CASE ClearVariable
    BY <1>1, <2>1, <2>2, <2>4, <2>7 DEF TypeOK, Changes
  <2>8. CASE \E l \in Libraries : ChangeFile(l)
    BY <1>1, <2>1, <2>2, <2>5, <2>8 DEF TypeOK, Changes
  <2> QED BY <2>6, <2>7, <2>8 DEF Disturb
<1>3. TypeOK'
  BY <1>1, <1>2 DEF TypeOK
<1>4. ImportOK'
  BY <1>1, <1>2 DEF ImportOK, Untouched
<1>5. ChoiceOK'
  BY <1>1, <1>2 DEF ChoiceOK
<1>6. CASE package # "imported"
  BY <1>1, <1>2, <1>3, <1>4, <1>5, <1>6, UntouchedKeeps DEF ImportOK
<1>7. CASE package = "imported"
  <2>1. selected # None /\ disturbed \subseteq disturbed'
    BY <1>1, <1>2, <1>7 DEF ImportOK
  <2>2. CallsOK'
    BY <1>1, <1>2 DEF CallsOK
  <2>3. HandlerOK'
    BY <1>1, <1>2, <2>1 DEF HandlerOK, NothingFound
  <2>4. ReportedOK'
    <3>1. Undiverted' => Undiverted
      BY <1>2, <2>1 DEF Undiverted
    <3> QED BY <1>1, <1>2, <2>1, <3>1 DEF ReportedOK, Name
  <2>5. SameAnswerOK'
    <3> SUFFICES ASSUME Steady'
                 PROVE  SameAnswerOK'
      BY DEF SameAnswerOK
    <3>1. UNCHANGED files
      BY <1>2, <2>1 DEF Steady
    <3>2. Steady
      BY <1>2, <2>1, <3>1, SameLibraries DEF Steady
    <3>3. \A t \in Threads : pos[t] \in Nat
      BY <1>1 DEF TypeOK
    <3> QED BY <1>1, <1>2, <3>1, <3>2, <3>3, SameLibraries DEF SameAnswerOK, Name
  <2> QED BY <1>3, <1>4, <1>5, <2>2, <2>3, <2>4, <2>5 DEF IInv
<1> QED BY <1>6, <1>7

-----------------------------------------------------------------------------
(* The invariant: the calls.                                               *)

(* A thread inside a call: the package is there, and the rest stays.       *)
LEMMA InsideCall ==
  ASSUME IInv, NEW t \in Threads, pc[t] # "idle" \/ package = "imported",
         UNCHANGED <<world, module>>
  PROVE  /\ package = "imported" /\ selected # None /\ selected \in Libraries
         /\ UNCHANGED <<exports, files, loadable, env, opp, disturbed, package, selected,
                        customLibPath>>
         /\ ImportOK' /\ ChoiceOK' /\ (Undiverted' <=> Undiverted) /\ (Steady' <=> Steady)
<1>1. TypeOK /\ ImportOK /\ ChoiceOK
  BY DEF IInv
<1>2. package = "imported" /\ selected # None
  BY <1>1 DEF ImportOK, Untouched
<1>3. UNCHANGED <<exports, files, loadable, env, opp, disturbed, package, selected,
                  customLibPath>>
  BY DEF world, module
<1>4. ImportOK' /\ ChoiceOK'
  BY <1>1, <1>2, <1>3 DEF ImportOK, ChoiceOK
<1>5. (Undiverted' <=> Undiverted) /\ (Steady' <=> Steady)
  BY <1>3 DEF Undiverted, Steady, PairedExports
<1> QED BY <1>1, <1>2, <1>3, <1>4, <1>5 DEF TypeOK

(* Steps of a thread that find no address; it may go on to search.         *)
LEMMA ThreadStep ==
  ASSUME IInv, NEW t \in Threads, pc[t] # "idle" \/ package = "imported",
         UNCHANGED <<world, module, addr, explicitHandler>>, TypeOK', CallsOK',
         \A u \in Threads \ {t} : pc'[u] = pc[u] /\ api'[u] = api[u] /\ pos'[u] = pos[u],
         pc'[t] \in {"search", "check"} => ~NothingFound \/ "cleared" \in disturbed
           \/ explicitHandler \notin {None, "unset"},
         pc'[t] = "search" =>
           /\ Undiverted /\ Name(t)' \in exports[selected] =>
                pos'[t] = 1 /\ "cleared" \in disturbed
           /\ Steady /\ Name(t)' \in Required =>
                /\ ~(explicitHandler \in Libraries /\ Required \subseteq exports[explicitHandler])
                /\ \A i \in 1 .. pos'[t] - 1 : i \in DOMAIN SearchPath => ~Hit(i),
         \A call \in ran' \ ran :
           /\ ~NothingFound
           /\ Undiverted => \A a \in exports[selected] : call[a] = selected
           /\ Steady => \A a, b \in Required : call[a] = call[b]
  PROVE  IInv'
<1>1. /\ TypeOK /\ ImportOK /\ CallsOK /\ HandlerOK /\ ReportedOK /\ SameAnswerOK
      /\ package = "imported" /\ selected # None
      /\ UNCHANGED <<exports, files, loadable, disturbed, package, selected, customLibPath>>
      /\ ImportOK' /\ ChoiceOK' /\ (Undiverted' <=> Undiverted) /\ (Steady' <=> Steady)
  BY InsideCall DEF IInv
<1>2. \A u \in Threads \ {t} : Name(u)' = Name(u)
  BY DEF Name
<1>3. HandlerOK'
  BY <1>1 DEF HandlerOK, NothingFound
<1>4. ReportedOK'
  BY <1>1, <1>2 DEF ReportedOK
<1>5. SameAnswerOK'
  <2> SUFFICES ASSUME Steady
               PROVE  /\ \A a \in Required : addr[a] # "unset" => Answer(addr[a])'
                      /\ \A u \in Threads : pc'[u] = "search" /\ Name(u)' \in Required =>
                           /\ ~(/\ explicitHandler \in Libraries
                                /\ Required \subseteq exports[explicitHandler])
                           /\ \A i \in 1 .. pos'[u] - 1 : i \in DOMAIN SearchPath => ~Hit(i)'
                      /\ \A call \in ran' : \A a, b \in Required : call[a] = call[b]
    BY <1>1, SameLibraries DEF SameAnswerOK
  <2>1. \A a \in Required : addr[a] # "unset" => Answer(addr[a])'
    BY <1>1, SameLibraries DEF SameAnswerOK
  <2>2. ASSUME NEW u \in Threads, pc'[u] = "search", Name(u)' \in Required
        PROVE  /\ ~(/\ explicitHandler \in Libraries
                    /\ Required \subseteq exports[explicitHandler])
               /\ \A i \in 1 .. pos'[u] - 1 : i \in DOMAIN SearchPath => ~Hit(i)
    BY <1>1, <1>2, <2>2 DEF SameAnswerOK
  <2>3. \A u \in Threads : pos'[u] \in Nat
    BY DEF TypeOK
  <2>4. \A i \in Nat : Hit(i)' <=> Hit(i)
    BY <1>1, SameLibraries
  <2>5. \A call \in ran' : \A a, b \in Required : call[a] = call[b]
    BY <1>1 DEF SameAnswerOK
  <2> QED BY <2>1, <2>2, <2>3, <2>4, <2>5
<1> QED BY <1>1, <1>3, <1>4, <1>5 DEF IInv

LEMMA BeginCallKeeps ==
  ASSUME IInv, NEW t \in Threads, BeginCall(t)
  PROVE  IInv'
<1>1. TypeOK /\ CallsOK
  BY DEF IInv
<1>2. /\ package = "imported" /\ UNCHANGED <<world, module, addr, explicitHandler>>
      /\ UNCHANGED <<exports, files, loadable, env, opp, disturbed, package, selected,
                     customLibPath, holder, pos, ran>>
      /\ pc' = [pc EXCEPT ![t] = "static"] /\ api' = [api EXCEPT ![t] = 1]
      /\ calls' = [calls EXCEPT ![t] = calls[t] + 1]
  BY DEF BeginCall, world, module
<1>3. 1 \in DOMAIN Apis
  BY OpApiAssumption
<1>4. calls' \in [Threads -> Nat]
  BY <1>1, <1>2 DEF TypeOK
<1>5. TypeOK'
  BY <1>1, <1>2, <1>3, <1>4 DEF TypeOK
<1>6. CallsOK'
  BY <1>1, <1>2 DEF TypeOK, CallsOK
<1>7. /\ pc'[t] = "static"
      /\ \A u \in Threads \ {t} : pc'[u] = pc[u] /\ api'[u] = api[u] /\ pos'[u] = pos[u]
  BY <1>1, <1>2 DEF TypeOK
<1> QED BY <1>2, <1>5, <1>6, <1>7, ThreadStep

LEMMA StaticKnownKeeps ==
  ASSUME IInv, NEW t \in Threads, StaticKnown(t)
  PROVE  IInv'
<1>1. TypeOK /\ CallsOK
  BY DEF IInv
<1>2. /\ UNCHANGED <<world, module, addr, explicitHandler>>
      /\ UNCHANGED <<exports, files, loadable, env, opp, disturbed, package, selected,
                     customLibPath, holder, pos, calls, ran>>
      /\ pc[t] = "static" /\ addr[Name(t)] # "unset" /\ Advance(t)
  BY DEF StaticKnown, world, module
<1>3. /\ pc' = [pc EXCEPT ![t] = pc'[t]] /\ pc'[t] \in {"static", "check"}
      /\ api' \in [Threads -> DOMAIN Apis]
      /\ \A u \in Threads \ {t} : api'[u] = api[u] /\ pc'[u] = pc[u]
      /\ \A i \in 1 .. api'[t] - 1 : addr'[Apis[i]] # "unset"
      /\ pc'[t] = "check" => \A a \in ApiNames : addr'[a] # "unset"
  BY <1>1, <1>2, AdvanceFacts
<1>4. TypeOK'
  BY <1>1, <1>2, <1>3 DEF TypeOK
<1>5. CallsOK'
  BY <1>1, <1>2, <1>3 DEF CallsOK
<1>6. ~NothingFound
  BY <1>1, <1>2, NameFacts DEF NothingFound
<1> QED BY <1>2, <1>3, <1>4, <1>5, <1>6, ThreadStep

LEMMA EnterStaticKeeps ==
  ASSUME IInv, NEW t \in Threads, EnterStatic(t)
  PROVE  IInv'
<1>1. TypeOK /\ CallsOK /\ ChoiceOK
  BY DEF IInv
<1>2. /\ UNCHANGED <<world, module, addr, explicitHandler>>
      /\ UNCHANGED <<exports, files, loadable, env, opp, disturbed, package, selected,
                     customLibPath, api, calls, ran>>
      /\ pc[t] = "static" /\ holder' = [holder EXCEPT ![Name(t)] = t]
      /\ pc' = [pc EXCEPT ![t] = IF env = None THEN "search" ELSE "explicit"]
      /\ pos' = [pos EXCEPT ![t] = 1]
  BY DEF EnterStatic, world, module
<1>3. TypeOK'
  <2>1. pos' \in [Threads -> Nat \ {0}] /\ holder' \in [ApiNames -> Threads \cup {None}]
    BY <1>1, <1>2, NameFacts DEF TypeOK
  <2> QED BY <1>1, <1>2, <2>1 DEF TypeOK
<1>4. CallsOK'
  BY <1>1, <1>2 DEF TypeOK, CallsOK
<1>5. /\ pc'[t] = IF env = None THEN "search" ELSE "explicit"
      /\ \A u \in Threads \ {t} : pc'[u] = pc[u] /\ api'[u] = api[u] /\ pos'[u] = pos[u]
      /\ pos'[t] = 1
  BY <1>1, <1>2 DEF TypeOK
<1>6. pc'[t] = "search" => "cleared" \in disturbed
  BY <1>1, <1>2, <1>5, InsideCall DEF ChoiceOK
<1>7. pc'[t] = "search" => ~Steady
  BY <1>6 DEF Steady
<1> QED BY <1>2, <1>3, <1>4, <1>5, <1>6, <1>7, ThreadStep

LEMMA ExplicitMissingKeeps ==
  ASSUME IInv, NEW t \in Threads, ExplicitMissing(t)
  PROVE  IInv'
<1>1. TypeOK /\ CallsOK
  BY DEF IInv
<1>2. /\ UNCHANGED <<world, module, addr, explicitHandler>>
      /\ UNCHANGED <<exports, files, loadable, env, opp, disturbed, package, selected,
                     customLibPath, api, pos, calls, ran>>
      /\ pc[t] = "explicit" /\ holder' = [holder EXCEPT ![Name(t)] = None]
      /\ pc' = [pc EXCEPT ![t] = "idle"]
  BY DEF ExplicitMissing, world, module
<1>3. TypeOK'
  BY <1>1, <1>2 DEF TypeOK
<1>4. CallsOK'
  BY <1>1, <1>2 DEF TypeOK, CallsOK
<1>5. /\ pc'[t] = "idle"
      /\ \A u \in Threads \ {t} : pc'[u] = pc[u] /\ api'[u] = api[u] /\ pos'[u] = pos[u]
  BY <1>1, <1>2 DEF TypeOK
<1> QED BY <1>2, <1>3, <1>4, <1>5, ThreadStep

LEMMA NotInExplicitKeeps ==
  ASSUME IInv, NEW t \in Threads, NotInExplicit(t)
  PROVE  IInv'
<1>1. TypeOK /\ CallsOK /\ HandlerOK
  BY DEF IInv
<1>2. /\ UNCHANGED <<world, module, addr, explicitHandler>>
      /\ UNCHANGED <<exports, files, loadable, env, opp, disturbed, package, selected,
                     customLibPath, api, pos, calls, ran, holder>>
      /\ pc[t] = "explicit" /\ explicitHandler \in Libraries \cup {Program}
      /\ Name(t) \notin Exported(explicitHandler)
      /\ pc' = [pc EXCEPT ![t] = "search"]
  BY DEF NotInExplicit, world, module
<1>3. TypeOK'
  BY <1>1, <1>2 DEF TypeOK
<1>4. CallsOK'
  BY <1>1, <1>2 DEF TypeOK, CallsOK
<1>5. /\ pc'[t] = "search" /\ pos'[t] = 1 /\ Name(t)' = Name(t)
      /\ \A u \in Threads \ {t} : pc'[u] = pc[u] /\ api'[u] = api[u] /\ pos'[u] = pos[u]
  BY <1>1, <1>2 DEF TypeOK, CallsOK, Name
<1>6. explicitHandler \notin {None, "unset"}
  BY <1>2, OpApiAssumption
<1>7. Undiverted /\ Name(t) \in exports[selected] => "cleared" \in disturbed
  <2>1. explicitHandler \in Libraries => explicitHandler # Program
    BY OpApiAssumption
  <2> QED BY <1>1, <1>2, <1>6, <2>1, InsideCall DEF Undiverted, HandlerOK, Exported
<1>8. Steady /\ Name(t) \in Required =>
        ~(explicitHandler \in Libraries /\ Required \subseteq exports[explicitHandler])
  BY <1>2 DEF Exported
<1> QED BY <1>2, <1>3, <1>4, <1>5, <1>6, <1>7, <1>8, ThreadStep

LEMMA CheckKeeps ==
  ASSUME IInv, NEW t \in Threads, Check(t)
  PROVE  IInv'
<1>1. TypeOK /\ CallsOK /\ ReportedOK /\ SameAnswerOK
  BY DEF IInv
<1>2. /\ UNCHANGED <<world, module, addr, explicitHandler>>
      /\ UNCHANGED <<exports, files, loadable, env, opp, disturbed, package, selected,
                     customLibPath, api, pos, calls, holder>>
      /\ pc[t] = "check" /\ pc' = [pc EXCEPT ![t] = "idle"]
      /\ ran' = ran \/ (ran' = ran \cup {addr} /\ \A a \in Required : addr[a] # None)
  BY DEF Check, world, module
<1>3. TypeOK'
  BY <1>1, <1>2 DEF TypeOK
<1>4. CallsOK'
  BY <1>1, <1>2 DEF TypeOK, CallsOK
<1>5. /\ pc'[t] = "idle" /\ ~NothingFound
      /\ \A u \in Threads \ {t} : pc'[u] = pc[u] /\ api'[u] = api[u] /\ pos'[u] = pos[u]
      /\ \A a \in ApiNames : addr[a] # "unset"
  BY <1>1, <1>2 DEF TypeOK, CallsOK, NothingFound
<1>6. package = "imported" /\ selected \in Libraries
  BY <1>2, InsideCall
<1>7. Undiverted => \A a \in exports[selected] : addr[a] = selected
  BY <1>1, <1>5, <1>6 DEF ReportedOK, TypeOK
<1>8. ASSUME Steady, \A a \in Required : addr[a] # None
      PROVE  \A a, b \in Required : addr[a] = addr[b]
  <2> SUFFICES ASSUME NEW a \in Required, NEW b \in Required
               PROVE  addr[a] = addr[b]
    OBVIOUS
  <2>1. Answer(addr[a]) /\ Answer(addr[b]) /\ addr[a] # None /\ addr[b] # None
    BY <1>1, <1>5, <1>8, OpApiAssumption DEF SameAnswerOK
  <2>2. \A i, j \in DOMAIN SearchPath :
          /\ Hit(i) /\ \A k \in 1 .. i - 1 : ~Hit(k)
          /\ Hit(j) /\ \A k \in 1 .. j - 1 : ~Hit(k)
          => i = j
    <3>1. DOMAIN SearchPath \subseteq Nat \ {0}
      <4>1. customLibPath \in Seq(ToSet(customLibPath)) /\ DefaultVendors \in Seq(Vendors)
        BY <1>1, OpApiAssumption DEF TypeOK
      <4> QED BY <4>1 DEF SearchPath
    <3> QED BY <3>1
  <2> QED BY <2>1, <2>2 DEF Answer
<1> QED BY <1>2, <1>3, <1>4, <1>5, <1>7, <1>8, ThreadStep

LEMMA LoadExplicitKeeps ==
  ASSUME IInv, NEW t \in Threads, LoadExplicit(t)
  PROVE  IInv'
<1>1. TypeOK /\ CallsOK /\ ChoiceOK /\ HandlerOK /\ ReportedOK /\ SameAnswerOK
  BY DEF IInv
<1>2. /\ UNCHANGED <<world, module>>
      /\ UNCHANGED <<exports, files, loadable, env, opp, disturbed, package, selected,
                     customLibPath, pc, api, pos, calls, addr, holder, ran>>
      /\ pc[t] = "explicit" /\ explicitHandler = "unset"
      /\ explicitHandler' = IF env = None THEN Program ELSE Dlopen(env)
  BY DEF LoadExplicit, world, module, thread
<1>3. package = "imported" /\ selected # None /\ selected \in Libraries /\ ImportOK' /\ ChoiceOK'
  BY <1>2, InsideCall
<1>4. /\ env # None => explicitHandler' \in {env, None}
      /\ env # None => env \in Libraries
      /\ env # None /\ env \in files \cap loadable => explicitHandler' = env
      /\ env = None => explicitHandler' = Program
  BY <1>1, <1>2 DEF Dlopen, TypeOK
<1>5. TypeOK'
  <2>1. explicitHandler' \in Libraries \cup {None, Program, "unset"}
    BY <1>4
  <2> QED BY <1>1, <1>2, <2>1 DEF TypeOK
<1>6. CallsOK' /\ ReportedOK'
  BY <1>1, <1>2 DEF CallsOK, ReportedOK, Name, Undiverted
<1>7. "cleared" \notin disturbed => NothingFound /\ NothingFound' /\ env # None
  BY <1>1, <1>2, <1>3 DEF HandlerOK, NothingFound, ChoiceOK
<1>8. HandlerOK'
  <2>1. "cleared" \notin disturbed => explicitHandler' # Program
    BY <1>4, <1>7, OpApiAssumption
  <2>2. "set" \notin disturbed => env \in {selected, None}
    BY <1>1, <1>3 DEF ChoiceOK
  <2>3. "files" \notin disturbed => selected \in files
    BY <1>1, <1>3 DEF ChoiceOK
  <2>4. "set" \notin disturbed =>
          /\ explicitHandler' \in {selected, None, Program, "unset"}
          /\ explicitHandler' = None /\ "files" \notin disturbed => selected \notin loadable
    BY <1>3, <1>4, <2>2, <2>3, OpApiAssumption
  <2> QED BY <1>2, <1>7, <2>1, <2>4 DEF HandlerOK
<1>9. SameAnswerOK'
  <2>1. Steady' => NothingFound'
    BY <1>2, <1>7 DEF Steady
  <2> QED BY <2>1, OpApiAssumption DEF SameAnswerOK, NothingFound
<1> QED BY <1>3, <1>5, <1>6, <1>8, <1>9 DEF IInv

(* A lookup's result goes to the static, and the thread goes on.           *)
LEMMA ResolveKeeps ==
  ASSUME IInv, NEW t \in Threads, pc[t] \in {"explicit", "search"},
         NEW l \in Libraries \cup {Cann, None}, Resolve(t, l), UNCHANGED ran,
         "cleared" \notin disturbed => explicitHandler \notin {None, "unset"},
         Undiverted /\ Name(t) \in exports[selected] => l = selected,
         Steady /\ Name(t) \in Required => Answer(l)
  PROVE  IInv'
<1>1. TypeOK /\ CallsOK /\ HandlerOK /\ ReportedOK /\ SameAnswerOK
  BY DEF IInv
<1>2. /\ UNCHANGED <<world, module>>
      /\ UNCHANGED <<exports, files, loadable, env, opp, disturbed, package, selected,
                     customLibPath, explicitHandler, pos, calls, ran>>
      /\ addr' = [addr EXCEPT ![Name(t)] = l] /\ holder' = [holder EXCEPT ![Name(t)] = None]
      /\ Advance(t) /\ pc[t] # "idle"
  BY DEF Resolve, world, module
<1>3. /\ package = "imported" /\ ImportOK' /\ ChoiceOK' /\ (Undiverted' <=> Undiverted)
      /\ (Steady' <=> Steady)
  BY <1>2, InsideCall
<1>4. /\ Name(t) \in ApiNames /\ l # "unset"
      /\ \A a \in ApiNames : addr'[a] = IF a = Name(t) THEN l ELSE addr[a]
  BY <1>1, <1>2, NameFacts, OpApiAssumption DEF TypeOK
<1>5. /\ pc' = [pc EXCEPT ![t] = pc'[t]] /\ pc'[t] \in {"static", "check"}
      /\ api' \in [Threads -> DOMAIN Apis]
      /\ \A u \in Threads \ {t} : api'[u] = api[u] /\ pc'[u] = pc[u]
      /\ \A i \in 1 .. api'[t] - 1 : addr'[Apis[i]] # "unset"
      /\ pc'[t] = "check" => \A a \in ApiNames : addr'[a] # "unset"
  BY <1>1, <1>2, <1>4, AdvanceFacts
<1>6. \A u \in Threads \ {t} : Name(u)' = Name(u) /\ (pc'[u] = pc[u])
  BY <1>5 DEF Name
<1>7. TypeOK'
  <2>1. addr' \in [ApiNames -> Libraries \cup {Cann, None, "unset"}]
    BY <1>1, <1>2 DEF TypeOK
  <2>2. holder' \in [ApiNames -> Threads \cup {None}]
    BY <1>1, <1>2 DEF TypeOK
  <2>3. pc' \in [Threads -> {"idle", "static", "explicit", "search", "check"}]
    BY <1>1, <1>5 DEF TypeOK
  <2> QED BY <1>1, <1>2, <1>5, <2>1, <2>2, <2>3 DEF TypeOK
<1>8. CallsOK'
  <2>1. \A i \in DOMAIN Apis : addr[Apis[i]] # "unset" => addr'[Apis[i]] # "unset"
    BY <1>1, <1>4, NameFacts
  <2>2. \A u \in Threads : /\ api[u] \in Nat /\ api[u] <= Len(Apis) /\ Len(Apis) \in Nat
                            /\ DOMAIN Apis = 1 .. Len(Apis)
    BY <1>1, NameFacts
  <2>3. ASSUME NEW u \in Threads \ {t}
        PROVE  /\ pc'[u] # "idle" => \A i \in 1 .. api'[u] - 1 : addr'[Apis[i]] # "unset"
               /\ pc'[u] = "check" => \A a \in ApiNames : addr'[a] # "unset"
               /\ pc'[u] = "explicit" => pos'[u] = 1
    BY <1>1, <1>2, <1>4, <1>5, <2>1, <2>2 DEF CallsOK
  <2> QED BY <1>5, <2>3 DEF CallsOK
<1>9. HandlerOK'
  BY <1>1, <1>2 DEF HandlerOK
<1>10. ReportedOK'
  <2>1. ASSUME Undiverted, NEW a \in exports[selected]
        PROVE  /\ addr'[a] \in {selected, "unset"}
               /\ \A call \in ran' : call[a] = selected
               /\ \A u \in Threads : pc'[u] = "search" /\ Name(u)' = a =>
                    pos'[u] = 1 /\ "cleared" \in disturbed
    <3>1. a \in ApiNames
      BY <1>1, <1>2, InsideCall DEF TypeOK
    <3> QED BY <1>1, <1>2, <1>3, <1>4, <1>5, <1>6, <2>1, <3>1 DEF ReportedOK
  <2> QED BY <1>2, <1>3, <2>1 DEF ReportedOK
<1>11. SameAnswerOK'
  <2> SUFFICES ASSUME Steady
               PROVE  SameAnswerOK'
    BY <1>3 DEF SameAnswerOK
  <2>1. /\ SearchPath' = SearchPath /\ \A i \in Nat : Hit(i)' <=> Hit(i)
        /\ \A m : Answer(m)' <=> Answer(m)
    BY <1>2, SameLibraries
  <2>2. \A a \in Required : addr'[a] # "unset" => Answer(addr'[a])
    BY <1>1, <1>4, OpApiAssumption DEF SameAnswerOK
  <2>3. \A u \in Threads : pos[u] \in Nat
    BY <1>1 DEF TypeOK
  <2>4. \A u \in Threads : pc'[u] = "search" /\ Name(u)' \in Required =>
          /\ ~(explicitHandler \in Libraries /\ Required \subseteq exports[explicitHandler])
          /\ \A i \in 1 .. pos[u] - 1 : i \in DOMAIN SearchPath => ~Hit(i)
    BY <1>1, <1>5, <1>6 DEF SameAnswerOK
  <2>5. \A call \in ran : \A a, b \in Required : call[a] = call[b]
    BY <1>1 DEF SameAnswerOK
  <2>6. \A a \in Required : (addr[a] # "unset" => Answer(addr[a]))'
    BY <2>1, <2>2
  <2> QED BY <1>2, <2>1, <2>3, <2>4, <2>5, <2>6 DEF SameAnswerOK
<1> QED BY <1>3, <1>7, <1>8, <1>9, <1>10, <1>11 DEF IInv

LEMMA FoundInExplicitKeeps ==
  ASSUME IInv, NEW t \in Threads, FoundInExplicit(t)
  PROVE  IInv'
<1>1. /\ pc[t] = "explicit" /\ explicitHandler \in Libraries /\ UNCHANGED ran
      /\ Name(t) \in exports[explicitHandler] /\ Resolve(t, explicitHandler)
  BY DEF FoundInExplicit, Exported, Resolve
<1>2. explicitHandler \notin {None, "unset", Program}
  BY <1>1, OpApiAssumption
<1>3. Undiverted => explicitHandler = selected
  BY <1>2 DEF IInv, HandlerOK, Undiverted
<1>4. Steady /\ Name(t) \in Required => Answer(explicitHandler)
  BY <1>1 DEF Steady, PairedExports, Answer
<1> QED BY <1>1, <1>2, <1>3, <1>4, ResolveKeeps

(* The search looks at one library after the other.                        *)
LEMMA PathFacts ==
  ASSUME IInv
  PROVE  /\ Len(SearchPath) \in Nat /\ DOMAIN SearchPath = 1 .. Len(SearchPath)
         /\ package = "imported" =>
              1 \in DOMAIN SearchPath /\ SearchPath[1] = Home[selected]
<1>1. customLibPath \in Seq(ToSet(customLibPath)) /\ DefaultVendors \in Seq(Vendors)
  BY OpApiAssumption DEF IInv, TypeOK
<1>2. Len(SearchPath) \in Nat /\ DOMAIN SearchPath = 1 .. Len(SearchPath)
  BY <1>1 DEF SearchPath
<1>3. package = "imported" => customLibPath # <<>> /\ customLibPath[1] = Home[selected]
  BY DEF IInv, ImportOK, ChoiceOK
<1>4. customLibPath # <<>> =>
        1 \in DOMAIN SearchPath /\ SearchPath[1] = customLibPath[1]
  BY <1>1 DEF SearchPath
<1> QED BY <1>2, <1>3, <1>4

(* While the search is on the chosen library is the first it meets, and    *)
(* has a directory of its own.                                             *)
LEMMA SelectedComesFirst ==
  ASSUME IInv, NEW t \in Threads, pc[t] = "search", Undiverted,
         Name(t) \in exports[selected]
  PROVE  /\ pos[t] = 1 /\ 1 \in DOMAIN SearchPath /\ SearchPath[1] = selected
         /\ Dlopen(SearchPath[1]) = selected /\ selected \in Libraries
<1>1. package = "imported" /\ selected # None /\ selected \in Libraries
  BY DEF IInv, TypeOK, ImportOK, Untouched
<1>2. pos[t] = 1 /\ "cleared" \in disturbed
  BY <1>1 DEF IInv, ReportedOK
<1>3. selected \in Vendors /\ selected \in loadable /\ selected \in files
  BY <1>1, <1>2 DEF Undiverted, IInv, ChoiceOK
<1>4. Home[selected] = selected
  BY <1>3, OpApiAssumption
<1> QED BY <1>1, <1>2, <1>3, <1>4, PathFacts DEF Dlopen

LEMMA SearchVendorKeeps ==
  ASSUME IInv, NEW t \in Threads, SearchVendor(t)
  PROVE  IInv'
<1> DEFINE l == Dlopen(SearchPath[pos[t]])
<1>1. TypeOK /\ CallsOK /\ HandlerOK /\ SameAnswerOK
  BY DEF IInv
<1>2. /\ pc[t] = "search" /\ pos[t] \in DOMAIN SearchPath /\ pos[t] \in Nat \ {0}
      /\ l \in Libraries \cup {None}
  BY <1>1, PathFacts DEF SearchVendor, TypeOK, Dlopen
<1>3. "cleared" \notin disturbed => explicitHandler \notin {None, "unset"}
  BY <1>1, <1>2 DEF HandlerOK, NothingFound
<1>4. Undiverted /\ Name(t) \in exports[selected] =>
        l = selected /\ selected \in Libraries
  BY <1>2, SelectedComesFirst
<1>5. Steady /\ Name(t) \in Required =>
        /\ ~(explicitHandler \in Libraries /\ Required \subseteq exports[explicitHandler])
        /\ \A i \in 1 .. pos[t] - 1 : i \in DOMAIN SearchPath => ~Hit(i)
  BY <1>1, <1>2 DEF SameAnswerOK
<1>6. CASE l # None /\ Name(t) \in Exported(l)
  <2>1. Resolve(t, l) /\ UNCHANGED ran /\ l \in Libraries /\ Name(t) \in exports[l]
    BY <1>2, <1>6 DEF SearchVendor, Resolve, Exported
  <2>2. Steady /\ Name(t) \in Required => Hit(pos[t])
    BY <2>1 DEF Steady, PairedExports, Hit
  <2>3. l = SearchPath[pos[t]]
    BY <2>1, OpApiAssumption DEF Dlopen
  <2>4. \A i \in 1 .. pos[t] - 1 : i \in DOMAIN SearchPath
    BY <1>2, PathFacts
  <2>5. Steady /\ Name(t) \in Required => Answer(l)
    <3> HIDE DEF l
    <3> QED BY <1>2, <1>5, <2>2, <2>3, <2>4 DEF Answer
  <2> HIDE DEF l
  <2> QED BY <1>2, <1>3, <1>4, <2>1, <2>5, ResolveKeeps
<1>7. CASE ~(l # None /\ Name(t) \in Exported(l))
  <2>1. /\ UNCHANGED <<world, module, addr, explicitHandler>>
        /\ UNCHANGED <<exports, files, loadable, env, opp, disturbed, package, selected,
                       customLibPath, holder, pc, api, calls, ran>>
        /\ pos' = [pos EXCEPT ![t] = pos[t] + 1]
    BY <1>7 DEF SearchVendor, world, module
  <2>2. pos[t] + 1 \in Nat \ {0}
    BY <1>2
  <2>3. TypeOK'
    BY <1>1, <2>1, <2>2 DEF TypeOK
  <2>4. CallsOK'
    BY <1>1, <1>2, <2>1 DEF TypeOK, CallsOK
  <2>5. /\ pos'[t] = pos[t] + 1 /\ Name(t)' = Name(t)
        /\ \A u \in Threads \ {t} : pc'[u] = pc[u] /\ api'[u] = api[u] /\ pos'[u] = pos[u]
    BY <1>1, <2>1 DEF TypeOK, Name
  <2>6. ~(Undiverted /\ Name(t) \in exports[selected])
    BY <1>4, <1>7, OpApiAssumption DEF Exported
  <2>7. Steady /\ Name(t) \in Required => ~Hit(pos[t])
    BY <1>7, OpApiAssumption DEF Hit, Exported
  <2>8. Steady /\ Name(t) \in Required =>
          \A i \in 1 .. pos'[t] - 1 : i \in DOMAIN SearchPath => ~Hit(i)
    <3>1. \A i \in 1 .. pos'[t] - 1 : i \in 1 .. pos[t] - 1 \/ i = pos[t]
      BY <1>2, <2>5
    <3> QED BY <1>5, <2>7, <3>1
  <2>9. "cleared" \in disturbed \/ explicitHandler \notin {None, "unset"}
    BY <1>3
  <2> QED BY <1>2, <1>5, <2>1, <2>3, <2>4, <2>5, <2>6, <2>8, <2>9, ThreadStep
<1> QED BY <1>6, <1>7

LEMMA SearchCannKeeps ==
  ASSUME IInv, NEW t \in Threads, SearchCann(t)
  PROVE  IInv'
<1> DEFINE l == IF FoundInCann(Name(t)) THEN Cann ELSE None
<1>1. TypeOK /\ HandlerOK /\ SameAnswerOK
  BY DEF IInv
<1>2. /\ pc[t] = "search" /\ pos[t] > Len(SearchPath) /\ pos[t] \in Nat /\ l \in {Cann, None}
      /\ Resolve(t, l) /\ UNCHANGED ran
  BY <1>1 DEF SearchCann, TypeOK, Resolve
<1>3. "cleared" \notin disturbed => explicitHandler \notin {None, "unset"}
  BY <1>1, <1>2 DEF HandlerOK, NothingFound
<1>4. \A i \in DOMAIN SearchPath : i \in 1 .. pos[t] - 1
  BY <1>2, PathFacts
<1>5. ~(Undiverted /\ Name(t) \in exports[selected])
  BY <1>2, PathFacts, SelectedComesFirst
<1>6. Steady /\ Name(t) \in Required => Answer(l)
  <2> HIDE DEF l
  <2> QED BY <1>1, <1>2, <1>4 DEF SameAnswerOK, Answer
<1> HIDE DEF l
<1> QED BY <1>2, <1>3, <1>5, <1>6, ResolveKeeps

-----------------------------------------------------------------------------
(* The theorems.                                                           *)

(* One step of anybody keeps the invariant.                                *)
THEOREM StepOK == IInv /\ [Next]_vars => IInv'
<1> SUFFICES ASSUME IInv, [Next]_vars
             PROVE  IInv'
  OBVIOUS
<1>1. CASE Import
  BY <1>1, ImportKeeps
<1>2. CASE Disturb
  BY <1>2, DisturbKeeps
<1>3. ASSUME NEW t \in Threads, Call(t)
      PROVE  IInv'
  BY <1>3, BeginCallKeeps, StaticKnownKeeps, EnterStaticKeeps, LoadExplicitKeeps,
     ExplicitMissingKeeps, FoundInExplicitKeeps, NotInExplicitKeeps, SearchVendorKeeps,
     SearchCannKeeps, CheckKeeps DEF Call
<1>4. CASE UNCHANGED vars
  <2>1. UNCHANGED <<exports, files, loadable, env, opp, disturbed, package, selected,
                    customLibPath, explicitHandler, addr, holder, pc, api, pos, calls, ran>>
    BY <1>4 DEF vars, world, module, thread
  <2>2. UNCHANGED <<explicitHandler, addr, holder, thread, ran>> /\ UNCHANGED world
    BY <2>1 DEF thread, world
  <2>3. TypeOK' /\ ImportOK' /\ ChoiceOK' /\ CallsOK' /\ HandlerOK'
    BY <2>1 DEF IInv, TypeOK, ImportOK, Untouched, ChoiceOK, CallsOK, HandlerOK, NothingFound
  <2>4. ReportedOK'
    BY <2>1 DEF IInv, ReportedOK, Undiverted, Name
  <2>5. SameAnswerOK'
    BY <2>1 DEF IInv, SameAnswerOK, Steady, PairedExports, Answer, Hit, Dlopen, SearchPath, Name
  <2> QED BY <2>3, <2>4, <2>5 DEF IInv
<1> QED BY <1>1, <1>2, <1>3, <1>4 DEF Next

(* The invariant holds throughout every run.                               *)
THEOREM Invariance == Spec => []IInv
<1> QED BY InitOK, StepOK, PTL DEF Spec

(* local_opapi_path() names the library that runs: as long as nobody       *)
(* points the variable elsewhere, and even when it is cleared if the       *)
(* library sits in a vendor directory and stays there.                     *)
THEOREM ReportedLibraryCorrect == Spec => []RunsReportedLibrary
<1>1. IInv => RunsReportedLibrary
  BY DEF IInv, ImportOK, Untouched, ReportedOK, RunsReportedLibrary
<1> QED BY Invariance, <1>1, PTL

(* GetWorkspaceSize and the launch of one call come from one library,      *)
(* whatever the threads' lookups do between one another's.                 *)
THEOREM OneLibraryCorrect == Spec => []OneLibraryPerCall
<1>1. IInv => OneLibraryPerCall
  BY DEF IInv, SameAnswerOK, Steady, OneLibraryPerCall
<1> QED BY Invariance, <1>1, PTL

(* Once GetOpApiFuncAddr could not load the named library no call runs any *)
(* other in its place.                                                     *)
THEOREM NoFallbackCorrect == Spec => []NoFallback
<1>1. IInv => NoFallback
  BY DEF IInv, HandlerOK, NothingFound, NoFallback
<1> QED BY Invariance, <1>1, PTL

(* An import that failed and is tried again chooses the library it chose   *)
(* before.                                                                 *)
THEOREM RetryCorrect == Spec => RetryKeepsLibrary
<1>1. IInv /\ [Next]_vars =>
        [package = "new" /\ package' = "configured" /\ selected # None
           /\ disturbed \subseteq {"files"} => selected' = selected]_vars
  <2> SUFFICES ASSUME IInv, Next, package = "new", package' = "configured",
                      selected # None, disturbed \subseteq {"files"}
               PROVE  selected' = selected
    BY DEF vars
  <2>1. Configure
    BY DEF Next, Import, TorchNpuFails, LoadExtension, Disturb, SetVariable, ClearVariable,
           ChangeFile, Call, BeginCall, StaticKnown, EnterStatic, LoadExplicit,
           ExplicitMissing, FoundInExplicit, NotInExplicit, SearchVendor, SearchCann, Check,
           Resolve, module
  <2>2. env = selected
    BY DEF IInv, ChoiceOK
  <2> QED BY <2>1, <2>2 DEF Configure, Candidates
<1> QED BY Invariance, <1>1, PTL DEF Spec, RetryKeepsLibrary

-----------------------------------------------------------------------------
(* The statics of the macro.                                               *)

Inside(t) == pc[t] \in {"explicit", "search"}

(* Who holds a static is inside its initializer, and nobody else is.       *)
HoldersOK ==
  /\ \A t \in Threads : Inside(t) => holder[Name(t)] = t /\ addr[Name(t)] = "unset"
  /\ \A a \in ApiNames : holder[a] # None =>
       holder[a] \in Threads /\ Inside(holder[a]) /\ Name(holder[a]) = a

(* A thread outside the initializers stays outside.                        *)
LEMMA OutsideKeeps ==
  ASSUME TypeOK, HoldersOK, NEW t \in Threads, ~Inside(t), ~Inside(t)',
         \A u \in Threads \ {t} : pc'[u] = pc[u] /\ api'[u] = api[u],
         UNCHANGED <<addr, holder>>
  PROVE  HoldersOK'
<1>1. \A u \in Threads \ {t} : (Inside(u)' <=> Inside(u)) /\ Name(u)' = Name(u)
  BY DEF Inside, Name
<1>2. \A a \in ApiNames : holder[a] # t
  BY OpApiAssumption DEF HoldersOK
<1> QED BY <1>1, <1>2 DEF HoldersOK

(* A thread goes into an initializer nobody is in.                         *)
LEMMA EnterHolds ==
  ASSUME TypeOK, HoldersOK, NEW t \in Threads, EnterStatic(t)
  PROVE  HoldersOK'
<1>1. /\ ~Inside(t) /\ Inside(t)' /\ Name(t) \in ApiNames
      /\ addr[Name(t)] = "unset" /\ holder[Name(t)] = None
      /\ holder' = [holder EXCEPT ![Name(t)] = t]
      /\ \A u \in Threads \ {t} : pc'[u] = pc[u]
      /\ UNCHANGED <<addr, api>>
  BY NameFacts DEF EnterStatic, TypeOK, Inside
<1>2. \A u \in Threads : Name(u)' = Name(u) /\ (u # t => (Inside(u)' <=> Inside(u)))
  BY <1>1 DEF Inside, Name
<1>3. holder'[Name(t)] = t /\ \A a \in ApiNames \ {Name(t)} : holder'[a] = holder[a]
  BY <1>1 DEF TypeOK
<1>4. \A u \in Threads \ {t} : Inside(u) => Name(u) # Name(t)
  BY <1>1, OpApiAssumption DEF HoldersOK
<1>5. \A u \in Threads : Name(u) \in ApiNames
  BY NameFacts
<1>6. \A a \in ApiNames : holder[a] # t
  BY <1>1, OpApiAssumption DEF HoldersOK
<1> QED BY <1>1, <1>2, <1>3, <1>4, <1>5, <1>6 DEF HoldersOK

(* A thread leaves the initializer it is in, with an address or without.   *)
LEMMA LeaveHolds ==
  ASSUME TypeOK, HoldersOK, NEW t \in Threads, Inside(t), ~Inside(t)',
         holder' = [holder EXCEPT ![Name(t)] = None],
         \A u \in Threads \ {t} : pc'[u] = pc[u] /\ api'[u] = api[u],
         \A a \in ApiNames \ {Name(t)} : addr'[a] = addr[a]
  PROVE  HoldersOK'
<1>1. \A u \in Threads : Name(u) \in ApiNames
  BY NameFacts
<1>2. \A u \in Threads \ {t} : (Inside(u)' <=> Inside(u)) /\ Name(u)' = Name(u)
  BY DEF Inside, Name
<1>3. holder'[Name(t)] = None /\ \A a \in ApiNames \ {Name(t)} : holder'[a] = holder[a]
  BY <1>1 DEF TypeOK
<1>4. \A u \in Threads \ {t} : Inside(u) => Name(u) # Name(t)
  BY DEF HoldersOK
<1>5. \A a \in ApiNames \ {Name(t)} : holder[a] # t
  BY OpApiAssumption DEF HoldersOK
<1> QED BY <1>1, <1>2, <1>3, <1>4, <1>5 DEF HoldersOK

(* Whoever finds a value keeps to the static it holds.                     *)
LEMMA ResolveHolds ==
  ASSUME TypeOK, HoldersOK, NEW t \in Threads, NEW l, Inside(t), Resolve(t, l)
  PROVE  HoldersOK' /\ \A a \in ApiNames \ {Name(t)} : addr'[a] = addr[a]
<1>1. /\ holder' = [holder EXCEPT ![Name(t)] = None]
      /\ addr' = [addr EXCEPT ![Name(t)] = l]
      /\ ~Inside(t)'
      /\ \A u \in Threads \ {t} : pc'[u] = pc[u] /\ api'[u] = api[u]
  BY DEF Resolve, Advance, TypeOK, Inside
<1>2. \A a \in ApiNames \ {Name(t)} : addr'[a] = addr[a]
  BY <1>1 DEF TypeOK
<1> QED BY <1>1, <1>2, LeaveHolds

(* What one step does to the statics.                                      *)
LEMMA StaticsStep ==
  ASSUME TypeOK, HoldersOK, [Next]_vars
  PROVE  HoldersOK' /\ \A a \in ApiNames : addr[a] # "unset" => addr'[a] = addr[a]
<1> DEFINE Kept == \A a \in ApiNames : addr[a] # "unset" => addr'[a] = addr[a]
<1>1. CASE UNCHANGED <<addr, holder, pc, api>>
  BY <1>1 DEF HoldersOK, Inside, Name
<1>2. CASE Import \/ Disturb \/ UNCHANGED vars
  BY <1>1, <1>2 DEF Import, Configure, TorchNpuFails, LoadExtension, Disturb, SetVariable,
     ClearVariable, ChangeFile, thread, vars
<1>3. ASSUME NEW t \in Threads, BeginCall(t) \/ StaticKnown(t) \/ Check(t)
      PROVE  HoldersOK' /\ Kept
  <2>1. /\ ~Inside(t) /\ ~Inside(t)' /\ UNCHANGED <<addr, holder>>
        /\ \A u \in Threads \ {t} : pc'[u] = pc[u] /\ api'[u] = api[u]
    BY <1>3 DEF BeginCall, StaticKnown, Check, Advance, Inside, TypeOK
  <2> QED BY <2>1, OutsideKeeps
<1>4. ASSUME NEW t \in Threads, EnterStatic(t)
      PROVE  HoldersOK' /\ Kept
  BY <1>4, EnterHolds DEF EnterStatic
<1>5. ASSUME NEW t \in Threads, LoadExplicit(t)
      PROVE  HoldersOK' /\ Kept
  BY <1>1, <1>5 DEF LoadExplicit, thread
<1>6. ASSUME NEW t \in Threads, NotInExplicit(t)
      PROVE  HoldersOK' /\ Kept
  <2>1. /\ UNCHANGED <<addr, holder, api>>
        /\ \A u \in Threads : Inside(u)' <=> Inside(u)
    BY <1>6 DEF NotInExplicit, TypeOK, Inside
  <2> QED BY <2>1 DEF HoldersOK, Name
<1>7. ASSUME NEW t \in Threads, ExplicitMissing(t)
      PROVE  HoldersOK' /\ Kept
  <2>1. /\ Inside(t) /\ ~Inside(t)' /\ UNCHANGED <<addr, api>>
        /\ holder' = [holder EXCEPT ![Name(t)] = None]
        /\ \A u \in Threads \ {t} : pc'[u] = pc[u]
    BY <1>7 DEF ExplicitMissing, TypeOK, Inside
  <2> QED BY <2>1, LeaveHolds
<1>8. ASSUME NEW t \in Threads, Inside(t), NEW l, Resolve(t, l)
      PROVE  HoldersOK' /\ Kept
  <2>1. HoldersOK' /\ \A a \in ApiNames \ {Name(t)} : addr'[a] = addr[a]
    BY <1>8, ResolveHolds
  <2>2. addr[Name(t)] = "unset"
    BY <1>8 DEF HoldersOK
  <2> QED BY <2>1, <2>2
<1>9. ASSUME NEW t \in Threads, FoundInExplicit(t) \/ SearchCann(t)
      PROVE  HoldersOK' /\ Kept
  <2>1. Inside(t) /\ \E l : Resolve(t, l)
    BY <1>9 DEF FoundInExplicit, SearchCann, Inside
  <2> QED BY <2>1, <1>8
<1>10. ASSUME NEW t \in Threads, SearchVendor(t)
       PROVE  HoldersOK' /\ Kept
  <2>1. Inside(t) /\ ((\E l : Resolve(t, l)) \/ UNCHANGED <<addr, holder, pc, api>>)
    BY <1>10 DEF SearchVendor, Inside
  <2> QED BY <2>1, <1>8, <1>1
<1> QED BY <1>2, <1>3, <1>4, <1>5, <1>6, <1>7, <1>9, <1>10 DEF Next, Call

(* Each static is initialised by one thread at a time, and a thread that   *)
(* waits for one waits for a thread that is inside its initializer, never  *)
(* for one that waits itself: the initializers cannot deadlock.            *)
THEOREM InitializersCorrect == Spec => []HoldersOK
<1>1. Init => HoldersOK
  BY DEF Init, HoldersOK, Inside
<1>2. IInv => TypeOK
  BY DEF IInv
<1>3. HoldersOK /\ TypeOK /\ [Next]_vars => HoldersOK'
  BY StaticsStep
<1> QED BY <1>1, <1>2, <1>3, Invariance, PTL DEF Spec

(* What the first call has found stays what every later call runs, also    *)
(* after an initializer of another static has thrown.                      *)
THEOREM AddressesKept ==
  Spec => [][\A a \in ApiNames : addr[a] # "unset" => addr'[a] = addr[a]]_vars
<1>1. IInv /\ HoldersOK /\ [Next]_vars =>
        [\A a \in ApiNames : addr[a] # "unset" => addr'[a] = addr[a]]_vars
  BY StaticsStep DEF IInv
<1> QED BY <1>1, Invariance, InitializersCorrect, PTL DEF Spec
=============================================================================
