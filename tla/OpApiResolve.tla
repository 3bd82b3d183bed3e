---------------------------- MODULE OpApiResolve ----------------------------
(***************************************************************************)
(* Which shared library a kvcache_scatter_copy call runs.                  *)
(*                                                                         *)
(* Importing nanovllm_dsa_a5 chooses one libcust_opapi.so, the one         *)
(* local_opapi_path() reports, and passes the choice on to _C through two  *)
(* environment variables.  EXEC_NPU_CMD_ORDERED then looks each function   *)
(* it needs up by name, once per process, with GetOpApiFuncAddr: the       *)
(* variable is read again by every lookup, the handle it led to and the    *)
(* addresses found are kept for good.  Threads make their first calls at   *)
(* the same time, the environment is open to the whole process, and        *)
(* build_bf16.sh deletes and installs libraries while processes run.       *)
(*                                                                         *)
(* A vendor directory stands for its op_api/lib/libcust_opapi.so; the CANN *)
(* libraries, which nothing replaces, are one library, the last searched.  *)
(***************************************************************************)
EXTENDS Naturals, SequencesExt

CONSTANTS
  Threads,
  Vendors,         \* vendor directories, each with at most one library
  LocalVendors,    \* those under the repository's _custom_opp_bf16
  DefaultVendors,  \* the load_priority order of ASCEND_OPP_PATH's vendors
  Loose,           \* other files NANOVLLM_CUST_OPAPI_LIB may name
  Home,            \* the directory two levels above a library's own
  Exports,         \* what the libraries may export
  Loadable,        \* the sets of libraries dlopen may accept
  Paths,           \* what ASCEND_CUSTOM_OPP_PATH may be before the import
  Apis,            \* the functions the macro looks up, in order
  Required,        \* those a call cannot do without
  CannApis,        \* the functions the CANN libraries export
  Cann, Program,   \* the CANN libraries; the handle of the program itself
  None,
  MaxCalls         \* bound: the calls each thread makes

Libraries == Vendors \cup Loose
ApiNames == ToSet(Apis)

ASSUME OpApiAssumption ==
  /\ LocalVendors \subseteq Vendors
  /\ DefaultVendors \in Seq(Vendors)
  /\ Home \in [Libraries -> Vendors]
  /\ \A v \in Vendors : Home[v] = v
  /\ Exports \subseteq [Libraries -> SUBSET ApiNames]
  /\ Loadable \subseteq SUBSET Libraries
  /\ Paths \subseteq Seq(Vendors)
  /\ Apis \in Seq(ApiNames) \ {<<>>}
  /\ Required \subseteq ApiNames
  /\ {Cann, Program, None, "unset"} \cap Libraries = {}
  /\ Cann # None /\ "unset" \notin {Cann, None, Program}
  /\ Program \notin {Cann, None}
  /\ None \notin Threads
  /\ MaxCalls \in Nat

(* Definitions marked "a mistake" are wrong variants of the definition     *)
(* they precede, kept to show which property would notice them.            *)

VARIABLES
  exports,          \* the functions each library exports
  files,            \* the libraries there are
  loadable,         \* the libraries dlopen accepts
  env,              \* NANOVLLM_CUST_OPAPI_LIB; None: unset or empty
  opp,              \* ASCEND_CUSTOM_OPP_PATH
  package,          \* the import of nanovllm_dsa_a5: new, configured, imported
  selected,         \* local_opapi_path(); kept when the import fails
  customLibPath,    \* g_custom_lib_path
  explicitHandler,  \* the handle of the library the variable named
  addr,             \* the function-local static addresses
  holder,           \* the thread inside each static's initializer
  pc, api, pos,     \* per thread: where it is (idle, static, explicit, search or
                    \* check), Apis' index, search position
  calls,            \* per thread: the calls it has made
  ran,              \* the libraries the calls took each function from
  disturbed         \* history: what has changed since the first import: the
                    \* variable set or cleared, files

thread == <<pc, api, pos, calls>>
world == <<exports, files, loadable, env, opp, disturbed>>
module == <<package, selected, customLibPath>>
vars == <<world, module, explicitHandler, addr, holder, thread, ran>>

Init ==
  /\ exports \in Exports
  /\ files \in SUBSET Libraries
  /\ loadable \in Loadable
  /\ env \in Libraries \cup {None}
  /\ opp \in Paths
  /\ package = "new"
  /\ selected = None
  /\ customLibPath = <<>>
  /\ explicitHandler = "unset"
  /\ addr = [a \in ApiNames |-> "unset"]
  /\ holder = [a \in ApiNames |-> None]
  /\ pc = [t \in Threads |-> "idle"]
  /\ api = [t \in Threads |-> 1]
  /\ pos = [t \in Threads |-> 1]
  /\ calls = [t \in Threads |-> 0]
  /\ ran = {}
  /\ disturbed = {}

-----------------------------------------------------------------------------
(* Importing the package.                                                  *)

(* The file the variable names, or else the only local library.            *)
Candidates ==
  IF env # None THEN {env} \cap files
  ELSE IF Cardinality(LocalVendors \cap files) = 1 THEN LocalVendors \cap files
  ELSE {}

(* A mistake: a directory that is already listed keeps its place.          *)
WithVendor(vendor, existing) ==
  IF vendor \in ToSet(existing) THEN existing ELSE existing \o <<vendor>>

(* The vendor of the chosen library, then the directories already there:   *)
(* each of them once, where it comes first.                                *)
WithVendorFirst(vendor, existing) ==
  LET entries == <<vendor>> \o existing
      firsts == {i \in DOMAIN entries : \A j \in 1 .. i - 1 : entries[j] # entries[i]}
  IN  [n \in 1 .. Cardinality(firsts) |->
         entries[CHOOSE i \in firsts : Cardinality(firsts \cap (1 .. i)) = n]]

(* A mistake: the choice is not passed on.                                 *)
ConfigureVendorOnly ==
  /\ package = "new"
  /\ \E l \in Candidates :
       /\ selected' = l
       /\ opp' = WithVendorFirst(Home[l], opp)
  /\ package' = "configured"
  /\ UNCHANGED <<exports, files, loadable, env, disturbed, customLibPath,
                 explicitHandler, addr, holder, thread, ran>>

(* The assignments to os.environ.  With no choice the import raises before *)
(* it has changed anything.                                                *)
Configure ==
  /\ package = "new"
  /\ \E l \in Candidates :
       /\ selected' = l
       /\ env' = l
       /\ opp' = WithVendorFirst(Home[l], opp)
  /\ package' = "configured"
  /\ UNCHANGED <<exports, files, loadable, disturbed, customLibPath,
                 explicitHandler, addr, holder, thread, ran>>

(* import torch_npu raises; the environment stays as Configure left it,    *)
(* and importing the package again runs __init__ from the start.           *)
TorchNpuFails ==
  /\ package = "configured"
  /\ package' = "new"
  /\ UNCHANGED <<world, selected, customLibPath, explicitHandler, addr, holder,
                 thread, ran>>

(* from . import _C: the globals are initialised from the environment.     *)
LoadExtension ==
  /\ package = "configured"
  /\ package' = "imported"
  /\ customLibPath' = opp
  /\ UNCHANGED <<world, selected, explicitHandler, addr, holder, thread, ran>>

-----------------------------------------------------------------------------
(* The rest of the process, and of the machine.                            *)

Note(change) ==
  disturbed' = IF selected = None THEN {} ELSE disturbed \cup {change}

SetVariable(l) ==
  /\ env # l
  /\ env' = l
  /\ IF l = selected THEN UNCHANGED disturbed ELSE Note("set")
  /\ UNCHANGED <<exports, files, loadable, opp, module, explicitHandler, addr,
                 holder, thread, ran>>

ClearVariable ==
  /\ env # None
  /\ env' = None
  /\ Note("cleared")
  /\ UNCHANGED <<exports, files, loadable, opp, module, explicitHandler, addr,
                 holder, thread, ran>>

(* A build removes the installed libraries and then installs its own.      *)
ChangeFile(l) ==
  /\ files' = IF l \in files THEN files \ {l} ELSE files \cup {l}
  /\ Note("files")
  /\ UNCHANGED <<exports, loadable, env, opp, module, explicitHandler, addr,
                 holder, thread, ran>>

-----------------------------------------------------------------------------
(* EXEC_NPU_CMD_ORDERED's statics and GetOpApiFuncAddr.                    *)

Name(t) == Apis[api[t]]
SearchPath == customLibPath \o DefaultVendors
Dlopen(l) == IF l \in files \cap loadable THEN l ELSE None
Exported(h) == IF h \in Libraries THEN exports[h] ELSE {}

BeginCall(t) ==
  /\ pc[t] = "idle" /\ package = "imported" /\ calls[t] < MaxCalls
  /\ pc' = [pc EXCEPT ![t] = "static"]
  /\ api' = [api EXCEPT ![t] = 1]
  /\ calls' = [calls EXCEPT ![t] = @ + 1]
  /\ UNCHANGED <<world, module, explicitHandler, addr, holder, pos, ran>>

(* On to the next static, or to the macro's check.                         *)
Advance(t) ==
  IF api[t] < Len(Apis)
  THEN api' = [api EXCEPT ![t] = @ + 1] /\ pc' = [pc EXCEPT ![t] = "static"]
  ELSE UNCHANGED api /\ pc' = [pc EXCEPT ![t] = "check"]

StaticKnown(t) ==
  /\ pc[t] = "static" /\ addr[Name(t)] # "unset"
  /\ Advance(t)
  /\ UNCHANGED <<world, module, explicitHandler, addr, holder, pos, calls, ran>>

(* One thread at a time is inside a static's initializer; it starts by     *)
(* reading the variable.                                                   *)
EnterStatic(t) ==
  /\ pc[t] = "static" /\ addr[Name(t)] = "unset" /\ holder[Name(t)] = None
  /\ holder' = [holder EXCEPT ![Name(t)] = t]
  /\ pc' = [pc EXCEPT ![t] = IF env = None THEN "search" ELSE "explicit"]
  /\ pos' = [pos EXCEPT ![t] = 1]
  /\ UNCHANGED <<world, module, explicitHandler, addr, api, calls, ran>>

(* A mistake: the handle is not kept.                                      *)
LoadExplicitAgain(t) ==
  /\ pc[t] = "explicit"
  /\ explicitHandler' = IF env = None THEN Program ELSE Dlopen(env)
  /\ UNCHANGED <<world, module, addr, holder, thread, ran>>

(* explicit_handler's initializer reads the variable once more; dlopen of  *)
(* nothing gives the program's own handle.                                 *)
LoadExplicit(t) ==
  /\ pc[t] = "explicit" /\ explicitHandler = "unset"
  /\ explicitHandler' = IF env = None THEN Program ELSE Dlopen(env)
  /\ UNCHANGED <<world, module, addr, holder, thread, ran>>

(* A mistake: a failed dlopen is only logged, as for every other library.  *)
ExplicitSkipped(t) ==
  /\ pc[t] = "explicit" /\ explicitHandler = None
  /\ pc' = [pc EXCEPT ![t] = "search"]
  /\ UNCHANGED <<world, module, explicitHandler, addr, holder, api, pos, calls,
                 ran>>

(* A mistake: the throw leaves the static locked.                          *)
ExplicitMissingLocked(t) ==
  /\ pc[t] = "explicit" /\ explicitHandler = None
  /\ pc' = [pc EXCEPT ![t] = "idle"]
  /\ UNCHANGED <<world, module, explicitHandler, addr, holder, api, pos, calls,
                 ran>>

(* An initializer that throws leaves the static to be initialised again.   *)
ExplicitMissing(t) ==
  /\ pc[t] = "explicit" /\ explicitHandler = None
  /\ holder' = [holder EXCEPT ![Name(t)] = None]
  /\ pc' = [pc EXCEPT ![t] = "idle"]
  /\ UNCHANGED <<world, module, explicitHandler, addr, api, pos, calls, ran>>

(* The lookup returns l, the static is initialised with it.                *)
Resolve(t, l) ==
  /\ addr' = [addr EXCEPT ![Name(t)] = l]
  /\ holder' = [holder EXCEPT ![Name(t)] = None]
  /\ Advance(t)
  /\ UNCHANGED <<world, module, explicitHandler, pos, calls, ran>>

FoundInExplicit(t) ==
  /\ pc[t] = "explicit" /\ explicitHandler \in Libraries
  /\ Name(t) \in Exported(explicitHandler)
  /\ Resolve(t, explicitHandler)

NotInExplicit(t) ==
  /\ pc[t] = "explicit" /\ explicitHandler \in Libraries \cup {Program}
  /\ Name(t) \notin Exported(explicitHandler)
  /\ pc' = [pc EXCEPT ![t] = "search"]
  /\ UNCHANGED <<world, module, explicitHandler, addr, holder, api, pos, calls,
                 ran>>

(* One library of g_custom_lib_path, then of g_default_custom_lib_path.    *)
SearchVendor(t) ==
  /\ pc[t] = "search" /\ pos[t] <= Len(SearchPath)
  /\ LET l == Dlopen(SearchPath[pos[t]])
     IN IF l # None /\ Name(t) \in Exported(l)
        THEN Resolve(t, l)
        ELSE /\ pos' = [pos EXCEPT ![t] = @ + 1]
             /\ UNCHANGED <<world, module, explicitHandler, addr, holder, pc,
                            api, calls, ran>>

(* The feature libraries, which come last, answer like the others.         *)
FoundInCann(a) == a \in CannApis

SearchCann(t) ==
  /\ pc[t] = "search" /\ pos[t] > Len(SearchPath)
  /\ Resolve(t, IF FoundInCann(Name(t)) THEN Cann ELSE None)

(* The macro's check: the call goes on with what the statics hold, or it   *)
(* raises, and so does every later call of the process.                    *)
Check(t) ==
  /\ pc[t] = "check"
  /\ pc' = [pc EXCEPT ![t] = "idle"]
  /\ ran' = IF \A a \in Required : addr[a] # None THEN ran \cup {addr} ELSE ran
  /\ UNCHANGED <<world, module, explicitHandler, addr, holder, api, pos, calls>>

-----------------------------------------------------------------------------
Import == Configure \/ TorchNpuFails \/ LoadExtension

Disturb ==
  \/ \E l \in Libraries : SetVariable(l) \/ ChangeFile(l)
  \/ ClearVariable

Call(t) ==
  \/ BeginCall(t) \/ StaticKnown(t) \/ EnterStatic(t) \/ LoadExplicit(t)
  \/ ExplicitMissing(t) \/ FoundInExplicit(t) \/ NotInExplicit(t)
  \/ SearchVendor(t) \/ SearchCann(t) \/ Check(t)

Next == Import \/ Disturb \/ \E t \in Threads : Call(t)

Spec == Init /\ [][Next]_vars

(* A thread that is in a call goes on with it.                             *)
FairSpec == Spec /\ \A t \in Threads : WF_vars(pc[t] # "idle" /\ Call(t))

-----------------------------------------------------------------------------
(* local_opapi_path() is what ran: a function that library exports was     *)
(* taken from it by every call, provided the variable was never pointed at *)
(* another library since the import.  Clearing it does no harm to a        *)
(* library in a vendor directory whose file stays: the import put that     *)
(* directory at the front of the search.                                   *)
Undiverted ==
  /\ "set" \notin disturbed
  /\ "cleared" \in disturbed =>
       selected \in Vendors \cap loadable /\ "files" \notin disturbed

RunsReportedLibrary ==
  Undiverted =>
    \A call \in ran : \A a \in exports[selected] : call[a] = selected

(* An executor is used by the library that made it: GetWorkspaceSize and   *)
(* the launch come from one library, if libraries export both or neither,  *)
(* as long as the variable always names some library and no file changes.  *)
PairedExports ==
  \A l \in Libraries :
    Required \subseteq exports[l] \/ Required \cap exports[l] = {}

OneLibraryPerCall ==
  PairedExports /\ disturbed \cap {"cleared", "files"} = {} =>
    \A call \in ran : \A a, b \in Required : call[a] = call[b]

(* "cannot load repository-local libcust_opapi.so" stays true: once the    *)
(* named library could not be loaded no call runs any other in its place,  *)
(* even when the file appears again, unless the variable is cleared.       *)
NoFallback ==
  explicitHandler = None /\ "cleared" \notin disturbed => ran = {}

(* An import that is tried again chooses the library it chose before, also *)
(* when local libraries have come or gone; only the variable decides.      *)
RetryKeepsLibrary ==
  [][package = "new" /\ package' = "configured" /\ selected # None
     /\ disturbed \subseteq {"files"} => selected' = selected]_vars

(* Threads that wait for one another's initializers all get through.       *)
CallsEnd == \A t \in Threads : pc[t] # "idle" ~> pc[t] = "idle"
=============================================================================
