--------------------------- MODULE MCOpApiResolve ---------------------------
(***************************************************************************)
(* Two vendor directories, either of which the repository's build may have *)
(* installed, and a file elsewhere that belongs to the second.             *)
(***************************************************************************)
EXTENDS OpApiResolve, TLC

CONSTANTS own, site, loose

Both == {"GetWorkspaceSize", "launch"}
MCApis == <<"GetWorkspaceSize", "launch">>
MCHome == [l \in {own, site, loose} |-> IF l = own THEN own ELSE site]
MCDefaultVendors == <<site>>

Everywhere == [l \in {own, site, loose} |-> Both]

(* Every library has the operator; one does not; one has half of it.       *)
MCExports ==
  {Everywhere, [Everywhere EXCEPT ![own] = {}],
   [Everywhere EXCEPT ![own] = {"GetWorkspaceSize"}]}

MCLoadable == {{own, site, loose}, {site, loose}, {own, site}}
MCPaths == {<<>>, <<site, own, site>>}

(* For the run about calls that end: one vendor, whose library may break, *)
(* and a helper function that only CANN has.                               *)
OwnHome == [l \in {own} |-> own]
OwnDefault == <<own>>
OwnExports == {[l \in {own} |-> Both]}
OwnLoadable == {{}, {own}}
OwnPaths == {<<>>}
OwnApis == MCApis \o <<"InitHugeMemThreadLocal">>

(* Threads are alike; sound for the safety run only.                       *)
Alike == Permutations(Threads)
=============================================================================
