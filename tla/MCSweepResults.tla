--------------------------- MODULE MCSweepResults ---------------------------
(***************************************************************************)
(* Results of up to two old runs, then three more runs, sweeps or tests    *)
(* started by hand, over two cases: a later sweep can select a subset of   *)
(* the earlier one's cases, the same cases, or others.                     *)
(***************************************************************************)
EXTENDS SweepResults, TLC

CONSTANTS a, b

TwoCases == {a, b}
AllPlans == {<<a>>, <<b>>, <<a, b>>, <<b, a>>}

SwapCases == Permutations(TwoCases)
=============================================================================
