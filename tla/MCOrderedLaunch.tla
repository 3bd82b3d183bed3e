--------------------------- MODULE MCOrderedLaunch ---------------------------
(***************************************************************************)
(* Two threads call the operator on two streams, with and without the task *)
(* queue.  Three calls are enough for one to be queued behind a failed one *)
(* and for the consumer to come back to a stream it launched on before.    *)
(***************************************************************************)
EXTENDS OrderedLaunch, TLC

(* Sound for the safety run only: threads and streams are alike.           *)
Alike == Permutations(Threads) \cup Permutations(Streams)
=============================================================================
