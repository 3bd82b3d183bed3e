---------------------------- MODULE OrderedCalls ----------------------------
(***************************************************************************)
(* What an ordered operator promises its callers, whichever thread ends up *)
(* launching the kernel: the kernel of a call runs at most once, the calls *)
(* one thread makes on one stream run in the order they were made, a call  *)
(* that raised has not run and never will, and nobody waits for ever.      *)
(*                                                                         *)
(* A kernel can be lost without its caller hearing of it, when its launch  *)
(* fails after the call has returned.                                      *)
(***************************************************************************)
EXTENDS Naturals

CONSTANTS Calls, Threads, Streams, None

VARIABLES
  by,      \* the thread that made the call
  on,      \* the stream the call was made on
  told,    \* what the caller knows: nothing, returned or raised
  kernel   \* none, open, run or lost

vars == <<by, on, told, kernel>>

Init ==
  /\ by = [c \in Calls |-> None]
  /\ on = [c \in Calls |-> None]
  /\ told = [c \in Calls |-> "nothing"]
  /\ kernel = [c \in Calls |-> "none"]

(* Calls are numbered in the order they are made.  A call may be refused   *)
(* at once.                                                                *)
Begin(c, t, s) ==
  /\ kernel[c] = "none" /\ \A d \in Calls : d < c => kernel[d] # "none"
  /\ \A d \in Calls : by[d] = t => told[d] # "nothing"
  /\ by' = [by EXCEPT ![c] = t]
  /\ on' = [on EXCEPT ![c] = s]
  /\ \/ kernel' = [kernel EXCEPT ![c] = "open"] /\ UNCHANGED told
     \/ /\ kernel' = [kernel EXCEPT ![c] = "lost"]
        /\ told' = [told EXCEPT ![c] = "raised"]

Return(c) ==
  /\ kernel[c] # "none" /\ told[c] = "nothing"
  /\ told' = [told EXCEPT ![c] = "returned"]
  /\ UNCHANGED <<by, on, kernel>>

Run(c) ==
  /\ kernel[c] = "open"
  /\ \A d \in Calls : d < c /\ by[d] = by[c] /\ on[d] = on[c] => kernel[d] # "open"
  /\ kernel' = [kernel EXCEPT ![c] = "run"]
  /\ UNCHANGED <<by, on, told>>

Lose(c) ==
  /\ kernel[c] = "open"
  /\ kernel' = [kernel EXCEPT ![c] = "lost"]
  /\ \/ UNCHANGED told
     \/ told[c] = "nothing" /\ told' = [told EXCEPT ![c] = "raised"]
  /\ UNCHANGED <<by, on>>

Next ==
  \E c \in Calls : \/ \E t \in Threads, s \in Streams : Begin(c, t, s)
                   \/ Return(c) \/ Run(c) \/ Lose(c)

Answered ==
  \A c \in Calls :
    kernel[c] = "open" ~> kernel[c] \in {"run", "lost"} /\ told[c] # "nothing"

Spec == Init /\ [][Next]_vars

LiveSpec == Spec /\ Answered
=============================================================================
