---------------------------- MODULE DeviceStreams ----------------------------
(***************************************************************************)
(* EXEC_NPU_CMD_ORDERED together with the device: the kernels it launches  *)
(* wait in their streams, and the memory they work on can be handed to     *)
(* somebody else as soon as the host has no reference to it any more.      *)
(*                                                                         *)
(* torch_npu's caching allocator gives a block back to the stream it was   *)
(* allocated on, where the new owner's work is queued behind what was      *)
(* launched there before; the owner may also be another thread, and need   *)
(* not use the task queue.  Streams and allocator are not part of the      *)
(* repository.                                                             *)
(***************************************************************************)
EXTENDS OrderedLaunch, SequencesExt

VARIABLES
  work,         \* per stream: what the device has still to do, oldest first
  executed,     \* the calls whose kernel has run
  handedOn,     \* the blocks <<call, kind, stream it was allocated on>>
                \* that have a new owner
  overwritten   \* the blocks the new owner has written to

deviceVars == <<work, executed, handedOn, overwritten>>
allVars == <<vars, deviceVars>>

Kinds == {"tensors", "workspace"}

DeviceInit ==
  /\ Init
  /\ work = [s \in Streams |-> <<>>]
  /\ executed = {}
  /\ handedOn = {}
  /\ overwritten = {}

-----------------------------------------------------------------------------

(* A mistake: taking the workspace from a pool shared by all streams.      *)
AnyHome(c, kind) == Streams

(* at::empty allocates on the calling thread's current stream, the stream  *)
(* of the call; the caller's tensors may come from any stream.             *)
Homes(c, kind) == IF kind = "workspace" THEN {stream[c]} ELSE Streams

(* The references the host has: Python's, the operator's frame's and the   *)
(* closure's.                                                              *)
Held(c, kind) ==
  \/ kind = "tensors" /\ python[c]
  \/ InCall(c)
  \/ kind \in keeps[c]

Allocated(c, kind) ==
  IF kind = "tensors" THEN thread[c] # None ELSE needsWs[c]

(* The library launches the kernel on acl_stream.                          *)
Submit ==
  work' = IF launched' = launched THEN work
          ELSE LET c == Last(launched')
               IN  [work EXCEPT ![stream[c]] = Append(@, <<c, "kernel">>)]

Host(c) ==
  /\ Caller(c) \/ Closure(c)
  /\ Submit
  /\ UNCHANGED <<executed, handedOn, overwritten>>

Python(c) ==
  /\ PythonDrops(c) \/ \E t \in Threads, s \in Streams : Enter(t, c, s)
  /\ UNCHANGED deviceVars

HandOn(c, kind) ==
  /\ Allocated(c, kind) /\ ~Held(c, kind)
  /\ \A s \in Streams : <<c, kind, s>> \notin handedOn
  /\ \E s \in Homes(c, kind) :
       /\ handedOn' = handedOn \cup {<<c, kind, s>>}
       /\ work' = [work EXCEPT ![s] = Append(@, <<c, kind, s>>)]
  /\ UNCHANGED <<vars, executed, overwritten>>

Execute(s) ==
  /\ work[s] # <<>>
  /\ work' = [work EXCEPT ![s] = Tail(@)]
  /\ LET item == Head(work[s])
     IN  IF item[2] = "kernel"
         THEN executed' = executed \cup {item[1]} /\ UNCHANGED overwritten
         ELSE overwritten' = overwritten \cup {item} /\ UNCHANGED executed
  /\ UNCHANGED <<vars, handedOn>>

AllIdle == Terminated /\ (\A s \in Streams : work[s] = <<>>) /\ UNCHANGED deviceVars

DeviceNext ==
  \/ \E c \in Calls : \/ Host(c) \/ Python(c)
                      \/ \E kind \in Kinds : HandOn(c, kind)
  \/ \E s \in Streams : Execute(s)
  \/ AllIdle

(* Threads inside the operator, the consumer and the device go on.         *)
DeviceSpec ==
  /\ DeviceInit /\ [][DeviceNext]_allVars
  /\ \A c \in Calls : /\ WF_allVars(Caller(c) /\ Host(c))
                      /\ WF_allVars(Closure(c) /\ Host(c))
  /\ \A s \in Streams : WF_allVars(Execute(s))

-----------------------------------------------------------------------------
(* Properties.                                                             *)

(* From the moment its closure is queued until it has run on the device, a *)
(* kernel's workspace is its own, and so are tensors that were allocated   *)
(* on the stream of the call: when the closure is destroyed, which is      *)
(* before the kernel runs, only the order of the stream protects them.     *)
(* (Tensors of another stream are for the caller to keep.)                 *)
KernelMemoryUntouched ==
  \A c \in Calls, kind \in Kinds, s \in Streams :
    /\ <<c, kind, s>> \in overwritten
    /\ task[c] \in {"queued", "running", "launched"}
    /\ kind = "tensors" => s = stream[c]
    => c \in executed

(* The launch keeps the promise of an ordered operator.                    *)
Kernel(c) ==
  CASE pc[c] = "idle" -> "none"
    [] c \in executed -> "run"
    [] pc[c] = "raised" \/ task[c] \in {"failed", "dropped"} -> "lost"
    [] OTHER -> "open"

Abstract ==
  INSTANCE OrderedCalls WITH
    by <- thread, on <- stream,
    told <- [c \in Calls |-> IF Ended(c) THEN pc[c] ELSE "nothing"],
    kernel <- [c \in Calls |-> Kernel(c)]

ImplementsOrderedCalls == Abstract!LiveSpec
=============================================================================
