---------------------------- MODULE OrderedLaunch ----------------------------
(***************************************************************************)
(* How a kvcache_scatter_copy call gets from a Python thread to a device   *)
(* stream: EXEC_NPU_CMD_ORDERED (torch_extension/csrc/op_api_common.h) as  *)
(* KvcacheScatterCopyNpu uses it.                                          *)
(*                                                                         *)
(* The calling thread converts the tensors and asks GetWorkspaceSize for   *)
(* an executor and the tiling; the launch itself is a closure handed to    *)
(* RunOpApiV2.  With torch_npu's task queue the closure is copied and run  *)
(* later by the consumer thread, when the caller may have returned and     *)
(* Python may have dropped its tensors; without it the caller runs the     *)
(* closure itself.  Streams can be limited to some of the device's cores,  *)
(* and the limit is bound to a thread: both threads have to bind it.       *)
(*                                                                         *)
(* torch_npu's queue is not part of the repository.  It is modelled as a   *)
(* FIFO whose consumer may stop running closures once one has thrown.      *)
(***************************************************************************)
EXTENDS Naturals, Sequences

CONSTANTS
  Threads,    \* Python threads
  Consumer,   \* the task queue's consumer thread
  Streams,    \* NPU streams
  None,
  MaxCalls    \* bound: the calls considered

ASSUME OrderedLaunchAssumption ==
  /\ MaxCalls \in Nat
  /\ Consumer \notin Threads
  /\ None \notin Streams \cup Threads \cup {Consumer}

(* Definitions marked "a mistake" are wrong variants of the definition     *)
(* they precede, kept to show which property would notice them.            *)

Calls == 1 .. MaxCalls
Runners == Threads \cup {Consumer}

VARIABLES
  taskQueue,    \* is RunOpApiV2 asynchronous?
  pc,           \* the caller: idle, converted, sized, running, submitted,
                \* returned or raised
  thread,       \* the calling thread
  stream,       \* acl_stream
  python,       \* does Python hold the call's nine tensors?
  localOn,      \* per thread: huge memory and PTA cache initialised
  tiledOn,      \* the stream whose cores the tiling was computed for
  needsWs,      \* is workspace_size # 0?
  handles,      \* the aclTensor handles and the executor's huge memory: none,
                \* live or released
  task,         \* the closure: none, queued, running, launched, failed, dropped
  runner,       \* the thread that runs the closure
  keeps,        \* what the closure's copy in the task queue keeps alive
  queue,        \* closures waiting for the consumer, oldest first
  boundStream,  \* per thread: the stream whose core limit it has bound
  launched      \* the calls whose kernel has been launched, oldest first

vars == <<taskQueue, pc, thread, stream, python, localOn, tiledOn, needsWs,
          handles, task, runner, keeps, queue, boundStream, launched>>

Init ==
  /\ taskQueue \in BOOLEAN
  /\ pc = [c \in Calls |-> "idle"]
  /\ thread = [c \in Calls |-> None]
  /\ stream = [c \in Calls |-> None]
  /\ python = [c \in Calls |-> FALSE]
  /\ localOn = [t \in Threads |-> FALSE]
  /\ tiledOn = [c \in Calls |-> None]
  /\ needsWs = [c \in Calls |-> FALSE]
  /\ handles = [c \in Calls |-> "none"]
  /\ task = [c \in Calls |-> "none"]
  /\ runner = [c \in Calls |-> None]
  /\ keeps = [c \in Calls |-> {}]
  /\ queue = <<>>
  /\ boundStream = [x \in Runners |-> None]
  /\ launched = <<>>

-----------------------------------------------------------------------------
(* The caller.                                                             *)

Ended(c) == pc[c] \in {"returned", "raised"}

InCall(c) == pc[c] # "idle" /\ ~Ended(c)

(* Calls are numbered in the order they are made.                          *)
NextCall(c) == pc[c] = "idle" /\ \A d \in Calls : d < c => pc[d] # "idle"

(* A thread binds a stream's core limit unless it has bound it before; the *)
(* function that does it is looked up every time, and the runtime may not  *)
(* have it.                                                                *)
CannotBind(x, s) == boundStream[x] # s

LocalsOn(t) == localOn' = [localOn EXCEPT ![t] = TRUE]

(* A thread enters the operator with the tensors Python passed, binds the  *)
(* core limit of its stream (which raises where the runtime cannot),       *)
(* initialises its thread-local caches and converts the tensors.  The      *)
(* operator's functions have been found: else every call raises here.      *)
Enter(t, c, s) ==
  /\ NextCall(c)
  /\ \A d \in Calls : thread[d] = t => ~InCall(d)
  /\ thread' = [thread EXCEPT ![c] = t]
  /\ stream' = [stream EXCEPT ![c] = s]
  /\ python' = [python EXCEPT ![c] = TRUE]
  /\ \/ /\ CannotBind(t, s)
        /\ pc' = [pc EXCEPT ![c] = "raised"]
        /\ UNCHANGED <<boundStream, localOn, handles>>
     \/ /\ boundStream' = [boundStream EXCEPT ![t] = s]
        /\ LocalsOn(t)
        /\ handles' = [handles EXCEPT ![c] = "live"]
        /\ pc' = [pc EXCEPT ![c] = "converted"]
  /\ UNCHANGED <<taskQueue, tiledOn, needsWs, task, runner, keeps, queue, launched>>

(* GetWorkspaceSize runs the host tiling under the core limit of this      *)
(* thread.  It may refuse the call, and the workspace allocation may fail. *)
GetWorkspaceSize(c) ==
  /\ pc[c] = "converted"
  /\ tiledOn' = [tiledOn EXCEPT ![c] = boundStream[thread[c]]]
  /\ \E w \in BOOLEAN : needsWs' = [needsWs EXCEPT ![c] = w]
  /\ pc' = [pc EXCEPT ![c] = "sized"]
  /\ UNCHANGED <<taskQueue, thread, stream, python, localOn, handles, task,
                 runner, keeps, queue, boundStream, launched>>

GetWorkspaceSizeRaises(c) ==
  /\ pc[c] = "converted"
  /\ pc' = [pc EXCEPT ![c] = "raised"]
  /\ UNCHANGED <<taskQueue, thread, stream, python, localOn, tiledOn, needsWs,
                 handles, task, runner, keeps, queue, boundStream, launched>>

(* A mistake: capturing addresses only, as a launcher for work that runs   *)
(* at once could.                                                          *)
CapturedAddresses(c) == {}

(* The closure's copies of ordered_tensor_keepalive and workspace_tensor.  *)
Captured(c) == {"tensors"} \cup IF needsWs[c] THEN {"workspace"} ELSE {}

(* A mistake: the latest call first.                                       *)
Pushed(c) == <<c>> \o queue

Enqueued(c) == Append(queue, c)

RunOpApiV2(c) ==
  /\ pc[c] = "sized"
  /\ IF taskQueue
       THEN /\ queue' = Enqueued(c)
            /\ keeps' = [keeps EXCEPT ![c] = Captured(c)]
            /\ task' = [task EXCEPT ![c] = "queued"]
            /\ pc' = [pc EXCEPT ![c] = "submitted"]
            /\ UNCHANGED runner
       ELSE /\ task' = [task EXCEPT ![c] = "running"]
            /\ runner' = [runner EXCEPT ![c] = thread[c]]
            /\ pc' = [pc EXCEPT ![c] = "running"]
            /\ UNCHANGED <<queue, keeps>>
  /\ UNCHANGED <<taskQueue, thread, stream, python, localOn, tiledOn, needsWs,
                 handles, boundStream, launched>>

(* A mistake: reporting an earlier failure after queueing the closure.     *)
RunOpApiV2RaisesQueued(c) ==
  /\ pc[c] = "sized"
  /\ taskQueue /\ \E d \in Calls : task[d] = "failed"
  /\ queue' = Enqueued(c)
  /\ task' = [task EXCEPT ![c] = "queued"]
  /\ keeps' = [keeps EXCEPT ![c] = Captured(c)]
  /\ pc' = [pc EXCEPT ![c] = "raised"]
  /\ UNCHANGED <<taskQueue, thread, stream, python, localOn, tiledOn, needsWs,
                 handles, runner, boundStream, launched>>

(* The task queue reports an earlier closure's failure instead.            *)
RunOpApiV2Raises(c) ==
  /\ pc[c] = "sized"
  /\ taskQueue /\ \E d \in Calls : task[d] = "failed"
  /\ pc' = [pc EXCEPT ![c] = "raised"]
  /\ UNCHANGED <<taskQueue, thread, stream, python, localOn, tiledOn, needsWs,
                 handles, task, runner, keeps, queue, boundStream, launched>>

(* A mistake: leaving the thread-local caches on.                          *)
ReturnInitialised(c) ==
  /\ pc[c] = "submitted"
  /\ pc' = [pc EXCEPT ![c] = "returned"]
  /\ UNCHANGED <<taskQueue, thread, stream, python, localOn, tiledOn, needsWs,
                 handles, task, runner, keeps, queue, boundStream, launched>>

LocalsOff(t) == localOn' = [localOn EXCEPT ![t] = FALSE]

Return(c) ==
  /\ pc[c] = "submitted"
  /\ LocalsOff(thread[c])
  /\ pc' = [pc EXCEPT ![c] = "returned"]
  /\ UNCHANGED <<taskQueue, thread, stream, python, tiledOn, needsWs, handles,
                 task, runner, keeps, queue, boundStream, launched>>

(* Python drops its references to the tensors some time after the call.    *)
PythonDrops(c) ==
  /\ Ended(c) /\ python[c]
  /\ python' = [python EXCEPT ![c] = FALSE]
  /\ UNCHANGED <<taskQueue, pc, thread, stream, localOn, tiledOn, needsWs,
                 handles, task, runner, keeps, queue, boundStream, launched>>

-----------------------------------------------------------------------------
(* The closure.                                                            *)

Dequeue(c) ==
  /\ queue # <<>> /\ c = Head(queue)
  /\ \A d \in Calls : task[d] = "running" => runner[d] # Consumer
  /\ queue' = Tail(queue)
  /\ task' = [task EXCEPT ![c] = "running"]
  /\ runner' = [runner EXCEPT ![c] = Consumer]
  /\ UNCHANGED <<taskQueue, pc, thread, stream, python, localOn, tiledOn,
                 needsWs, handles, keeps, boundStream, launched>>

(* After a failure the consumer may discard what is still queued.          *)
Discard(c) ==
  /\ queue # <<>> /\ c = Head(queue)
  /\ \E d \in Calls : task[d] = "failed"
  /\ queue' = Tail(queue)
  /\ task' = [task EXCEPT ![c] = "dropped"]
  /\ keeps' = [keeps EXCEPT ![c] = {}]
  /\ UNCHANGED <<taskQueue, pc, thread, stream, python, localOn, tiledOn,
                 needsWs, handles, runner, boundStream, launched>>

(* A mistake: trusting whatever limit the thread has bound.                *)
BindNothing(x, s) == boundStream' = boundStream

Bind(x, s) == boundStream' = [boundStream EXCEPT ![x] = s]

(* A mistake: never releasing the handles.                                 *)
ReleaseNothing(c) == handles' = handles

(* ReleaseConvertTypes and ReleaseHugeMem.                                 *)
Release(c) == handles' = [handles EXCEPT ![c] = "released"]

(* A mistake: the inline caller waits for a completion nobody signals.     *)
LeaveCallerWaiting(c, outcome, callerGoesTo) ==
  /\ task' = [task EXCEPT ![c] = outcome]
  /\ keeps' = [keeps EXCEPT ![c] = {}]
  /\ UNCHANGED <<taskQueue, pc, thread, stream, python, localOn, tiledOn, needsWs,
                 runner, queue>>

(* The closure is destroyed when it has run, and the inline caller goes on *)
(* at once.                                                                *)
Leave(c, outcome, callerGoesTo) ==
  /\ task' = [task EXCEPT ![c] = outcome]
  /\ keeps' = [keeps EXCEPT ![c] = {}]
  /\ pc' = IF taskQueue THEN pc ELSE [pc EXCEPT ![c] = callerGoesTo]
  /\ UNCHANGED <<taskQueue, thread, stream, python, localOn, tiledOn, needsWs,
                 runner, queue>>

Launch(c) ==
  /\ task[c] = "running"
  /\ Bind(runner[c], stream[c])
  /\ launched' = Append(launched, c)
  /\ Release(c)
  /\ Leave(c, "launched", "submitted")

(* The limit cannot be bound, or the operator's launch function fails.     *)
LaunchRaises(c) ==
  /\ task[c] = "running"
  /\ \/ CannotBind(runner[c], stream[c]) /\ UNCHANGED boundStream
     \/ Bind(runner[c], stream[c])
  /\ Leave(c, "failed", "raised")
  /\ UNCHANGED <<handles, launched>>

-----------------------------------------------------------------------------

Caller(c) ==
  \/ GetWorkspaceSize(c) \/ GetWorkspaceSizeRaises(c)
  \/ RunOpApiV2(c) \/ RunOpApiV2Raises(c)
  \/ Return(c)

Closure(c) == Dequeue(c) \/ Discard(c) \/ Launch(c) \/ LaunchRaises(c)

AllSettled ==
  \A c \in Calls : /\ Ended(c)
                   /\ ~python[c]
                   /\ task[c] \notin {"queued", "running"}

Terminated == AllSettled /\ UNCHANGED vars

Next ==
  \/ \E c \in Calls : \/ \E t \in Threads, s \in Streams : Enter(t, c, s)
                      \/ Caller(c) \/ Closure(c) \/ PythonDrops(c)
  \/ Terminated

Spec == Init /\ [][Next]_vars

(* A thread inside the operator runs on, and so does the consumer.  Python *)
(* owes nobody a call, nor the release of its tensors.                     *)
FairSpec ==
  Spec /\ \A c \in Calls : WF_vars(Caller(c)) /\ WF_vars(Closure(c))

-----------------------------------------------------------------------------
(* Properties.                                                             *)

(* What a launch will read and write is alive while the launch is still to *)
(* come, whatever the caller and Python have dropped by then: the tensors  *)
(* belong to Python, to the operator's frame or to the closure, the        *)
(* workspace to the frame or the closure.                                  *)
MemoryHeld ==
  \A c \in Calls : task[c] \in {"queued", "running"} =>
    /\ python[c] \/ InCall(c) \/ "tensors" \in keeps[c]
    /\ needsWs[c] => InCall(c) \/ "workspace" \in keeps[c]

(* The calls of a thread are launched in the order the thread made them.   *)
LaunchedInCallOrder ==
  \A i, j \in DOMAIN launched :
    i < j /\ thread[launched[i]] = thread[launched[j]] => launched[i] < launched[j]

(* A kernel is launched under the core limit its tiling was computed for,  *)
(* its own stream's, though another thread launches it, between launches   *)
(* for other streams.                                                      *)
LaunchedOnItsCores ==
  [][\A c \in Calls : task[c] = "running" /\ task'[c] = "launched" =>
       boundStream'[runner[c]] = stream[c] /\ tiledOn[c] = stream[c]]_vars

(* The handles are released by the launch, never before it, and only a     *)
(* call that raised, failed or was discarded leaves them behind.           *)
ReleasedByLaunch ==
  \A c \in Calls :
    /\ handles[c] = "released" => task[c] = "launched"
    /\ handles[c] = "live" /\ Ended(c) =>
         pc[c] = "raised" \/ task[c] \in {"queued", "running", "failed", "dropped"}

(* A thread that is outside the operator has its thread-local caches off,  *)
(* unless its last call raised.                                            *)
LocalsLeakOnlyOnRaise ==
  \A t \in Threads : localOn[t] =>
    \E c \in Calls : /\ thread[c] = t
                     /\ pc[c] # "returned"
                     /\ \A d \in Calls : thread[d] = t /\ d > c => pc[d] = "raised"

(* Every call ends and nothing stays queued: the kernel is launched, or    *)
(* the call or its closure failed.                                         *)
Settles ==
  \A c \in Calls :
    InCall(c) ~> Ended(c) /\ task[c] \notin {"queued", "running"}
=============================================================================
