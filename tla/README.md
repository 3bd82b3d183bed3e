# A verification of the KV-cache scatter copy operator

This directory holds TLA+ models of the repository's program: the Ascend 950
operator `kvcache_scatter_copy`, which copies selected token rows of a paged
DRAM KV cache into slots of a paged HBM cache, and the tools that test and time
it. TLC checks the models on small instances; the TLA+ proof system proves every
safety property of theirs for every value of the constants.

Paths below are relative to the repository's root. `op_kernel/` and `op_host/`
are under `csrc/src/kvcache_scatter_copy/`, and `csrc/op_api_common.h`,
`csrc/npu_kvcache_scatter_copy.cpp` under `torch_extension/`.

* [The system](#the-system): components, state, interactions, what is hard
* [The modules](#the-modules): what each models and how it follows the code
* [The runs](#the-runs): questions, bounds, why they are enough
* [Fairness](#fairness)
* [The proofs](#the-proofs): theorems, assumptions, the argument
* [What is left out](#what-is-left-out)
* [Plan](#plan)

## The system

A call goes down these layers. Each row lists what the component keeps, what it
does, and what makes it correct.

| component | state | operations | correct when |
|---|---|---|---|
| Python package (`torch_extension/nanovllm_dsa_a5/__init__.py`) | the chosen library, two environment variables | choose one `libcust_opapi.so`, publish it, load `_C` | the library reported by `local_opapi_path()` is the one that runs |
| Torch operator (`csrc/npu_kvcache_scatter_copy.cpp`) | none | check the nine tensors, list the arguments, launch, return the two HBM caches | refuses exactly the calls whose result would be undefined; every tensor arrives under its own name |
| library lookup (`GetOpApiFuncAddr`) | cached handle of the named library, cached function addresses, the search path read at load time | look a function up, once per process | one library per call; no silent replacement of a library that fails to load |
| parameter conversion (`ConvertTypes`, `ReleaseConvertTypes`) | the handles of the arguments | look up the ACL functions, convert each argument, release after the launch | a handle for every argument, each destroyed once, after its use |
| ordered launch (`EXEC_NPU_CMD_ORDERED`) | tensor handles, workspace, closure, per-thread core limit and caches; torch_npu's task queue (external) | convert, `GetWorkspaceSize`, enqueue, run the closure later on another thread, release | memory alive until launched, thread order kept, launch on the cores it was tiled for, nothing released twice or early |
| operator definition (`op_host`) | none | register types and positions, infer the outputs | agrees with the operator's lists and the kernel's |
| host tiling (`op_host`, `TilingFunc`) | the tiling data | check shapes, choose cores, store 32-bit fields | the data describes the tensors; accepts what the operator's checks accept |
| kernel (`op_kernel`) | per core: scan position, cached row count, current and next address, two-deep queue of local buffers; the HBM cache | scan, resolve, copy in, copy out | every active pair copied, from its own source, nothing else written |
| test worker and multiprocess launcher (`tests/test_kvcache_scatter_copy*.py`) | ready and start files, deadlines, result files | set up, two barriers, time, report; spawn, release, wait, terminate | timed phases coincide; a passed run was passed by all; everything ends |
| sweep and analysis (`tests/run_scatter_copy_sweep.py`, `tests/analyze_scatter_copy_results.py`) | manifest, one JSON file per case, three summaries | run cases, record, summarise; a test started by hand writes there too | a sweep's manifest and summaries show no result from before it |

They interact through plain calls (operator to launcher), function-local statics
shared by threads (lookup), a closure handed to another thread (launch), tiling
data copied to the device (tiling to kernel), asynchronous transfers between
global and local memory (kernel), files polled by several processes (timing
run), and files left behind for later processes (sweep). The hard behaviours
follow:

* *In the kernel*, loads and stores complete while the scalar unit goes on; the
  load of the next pair is in flight while the current one is stored, and the
  address of a pair and its data travel separately (a variable and a queue).
  Cores stride over rows of different lengths with a cached count and a
  rounding jump. `PROJECT.json` names the lines.
* *In the launch*, a call has returned, and Python may have freed its tensors,
  before the kernel is launched by another thread whose core limit was bound
  for another stream; every step can throw.
* *Around the launch*, the closure and what it keeps alive are gone when the
  kernel has been queued on its stream, before it has run.
* *Between the layers*, tensors are known by position only, in lists that four
  files keep, and types by their position in a table.
* *In the conversion*, an ACL function may be missing, and any argument may raise
  after others have been converted, in an order the compiler chooses.
* *In the lookup*, what was read once is kept and what it was read from changes.
* *In the timing run*, two sides with separate deadlines wait for one another; a
  deadline begins after the file that lets the other side go on, and any of the
  processes may die.
* *In the sweep*, a run may be killed between two writes, its test lives on, the
  next sweep finds what they left, and a test started by hand writes to the same
  files whenever it ends.

`PROJECT.json` lists all of these as hazards with the lines where they bite and
the properties that would notice them going wrong. Two have no property: block
table entries beyond the cache are the caller's duty, and nothing in the
repository says what happens to them; and the narrowing of a dimension of 2^32 or
more, which `TilingSound` excludes (`FitsUint32`) and no check in the code does.

## The modules

```
ScatterPairs        address arithmetic and the reference (which pairs are active)
  ScatterCopy       what one call promises: halves of pairs move, in any order
  ScatterKernel     the kernel on its cores; INSTANCEs ScatterCopy
    MCScatterKernel launches for TLC
AclTypes            the table of ACL types
ScatterHost         the operator's checks, its argument lists, the operator
                    definition and TilingFunc (EXTENDS ScatterPairs, AclTypes)
  MCScatterHost     requests for TLC
ConvertParams       conversion and release of parameters (EXTENDS AclTypes)
  MCConvertParams   argument lists for TLC
OpApiResolve        import of the package and the library lookup
  MCOpApiResolve
OrderedCalls        what an ordered operator promises its callers
OrderedLaunch       EXEC_NPU_CMD_ORDERED and the task queue
  MCOrderedLaunch
  DeviceStreams     the same with the device and the reuse of memory;
                    INSTANCEs OrderedCalls
TimingRun           launcher and workers of one multiprocess run
SweepResults        sweeps and analyses over one results directory
  MCSweepResults
*_proofs            the theorems, for ScatterKernel (with ScatterPairs), for its
                    refinement of ScatterCopy, for ScatterHost, ConvertParams,
                    OpApiResolve, OrderedLaunch (with DeviceStreams), TimingRun
                    and SweepResults
```

`ScatterPairs` is the interface between host and kernel: the kernel's theorems
assume `IsLaunch`, and a theorem of the host's says that what is launched is one.
Definitions marked "a mistake" are not part of any model. Each is a
wrong variant of the definition it precedes; `PROJECT.json` pairs it with the
property that has to notice when it takes that definition's place.

### ScatterPairs, ScatterCopy, ScatterKernel

A *flat pair* is one slot of the `(batch, copy_cap)` metadata. `Resolves` is
`ResolveAddress`, `FirstFlatPairAtOrAfter` the function of that name,
`ClampedCount` the clamping in `FindNextValidPair`. A cache row is the unit, so
the scaling by bytes per row is left out. Since the call only reads DRAM, the
content of a DRAM row is represented by its index, and an HBM row that was not
written holds `Poison`, as in the repository's tests.

`ScatterKernel` has one action per iteration or branch of the code:

| code | action |
|---|---|
| `FindNextValidPair`, one iteration | `ScanCounted`, `ScanSkipRow`, `ScanEnd` |
| `ResolveAddress` | `ResolveOk`, `ResolveFail` |
| `CopyIn` (both the first and the next pair) | `CopyIn` |
| `CopyOut` and the rotation of current and next | `CopyOut` |
| completion of the transfers `DataCopyPad` issued | `LoadCkv`, `LoadKpe`, `StoreCkv`, `StoreKpe` |

`pc` is the position in `Process`; `cachedBatchIdx`, `cachedCopyCount`, `cur`
and `nxt` are the members and locals of the same purpose. A buffer goes through
`free, loadCkv, loadKpe, full, storeCkv, storeKpe`: the queue's `AllocTensor`,
`EnQue`, `DeQue` and `FreeTensor` are the waits for `free` and `full` and the
moves between them. On the device those waits stall the DMA pipes rather than
the scalar unit, which may thus run ahead through the scan. The model lets it
wait. The difference cannot be observed: what the scan reads (metadata, block
tables, its own variables) is never written during the call, and the order in
which each pipe and each buffer gets its work is the same.

`ScatterCopy` is the abstract specification: a set `pending` of halves (the CKV
row and the KPE row of every active pair), each moved exactly once, in any
order. `Abs` in `ScatterKernel` is the refinement mapping: a half is pending
while its pair is ahead of its core's scan or current, or while its store has
not completed.

### ScatterHost

`Requests` are calls of the operator: shapes, types, devices. The operator's
checks (`CheckScatterInputs`) raise or pass. Then the library accepts the call
(`LibraryAccepts`) if every argument has an ACL type, the types are among those
registered, and `TilingFunc` finds nothing wrong; it fails late otherwise. An
accepted call gets its tiling data, with the fields narrowed to 32 bits that the
code narrows. The model has one step per stage.

What passes between the layers passes by position, so the lists are modelled as
they stand in the files: `Arguments` of the macro, `InputIndex` of `op_host`, the
types by position in `Registered`, `KernelParameters`, the outputs in `Inferred`,
`Returned` and `SchemaAliases`. `TilingFunc` sees a tensor through two of them
(`Input`), the kernel through two others (`KernelMemory`); `KernelGetsItsTensors`
and `OutputsAgree` compare what comes out.

### AclTypes, ConvertParams

`AclTypes` is the table of types, by name. `ConvertParams` is `ConvertTypes` and
`ReleaseConvertTypes` with all their overloads. A parameter is a record of its
kind, whether it is there (an empty optional or an undefined tensor is not), its
type, and the items of a list. `ConvertType(i)` converts one argument, and the
arguments come in any order, because `std::make_tuple` leaves the order open: a
conversion may find no ACL function (a null handle), make handles, or raise.
`Use` and `Fail` are the launch, `Release` the release of one argument, from left
to right. Handles are counted as they are destroyed. `IsParameter` says which records
are parameters: an absent list has no items, and a scalar's type is one that
`at::Scalar::type()` can answer. The operator itself passes
tensors and two addresses only; the other kinds are what the macro accepts.

### OpApiResolve

The import chooses a library (`Candidates`), writes both variables
(`Configure`), and loads `_C`, whose globals copy the search path
(`LoadExtension`); importing torch_npu in between may raise (`TorchNpuFails`)
and the import be tried again. Each thread then goes through the macro's
statics in order. C++ lets one thread into the initializer of a static
(`EnterStatic`, `holder`), makes the others wait, and runs the initializer
again if it threw (`ExplicitMissing`). A lookup reads the variable, then, in the
initializer of `explicit_handler`, reads it again (`LoadExplicit`); the search
(`SearchVendor`) looks at one library per step, so files may come and go in the
middle of it. `disturbed` records what has been changed since the import: it
says under which disturbances a property is claimed. A vendor directory stands
for its library, and the CANN libraries, which nothing replaces and whose
handles therefore may as well be opened each time, are one library.

### OrderedLaunch

One action per stage of the macro. `Enter` is everything up to the converted
parameters, including the core limit that is bound to the *thread*;
`GetWorkspaceSize` computes the tiling under it; `RunOpApiV2` copies the closure
into torch_npu's queue or, without a queue, runs it inline; `Launch` and
`LaunchRaises` are the closure's body, on whichever thread runs it. `keeps` is
what the closure's copy keeps alive, `handles` the aclTensor handles and huge
memory. The queue itself is external and modelled as a FIFO whose consumer may
discard what is queued after a failure and whose producers may be told of an
earlier failure instead of enqueueing.

### DeviceStreams, OrderedCalls

`DeviceStreams` extends `OrderedLaunch` with what follows the launch. `work` is
each stream's queue of kernels and of other owners' work; `Execute` is the
device. When the host holds no reference to a block any more (`Held`: Python's,
the frame's, the closure's), `HandOn` gives it to a new owner, whose work is
queued on the stream the block was allocated on, as torch_npu's caching allocator
does: the workspace's is the stream of the call, the tensors' any
stream. The new owner does not go through the task queue, which is more than
torch operators do and covers other threads and copies.

`OrderedCalls` is the abstract specification, as a caller sees it: a call is
begun by a thread on a stream; its kernel is run or lost, after the earlier calls
of that thread and stream; the call returns, or raises and is lost.
`ImplementsOrderedCalls` maps a kernel to open until the device has run it.
`LiveSpec` is the whole promise, that every call is answered included; its safety
part `Spec` is what the theorem states.

### TimingRun

`launcher` and `worker` are program counters; `ready` and `start` are the files
of the two barriers. The start files vanish with the launcher's temporary
directory, except when it is killed. Time is counted in ticks; a wait ends when
its patience is used up. On both sides writing the file and starting the next
deadline are two steps, as in the code: the worker's `Announce` and `Await`, the
launcher's `Release` and `BeginWait`. Between the two the other side may act on
the file, so either side's deadline may pass first, and a worker may give up
while the launcher is about to release it; nothing is claimed about which. One
round of polling (the files, the processes, the time) is one step; a launcher
that acts on what it saw a moment ago does no more than one that `Interrupt` ends
there.

`Fail` lets a worker end anywhere. `Abandon` is `Popen` raising, or an interrupt,
outside the block that terminates the workers; `Interrupt` is an exception
inside it, and `Kill` SIGKILL. What a worker does is split into `DeviceWork`, which
may hang, and `HostWork`, which does not.

### SweepResults

Case files and the manifest are replaced by a rename, one step each; the three
summaries are rewritten in place, so that opening and writing one are two steps
and `Kill` can fall in between.

Besides the tool that works on the directory, others write case files. A killed
sweep's test becomes an orphan that may still write (`OrphanWrites`, with `strays`
for all there ever were). And the multiprocess test may be started by hand:
without `--output` it writes to the case's file in the sweep's results directory
(`README.md:98`, `tests/scatter_cli.py:47-50`), which `TestByHand` may do at any
time, whatever tool is at work, and without touching the manifest.

A result is represented by the number of the run that wrote it. Sweeps and tests
started by hand are numbered as they come, after the `OldRuns` whose results are in
the directory at the start, with no manifest: every case may have the result of
any of them. A summary carries the number of the sweep whose manifest it was
made under, 0 if there was none. `Of(r, c, result)` says which results of case `c`
may stand for sweep `r`'s: its own, a stray's, and that of a test started by hand
which ended after the sweep began. `stopped` remembers that a tool was killed
until an analysis has ended.

## The runs

| run | asks | instance |
|---|---|---|
| `kernel_shapes` | do the scans of all cores visit every counted pair, for every combination of counts, with two buffers, and does the call end? | 7 sizes of launch on one or two cores, of up to 8 slots, with every row's count negative, 1 or beyond the cap; 114,834 states |
| `kernel_slots` | does the kernel implement `ScatterCopy` when slots fail to resolve, for each reason, or destinations repeat within or between cores? | two rows of two slots on two cores, 9 variants |
| `host` | do the checks and the library agree, does accepted data describe the tensors, and does every tensor arrive under its name? | every small well-formed call, and each with deviations; 32-bit arithmetic scaled to modulus 8 so that narrowing bites |
| `params` | which handles are made, used and destroyed, in any order of conversion? | the operator's own 13 arguments, and every pair of 38 arguments of other kinds, with lists of up to 2 items, each with no or any one ACL function missing; 335,834 states |
| `library` | which library does a call run while the variable is set and cleared and files come and go? | 2 threads, 2 vendor directories and one file elsewhere; about 1.9 million states |
| `library_ends` | do threads that wait for one another's initializers get through, when some throw? | 2 threads with 2 calls each, one library that may break |
| `ordered_launch` | memory, order, core limits, release, leaks | 2 threads, 2 streams, 3 calls, with and without the queue; 490,162 states |
| `ordered_launch_settles` | does every call end? | the same with 2 calls |
| `device` | is memory safe until the kernel has run, and does the launch keep the promise of `OrderedCalls`? | 2 threads, 2 streams, 2 calls, every block handed on at any time; 468,582 states |
| `timing_run` | barriers, deadlines, failures, hanging devices, termination | 3 workers, patience of 2 ticks; 580,410 states |
| `sweep` | do manifest, case files and summaries tell the truth after any history? | 2 cases, every plan, results of 2 old runs, then 3 sweeps or tests started by hand; 2,950,167 states up to exchange of the cases |

Why these bounds are enough to meet the interesting cases:

* *Kernel.* Two cores over rows of one to four slots make strides that stay
  within a row, step over whole rows, and land exactly on a row's beginning or
  past it; one core with up to eight pairs uses each of its buffers four times;
  with two slots for three cores a core stays unused. Beyond this the theorems
  take over, here and in every item below: whatever the runs check, except
  liveness, is proved for all sizes.
* *Host.* The modulus is scaled with the sizes; a product that wraps and one that
  does not both occur.
* *Library.* Two threads are enough for one to be inside an initializer another
  needs; three libraries for "the named one, the one searched first, another".
  The initial environment covers no library, one or two local ones, an
  unloadable one, one that lacks the operator or half of it. One call per thread
  (`MaxCalls`) suffices for safety, because addresses are kept; two are needed
  for a thread that throws and calls again while another waits. A helper
  function the call can do without, exported only by CANN, is in the second run.
* *Parameters.* Two arguments are enough for one to raise before, after or between
  the items of the other, since arguments do not share handles; one missing
  function at a time separates creating from destroying and items from lists.
* *Device.* Order relates two calls, and a block has one call that uses it.
* *Launch.* Three calls: one may fail, one be queued behind it, one be refused;
  and the consumer can come back to a stream after launching on another.
* *Timing.* Three workers distinguish the first, the last and one in the middle;
  two ticks let the two sides' waits overlap by all possible amounts, and either
  side's end first.
* *Sweep.* A third run is needed for a killed sweep's orphan to write under the
  sweep after next, and for a test started by hand to end between two sweeps; two
  old runs, for old results that do not belong together; two cases, for a plan
  that shrinks, grows or is reordered. The cases may be exchanged (`SwapCases`):
  the set of plans, the initial states and the properties are symmetric in them.

The properties, in one line each:

* Kernel: `CacheCoherent` (a row's count is never applied to another row),
  `QueueHoldsCurrent` (data and address stay together), `AllocCompletes` (two
  buffers suffice), `NoPairSkipped`, `Provenance`, `FinalContents`,
  `WrittenOnce`, `Termination`, `ImplementsScatterCopy`.
* Host: `TilingSound`, `LateFailureOnlyWhenEmpty` (the tiling refuses what the
  operator accepted only for an empty batch), `RaiseIsJustified` (nothing
  well-formed is refused), `KernelGetsItsTensors`, `OutputsAgree` (inference,
  schema, return value and the kernel's writes name the same two tensors).
* Parameters: `HandlesAccountedFor` (destroyed once, after the use, all of them),
  `UsesWhatWasGiven` (no argument silently becomes a null handle, in a process
  that found its functions).
* Library: `RunsReportedLibrary`, `OneLibraryPerCall`, `NoFallback`,
  `RetryKeepsLibrary`, `CallsEnd`.
* Launch: `MemoryHeld`, `LaunchedInCallOrder`, `LaunchedOnItsCores`,
  `ReleasedByLaunch`, `LocalsLeakOnlyOnRaise`, `Settles`.
* Device: `KernelMemoryUntouched`, `ImplementsOrderedCalls`.
* Timing: `PhasesTogether`, `PassedMeansAllTimed`, `NoneLeftRunning`,
  `EveryRunEnds`, `OnlyHungWorkRemains`.
* Sweep: `ManifestTruthful` (what a passed manifest lists has a result, and none
  from before the sweep), `StartedCasesFresh`, `SummaryFromOneRun` (a summary made
  under a manifest shows nothing from before its sweep), `SummaryMatchesManifest`
  (after a sweep that passed, all three summaries are there and of its cases).

Several of them mark a limit rather than a bare success. `LocalsLeakOnlyOnRaise`
and `ReleasedByLaunch` say that a call that raises does leave thread-local
memory initialised and handles unreleased, and that nothing else does.
`NoneLeftRunning` says that a failing `Popen`, or an interrupt before the block that
terminates the workers, leaves workers behind, but never past the first barrier. `OnlyHungWorkRemains` says that a launcher past the
last barrier waits for ever for a worker that hangs. `UsesWhatWasGiven` excepts
unsigned scalars, which become null pointers, and `KernelMemoryUntouched` tensors
of another stream, which the caller has to keep. `RunsReportedLibrary` says what
must not be done to the environment.

The four properties of the sweep let a test started by hand replace a sweep's
result, because the code does: the manifest of a sweep that passed goes on saying
"passed", and the next analysis mixes that result with the sweep's own. What they
exclude is a result from before the sweep, except an orphan's. Of directories
without a manifest, where an analysis takes every case file there is, they say
nothing. `SummaryMatchesManifest` excepts directories where a tool was killed, until
the next analysis has come to its end, which has to put right whatever the kill
left.

`host` and `params` and no other run have `CHECK_DEADLOCK FALSE`: a call that was
launched or refused, and arguments that were released, are at their end.

Only the kernel has a type invariant among the checked properties; elsewhere the
comments at the variables say what they hold.

To repeat a run: `tlc -config MCScatterKernelShapes.cfg MCScatterKernel` and
likewise for the others; `tlapm ScatterKernel_proofs.tla` for the proofs.

## Fairness

* *Kernel:* weak fairness for each core's scalar unit and for each buffer's
  transfer. They run independently on the device, and each stays enabled until
  it happens.
* *Lookup:* weak fairness for a thread that is inside a call. Nobody owes a call,
  an import or a change of the environment. A thread that waits for an
  initializer gets in because the others make finitely many calls (`MaxCalls`);
  without that bound the C++ runtime promises no turn to anybody.
* *Launch:* weak fairness for a caller inside the operator and for the closure
  at the head of the queue. Python owes neither a call nor the release of its
  tensors.
* *Device:* as for the launch, and every stream goes on. Nobody has to hand
  memory on.
* *Timing run:* launcher and workers run, signals arrive, time passes. Nothing has
  to fail and nothing has to succeed, and work on a device may hang:
  `EveryRunEnds` has its return as a premise, `OnlyHungWorkRemains` has not.
* The host, parameter and sweep models are checked for safety only.

## The proofs

| theorem | module | says |
|---|---|---|
| `TypeCorrect`, `CacheCorrect`, `QueueCorrect`, `AllocCorrect`, `ProvenanceCorrect`, `NoPairSkippedCorrect`, `FinalCorrect`, `WrittenOnceCorrect` | `ScatterKernel_proofs` | the property each is named for always holds, for any number of cores, any block size, any set of launches |
| `FirstFlatPairIsLeast`, `TokensInCache` | `ScatterKernel_proofs` | the jump lands on the least pair of the stride; resolved rows lie in the caches |
| `Refinement` | `ScatterRefinement_proofs` | `Spec => Abs!Spec`: the kernel implements the abstract scatter copy |
| `TilingCorrect`, `LateFailureCorrect`, `RaiseCorrect` | `ScatterHost_proofs` | the agreements between checks, tiling and tensors: what is accepted is described, what is refused is refused by both sides but for an empty batch |
| `KernelTensorsCorrect`, `OutputsCorrect` | `ScatterHost_proofs` | every tensor arrives under its name; inference, schema, return value and the kernel's writes agree |
| `LaunchesCorrect` | `ScatterHost_proofs` | host and kernel fit together: whatever is launched is an `IsLaunch`, if its block tables stay inside their caches |
| `HandlesCorrect`, `UsesCorrect` | `ConvertParams_proofs` | handles are accounted for and what was given is used, for any arguments, any order, any missing functions |
| `MemoryHeldCorrect`, `LaunchOrderCorrect`, `ReleaseCorrect`, `LocalsCorrect`, `CoresCorrect` | `OrderedLaunch_proofs` | memory, order, handles, thread-local caches and core limits of the launch, for any number of threads, streams and calls |
| `DeviceMemoryCorrect` | `OrderedLaunch_proofs` | memory that is handed on is not overwritten under a kernel |
| `DeviceImplementsOrderedCalls` | `OrderedLaunch_proofs` | `DeviceSpec => Abstract!Spec`: launch and device together take only the steps of `OrderedCalls` |
| `ReportedLibraryCorrect`, `OneLibraryCorrect`, `NoFallbackCorrect`, `RetryCorrect` | `OpApiResolve_proofs` | which library runs, for any libraries, search path, threads, calls and disturbances |
| `InitializersCorrect`, `AddressesKept` | `OpApiResolve_proofs` | the macro's statics: one thread at a time initialises each, waiting threads never wait for one another in a circle, an address once found is kept |
| `PhasesCorrect`, `PassedCorrect`, `NoneLeftCorrect` | `TimingRun_proofs` | the timing run's barriers and outcomes, for any number of workers and any timeout |
| `ManifestCorrect`, `FreshCorrect`, `OneRunCorrect`, `SummaryCorrect` | `SweepResults_proofs` | what the results directory says, for any cases and plans, any old results, any number of sweeps, analyses, kills and tests started by hand |

So every invariant and every action property the passing runs check is also a
theorem.

*Assumptions* are on constants only, and TLC evaluates them in the runs.

* `BlockSizeAssumption`: a positive block size. `LaunchesAssumption`: launches are
  `IsLaunch`, that is the host's tiling data, tensors of the checked sizes, block
  tables that do not point beyond their cache; and no more cores than the device
  has. That every launched call is one, whatever its tensors contain, is the
  theorem `LaunchesCorrect`, for calls whose batch size and HBM table width fit 32
  bits (`FitsUint32`) and whose block tables stay inside their cache; the latter is
  the caller's duty, as the code leaves it.
* `HostAssumption`: the limits and the number of cores fit the stored fields;
  shapes are sequences of natural numbers.
* `ConvertAssumption`: argument lists are finite sequences of `IsParameter` records.
* `OpApiAssumption`: search paths are sequences of vendor directories, and the
  macro has at least one function to look up; `None`, `Cann` and `Program` are no
  libraries, and `None` is no thread.
* `OrderedLaunchAssumption`: the consumer is not a caller's thread, and `None` is
  neither a thread nor a stream.
* `TimingRunAssumption`: at least one worker, and waits of at least one tick.
* `SweepAssumption`: a plan is not empty and names no case twice, as `integer_list`
  in `run_scatter_copy_sweep.py` ensures; the bound on runs leaves room for the old
  ones.

*The inductive invariants.* Few of the properties are inductive as they stand, so
each component has an `IInv` that is. The comments in the
proof modules state its parts one by one.

*The kernel's* has six parts. Neither
`FinalContents` nor `NoPairSkipped` is inductive: a buffer could hold the wrong
row, or a core be somewhere it cannot be.

* `TypeOK` and `CacheCoherent`: the scan decides by the right count.
* `CoreOK`, for each core: `ScanOK` (the scan is on the core's stride and, past a
  `resolve` or `copyin`, on a pair that is counted and resolves), `PairsOK` (the
  current and next pairs are active, on the stride and behind the scan),
  `QueueOK` (which buffers are enqueued, that they are distinct, and which pair
  each was loaded for) and `BufferOK` (at every stage, which halves of a buffer
  already hold its pair's source row).
* `Provenance`: needed to say that what is in HBM came from a writer of that row.
* `NoPairSkipped`: a pair behind the scan is current, being stored, or settled.

Each action has a lemma for the part of a core it moves, and one lemma carries
the cores it does not touch. The scan's jump is the arithmetical heart:
`FirstFlatPairIsLeast` shows by division and remainder that no pair of the
stride lies between the row's end and where the jump lands, so what is jumped
over is uncounted. `FinalContents` follows from `NoPairSkipped` when every scan
has ended, and `WrittenOnce` from `BufferOK` and the distinctness of the
destinations: a row that is written has a single writer, whose source is what it
holds already.

*The refinement of `ScatterCopy`* uses the same invariant. All steps but the two
completions of a store leave `pending` unchanged, which is shown core by core
(`QuietStep`); the scan may only pass pairs that are not active. A completed store
removes exactly its half, because no other core, buffer or scan position accounts
for that pair (`StoredOnce`, `UnionLoses`), and writes what `MoveCkv` or `MoveKpe`
would write, by `BufferOK`.

*The host's*, `HostInv`, says that a launched call was accepted by the
library and has the tiling data of its tensors. The work is in the lemmas:
`PositionsAgree` and `KernelPositions` compose the lists, `SeenShapes` and
`TypesAccepted` say what `op_host` sees of a request through them, and
`TilingDataSound` does the arithmetic. `RaiseCorrect` goes the other way:
`TypesRecovered` reads the torch type back from the ACL type, which is possible
because no two registered types share one, and `AcceptedIsChecked` derives every
check of the operator from what `TilingFunc` accepts. `LaunchesCorrect` joins host
and kernel: `IsLaunchOf` is a call as the kernel finds it, and `TilingSound` makes
it an `IsLaunch`.

*The conversion's*: `ConvertedOK` (until something raises, the handles of an
argument are exactly those `MadeBy` it, if it has been converted, and a call
that goes on has converted them all) and `ReleasedOK` (exactly the arguments
before `next` have been destroyed, once each).

*The launch's* relates where a caller is to its closure. `CallerOK` and `ClosureOK`
say, per call, what each stage has done: a call between conversion and
enqueueing has live handles and a thread bound to its stream, a closure was
tiled on its own stream, an asynchronous one that has not run keeps what was
captured, an inline one runs exactly while its caller does. `LatestOfThread`
(a call going on is its thread's last), `QueueOK` (the queue holds the queued
closures, each once, each thread's in order) and `OldestFirst` (launched, running
and queued calls of a thread, in this sequence, are increasing) are what
`LaunchedInCallOrder` needs to be inductive.

*The device's*, `DInv`, adds that only what nobody holds has been handed on, on
the streams it belongs to (`HandedOnOK`); that a stream holds the kernels launched
on it and not run, each once and a thread's in order (`KernelsOK`); and that such
a kernel stands before whatever new owners of its memory queued there
(`KernelFirst`). `KernelMemoryUntouched` is `KernelFirst` seen from the new owner.
That memory once unneeded stays so (`StaysUnneeded`) is the step where reference
counting matters. For `DeviceImplementsOrderedCalls` each step is mapped: `Enter`
to `Begin`, the execution of a kernel to `Run`, returns and raises to `Return` and
`Lose`, everything else to a stutter; that the earlier calls of the thread and
stream have run or are lost before `Run` is `KernelsOK` with `OldestFirst`.

*The lookup's*: `ImportOK` (nothing is looked up before the import), `ChoiceOK`
(what variable, files and search path say as long as nobody has disturbed them),
`CallsOK` (a call checks what it has looked up), `HandlerOK` (what the cached
handle can be; while it is missing, `NothingFound`), `ReportedOK` and
`SameAnswerOK`. The last is the heart of `OneLibraryPerCall`: while nothing
changes there is one `Answer` to the search for any required function, and
every cached address is that answer and every search under way is still before
it. `VendorComesFirst` shows that removing repetitions from the search path keeps
the chosen vendor in front. `HoldersOK` is separate: who holds a static is inside
its initializer and nobody else is, so whoever waits for one waits for a thread
that can go on, and nobody overwrites an address.

*The timing run's*: `SpawnedOK` (workers exist in the order of their ranks),
`StartOK` (which start files each state of the launcher implies, and that all
ready files were there), `WorkersOK` (a worker that is ready got that far, one
that went on was released, one past its timing was timed) and `OutcomeOK`. The
deadlines play no part in it: the safety properties hold whoever gives up first.

*The sweep's*: `ControlOK` (which tool is where, and the manifest's status then),
`CasesOK` (cases behind the current one have a result, and no started one has one
from before the sweep), `RowsOK` (rows being written are `Current`: of the latest
sweep's cases, and of results that may stand for its own) and `SummariesOK` (no
summary is older than its sweep; after a sweep that passed they are current
whenever no analysis is under way, unless a tool was killed). An analysis on its
own leaves the summaries alone until it has loaded the case files (`Resting`),
which may fail. What stands for a sweep's result only grows, since strays and
tests started by hand are never forgotten, and a test started by hand has a
number above that of every sweep before it (`CasesStay`, `SummariesStay`,
`TestByHandKeeps`).

*Only model-checked:* liveness, which the prover cannot handle under fairness:
`Termination`, `Settles`, `CallsEnd`, `EveryRunEnds`, `OnlyHungWorkRemains`, the
fairness of `Abs!FairSpec` in `ImplementsScatterCopy`, and `Answered` in
`ImplementsOrderedCalls`.

## What is left out

* Formats, strides and storage sizes of ACL tensors, and the compile options of
  the operator's registration: data handed on, which nothing in this repository
  reads.
* The hash of arguments (`AddParamToBuf`, `CalcHashId`) and `ConvertTensorToScalar`:
  declared in `csrc/op_api_common.h` and never called.
* Bytes within a row, padding and alignment of the transfers, the size of local
  memory: the copy is by whole rows.
* The numbers: averages, bandwidths, formatting, command-line parsing
  (`format_scatter_copy_csv.py`, `scatter_config.py`, `scatter_cli.py`) and the
  consistency checks of `scatter_results.py` beyond whether a case file loads.
* A case with several files in one directory, under the historical names, which
  the analysis refuses; a test started by hand with another configuration than
  the sweep's, which the consistency checks may refuse. An analysis or a sweep
  beside another one: the tools do not lock the directory, and one tool at a time
  is what the models assume.
* What summaries say after a sweep that did not pass: those of an earlier sweep
  stay as they are, and nothing in the repository promises more.
* Making a random case and the build itself: compiler, file and random-number
  work; of the build, `OpApiResolve` keeps that libraries vanish and appear.
* An explicit library path with too few directories above it, for which the
  import raises before it has changed anything.
* `test_scatter_tools.py`: tests of the tools.
* torch_npu, CANN and the C++ runtime, except as the code relies on them: marked
  external in `PROJECT.json`.

## Plan

The order followed so far is the order of importance: kernel, host, launch,
sweep, timing run, lookup, then the layers between them (argument lists,
conversion) and the device. Next, on the model side:

1. `SweepResults`: the consistency checks that make a case file unusable, and
   exit codes of the tools.
2. `TimingRun`: the worker's data checks as states of their own.

On the proof side every safety property is a theorem. What would add to that:

1. Consequences of the abstract specifications, as theorems of `ScatterCopy` and
   `OrderedCalls`, which the refinements then carry to the code.
2. More of the safety half of the liveness properties: that a waiting launcher or
   worker has time left (`TimingRun`), that a call that has not ended has a step
   to take (`OrderedLaunch`).
3. The launch joined to the conversion: that the handles `OrderedLaunch` counts as
   one are those `ConvertParams` makes.
