------------------------------ MODULE TimingRun ------------------------------
(***************************************************************************)
(* One multiprocess timing run: the launcher of test_kvcache_scatter_copy_ *)
(* multiprocess.py and the workers of test_kvcache_scatter_copy.py it      *)
(* starts, one process per device.                                         *)
(*                                                                         *)
(* They meet at two barriers made of files in the launcher's temporary     *)
(* directory: every worker writes a ready file and polls for a start file, *)
(* the launcher polls for all the ready files and writes the start file.   *)
(* Either side gives up after a timeout, a worker can fail at any point,   *)
(* and the launcher can be killed.  A deadline is counted from the moment  *)
(* its wait begins, which is a step after the file that lets the other     *)
(* side go on was written.                                                 *)
(***************************************************************************)
EXTENDS Integers

CONSTANTS
  Workers,   \* the ranks, 1 .. Workers
  Timeout    \* the patience of a wait, in ticks (600 s in the code)

ASSUME TimingRunAssumption == Workers \in Nat \ {0} /\ Timeout \in Nat \ {0}

Ranks == 1 .. Workers

VARIABLES
  launcher,   \* spawning, started, warmup or timing (waiting at that
              \* barrier), released (the first), collecting; passed, failed,
              \* abandoned or killed
  spawned,    \* the number of workers started
  patience,   \* ticks until the launcher's current wait ends
  dir,        \* does the temporary directory exist?
  start,      \* the start files that were written
  collected,  \* the number of workers the launcher has waited for
  signalled,  \* the workers it has terminated
  worker,     \* none, setup, ready warmup, await warmup, warming,
              \* ready timing, await timing, timing, checking, reporting, ok
              \* or error
  left,       \* ticks until each worker's current wait ends
  ready,      \* per barrier: the workers whose ready file was written
  timed,      \* the workers that have done all their timed iterations
  result      \* the workers whose result file was written

launcherVars == <<launcher, spawned, patience, dir, start, collected, signalled>>
workerVars == <<worker, left, ready, timed, result>>
vars == <<launcherVars, workerVars>>

(* Definitions marked "a mistake" are wrong variants of the definition     *)
(* they precede, kept to show which property would notice them.            *)

Barriers == {"warmup", "timing"}

Init ==
  /\ launcher = "spawning"
  /\ spawned = 0
  /\ patience = 0
  /\ dir = TRUE
  /\ start = {}
  /\ collected = 0
  /\ signalled = {}
  /\ worker = [w \in Ranks |-> "none"]
  /\ left = [w \in Ranks |-> 0]
  /\ ready = [b \in Barriers |-> {}]
  /\ timed = {}
  /\ result = {}

Exited(w) == worker[w] \in {"ok", "error"}
Alive(w) == worker[w] # "none" /\ ~Exited(w)

-----------------------------------------------------------------------------
(* The workers.                                                            *)

(* wait_for_start: write the ready file, then wait for the start file.     *)
Announce(w, from, barrier, next) ==
  /\ worker[w] = from
  /\ ready' = [ready EXCEPT ![barrier] = @ \cup {w}]
  /\ worker' = [worker EXCEPT ![w] = next]
  /\ UNCHANGED <<launcherVars, left, timed, result>>

Await(w, from, next) ==
  /\ worker[w] = from
  /\ left' = [left EXCEPT ![w] = Timeout]
  /\ worker' = [worker EXCEPT ![w] = next]
  /\ UNCHANGED <<launcherVars, ready, timed, result>>

(* The start files are gone with the launcher's temporary directory.       *)
Started(barrier) == dir /\ barrier \in start

GoOn(w, barrier, await, next) ==
  /\ worker[w] = await
  /\ Started(barrier)
  /\ worker' = [worker EXCEPT ![w] = next]
  /\ UNCHANGED <<launcherVars, left, ready, timed, result>>

(* A mistake: waiting for the start file without a deadline.               *)
WaitOn(w, barrier, await) == FALSE /\ UNCHANGED vars

GiveUp(w, barrier, await) ==
  /\ worker[w] = await
  /\ ~Started(barrier)
  /\ left[w] = 0
  /\ worker' = [worker EXCEPT ![w] = "error"]
  /\ UNCHANGED <<launcherVars, left, ready, timed, result>>

Time(w) ==
  /\ worker[w] = "timing"
  /\ timed' = timed \cup {w}
  /\ worker' = [worker EXCEPT ![w] = "checking"]
  /\ UNCHANGED <<launcherVars, left, ready, result>>

(* The copied data is compared again before the result is written.         *)
Report(w) ==
  /\ worker[w] = "checking"
  /\ result' = result \cup {w}
  /\ worker' = [worker EXCEPT ![w] = "reporting"]
  /\ UNCHANGED <<launcherVars, left, ready, timed>>

Exit(w) ==
  /\ worker[w] = "reporting"
  /\ worker' = [worker EXCEPT ![w] = "ok"]
  /\ UNCHANGED <<launcherVars, left, ready, timed, result>>

(* Case setup and data checks, the warm-up, the timed iterations and the   *)
(* last data check: everything that waits for the device.                  *)
DeviceWork(w) ==
  \/ Announce(w, "setup", "warmup", "ready warmup")
  \/ Announce(w, "warming", "timing", "ready timing")
  \/ Time(w) \/ Report(w)

HostWork(w) ==
  \/ Await(w, "ready warmup", "await warmup")
  \/ GoOn(w, "warmup", "await warmup", "warming")
  \/ GiveUp(w, "warmup", "await warmup")
  \/ Await(w, "ready timing", "await timing")
  \/ GoOn(w, "timing", "await timing", "timing")
  \/ GiveUp(w, "timing", "await timing")
  \/ Exit(w)

(* An exception, a failed check, a signal: a worker can end at any point.  *)
Fail(w) ==
  /\ Alive(w)
  /\ worker' = [worker EXCEPT ![w] = "error"]
  /\ UNCHANGED <<launcherVars, left, ready, timed, result>>

Terminated(w) == w \in signalled /\ Fail(w)

-----------------------------------------------------------------------------
(* The launcher.                                                           *)

Spawn ==
  /\ launcher = "spawning"
  /\ spawned' = spawned + 1
  /\ worker' = [worker EXCEPT ![spawned'] = "setup"]
  /\ launcher' = IF spawned' = Workers THEN "started" ELSE launcher
  /\ UNCHANGED <<patience, dir, start, collected, signalled, left, ready, timed,
                 result>>

(* Popen raises, or an interrupt comes, before the block that terminates   *)
(* the workers.                                                            *)
Abandon ==
  /\ launcher \in {"spawning", "started"}
  /\ launcher' = "abandoned"
  /\ dir' = FALSE
  /\ UNCHANGED <<spawned, patience, start, collected, signalled, workerVars>>

(* wait_until_ready starts its deadline when it is called.                 *)
BeginWait(from, barrier) ==
  /\ launcher = from
  /\ launcher' = barrier
  /\ patience' = Timeout
  /\ UNCHANGED <<spawned, dir, start, collected, signalled, workerVars>>

(* A mistake: going on when one worker is ready.                           *)
AnyReady(barrier) == ready[barrier] # {}

AllReady(barrier) == ready[barrier] = Ranks

(* Write the start file: the workers may go on from here.                  *)
Release(barrier, next) ==
  /\ launcher = barrier
  /\ AllReady(barrier)
  /\ start' = start \cup {barrier}
  /\ launcher' = next
  /\ UNCHANGED <<spawned, patience, dir, collected, signalled, workerVars>>

(* A mistake: leaving the workers to themselves.                           *)
LeaveWorkers ==
  /\ launcher' = "failed"
  /\ dir' = FALSE
  /\ UNCHANGED <<spawned, patience, start, collected, signalled, workerVars>>

(* Terminate what still runs, without waiting for it, and remove the       *)
(* directory.                                                              *)
Raise ==
  /\ launcher' = "failed"
  /\ dir' = FALSE
  /\ signalled' = {w \in Ranks : Alive(w)}
  /\ UNCHANGED <<spawned, patience, start, collected, workerVars>>

(* A mistake: waiting for a failure only, without a deadline.              *)
StopOnFailure(barrier) ==
  /\ launcher = barrier
  /\ ~AllReady(barrier)
  /\ \E w \in Ranks : worker[w] = "error"
  /\ Raise

StopWaiting(barrier) ==
  /\ launcher = barrier
  /\ ~AllReady(barrier)
  /\ patience = 0 \/ \E w \in Ranks : worker[w] = "error"
  /\ Raise

Collect ==
  /\ launcher = "collecting" /\ collected < Workers
  /\ Exited(collected + 1)
  /\ collected' = collected + 1
  /\ UNCHANGED <<launcher, spawned, patience, dir, start, signalled, workerVars>>

(* A mistake: taking the results for the return codes.                     *)
AllReported == result = Ranks

AllReturnedZero == \A w \in Ranks : worker[w] = "ok"

Conclude ==
  /\ launcher = "collecting" /\ collected = Workers
  /\ \/ /\ AllReturnedZero
        /\ launcher' = "passed"
        /\ dir' = FALSE
        /\ UNCHANGED <<spawned, patience, start, collected, signalled, workerVars>>
     \/ ~AllReturnedZero /\ Raise

Launch ==
  \/ Spawn
  \/ BeginWait("started", "warmup")
  \/ Release("warmup", "released") \/ StopWaiting("warmup")
  \/ BeginWait("released", "timing")
  \/ Release("timing", "collecting") \/ StopWaiting("timing")
  \/ Collect \/ Conclude

Interrupt ==
  launcher \in {"started", "warmup", "released", "timing", "collecting"} /\ Raise

Ended == launcher \in {"passed", "failed", "abandoned", "killed"}

Kill ==
  /\ ~Ended
  /\ launcher' = "killed"
  /\ UNCHANGED <<spawned, patience, dir, start, collected, signalled, workerVars>>

-----------------------------------------------------------------------------

Less(n) == IF n = 0 THEN 0 ELSE n - 1

LauncherWaits == launcher \in Barriers
WorkerWaits(w) == worker[w] \in {"await warmup", "await timing"}

(* Time passes for everybody who is waiting.                               *)
Tick ==
  /\ patience' = IF LauncherWaits THEN Less(patience) ELSE patience
  /\ left' = [w \in Ranks |-> IF WorkerWaits(w) THEN Less(left[w]) ELSE left[w]]
  /\ UNCHANGED <<launcher, spawned, dir, start, collected, signalled, worker,
                 ready, timed, result>>

Over == Ended /\ \A w \in Ranks : ~Alive(w)

Next ==
  \/ Launch \/ Abandon \/ Interrupt \/ Kill
  \/ \E w \in Ranks : DeviceWork(w) \/ HostWork(w) \/ Fail(w)
  \/ Tick

Spec == Init /\ [][Next]_vars

(* The processes run, signals arrive and time passes.  Work on the device  *)
(* may hang, and nobody has to fail.                                       *)
FairSpec ==
  /\ Spec
  /\ WF_vars(Launch) /\ WF_vars(Tick)
  /\ \A w \in Ranks : WF_vars(HostWork(w)) /\ WF_vars(Terminated(w))

-----------------------------------------------------------------------------
(* Properties.                                                             *)

(* "all_workers_ready=1": while any worker warms up, none is still in its  *)
(* setup, and while any is timed, none is in setup or warm-up, so that the *)
(* timed iterations compete with each other and with nothing else.         *)
PhasesTogether ==
  \A v, w \in Ranks :
    /\ worker[v] \in {"warming", "ready timing", "await timing"} =>
         worker[w] \notin {"none", "setup"}
    /\ worker[v] \in {"timing", "checking", "reporting", "ok"} =>
         worker[w] \notin {"none", "setup", "ready warmup", "await warmup", "warming"}

(* A run that is reported as passed was timed on every device, each worker *)
(* checked its data afterwards, and none of them failed or gave up.        *)
PassedMeansAllTimed ==
  launcher = "passed" => /\ timed = Ranks /\ result = Ranks
                         /\ \A w \in Ranks : worker[w] = "ok"

(* A launcher that failed has signalled every worker that still runs.  One *)
(* that ended before the block that does so leaves workers behind, which   *)
(* never get past the first barrier.                                       *)
NoneLeftRunning ==
  \A w \in Ranks : Alive(w) =>
    /\ launcher = "failed" => w \in signalled
    /\ launcher = "abandoned" =>
         worker[w] \in {"setup", "ready warmup", "await warmup"}

(* However the run goes, the launcher and all its workers end, also the    *)
(* workers of a launcher that was killed, if work on the device returns.   *)
DeviceReturns == \A w \in Ranks : WF_vars(DeviceWork(w))

EveryRunEnds == DeviceReturns => <>Over

(* Work that hangs holds nobody up at a barrier: in the end a worker lives *)
(* on only if it hangs itself and nobody has told it to stop, and the      *)
(* launcher waits only for such a worker, after the last barrier.          *)
Hung(w) ==
  worker[w] \in {"setup", "warming", "timing", "checking"} /\ w \notin signalled

OnlyHungWorkRemains ==
  <>[](/\ \A w \in Ranks : Alive(w) => Hung(w)
       /\ \/ Ended
          \/ /\ launcher = "collecting" /\ collected < Workers
             /\ Hung(collected + 1)
             /\ worker[collected + 1] \in {"timing", "checking"})
=============================================================================
