-------------------------- MODULE TimingRun_proofs --------------------------
(***************************************************************************)
(* The safety of a multiprocess timing run, for any number of workers and  *)
(* any timeout: the barriers keep the phases apart, a passed run was timed *)
(* and checked on every device, and a failed launcher leaves no worker     *)
(* running that it has not told to stop.                                   *)
(***************************************************************************)
EXTENDS TimingRun, TLAPS

Launching == {"spawning", "started", "warmup", "released", "timing", "collecting",
              "passed", "failed", "abandoned", "killed"}

(* What a worker does before it passes the first barrier, from there on,   *)
(* and from the second barrier on.                                         *)
ToWarm == {"none", "setup", "ready warmup", "await warmup"}
Timed == {"timing", "checking", "reporting", "ok"}
Warmed == {"warming", "ready timing", "await timing"} \cup Timed

TypeOK ==
  /\ launcher \in Launching
  /\ spawned \in 0 .. Workers
  /\ patience \in 0 .. Timeout
  /\ dir \in BOOLEAN
  /\ start \in SUBSET Barriers
  /\ collected \in Nat
  /\ signalled \in SUBSET Ranks
  /\ worker \in [Ranks -> {"error"} \cup ToWarm \cup Warmed]
  /\ left \in [Ranks -> 0 .. Timeout]
  /\ ready \in [Barriers -> SUBSET Ranks]
  /\ timed \in SUBSET Ranks
  /\ result \in SUBSET Ranks

(* Workers are started in the order of their ranks, all of them before the *)
(* launcher goes to the first barrier.                                     *)
SpawnedOK ==
  /\ \A w \in Ranks : worker[w] = "none" <=> spawned < w
  /\ launcher = "spawning" => spawned < Workers
  /\ launcher \notin {"spawning", "failed", "abandoned", "killed"} => spawned = Workers

(* A barrier is released when all ready files are there, in order.         *)
StartOK ==
  /\ \A b \in start : ready[b] = Ranks
  /\ launcher \in {"spawning", "started", "warmup", "abandoned"} => start = {}
  /\ launcher \in {"released", "timing"} => start = {"warmup"}
  /\ launcher \in {"collecting", "passed"} => "timing" \in start
  /\ "timing" \in start => "warmup" \in start

(* A worker that is ready has got that far, and one that went on was       *)
(* released.                                                               *)
WorkersOK ==
  \A w \in Ranks :
    /\ w \in ready["warmup"] => worker[w] \notin {"none", "setup"}
    /\ w \in ready["timing"] => worker[w] \notin ToWarm \cup {"warming"}
    /\ worker[w] \in Warmed => "warmup" \in start
    /\ worker[w] \in Timed => "timing" \in start
    /\ worker[w] \in {"checking", "reporting", "ok"} => w \in timed
    /\ worker[w] \in {"reporting", "ok"} => w \in result

(* Nobody passes a barrier once the directory is gone.                     *)
OutcomeOK ==
  /\ launcher = "passed" => \A w \in Ranks : worker[w] = "ok"
  /\ launcher \in {"failed", "abandoned"} => ~dir
  /\ NoneLeftRunning

IInv == TypeOK /\ SpawnedOK /\ StartOK /\ WorkersOK /\ OutcomeOK

-----------------------------------------------------------------------------

LEMMA Sizes ==
  /\ Workers \in Nat /\ Workers >= 1 /\ Timeout \in Nat /\ Timeout >= 1
  /\ Timeout \in 0 .. Timeout
  /\ \A n \in 0 .. Timeout : n \in Int /\ 0 <= n /\ n <= Timeout
  /\ \A n \in 0 .. Workers : n \in Int /\ 0 <= n /\ n <= Workers
BY TimingRunAssumption

(* IInv holds when the launcher begins to start workers.                   *)
THEOREM InitOK == Init => IInv
BY TimingRunAssumption
   DEF Init, IInv, TypeOK, Launching, Warmed, Timed, SpawnedOK, StartOK, WorkersOK,
       OutcomeOK, NoneLeftRunning, Alive, Ranks, Barriers, ToWarm

(* A worker's step leaves the launcher alone.  It must not enter a phase   *)
(* that was not released, nor outlive a launcher that has failed.          *)
LEMMA WorkerStep ==
  ASSUME IInv, TypeOK', NEW w \in Ranks, NEW next, UNCHANGED launcherVars,
         worker' = [worker EXCEPT ![w] = next], Alive(w), next # "none",
         \A b \in start : ready'[b] = Ranks,
         WorkersOK',
         launcher = "failed" => next \in {"ok", "error"} \/ w \in signalled,
         launcher = "abandoned" => next \in {"ok", "error", "ready warmup", "await warmup"}
  PROVE  IInv'
<1> USE DEF Alive, Exited
<1>1. /\ TypeOK /\ SpawnedOK /\ StartOK /\ WorkersOK /\ OutcomeOK
      /\ UNCHANGED <<launcher, spawned, patience, dir, start, collected, signalled>>
      /\ worker'[w] = next /\ \A v \in Ranks \ {w} : worker'[v] = worker[v]
  BY DEF IInv, launcherVars, TypeOK
<1>2. SpawnedOK'
  BY <1>1 DEF SpawnedOK
<1>3. StartOK'
  BY <1>1 DEF StartOK
<1>4. OutcomeOK'
  BY <1>1 DEF OutcomeOK, NoneLeftRunning
<1> QED BY <1>1, <1>2, <1>3, <1>4 DEF IInv

LEMMA AnnounceKeeps ==
  ASSUME IInv, NEW w \in Ranks, NEW from, NEW barrier \in Barriers, NEW next,
         Announce(w, from, barrier, next),
         \/ from = "setup" /\ barrier = "warmup" /\ next = "ready warmup"
         \/ from = "warming" /\ barrier = "timing" /\ next = "ready timing"
  PROVE  IInv'
<1> USE DEF Warmed, Timed, ToWarm
<1>1. TypeOK /\ WorkersOK /\ StartOK /\ OutcomeOK
  BY DEF IInv
<1>2. /\ worker[w] = from /\ worker' = [worker EXCEPT ![w] = next]
      /\ ready' = [ready EXCEPT ![barrier] = @ \cup {w}]
      /\ UNCHANGED launcherVars
      /\ UNCHANGED <<launcher, spawned, patience, dir, start, collected, signalled>>
      /\ UNCHANGED <<left, timed, result>>
  BY DEF Announce, launcherVars
<1>3. /\ ready' \in [Barriers -> SUBSET Ranks]
      /\ ready'[barrier] = ready[barrier] \cup {w}
      /\ \A b \in Barriers \ {barrier} : ready'[b] = ready[b]
  BY <1>1, <1>2 DEF TypeOK
<1>4. TypeOK'
  BY <1>1, <1>2, <1>3 DEF TypeOK
<1>5. WorkersOK'
  BY <1>1, <1>2, <1>3 DEF TypeOK, WorkersOK, Barriers
<1>6. \A b \in start : ready'[b] = Ranks
  <2> SUFFICES ASSUME NEW b \in start
               PROVE  ready'[b] = Ranks
    OBVIOUS
  <2>1. b \in Barriers /\ ready[b] = Ranks
    BY <1>1 DEF TypeOK, StartOK
  <2> QED BY <1>3, <2>1
<1>7. /\ Alive(w)
      /\ launcher = "failed" => w \in signalled
      /\ launcher = "abandoned" => worker[w] # "warming"
  BY <1>1, <1>2 DEF TypeOK, Alive, Exited, OutcomeOK, NoneLeftRunning
<1> QED BY <1>2, <1>4, <1>5, <1>6, <1>7, WorkerStep

LEMMA AwaitKeeps ==
  ASSUME IInv, NEW w \in Ranks,
         \/ Await(w, "ready warmup", "await warmup")
         \/ Await(w, "ready timing", "await timing")
  PROVE  IInv'
<1> USE DEF Await, Warmed, Timed, ToWarm
<1>1. TypeOK /\ WorkersOK /\ StartOK /\ OutcomeOK
  BY DEF IInv
<1>2. TypeOK'
  BY <1>1, Sizes DEF TypeOK, launcherVars
<1>3. WorkersOK'
  BY <1>1 DEF TypeOK, WorkersOK, launcherVars
<1>4. /\ Alive(w) /\ (launcher = "failed" => w \in signalled)
      /\ launcher = "abandoned" => worker[w] # "ready timing"
      /\ \A b \in start : ready'[b] = Ranks
  BY <1>1 DEF StartOK, OutcomeOK, NoneLeftRunning, Alive, Exited
<1> QED BY <1>2, <1>3, <1>4, WorkerStep

LEMMA GoOnKeeps ==
  ASSUME IInv, NEW w \in Ranks,
         \/ GoOn(w, "warmup", "await warmup", "warming")
         \/ GoOn(w, "timing", "await timing", "timing")
  PROVE  IInv'
<1> USE DEF GoOn, Started, Barriers, Warmed, Timed, ToWarm
<1>1. TypeOK /\ WorkersOK /\ StartOK /\ OutcomeOK
  BY DEF IInv
<1>2. TypeOK'
  BY <1>1 DEF TypeOK, launcherVars
<1>3. WorkersOK'
  BY <1>1 DEF TypeOK, WorkersOK, launcherVars
<1>4. /\ Alive(w) /\ launcher \notin {"failed", "abandoned"}
      /\ \A b \in start : ready'[b] = Ranks
  BY <1>1 DEF StartOK, OutcomeOK, Alive, Exited
<1> QED BY <1>2, <1>3, <1>4, WorkerStep

LEMMA WorkerEndsKeeps ==
  ASSUME IInv, NEW w \in Ranks,
         \/ Fail(w) \/ Exit(w)
         \/ GiveUp(w, "warmup", "await warmup") \/ GiveUp(w, "timing", "await timing")
  PROVE  IInv'
<1> USE DEF Fail, Exit, GiveUp, Warmed, Timed, ToWarm, Alive, Exited
<1>1. TypeOK /\ WorkersOK /\ StartOK
  BY DEF IInv
<1>2. TypeOK'
  BY <1>1 DEF TypeOK, launcherVars
<1>3. WorkersOK'
  BY <1>1 DEF TypeOK, WorkersOK, launcherVars
<1>4. \A b \in start : ready'[b] = Ranks
  BY <1>1 DEF StartOK
<1> QED BY <1>2, <1>3, <1>4, WorkerStep

LEMMA TimeReportKeeps ==
  ASSUME IInv, NEW w \in Ranks, Time(w) \/ Report(w)
  PROVE  IInv'
<1> USE DEF Time, Report, Warmed, Timed, ToWarm
<1>1. TypeOK /\ WorkersOK /\ StartOK /\ OutcomeOK
  BY DEF IInv
<1>2. TypeOK'
  BY <1>1 DEF TypeOK, launcherVars
<1>3. WorkersOK'
  BY <1>1 DEF TypeOK, WorkersOK, launcherVars
<1>4. /\ Alive(w) /\ (launcher = "failed" => w \in signalled) /\ launcher # "abandoned"
      /\ \A b \in start : ready'[b] = Ranks
  BY <1>1 DEF StartOK, OutcomeOK, NoneLeftRunning, Alive, Exited
<1> QED BY <1>2, <1>3, <1>4, WorkerStep

-----------------------------------------------------------------------------
(* The launcher's steps.                                                   *)

LEMMA SpawnKeeps ==
  ASSUME IInv, Spawn
  PROVE  IInv'
<1>1. TypeOK /\ SpawnedOK /\ StartOK /\ WorkersOK /\ OutcomeOK
  BY DEF IInv
<1>2. /\ spawned < Workers /\ spawned' = spawned + 1 /\ spawned' \in Ranks
      /\ worker[spawned'] = "none" /\ start = {} /\ launcher = "spawning"
  <2>1. spawned \in 0 .. Workers /\ spawned < Workers /\ spawned' = spawned + 1
    BY <1>1 DEF Spawn, TypeOK, SpawnedOK
  <2>2. spawned' \in Ranks /\ spawned < spawned'
    BY <2>1, TimingRunAssumption DEF Ranks
  <2> QED BY <1>1, <2>1, <2>2 DEF Spawn, SpawnedOK, StartOK
<1>3. /\ worker' = [worker EXCEPT ![spawned'] = "setup"]
      /\ UNCHANGED <<patience, dir, start, collected, signalled, left, ready, timed, result>>
      /\ launcher' = IF spawned' = Workers THEN "started" ELSE launcher
  BY DEF Spawn
<1>4. TypeOK'
  <2>1. spawned' \in 0 .. Workers
    BY <1>2, TimingRunAssumption DEF Ranks
  <2> QED BY <1>1, <1>2, <1>3, <2>1 DEF TypeOK, Launching, ToWarm
<1>5. SpawnedOK'
  <2>1. spawned \in Nat /\ spawned' <= Workers /\ Workers \in Nat
    <3>1. spawned \in 0 .. Workers
      BY <1>1 DEF TypeOK
    <3> QED BY <1>2, <3>1, Sizes DEF Ranks
  <2>2. \A w \in Ranks : worker'[w] = "none" <=> spawned' < w
    <3> SUFFICES ASSUME NEW w \in Ranks
                 PROVE  worker'[w] = "none" <=> spawned' < w
      OBVIOUS
    <3>1. w \in Nat /\ (worker[w] = "none" <=> spawned < w)
      BY <1>1, TimingRunAssumption DEF SpawnedOK, Ranks
    <3>2. worker'[w] = IF w = spawned' THEN "setup" ELSE worker[w]
      BY <1>1, <1>2, <1>3 DEF TypeOK
    <3> QED BY <1>2, <2>1, <3>1, <3>2
  <2> QED BY <1>2, <1>3, <2>1, <2>2 DEF SpawnedOK
<1>6. StartOK'
  BY <1>1, <1>2, <1>3 DEF StartOK
<1>7. WorkersOK'
  BY <1>1, <1>2, <1>3 DEF TypeOK, WorkersOK, Warmed, Timed
<1>8. OutcomeOK'
  BY <1>2, <1>3 DEF OutcomeOK, NoneLeftRunning
<1> QED BY <1>4, <1>5, <1>6, <1>7, <1>8 DEF IInv

LEMMA ReleaseKeeps ==
  ASSUME IInv, Release("warmup", "released") \/ Release("timing", "collecting")
  PROVE  IInv'
<1>1. /\ TypeOK /\ SpawnedOK /\ StartOK /\ WorkersOK /\ OutcomeOK
      /\ UNCHANGED <<worker, left, ready, timed, result>>
      /\ UNCHANGED <<spawned, patience, dir, collected, signalled>>
  BY DEF IInv, Release, workerVars
<1>2. \/ /\ launcher = "warmup" /\ launcher' = "released"
         /\ ready["warmup"] = Ranks /\ start' = start \cup {"warmup"}
      \/ /\ launcher = "timing" /\ launcher' = "collecting"
         /\ ready["timing"] = Ranks /\ start' = start \cup {"timing"}
  BY DEF Release, AllReady
<1>3. TypeOK'
  BY <1>1, <1>2 DEF TypeOK, Launching, Barriers
<1>4. SpawnedOK' /\ OutcomeOK'
  BY <1>1, <1>2 DEF SpawnedOK, OutcomeOK, NoneLeftRunning
<1>5. StartOK'
  BY <1>1, <1>2 DEF StartOK
<1>6. WorkersOK'
  BY <1>1, <1>2 DEF WorkersOK
<1> QED BY <1>3, <1>4, <1>5, <1>6 DEF IInv

LEMMA BeginWaitKeeps ==
  ASSUME IInv, BeginWait("started", "warmup") \/ BeginWait("released", "timing")
  PROVE  IInv'
<1>1. /\ TypeOK /\ SpawnedOK /\ StartOK /\ WorkersOK /\ OutcomeOK
      /\ UNCHANGED <<worker, left, ready, timed, result>>
      /\ UNCHANGED <<spawned, dir, start, collected, signalled>>
      /\ patience' = Timeout
      /\ \/ launcher = "started" /\ launcher' = "warmup"
         \/ launcher = "released" /\ launcher' = "timing"
  BY DEF IInv, BeginWait, workerVars
<1>2. TypeOK'
  BY <1>1, Sizes DEF TypeOK, Launching
<1>3. SpawnedOK' /\ StartOK' /\ WorkersOK' /\ OutcomeOK'
  BY <1>1 DEF SpawnedOK, StartOK, WorkersOK, OutcomeOK, NoneLeftRunning
<1> QED BY <1>2, <1>3 DEF IInv

(* A launcher that ends: it has signalled whoever still runs, or nobody    *)
(* has been released.                                                      *)
LEMMA LauncherEndsKeeps ==
  ASSUME IInv, UNCHANGED workerVars, UNCHANGED <<spawned, patience, start, collected>>,
         signalled' \in SUBSET Ranks,
         \/ launcher' = "killed" /\ dir' = dir
         \/ /\ launcher' = "failed" /\ dir' = FALSE
            /\ \A w \in Ranks : Alive(w) => w \in signalled'
         \/ /\ launcher' = "abandoned" /\ dir' = FALSE
            /\ launcher \in {"spawning", "started"}
         \/ launcher' = "passed" /\ dir' = FALSE /\ launcher = "collecting"
            /\ \A w \in Ranks : worker[w] = "ok"
  PROVE  IInv'
<1>1. /\ TypeOK /\ SpawnedOK /\ StartOK /\ WorkersOK /\ OutcomeOK
      /\ UNCHANGED <<worker, left, ready, timed, result>>
  BY DEF IInv, workerVars
<1>2. TypeOK'
  BY <1>1 DEF TypeOK, Launching
<1>3. SpawnedOK' /\ StartOK' /\ WorkersOK'
  BY <1>1 DEF SpawnedOK, StartOK, WorkersOK
<1>4. OutcomeOK'
  BY <1>1 DEF OutcomeOK, NoneLeftRunning, SpawnedOK, StartOK, WorkersOK, TypeOK,
       Alive, Exited, Warmed, Timed, ToWarm
<1> QED BY <1>2, <1>3, <1>4 DEF IInv

LEMMA LauncherKeeps ==
  ASSUME IInv, Abandon \/ Launch \/ Interrupt \/ Kill
  PROVE  IInv'
<1>1. TypeOK
  BY DEF IInv
<1>2. ASSUME Raise
      PROVE  IInv'
  <2>1. /\ launcher' = "failed" /\ dir' = FALSE
        /\ signalled' = {w \in Ranks : Alive(w)}
        /\ UNCHANGED workerVars /\ UNCHANGED <<spawned, patience, start, collected>>
    BY <1>2 DEF Raise, workerVars
  <2> QED BY <2>1, LauncherEndsKeeps
<1>3. CASE Collect
  <2>1. /\ collected' \in Nat
        /\ UNCHANGED <<launcher, spawned, patience, dir, start, signalled>>
        /\ UNCHANGED <<worker, left, ready, timed, result>>
    <3>1. collected \in Nat /\ collected' = collected + 1
      BY <1>1, <1>3 DEF Collect, TypeOK
    <3> QED BY <1>3, <3>1 DEF Collect, workerVars
  <2> QED BY <2>1 DEF IInv, TypeOK, SpawnedOK, StartOK, WorkersOK, OutcomeOK,
               NoneLeftRunning, Alive, Exited
<1>4. CASE Abandon \/ Kill \/ (Conclude /\ ~Raise)
  BY <1>1, <1>4, LauncherEndsKeeps
     DEF Abandon, Kill, Conclude, AllReturnedZero, TypeOK, workerVars
<1> QED BY <1>2, <1>3, <1>4, SpawnKeeps, BeginWaitKeeps, ReleaseKeeps
        DEF Launch, StopWaiting, Conclude, Interrupt

LEMMA TickKeeps ==
  ASSUME IInv, Tick
  PROVE  IInv'
<1>1. /\ TypeOK /\ SpawnedOK /\ StartOK /\ WorkersOK /\ OutcomeOK
      /\ UNCHANGED <<launcher, spawned, dir, start, collected, signalled, worker,
                     ready, timed, result>>
  BY DEF IInv, Tick
<1>2. \A n \in 0 .. Timeout : Less(n) \in 0 .. Timeout
  BY TimingRunAssumption DEF Less
<1>3. patience' \in 0 .. Timeout /\ left' \in [Ranks -> 0 .. Timeout]
  BY <1>1, <1>2 DEF Tick, TypeOK
<1> QED BY <1>1, <1>3
        DEF IInv, TypeOK, SpawnedOK, StartOK, WorkersOK, OutcomeOK, NoneLeftRunning,
            Alive, Exited

(* No step of a worker, of the launcher or of the clock leaves IInv.       *)
THEOREM StepOK == IInv /\ [Next]_vars => IInv'
<1> SUFFICES ASSUME IInv, [Next]_vars
             PROVE  IInv'
  OBVIOUS
<1>1. CASE UNCHANGED vars
  BY <1>1 DEF vars, launcherVars, workerVars, IInv, TypeOK, SpawnedOK, StartOK,
       WorkersOK, OutcomeOK, NoneLeftRunning, Alive, Exited
<1>2. ASSUME NEW w \in Ranks, DeviceWork(w) \/ HostWork(w) \/ Fail(w)
      PROVE  IInv'
  BY <1>2, AnnounceKeeps, AwaitKeeps, GoOnKeeps, WorkerEndsKeeps, TimeReportKeeps
     DEF DeviceWork, HostWork, Barriers
<1> QED BY <1>1, <1>2, LauncherKeeps, TickKeeps DEF Next

-----------------------------------------------------------------------------

(* IInv holds in every reachable state of a timing run.                    *)
THEOREM Invariance == Spec => []IInv
BY InitOK, StepOK, PTL DEF Spec

(* Workers warm up together and are timed together.                        *)
THEOREM PhasesCorrect == Spec => []PhasesTogether
<1>1. IInv => PhasesTogether
  BY DEF IInv, StartOK, WorkersOK, PhasesTogether, Warmed, Timed, ToWarm
<1> QED BY <1>1, Invariance, PTL

(* A run that passed was timed, checked and reported by every worker.      *)
THEOREM PassedCorrect == Spec => []PassedMeansAllTimed
<1>1. IInv => PassedMeansAllTimed
  BY DEF IInv, TypeOK, WorkersOK, OutcomeOK, PassedMeansAllTimed
<1> QED BY <1>1, Invariance, PTL

(* A launcher that failed has signalled whoever got past the first         *)
(* barrier.                                                                *)
THEOREM NoneLeftCorrect == Spec => []NoneLeftRunning
<1>1. IInv => NoneLeftRunning
  BY DEF IInv, OutcomeOK
<1> QED BY <1>1, Invariance, PTL
=============================================================================
