------------------------ MODULE OrderedLaunch_proofs ------------------------
(***************************************************************************)
(* The safety of the launch, for any number of threads, streams and calls, *)
(* with and without the task queue; then the same with the device: memory, *)
(* and the promise of OrderedCalls.                                        *)
(***************************************************************************)
EXTENDS DeviceStreams, TLAPS

Waiting == {"queued", "running"}

TypeOK ==
  /\ taskQueue \in BOOLEAN
  /\ pc \in [Calls -> {"idle", "converted", "sized", "running", "submitted",
                       "returned", "raised"}]
  /\ thread \in [Calls -> Threads \cup {None}]
  /\ stream \in [Calls -> Streams \cup {None}]
  /\ python \in [Calls -> BOOLEAN]
  /\ localOn \in [Threads -> BOOLEAN]
  /\ tiledOn \in [Calls -> Streams \cup {None}]
  /\ needsWs \in [Calls -> BOOLEAN]
  /\ handles \in [Calls -> {"none", "live", "released"}]
  /\ task \in [Calls -> {"none", "queued", "running", "launched", "failed", "dropped"}]
  /\ runner \in [Calls -> Runners \cup {None}]
  /\ keeps \in [Calls -> SUBSET Kinds]
  /\ queue \in Seq(Calls)
  /\ boundStream \in [Runners -> Streams \cup {None}]
  /\ launched \in Seq(Calls)

(* Where a caller is, and what it has done so far.                         *)
CallerOK(c) ==
  /\ IF pc[c] = "idle" THEN thread[c] = None /\ ~python[c] /\ ~needsWs[c]
                       ELSE thread[c] \in Threads /\ stream[c] \in Streams
  /\ pc[c] \in {"idle", "converted", "sized"} => task[c] = "none"
  /\ pc[c] \in {"converted", "sized"} =>
       handles[c] = "live" /\ boundStream[thread[c]] = stream[c]
  /\ pc[c] = "sized" \/ task[c] # "none" => tiledOn[c] = stream[c]
  /\ pc[c] = "running" => ~taskQueue /\ task[c] = "running"
  /\ pc[c] \in {"submitted", "returned"} => task[c] # "none"
  /\ pc[c] = "raised" => task[c] \in {"none", "failed"}

(* A closure in the queue, or run by the consumer, owns what was captured; *)
(* an inline one runs inside its call.                                     *)
ClosureOK(c) ==
  /\ task[c] \in Waiting => handles[c] = "live"
  /\ handles[c] = "released" <=> task[c] = "launched"
  /\ IF taskQueue
       THEN task[c] \in Waiting => keeps[c] = Captured(c)
       ELSE task[c] # "queued" /\ (task[c] = "running" => pc[c] = "running")
  /\ task[c] = "running" =>
       runner[c] = IF taskQueue THEN Consumer ELSE thread[c]

CallsOK == \A c \in Calls : CallerOK(c) /\ ClosureOK(c)

(* A call that is going on is its thread's last so far.                    *)
LatestOfThread ==
  /\ \A c, d \in Calls : d < c /\ pc[c] # "idle" => pc[d] # "idle"
  /\ \A c, d \in Calls : InCall(c) /\ thread[d] = thread[c] => d <= c

(* The queue holds the queued closures, each thread's in the order of its  *)
(* calls; a thread runs one at a time.                                     *)
QueueOK ==
  /\ \A i \in DOMAIN queue : task[queue[i]] = "queued"
  /\ \A c \in Calls : task[c] = "queued" => \E i \in DOMAIN queue : queue[i] = c
  /\ \A i, j \in DOMAIN queue :
       i < j => /\ queue[i] # queue[j]
                /\ thread[queue[i]] = thread[queue[j]] => queue[i] < queue[j]
  /\ \A c, d \in Calls :
       task[c] = "running" /\ task[d] = "running" /\ runner[c] = runner[d] => c = d

(* What has been launched is older than what still waits, and what runs is *)
(* older than what is queued.                                              *)
OldestFirst ==
  /\ \A i \in DOMAIN launched : task[launched[i]] = "launched"
  /\ \A c, d \in Calls :
       task[c] = "launched" /\ task[d] \in Waiting /\ thread[c] = thread[d] => c < d
  /\ \A c, d \in Calls :
       task[c] = "running" /\ task[d] = "queued" /\ thread[c] = thread[d] => c < d

IInv ==
  /\ TypeOK
  /\ CallsOK
  /\ LatestOfThread
  /\ QueueOK
  /\ OldestFirst
  /\ LaunchedInCallOrder
  /\ LocalsLeakOnlyOnRaise

-----------------------------------------------------------------------------
(* Sequences of calls.                                                     *)

LEMMA TailFacts ==
  ASSUME NEW S, NEW q \in Seq(S), q # <<>>
  PROVE  /\ 1 \in DOMAIN q /\ Head(q) = q[1] /\ Head(q) \in S
         /\ Tail(q) \in Seq(S)
         /\ \A i \in DOMAIN Tail(q) :
              i \in Nat \ {0} /\ i + 1 \in DOMAIN q /\ Tail(q)[i] = q[i + 1]
         /\ \A i \in DOMAIN q \ {1} :
              i - 1 \in DOMAIN Tail(q) /\ Tail(q)[i - 1] = q[i]
OBVIOUS

LEMMA AppendFacts ==
  ASSUME NEW S, NEW q \in Seq(S), NEW e \in S
  PROVE  /\ Append(q, e) \in Seq(S)
         /\ Len(q) \in Nat
         /\ DOMAIN Append(q, e) = DOMAIN q \cup {Len(q) + 1}
         /\ Append(q, e)[Len(q) + 1] = e
         /\ \A i \in DOMAIN q : /\ i \in Nat /\ i < Len(q) + 1
                                /\ q[i] \in S /\ Append(q, e)[i] = q[i]
OBVIOUS

-----------------------------------------------------------------------------
(* The invariant, action by action.                                        *)

(* IInv holds in every process before the first call.                      *)
THEOREM InitOK == Init => IInv
BY OrderedLaunchAssumption
   DEF Init, IInv, TypeOK, CallsOK, CallerOK, ClosureOK, LatestOfThread, QueueOK,
       OldestFirst, LaunchedInCallOrder, LocalsLeakOnlyOnRaise, InCall, Waiting, Calls

LEMMA EnterKeeps ==
  ASSUME IInv, NEW t \in Threads, NEW c \in Calls, NEW s \in Streams, Enter(t, c, s)
  PROVE  IInv'
<1>1. TypeOK /\ CallsOK /\ LatestOfThread /\ QueueOK /\ OldestFirst
      /\ LaunchedInCallOrder /\ LocalsLeakOnlyOnRaise
  BY DEF IInv
<1>2. /\ pc[c] = "idle" /\ task[c] = "none" /\ thread[c] = None
      /\ \A d \in Calls : thread[d] = t => d < c
      /\ \A d \in Calls : d > c => pc[d] = "idle"
  BY <1>1, OrderedLaunchAssumption
     DEF Enter, NextCall, CallsOK, CallerOK, LatestOfThread, Calls
<1>3. /\ pc' = [pc EXCEPT ![c] = pc'[c]] /\ pc'[c] \in {"raised", "converted"}
      /\ thread' = [thread EXCEPT ![c] = t] /\ stream' = [stream EXCEPT ![c] = s]
      /\ python' = [python EXCEPT ![c] = TRUE]
      /\ UNCHANGED <<taskQueue, tiledOn, needsWs, task, runner, keeps, queue, launched>>
  BY <1>1 DEF Enter, TypeOK
<1>4. TypeOK'
  <2>1. CASE UNCHANGED <<boundStream, localOn, handles>>
    BY <1>1, <1>3, <2>1 DEF TypeOK
  <2>2. CASE /\ boundStream' = [boundStream EXCEPT ![t] = s] /\ LocalsOn(t)
             /\ handles' = [handles EXCEPT ![c] = "live"]
    <3>1. localOn' \in [Threads -> BOOLEAN] /\ boundStream' \in [Runners -> Streams \cup {None}]
      BY <1>1, <2>2 DEF TypeOK, LocalsOn, Runners
    <3> QED BY <1>1, <1>3, <2>2, <3>1 DEF TypeOK
  <2> QED BY <2>1, <2>2 DEF Enter
<1>5. CallsOK'
  <2> SUFFICES ASSUME NEW d \in Calls
               PROVE  CallerOK(d)' /\ ClosureOK(d)'
    BY DEF CallsOK
  <2>1. CallerOK(d)'
    BY <1>1, <1>2, OrderedLaunchAssumption
       DEF Enter, TypeOK, CallsOK, CallerOK, InCall, Ended, Runners
  <2>2. ClosureOK(d)'
    BY <1>1, <1>2 DEF Enter, TypeOK, CallsOK, CallerOK, ClosureOK, Waiting, Captured
  <2> QED BY <2>1, <2>2
<1>6. LatestOfThread'
  <2>1. \A e, d \in Calls : d < e /\ pc'[e] # "idle" => pc'[d] # "idle"
    BY <1>1, <1>3 DEF Enter, NextCall, TypeOK, LatestOfThread
  <2>2. \A e \in Calls : InCall(e)' /\ thread'[e] = t => e = c
    BY <1>1, <1>3 DEF Enter, TypeOK, InCall, Ended
  <2>3. \A e \in Calls \ {c} : InCall(e)' => InCall(e) /\ thread'[e] = thread[e]
    BY <1>1, <1>3 DEF TypeOK, InCall, Ended
  <2>4. \A d \in Calls : thread'[d] = t => d <= c
    BY <1>1, <1>2, <1>3 DEF TypeOK, Calls
  <2>5. ASSUME NEW e \in Calls, NEW d \in Calls, InCall(e)', thread'[d] = thread'[e]
        PROVE  d <= e
    <3>1. CASE e = c
      BY <1>1, <1>3, <2>4, <2>5, <3>1 DEF TypeOK
    <3>2. CASE e # c
      BY <1>1, <1>3, <2>2, <2>3, <2>5, <3>2 DEF TypeOK, LatestOfThread
    <3> QED BY <3>1, <3>2
  <2> QED BY <2>1, <2>5 DEF LatestOfThread
<1>7. QueueOK'
  BY <1>1, <1>2, <1>3 DEF TypeOK, QueueOK
<1>8. OldestFirst'
  BY <1>1, <1>2, <1>3 DEF TypeOK, OldestFirst, Waiting
<1>9. LaunchedInCallOrder'
  BY <1>1, <1>2, <1>3 DEF TypeOK, OldestFirst, LaunchedInCallOrder
<1>10. LocalsLeakOnlyOnRaise'
  <2> SUFFICES ASSUME NEW u \in Threads, localOn'[u]
               PROVE  \E e \in Calls :
                        /\ thread'[e] = u /\ pc'[e] # "returned"
                        /\ \A d \in Calls : thread'[d] = u /\ d > e => pc'[d] = "raised"
    BY DEF LocalsLeakOnlyOnRaise
  <2>1. CASE u = t /\ pc'[c] = "converted"
    <3>1. \A d \in Calls : d > c => thread'[d] # t
      BY <1>1, <1>2, <1>3 DEF TypeOK, Calls
    <3> QED BY <1>1, <1>3, <2>1, <3>1 DEF TypeOK
  <2>2. CASE u # t \/ pc'[c] = "raised"
    <3>1. localOn[u]
      BY <1>1, <1>3, <2>2 DEF Enter, LocalsOn, TypeOK
    <3>2. PICK e \in Calls :
            /\ thread[e] = u /\ pc[e] # "returned"
            /\ \A d \in Calls : thread[d] = u /\ d > e => pc[d] = "raised"
      BY <1>1, <3>1 DEF LocalsLeakOnlyOnRaise
    <3>3. e # c /\ thread'[e] = u /\ pc'[e] = pc[e]
      BY <1>1, <1>2, <1>3, <3>2, OrderedLaunchAssumption DEF TypeOK
    <3>4. \A d \in Calls : thread'[d] = u /\ d > e => pc'[d] = "raised"
      BY <1>1, <1>3, <2>2, <3>2 DEF TypeOK
    <3> QED BY <3>2, <3>3, <3>4
  <2> QED BY <1>3, <2>1, <2>2
<1> QED BY <1>4, <1>5, <1>6, <1>7, <1>8, <1>9, <1>10 DEF IInv

(* Steps of a caller that touch no closure: it goes on to be sized, raised *)
(* or returned.                                                            *)
LEMMA CallerStepKeeps ==
  ASSUME IInv, NEW c \in Calls, InCall(c), CallsOK', TypeOK',
         NEW next \in {"sized", "returned", "raised"},
         pc' = [pc EXCEPT ![c] = next],
         UNCHANGED <<thread, task, runner, queue, launched>>,
         IF next = "returned" THEN localOn' = [localOn EXCEPT ![thread[c]] = FALSE]
                              ELSE UNCHANGED localOn
  PROVE  IInv'
<1>1. TypeOK /\ CallsOK /\ LatestOfThread /\ QueueOK /\ OldestFirst
      /\ LaunchedInCallOrder /\ LocalsLeakOnlyOnRaise
  BY DEF IInv
<1>2. LatestOfThread'
  BY <1>1 DEF TypeOK, LatestOfThread, InCall, Ended
<1>3. QueueOK' /\ OldestFirst' /\ LaunchedInCallOrder'
  BY <1>1 DEF QueueOK, OldestFirst, LaunchedInCallOrder
<1>4. LocalsLeakOnlyOnRaise'
  <2>1. /\ thread[c] \in Threads /\ pc[c] \notin {"returned", "raised"}
        /\ \A d \in Calls : thread[d] = thread[c] => ~(d > c)
    BY <1>1 DEF CallsOK, CallerOK, LatestOfThread, InCall, Ended, Calls
  <2> SUFFICES ASSUME NEW u \in Threads, localOn'[u]
               PROVE  \E e \in Calls :
                        /\ thread[e] = u /\ pc'[e] # "returned"
                        /\ \A d \in Calls : thread[d] = u /\ d > e => pc'[d] = "raised"
    BY DEF LocalsLeakOnlyOnRaise
  <2>2. localOn[u] /\ (u = thread[c] => next # "returned")
    BY <1>1, <2>1 DEF TypeOK
  <2>3. PICK e \in Calls :
          /\ thread[e] = u /\ pc[e] # "returned"
          /\ \A d \in Calls : thread[d] = u /\ d > e => pc[d] = "raised"
    BY <1>1, <2>2 DEF LocalsLeakOnlyOnRaise
  <2>4. \A d \in Calls : thread[d] = u /\ d > e => pc'[d] = "raised"
    BY <1>1, <2>1, <2>3 DEF TypeOK
  <2> QED BY <1>1, <2>2, <2>3, <2>4 DEF TypeOK
<1> QED BY <1>2, <1>3, <1>4 DEF IInv

LEMMA GetWorkspaceSizeKeeps ==
  ASSUME IInv, NEW c \in Calls, GetWorkspaceSize(c)
  PROVE  IInv'
<1> USE DEF GetWorkspaceSize
<1>1. TypeOK /\ CallsOK /\ InCall(c) /\ thread[c] \in Runners /\ task[c] = "none"
  BY DEF IInv, CallsOK, CallerOK, InCall, Ended, Runners
<1>2. TypeOK'
  BY <1>1 DEF TypeOK
<1>3. CallsOK'
  BY <1>1 DEF TypeOK, CallsOK, CallerOK, ClosureOK, Waiting, Captured
<1> QED BY <1>1, <1>2, <1>3, CallerStepKeeps

LEMMA CallerRaisesKeeps ==
  ASSUME IInv, NEW c \in Calls, GetWorkspaceSizeRaises(c) \/ RunOpApiV2Raises(c)
  PROVE  IInv'
<1> USE DEF GetWorkspaceSizeRaises, RunOpApiV2Raises
<1>1. TypeOK /\ CallsOK /\ InCall(c) /\ task[c] = "none"
  BY DEF IInv, CallsOK, CallerOK, InCall, Ended
<1>2. TypeOK'
  BY <1>1 DEF TypeOK
<1>3. CallsOK'
  BY <1>1 DEF TypeOK, CallsOK, CallerOK, ClosureOK, Waiting, Captured, InCall
<1> QED BY <1>1, <1>2, <1>3, CallerStepKeeps

LEMMA ReturnKeeps ==
  ASSUME IInv, NEW c \in Calls, Return(c)
  PROVE  IInv'
<1> USE DEF Return, LocalsOff
<1>1. TypeOK /\ CallsOK /\ InCall(c)
  BY DEF IInv, InCall, Ended
<1>2. TypeOK'
  BY <1>1 DEF TypeOK
<1>3. CallsOK'
  BY <1>1 DEF TypeOK, CallsOK, CallerOK, ClosureOK, Waiting, Captured
<1> QED BY <1>1, <1>2, <1>3, CallerStepKeeps

LEMMA PythonDropsKeeps ==
  ASSUME IInv, NEW c \in Calls, PythonDrops(c)
  PROVE  IInv'
BY DEF PythonDrops, IInv, TypeOK, CallsOK, CallerOK, ClosureOK, LatestOfThread, QueueOK,
       OldestFirst, LaunchedInCallOrder, LocalsLeakOnlyOnRaise, InCall, Ended, Captured

LEMMA RunOpApiV2Keeps ==
  ASSUME IInv, NEW c \in Calls, RunOpApiV2(c)
  PROVE  IInv'
<1>1. TypeOK /\ CallsOK /\ LatestOfThread /\ QueueOK /\ OldestFirst
      /\ LaunchedInCallOrder /\ LocalsLeakOnlyOnRaise
  BY DEF IInv
<1>2. /\ pc[c] = "sized" /\ InCall(c) /\ task[c] = "none" /\ thread[c] \in Threads
      /\ Captured(c) \in SUBSET Kinds
      /\ \A d \in Calls : d # c /\ thread[d] = thread[c] => d < c /\ ~InCall(d)
  BY <1>1 DEF CallsOK, CallerOK, LatestOfThread, RunOpApiV2, InCall, Ended, Captured,
              Kinds, Calls
<1>3. UNCHANGED <<taskQueue, thread, stream, python, localOn, tiledOn, needsWs, handles,
                  boundStream, launched>>
  BY DEF RunOpApiV2
<1>4. CallsOK'
  <2> SUFFICES ASSUME NEW d \in Calls
               PROVE  CallerOK(d)' /\ ClosureOK(d)'
    BY DEF CallsOK
  <2>1. CallerOK(d)'
    BY <1>1 DEF TypeOK, CallsOK, CallerOK, RunOpApiV2
  <2>2. ClosureOK(d)'
    BY <1>1 DEF TypeOK, CallsOK, CallerOK, ClosureOK, RunOpApiV2, Waiting, Captured
  <2> QED BY <2>1, <2>2
<1>5. ASSUME NEW stage \in {"submitted", "running"}, TypeOK', QueueOK', OldestFirst',
             pc' = [pc EXCEPT ![c] = stage]
      PROVE  IInv'
  <2>1. LatestOfThread'
    BY <1>1, <1>2, <1>3, <1>5 DEF TypeOK, LatestOfThread, InCall, Ended
  <2>2. LaunchedInCallOrder'
    BY <1>1, <1>3 DEF LaunchedInCallOrder
  <2>3. LocalsLeakOnlyOnRaise'
    BY <1>1, <1>2, <1>3, <1>5 DEF TypeOK, LocalsLeakOnlyOnRaise, Calls
  <2> QED BY <1>4, <1>5, <2>1, <2>2, <2>3 DEF IInv
<1>6. CASE taskQueue
  <2>1. /\ queue' = Append(queue, c) /\ keeps' = [keeps EXCEPT ![c] = Captured(c)]
        /\ task' = [task EXCEPT ![c] = "queued"] /\ pc' = [pc EXCEPT ![c] = "submitted"]
        /\ UNCHANGED runner
    BY <1>6 DEF RunOpApiV2, Enqueued
  <2>2. TypeOK'
    BY <1>1, <1>2, <1>3, <2>1, AppendFacts DEF TypeOK
  <2>3. /\ DOMAIN queue' = DOMAIN queue \cup {Len(queue) + 1}
        /\ Len(queue) \in Nat /\ queue'[Len(queue) + 1] = c
        /\ \A i \in DOMAIN queue : /\ i \in Nat /\ i < Len(queue) + 1
                                   /\ queue[i] \in Calls /\ queue'[i] = queue[i]
    BY <1>1, <2>1, AppendFacts DEF TypeOK
  <2>4. \A i \in DOMAIN queue :
          queue[i] # c /\ (thread[queue[i]] = thread[c] => queue[i] < c)
    BY <1>1, <1>2, <2>3 DEF QueueOK
  <2>5. QueueOK'
    BY <1>1, <1>2, <1>3, <2>1, <2>3, <2>4 DEF QueueOK, TypeOK
  <2>6. OldestFirst'
    BY <1>1, <1>2, <1>3, <2>1 DEF OldestFirst, TypeOK, Waiting
  <2> QED BY <1>5, <2>1, <2>2, <2>5, <2>6
<1>7. CASE ~taskQueue
  <2>1. /\ runner' = [runner EXCEPT ![c] = thread[c]]
        /\ task' = [task EXCEPT ![c] = "running"] /\ pc' = [pc EXCEPT ![c] = "running"]
        /\ UNCHANGED <<queue, keeps>>
    BY <1>7 DEF RunOpApiV2
  <2>2. TypeOK'
    BY <1>1, <1>2, <1>3, <2>1 DEF TypeOK, Runners
  <2>3. /\ \A d \in Calls : task[d] # "queued"
        /\ \A d \in Calls : task[d] = "running" => runner[d] # thread[c]
        /\ \A i \in DOMAIN queue : queue[i] \in Calls
    BY <1>1, <1>2, <1>7 DEF TypeOK, CallsOK, ClosureOK, InCall, Ended
  <2>4. QueueOK'
    BY <1>1, <1>2, <1>3, <2>1, <2>3 DEF QueueOK, TypeOK
  <2>5. OldestFirst'
    BY <1>1, <1>2, <1>3, <2>1, <2>3 DEF OldestFirst, TypeOK, Waiting
  <2> QED BY <1>5, <2>1, <2>2, <2>4, <2>5
<1> QED BY <1>6, <1>7

(* Taking the oldest closure from the queue, to run or to discard it.      *)
LEMMA TakeFacts ==
  ASSUME IInv, NEW c \in Calls, queue # <<>>, c = Head(queue), queue' = Tail(queue)
  PROVE  /\ task[c] = "queued" /\ taskQueue /\ queue' \in Seq(Calls)
         /\ \A i \in DOMAIN queue' :
              /\ i \in Nat /\ i + 1 \in DOMAIN queue /\ queue'[i] = queue[i + 1]
              /\ queue'[i] \in Calls \ {c} /\ task[queue'[i]] = "queued"
         /\ \A i, j \in DOMAIN queue' :
              i < j => /\ queue'[i] # queue'[j]
                       /\ thread[queue'[i]] = thread[queue'[j]] => queue'[i] < queue'[j]
         /\ \A d \in Calls \ {c} : task[d] = "queued" =>
              /\ \E i \in DOMAIN queue' : queue'[i] = d
              /\ thread[d] = thread[c] => c < d
<1>1. TypeOK /\ CallsOK /\ QueueOK
  BY DEF IInv
<1>2. /\ queue \in Seq(Calls) /\ 1 \in DOMAIN queue /\ queue[1] = c
      /\ queue' \in Seq(Calls)
      /\ \A i \in DOMAIN queue' :
           i \in Nat \ {0} /\ i + 1 \in DOMAIN queue /\ queue'[i] = queue[i + 1]
      /\ \A i \in DOMAIN queue \ {1} :
           i - 1 \in DOMAIN queue' /\ queue'[i - 1] = queue[i]
      /\ \A i \in DOMAIN queue : i \in Nat /\ i >= 1 /\ queue[i] \in Calls
  BY <1>1, TailFacts DEF TypeOK
<1>3. task[c] = "queued" /\ taskQueue
  BY <1>1, <1>2 DEF QueueOK, CallsOK, ClosureOK
<1>4. \A i \in DOMAIN queue' : queue'[i] \in Calls \ {c} /\ task[queue'[i]] = "queued"
  BY <1>1, <1>2 DEF QueueOK
<1>5. ASSUME NEW d \in Calls \ {c}, task[d] = "queued"
      PROVE  (\E i \in DOMAIN queue' : queue'[i] = d) /\ (thread[d] = thread[c] => c < d)
  <2>1. PICK i \in DOMAIN queue : queue[i] = d
    BY <1>1, <1>5 DEF QueueOK
  <2>2. i # 1 /\ 1 < i
    BY <1>2, <1>5, <2>1
  <2>3. i \in DOMAIN queue \ {1} /\ queue'[i - 1] = d /\ i - 1 \in DOMAIN queue'
    BY <1>2, <2>1, <2>2
  <2>4. thread[queue[1]] = thread[queue[i]] => queue[1] < queue[i]
    BY <1>1, <1>2, <2>1, <2>2 DEF QueueOK
  <2> QED BY <1>2, <2>1, <2>3, <2>4
<1>6. ASSUME NEW i \in DOMAIN queue', NEW j \in DOMAIN queue', i < j
      PROVE  /\ queue'[i] # queue'[j]
             /\ thread[queue'[i]] = thread[queue'[j]] => queue'[i] < queue'[j]
  <2>1. i + 1 \in DOMAIN queue /\ j + 1 \in DOMAIN queue /\ i + 1 < j + 1
    BY <1>2, <1>6
  <2>2. /\ queue[i + 1] # queue[j + 1]
        /\ thread[queue[i + 1]] = thread[queue[j + 1]] => queue[i + 1] < queue[j + 1]
    BY <1>1, <2>1 DEF QueueOK
  <2> QED BY <1>2, <2>2
<1> QED BY <1>2, <1>3, <1>4, <1>5, <1>6

LEMMA DequeueKeeps ==
  ASSUME IInv, NEW c \in Calls, Dequeue(c)
  PROVE  IInv'
<1> USE DEF Dequeue
<1>1. TypeOK /\ CallsOK /\ LatestOfThread /\ QueueOK /\ OldestFirst
      /\ LaunchedInCallOrder /\ LocalsLeakOnlyOnRaise
  BY DEF IInv
<1>2. /\ task[c] = "queued" /\ taskQueue /\ queue' \in Seq(Calls)
      /\ \A i \in DOMAIN queue' :
           queue'[i] \in Calls \ {c} /\ task[queue'[i]] = "queued"
      /\ \A i, j \in DOMAIN queue' :
           i < j => /\ queue'[i] # queue'[j]
                    /\ thread[queue'[i]] = thread[queue'[j]] => queue'[i] < queue'[j]
      /\ \A d \in Calls \ {c} : task[d] = "queued" =>
           /\ \E i \in DOMAIN queue' : queue'[i] = d
           /\ thread[d] = thread[c] => c < d
  BY TakeFacts
<1>3. TypeOK'
  BY <1>1, <1>2 DEF TypeOK, Runners
<1>4. CallsOK'
  <2> SUFFICES ASSUME NEW d \in Calls
               PROVE  CallerOK(d)' /\ ClosureOK(d)'
    BY DEF CallsOK
  <2>1. CallerOK(d)'
    BY <1>1, <1>2 DEF TypeOK, CallsOK, CallerOK, ClosureOK
  <2>2. ClosureOK(d)'
    BY <1>1, <1>2 DEF TypeOK, CallsOK, ClosureOK, Waiting, Captured
  <2> QED BY <2>1, <2>2
<1>5. LatestOfThread' /\ LaunchedInCallOrder' /\ LocalsLeakOnlyOnRaise'
  BY <1>1 DEF LatestOfThread, InCall, Ended, LaunchedInCallOrder, LocalsLeakOnlyOnRaise
<1>6. QueueOK'
  <2>1. \A i \in DOMAIN queue' : task'[queue'[i]] = "queued"
    BY <1>1, <1>2 DEF TypeOK
  <2>2. \A d \in Calls : task'[d] = "queued" => \E i \in DOMAIN queue' : queue'[i] = d
    BY <1>1, <1>2 DEF TypeOK
  <2>3. \A i, j \in DOMAIN queue' :
          i < j => /\ queue'[i] # queue'[j]
                   /\ thread'[queue'[i]] = thread'[queue'[j]] => queue'[i] < queue'[j]
    BY <1>2
  <2>4. \A d, e \in Calls :
          task'[d] = "running" /\ task'[e] = "running" /\ runner'[d] = runner'[e] => d = e
    BY <1>1, <1>2 DEF QueueOK, TypeOK
  <2> QED BY <2>1, <2>2, <2>3, <2>4 DEF QueueOK
<1>7. OldestFirst'
  BY <1>1, <1>2 DEF OldestFirst, TypeOK, Waiting
<1> QED BY <1>3, <1>4, <1>5, <1>6, <1>7 DEF IInv

LEMMA DiscardKeeps ==
  ASSUME IInv, NEW c \in Calls, Discard(c)
  PROVE  IInv'
<1> USE DEF Discard
<1>1. TypeOK /\ CallsOK /\ LatestOfThread /\ QueueOK /\ OldestFirst
      /\ LaunchedInCallOrder /\ LocalsLeakOnlyOnRaise
  BY DEF IInv
<1>2. /\ task[c] = "queued" /\ taskQueue /\ queue' \in Seq(Calls)
      /\ \A i \in DOMAIN queue' :
           queue'[i] \in Calls \ {c} /\ task[queue'[i]] = "queued"
      /\ \A i, j \in DOMAIN queue' :
           i < j => /\ queue'[i] # queue'[j]
                    /\ thread[queue'[i]] = thread[queue'[j]] => queue'[i] < queue'[j]
      /\ \A d \in Calls \ {c} : task[d] = "queued" =>
           /\ \E i \in DOMAIN queue' : queue'[i] = d
           /\ thread[d] = thread[c] => c < d
  BY TakeFacts
<1>3. TypeOK'
  BY <1>1, <1>2 DEF TypeOK
<1>4. CallsOK'
  BY <1>1, <1>2 DEF TypeOK, CallsOK, CallerOK, ClosureOK, Waiting, Captured
<1>5. LatestOfThread' /\ LaunchedInCallOrder' /\ LocalsLeakOnlyOnRaise'
  BY <1>1 DEF LatestOfThread, InCall, Ended, LaunchedInCallOrder, LocalsLeakOnlyOnRaise
<1>6. QueueOK'
  <2>1. \A i \in DOMAIN queue' : task'[queue'[i]] = "queued"
    BY <1>1, <1>2 DEF TypeOK
  <2>2. \A d \in Calls : task'[d] = "queued" => \E i \in DOMAIN queue' : queue'[i] = d
    BY <1>1, <1>2 DEF TypeOK
  <2>3. \A i, j \in DOMAIN queue' :
          i < j => /\ queue'[i] # queue'[j]
                   /\ thread'[queue'[i]] = thread'[queue'[j]] => queue'[i] < queue'[j]
    BY <1>2
  <2> QED BY <1>1, <2>1, <2>2, <2>3 DEF QueueOK, TypeOK
<1>7. OldestFirst'
  BY <1>1, <1>2 DEF OldestFirst, TypeOK, Waiting
<1> QED BY <1>3, <1>4, <1>5, <1>6, <1>7 DEF IInv

(* The two ends of a closure that runs: what they have in common.          *)
LEMMA LeaveKeeps ==
  ASSUME IInv, NEW c \in Calls, task[c] = "running",
         NEW outcome \in {"launched", "failed"}, NEW next \in {"submitted", "raised"},
         outcome = "launched" <=> next = "submitted",
         Leave(c, outcome, next),
         boundStream' \in {boundStream, [boundStream EXCEPT ![runner[c]] = stream[c]]},
         handles' = [handles EXCEPT ![c] = IF outcome = "launched" THEN "released" ELSE @],
         localOn' = localOn
  PROVE  /\ TypeOK' \/ launched' \notin Seq(Calls)
         /\ CallsOK' /\ LatestOfThread' /\ QueueOK' /\ LocalsLeakOnlyOnRaise'
         /\ \A d \in Calls : d # c /\ task[d] \in Waiting /\ thread[d] = thread[c] => c < d
<1>1. TypeOK /\ CallsOK /\ LatestOfThread /\ QueueOK /\ OldestFirst
      /\ LocalsLeakOnlyOnRaise
  BY DEF IInv
<1>2. /\ task' = [task EXCEPT ![c] = outcome] /\ keeps' = [keeps EXCEPT ![c] = {}]
      /\ UNCHANGED <<taskQueue, thread, stream, python, localOn, tiledOn, needsWs,
                     runner, queue>>
  BY DEF Leave
<1>3. /\ thread[c] \in Threads /\ stream[c] \in Streams /\ runner[c] \in Runners
      /\ pc[c] \notin {"idle", "converted", "sized", "raised"}
      /\ IF taskQueue
           THEN pc' = pc /\ runner[c] = Consumer
           ELSE /\ pc' = [pc EXCEPT ![c] = next] /\ pc[c] = "running"
                /\ runner[c] = thread[c] /\ InCall(c)
  BY <1>1 DEF CallsOK, CallerOK, ClosureOK, Leave, InCall, Ended, Runners
<1>4. TypeOK' \/ launched' \notin Seq(Calls)
  <2>1. pc' \in [Calls -> {"idle", "converted", "sized", "running", "submitted",
                           "returned", "raised"}]
    BY <1>1, <1>3 DEF TypeOK
  <2>2. boundStream' \in [Runners -> Streams \cup {None}]
    BY <1>1, <1>3 DEF TypeOK
  <2> QED BY <1>1, <1>2, <2>1, <2>2 DEF TypeOK
<1>5. ASSUME NEW d \in Calls
      PROVE  CallerOK(d)' /\ ClosureOK(d)'
  <2>1. CASE d = c
    <3>1. CallerOK(c)'
      <4>1. /\ tiledOn[c] = stream[c] /\ task'[c] = outcome
            /\ pc'[c] \in {"running", "submitted", "returned", next}
            /\ pc'[c] = "running" => FALSE
            /\ pc'[c] = "raised" => outcome = "failed"
        BY <1>1, <1>2, <1>3 DEF TypeOK, CallsOK, CallerOK, ClosureOK
      <4> QED BY <1>2, <1>3, <4>1 DEF CallerOK
    <3>2. ClosureOK(c)'
      BY <1>1, <1>2, <1>3 DEF TypeOK, CallsOK, ClosureOK, Waiting
    <3> QED BY <2>1, <3>1, <3>2
  <2>2. CASE d # c
    <3>1. /\ pc'[d] = pc[d] /\ task'[d] = task[d] /\ handles'[d] = handles[d]
          /\ keeps'[d] = keeps[d]
      BY <1>1, <1>2, <1>3, <2>2 DEF TypeOK
    <3>2. pc[d] \in {"converted", "sized"} =>
            thread[d] # runner[c] /\ thread[d] \in Runners
      BY <1>1, <1>3, <2>2, OrderedLaunchAssumption
         DEF LatestOfThread, CallsOK, CallerOK, InCall, Ended, Calls, Runners
    <3>3. pc[d] \in {"converted", "sized"} =>
            boundStream'[thread[d]] = boundStream[thread[d]]
      BY <1>1, <1>3, <3>2 DEF TypeOK
    <3>4. CallerOK(d)'
      BY <1>1, <1>2, <3>1, <3>3 DEF CallsOK, CallerOK
    <3>5. ClosureOK(d)'
      BY <1>1, <1>2, <3>1 DEF CallsOK, ClosureOK, Captured
    <3> QED BY <3>4, <3>5
  <2> QED BY <2>1, <2>2
<1>6. LatestOfThread'
  <2>1. \A d \in Calls : (pc'[d] = "idle" <=> pc[d] = "idle") /\ (InCall(d)' => InCall(d))
    BY <1>1, <1>3 DEF TypeOK, InCall, Ended
  <2> QED BY <1>1, <1>2, <2>1 DEF LatestOfThread
<1>7. QueueOK'
  BY <1>1, <1>2 DEF TypeOK, QueueOK
<1>8. LocalsLeakOnlyOnRaise'
  BY <1>1, <1>2, <1>3 DEF TypeOK, LocalsLeakOnlyOnRaise
<1>9. ASSUME NEW d \in Calls, d # c, task[d] \in Waiting, thread[d] = thread[c]
      PROVE  c < d
  <2>1. CASE taskQueue
    BY <1>1, <1>3, <1>9, <2>1 DEF QueueOK, OldestFirst, CallsOK, ClosureOK, Waiting
  <2>2. CASE ~taskQueue
    BY <1>1, <1>3, <1>9, <2>2
       DEF CallsOK, ClosureOK, LatestOfThread, InCall, Ended, Waiting, Calls
  <2> QED BY <2>1, <2>2
<1> QED BY <1>4, <1>5, <1>6, <1>7, <1>8, <1>9 DEF CallsOK

LEMMA LaunchKeeps ==
  ASSUME IInv, NEW c \in Calls, Launch(c)
  PROVE  IInv'
<1>1. TypeOK /\ CallsOK /\ OldestFirst /\ LaunchedInCallOrder
  BY DEF IInv
<1>2. /\ task[c] = "running" /\ Leave(c, "launched", "submitted")
      /\ boundStream' = [boundStream EXCEPT ![runner[c]] = stream[c]]
      /\ handles' = [handles EXCEPT ![c] = "released"] /\ launched' = Append(launched, c)
      /\ task' = [task EXCEPT ![c] = "launched"] /\ UNCHANGED <<localOn, thread>>
  BY DEF Launch, Bind, Release, Leave
<1>3. /\ launched' \in Seq(Calls)
      /\ Len(launched) \in Nat /\ DOMAIN launched' = DOMAIN launched \cup {Len(launched) + 1}
      /\ launched'[Len(launched) + 1] = c
      /\ \A i \in DOMAIN launched : /\ i \in Nat /\ i < Len(launched) + 1
                                    /\ launched[i] \in Calls
                                    /\ launched'[i] = launched[i]
  BY <1>1, <1>2, AppendFacts DEF TypeOK
<1>4. /\ TypeOK' /\ CallsOK' /\ LatestOfThread' /\ QueueOK' /\ LocalsLeakOnlyOnRaise'
      /\ \A d \in Calls : d # c /\ task[d] \in Waiting /\ thread[d] = thread[c] => c < d
  BY <1>2, <1>3, LeaveKeeps
<1>5. OldestFirst'
  BY <1>1, <1>2, <1>3, <1>4 DEF TypeOK, OldestFirst, Waiting
<1>6. LaunchedInCallOrder'
  BY <1>1, <1>2, <1>3 DEF LaunchedInCallOrder, OldestFirst, Waiting
<1> QED BY <1>4, <1>5, <1>6 DEF IInv

LEMMA LaunchRaisesKeeps ==
  ASSUME IInv, NEW c \in Calls, LaunchRaises(c)
  PROVE  IInv'
<1>1. TypeOK /\ OldestFirst /\ LaunchedInCallOrder
  BY DEF IInv
<1>2. /\ task[c] = "running" /\ Leave(c, "failed", "raised")
      /\ boundStream' \in {boundStream, [boundStream EXCEPT ![runner[c]] = stream[c]]}
      /\ handles' = handles /\ launched' = launched
      /\ task' = [task EXCEPT ![c] = "failed"] /\ UNCHANGED <<localOn, thread>>
  BY DEF LaunchRaises, Bind, Leave
<1>3. handles' = [handles EXCEPT ![c] = IF "failed" = "launched" THEN "released" ELSE @]
  BY <1>1, <1>2 DEF TypeOK
<1>4. TypeOK' /\ CallsOK' /\ LatestOfThread' /\ QueueOK' /\ LocalsLeakOnlyOnRaise'
  BY <1>1, <1>2, <1>3, LeaveKeeps DEF TypeOK
<1>5. OldestFirst' /\ LaunchedInCallOrder'
  BY <1>1, <1>2 DEF TypeOK, OldestFirst, LaunchedInCallOrder, Waiting
<1> QED BY <1>4, <1>5 DEF IInv

(* No stage of a call or of its closure, whichever thread runs it and      *)
(* however it fails, leaves IInv.                                          *)
THEOREM StepOK == IInv /\ [Next]_vars => IInv'
<1> SUFFICES ASSUME IInv, [Next]_vars
             PROVE  IInv'
  OBVIOUS
<1>1. ASSUME NEW c \in Calls, NEW t \in Threads, NEW s \in Streams, Enter(t, c, s)
      PROVE  IInv'
  BY <1>1, EnterKeeps
<1>2. ASSUME NEW c \in Calls, Caller(c)
      PROVE  IInv'
  BY <1>2, GetWorkspaceSizeKeeps, CallerRaisesKeeps, RunOpApiV2Keeps, ReturnKeeps
     DEF Caller
<1>3. ASSUME NEW c \in Calls, Closure(c)
      PROVE  IInv'
  BY <1>3, DequeueKeeps, DiscardKeeps, LaunchKeeps, LaunchRaisesKeeps DEF Closure
<1>4. ASSUME NEW c \in Calls, PythonDrops(c)
      PROVE  IInv'
  BY <1>4, PythonDropsKeeps
<1>5. CASE UNCHANGED vars
  BY <1>5 DEF vars, IInv, TypeOK, CallsOK, CallerOK, ClosureOK, LatestOfThread, QueueOK,
       OldestFirst, LaunchedInCallOrder, LocalsLeakOnlyOnRaise, InCall, Ended, Captured
<1> QED BY <1>1, <1>2, <1>3, <1>4, <1>5 DEF Next, Terminated

(* IInv holds in every reachable state of the launch.                      *)
THEOREM Invariance == Spec => []IInv
BY InitOK, StepOK, PTL DEF Spec

-----------------------------------------------------------------------------
(* The properties of the launch.                                           *)

(* What a launch will read and write is alive while it is still to come:   *)
(* the closure's copies hold it, or the call that runs the closure.        *)
LEMMA IInvMemoryHeld == IInv => MemoryHeld
BY DEF IInv, TypeOK, CallsOK, CallerOK, ClosureOK, MemoryHeld, Captured, Waiting,
       InCall, Ended

(* The memory of a closure that has not launched is alive, whatever Python *)
(* has dropped meanwhile.                                                  *)
THEOREM MemoryHeldCorrect == Spec => []MemoryHeld
BY Invariance, IInvMemoryHeld, PTL

(* Each thread's calls are launched in the order the thread made them.     *)
THEOREM LaunchOrderCorrect == Spec => []LaunchedInCallOrder
<1>1. IInv => LaunchedInCallOrder
  BY DEF IInv
<1> QED BY <1>1, Invariance, PTL

(* Handles are released by the launch; only calls that raised, failed or   *)
(* were discarded leave theirs.                                            *)
THEOREM ReleaseCorrect == Spec => []ReleasedByLaunch
<1>1. IInv => ReleasedByLaunch
  BY DEF IInv, TypeOK, CallsOK, CallerOK, ClosureOK, ReleasedByLaunch, Ended, Waiting
<1> QED BY <1>1, Invariance, PTL

(* Thread-local caches stay on only after a call that raised.              *)
THEOREM LocalsCorrect == Spec => []LocalsLeakOnlyOnRaise
<1>1. IInv => LocalsLeakOnlyOnRaise
  BY DEF IInv
<1> QED BY <1>1, Invariance, PTL

(* Only Launch makes a closure a launched one.                             *)
LEMMA OnlyLaunchLaunches ==
  ASSUME IInv, [Next]_vars, NEW c \in Calls, task[c] # "launched", task'[c] = "launched"
  PROVE  Launch(c)
<1>1. TypeOK
  BY DEF IInv
<1>2. ASSUME NEW d \in Calls, Caller(d) \/ PythonDrops(d)
      PROVE  task'[c] # "launched"
  BY <1>1, <1>2 DEF Caller, TypeOK, GetWorkspaceSize, GetWorkspaceSizeRaises,
       RunOpApiV2, RunOpApiV2Raises, Return, PythonDrops
<1>3. ASSUME NEW d \in Calls, Dequeue(d) \/ Discard(d) \/ LaunchRaises(d)
      PROVE  task'[c] # "launched"
  BY <1>1, <1>3 DEF TypeOK, Dequeue, Discard, LaunchRaises, Leave
<1>4. ASSUME NEW d \in Calls, Launch(d)
      PROVE  d = c
  BY <1>1, <1>4 DEF TypeOK, Launch, Leave
<1>5. ASSUME NEW d \in Calls, NEW t \in Threads, NEW s \in Streams, Enter(t, d, s)
      PROVE  task'[c] # "launched"
  BY <1>5 DEF Enter
<1> QED BY <1>2, <1>3, <1>4, <1>5 DEF Next, Closure, Terminated, vars

(* Every kernel is launched under the core limit it was tiled for.         *)
THEOREM CoresCorrect == Spec => LaunchedOnItsCores
<1> DEFINE OnItsCores ==
      \A c \in Calls : task[c] = "running" /\ task'[c] = "launched" =>
        boundStream'[runner[c]] = stream[c] /\ tiledOn[c] = stream[c]
<1>1. IInv /\ [Next]_vars => [OnItsCores]_vars
  <2> SUFFICES ASSUME IInv, [Next]_vars,
                      NEW c \in Calls, task[c] = "running", task'[c] = "launched"
               PROVE  boundStream'[runner[c]] = stream[c] /\ tiledOn[c] = stream[c]
    OBVIOUS
  <2>1. /\ TypeOK /\ runner[c] \in Runners /\ tiledOn[c] = stream[c]
    BY DEF IInv, CallsOK, CallerOK, ClosureOK, Runners
  <2>2. Launch(c)
    BY OnlyLaunchLaunches
  <2> QED BY <2>1, <2>2 DEF Launch, Bind, TypeOK
<1> QED BY <1>1, Invariance, PTL DEF Spec, LaunchedOnItsCores

-----------------------------------------------------------------------------
(* The device.                                                             *)

(* What a stream may hold: kernels, and the writes of the new owners of    *)
(* blocks that were allocated on it.                                       *)
Items(s) == (Calls \X {"kernel"}) \cup (Calls \X Kinds \X {s})

KernelAt(w, s, i, c) == i \in DOMAIN w[s] /\ w[s][i] = <<c, "kernel">>
BlockAt(w, s, i, c, kind) == i \in DOMAIN w[s] /\ w[s][i] = <<c, kind, s>>

DeviceTypeOK ==
  /\ DOMAIN work = Streams
  /\ \A s \in Streams : work[s] \in Seq(Items(s))
  /\ executed \in SUBSET Calls

Unneeded(c, kind) == Allocated(c, kind) /\ ~Held(c, kind)

(* Only what nobody needs has been handed on, on the stream it belongs to, *)
(* and only that is written to.                                            *)
HandedOnOK ==
  /\ \A c \in Calls, kind \in Kinds, s \in Streams :
       <<c, kind, s>> \in handedOn => Unneeded(c, kind) /\ s \in Homes(c, kind)
  /\ \A c \in Calls, kind \in Kinds, s \in Streams, i \in Nat :
       BlockAt(work, s, i, c, kind) => <<c, kind, s>> \in handedOn
  /\ overwritten \subseteq handedOn

(* The kernels in a stream have been launched on it and not run, each is   *)
(* there once, and a thread's in the order of its calls.                   *)
KernelsOK ==
  /\ \A c \in executed : task[c] = "launched"
  /\ \A c \in Calls, s \in Streams, i \in Nat :
       KernelAt(work, s, i, c) => task[c] = "launched" /\ stream[c] = s /\ c \notin executed
  /\ \A c, d \in Calls, s \in Streams, i, j \in Nat :
       KernelAt(work, s, i, c) /\ KernelAt(work, s, j, d) /\ i < j =>
         c # d /\ (thread[c] = thread[d] => c < d)

(* A launched kernel that has not run is in its stream, before whatever    *)
(* new owners of its memory do there.                                      *)
KernelFirst ==
  \A c \in Calls : task[c] = "launched" /\ c \notin executed =>
    \E i \in Nat :
      /\ KernelAt(work, stream[c], i, c)
      /\ \A kind \in Kinds : /\ <<c, kind, stream[c]>> \notin overwritten
                             /\ \A j \in Nat : BlockAt(work, stream[c], j, c, kind) => i < j

DInv == IInv /\ DeviceTypeOK /\ HandedOnOK /\ KernelsOK /\ KernelFirst

-----------------------------------------------------------------------------
(* What any step of the host leaves true of a call.                        *)

LEMMA UnneededEnded ==
  ASSUME IInv, NEW c \in Calls, NEW kind \in Kinds, Unneeded(c, kind)
  PROVE  pc[c] \in {"returned", "raised"} /\ task[c] \notin Waiting
<1>1. MemoryHeld /\ TypeOK /\ CallsOK
  BY IInvMemoryHeld DEF IInv
<1>2. pc[c] \in {"returned", "raised"}
  BY <1>1 DEF TypeOK, CallsOK, CallerOK, Unneeded, Allocated, Held, InCall, Ended, Kinds
<1>3. task[c] \notin Waiting
  BY <1>1 DEF MemoryHeld, Unneeded, Allocated, Held, Kinds, Waiting
<1> QED BY <1>2, <1>3

(* A call goes on from where it is.                                        *)
Onward(c) ==
  /\ pc[c] # "idle" => pc'[c] # "idle" /\ thread'[c] = thread[c] /\ stream'[c] = stream[c]
  /\ Ended(c) => pc'[c] = pc[c] /\ needsWs'[c] = needsWs[c] /\ keeps'[c] \subseteq keeps[c]
  /\ Ended(c) /\ python'[c] => python[c]
  /\ task[c] \in {"launched", "failed", "dropped"} => task'[c] = task[c]

LEMMA NextOnward ==
  ASSUME IInv, [Next]_vars, NEW c \in Calls
  PROVE  Onward(c)
<1> USE DEF Onward, Ended
<1>1. TypeOK /\ CallsOK
  BY DEF IInv
<1>2. ASSUME NEW d \in Calls, NEW t \in Threads, NEW s \in Streams, Enter(t, d, s)
      PROVE  Onward(c)
  BY <1>1, <1>2 DEF Enter, NextCall, TypeOK
<1>3. ASSUME NEW d \in Calls, Caller(d) \/ PythonDrops(d)
      PROVE  Onward(c)
  BY <1>1, <1>3 DEF Caller, TypeOK, CallsOK, CallerOK, GetWorkspaceSize,
       GetWorkspaceSizeRaises, RunOpApiV2, RunOpApiV2Raises, Return, PythonDrops
<1>4. ASSUME NEW d \in Calls, Dequeue(d) \/ Discard(d)
      PROVE  Onward(c)
  <2>1. task[d] = "queued"
    BY <1>4, TakeFacts DEF Dequeue, Discard
  <2> QED BY <1>1, <1>4, <2>1 DEF TypeOK, Dequeue, Discard
<1>5. ASSUME NEW d \in Calls, Launch(d) \/ LaunchRaises(d)
      PROVE  Onward(c)
  BY <1>1, <1>5 DEF TypeOK, CallsOK, ClosureOK, Launch, LaunchRaises, Leave
<1> QED BY <1>2, <1>3, <1>4, <1>5 DEF Next, Closure, Terminated, vars

LEMMA StaysUnneeded ==
  ASSUME IInv, [Next]_vars, NEW c \in Calls, NEW kind \in Kinds, Unneeded(c, kind)
  PROVE  Unneeded(c, kind)'
<1>1. Ended(c) /\ pc[c] # "idle"
  BY UnneededEnded DEF Ended
<1>2. Onward(c)
  BY NextOnward
<1> QED BY <1>1, <1>2 DEF Onward, Unneeded, Allocated, Held, InCall, Ended

(* Streams: adding at the end and taking the oldest.                       *)
LEMMA PushFacts ==
  ASSUME DeviceTypeOK, NEW s0 \in Streams, NEW x \in Items(s0),
         work' = [work EXCEPT ![s0] = Append(@, x)]
  PROVE  /\ DOMAIN work' = Streams
         /\ \A s \in Streams : work'[s] \in Seq(Items(s))
         /\ Len(work[s0]) \in Nat
         /\ \A s \in Streams, i \in Nat, c \in Calls :
              KernelAt(work', s, i, c) <=>
                \/ KernelAt(work, s, i, c)
                \/ s = s0 /\ i = Len(work[s0]) + 1 /\ x = <<c, "kernel">>
         /\ \A s \in Streams, i \in Nat, c \in Calls, kind \in Kinds :
              BlockAt(work', s, i, c, kind) <=>
                \/ BlockAt(work, s, i, c, kind)
                \/ s = s0 /\ i = Len(work[s0]) + 1 /\ x = <<c, kind, s>>
         /\ \A i \in Nat, c \in Calls :
              /\ KernelAt(work, s0, i, c) => i <= Len(work[s0])
              /\ \A kind \in Kinds : BlockAt(work, s0, i, c, kind) => i <= Len(work[s0])
<1> DEFINE q == work[s0]
<1>1. q \in Seq(Items(s0))
  BY DEF DeviceTypeOK
<1>2. /\ Append(q, x) \in Seq(Items(s0)) /\ Len(q) \in Nat
      /\ DOMAIN Append(q, x) = DOMAIN q \cup {Len(q) + 1}
      /\ Append(q, x)[Len(q) + 1] = x
      /\ \A i \in DOMAIN q : i < Len(q) + 1 /\ i \in Nat /\ Append(q, x)[i] = q[i]
  BY <1>1, AppendFacts
<1>3. /\ work'[s0] = Append(q, x) /\ DOMAIN work' = Streams
      /\ \A s \in Streams \ {s0} : work'[s] = work[s]
  BY DEF DeviceTypeOK
<1>4. \A s \in Streams : work'[s] \in Seq(Items(s))
  BY <1>2, <1>3 DEF DeviceTypeOK
<1>5. \A i \in DOMAIN q : i <= Len(q)
  BY <1>2
<1> HIDE DEF q
<1>6. work[s0] = q
  BY DEF q
<1>7. ASSUME NEW s \in Streams, NEW i \in Nat, NEW v
      PROVE  i \in DOMAIN work'[s] /\ work'[s][i] = v <=>
               \/ i \in DOMAIN work[s] /\ work[s][i] = v
               \/ s = s0 /\ i = Len(q) + 1 /\ x = v
  <2>1. CASE s = s0
    BY <1>2, <1>3, <1>6, <2>1
  <2>2. CASE s # s0
    BY <1>3, <2>2
  <2> QED BY <2>1, <2>2
<1>8. ASSUME NEW s \in Streams, NEW i \in Nat, NEW c \in Calls
      PROVE  KernelAt(work', s, i, c) <=>
               \/ KernelAt(work, s, i, c)
               \/ s = s0 /\ i = Len(work[s0]) + 1 /\ x = <<c, "kernel">>
  <2> DEFINE v == <<c, "kernel">>
  <2>1. KernelAt(work', s, i, c) <=> i \in DOMAIN work'[s] /\ work'[s][i] = v
    BY DEF KernelAt
  <2>2. KernelAt(work, s, i, c) <=> i \in DOMAIN work[s] /\ work[s][i] = v
    BY DEF KernelAt
  <2> HIDE DEF v
  <2>3. KernelAt(work', s, i, c) <=>
          KernelAt(work, s, i, c) \/ (s = s0 /\ i = Len(work[s0]) + 1 /\ x = v)
    BY <1>6, <1>7, <2>1, <2>2
  <2> QED BY <2>3 DEF v
<1>9. ASSUME NEW s \in Streams, NEW i \in Nat, NEW c \in Calls, NEW kind \in Kinds
      PROVE  BlockAt(work', s, i, c, kind) <=>
               \/ BlockAt(work, s, i, c, kind)
               \/ s = s0 /\ i = Len(work[s0]) + 1 /\ x = <<c, kind, s>>
  <2> DEFINE v == <<c, kind, s>>
  <2>1. BlockAt(work', s, i, c, kind) <=> i \in DOMAIN work'[s] /\ work'[s][i] = v
    BY DEF BlockAt
  <2>2. BlockAt(work, s, i, c, kind) <=> i \in DOMAIN work[s] /\ work[s][i] = v
    BY DEF BlockAt
  <2> HIDE DEF v
  <2>3. BlockAt(work', s, i, c, kind) <=>
          BlockAt(work, s, i, c, kind) \/ (s = s0 /\ i = Len(work[s0]) + 1 /\ x = v)
    BY <1>6, <1>7, <2>1, <2>2
  <2> QED BY <2>3 DEF v
<1>10. \A i \in Nat, c \in Calls :
         /\ KernelAt(work, s0, i, c) => i <= Len(work[s0])
         /\ \A kind \in Kinds : BlockAt(work, s0, i, c, kind) => i <= Len(work[s0])
  BY <1>5, <1>6 DEF KernelAt, BlockAt
<1> QED BY <1>2, <1>3, <1>4, <1>6, <1>8, <1>9, <1>10

LEMMA PushKernel ==
  ASSUME DeviceTypeOK, NEW s0 \in Streams, NEW c0 \in Calls,
         work' = [work EXCEPT ![s0] = Append(@, <<c0, "kernel">>)]
  PROVE  /\ DeviceTypeOK' \/ executed' \notin SUBSET Calls
         /\ \E last \in Nat :
              /\ \A s \in Streams, i \in Nat, c \in Calls :
                   KernelAt(work', s, i, c) <=>
                     KernelAt(work, s, i, c) \/ (s = s0 /\ i = last /\ c = c0)
              /\ \A i \in Nat, c \in Calls :
                   /\ KernelAt(work, s0, i, c) => i < last
                   /\ \A kind \in Kinds : BlockAt(work, s0, i, c, kind) => i < last
         /\ \A s \in Streams, i \in Nat, c \in Calls, kind \in Kinds :
              BlockAt(work', s, i, c, kind) <=> BlockAt(work, s, i, c, kind)
<1> DEFINE x == <<c0, "kernel">>
<1>1. x \in Items(s0)
  BY DEF Items
<1>2. /\ \A c \in Calls : x = <<c, "kernel">> <=> c = c0
      /\ \A c \in Calls, kind \in Kinds, s \in Streams : x # <<c, kind, s>>
  BY DEF Kinds
<1> HIDE DEF x
<1>3. work' = [work EXCEPT ![s0] = Append(@, x)]
  BY DEF x
<1>4. Len(work[s0]) \in Nat /\ Len(work[s0]) + 1 \in Nat
  BY <1>1, <1>3, PushFacts
<1>5. \A s \in Streams, i \in Nat, c \in Calls :
        KernelAt(work', s, i, c) <=>
          \/ KernelAt(work, s, i, c)
          \/ s = s0 /\ i = Len(work[s0]) + 1 /\ x = <<c, "kernel">>
  BY <1>1, <1>3, PushFacts
<1>6. \A s \in Streams, i \in Nat, c \in Calls, kind \in Kinds :
        BlockAt(work', s, i, c, kind) <=>
          \/ BlockAt(work, s, i, c, kind)
          \/ s = s0 /\ i = Len(work[s0]) + 1 /\ x = <<c, kind, s>>
  BY <1>1, <1>3, PushFacts
<1>7. \A i \in Nat, c \in Calls :
        /\ KernelAt(work, s0, i, c) => i <= Len(work[s0])
        /\ \A kind \in Kinds : BlockAt(work, s0, i, c, kind) => i <= Len(work[s0])
  BY <1>1, <1>3, PushFacts
<1>8. \A i \in Nat, c \in Calls :
        /\ KernelAt(work, s0, i, c) => i < Len(work[s0]) + 1
        /\ \A kind \in Kinds : BlockAt(work, s0, i, c, kind) => i < Len(work[s0]) + 1
  BY <1>4, <1>7
<1>9. \A s \in Streams, i \in Nat, c \in Calls :
        KernelAt(work', s, i, c) <=>
          KernelAt(work, s, i, c) \/ (s = s0 /\ i = Len(work[s0]) + 1 /\ c = c0)
  BY <1>2, <1>5
<1>10. \A s \in Streams, i \in Nat, c \in Calls, kind \in Kinds :
        BlockAt(work', s, i, c, kind) <=> BlockAt(work, s, i, c, kind)
  BY <1>2, <1>6
<1>11. DeviceTypeOK' \/ executed' \notin SUBSET Calls
  BY <1>1, <1>3, PushFacts DEF DeviceTypeOK
<1> QED BY <1>4, <1>8, <1>9, <1>10, <1>11

LEMMA PushBlock ==
  ASSUME DeviceTypeOK, NEW s0 \in Streams, NEW c0 \in Calls, NEW kind0 \in Kinds,
         work' = [work EXCEPT ![s0] = Append(@, <<c0, kind0, s0>>)]
  PROVE  /\ DeviceTypeOK' \/ executed' \notin SUBSET Calls
         /\ \A s \in Streams, i \in Nat, c \in Calls, kind \in Kinds :
              BlockAt(work', s, i, c, kind) <=>
                \/ BlockAt(work, s, i, c, kind)
                \/ s = s0 /\ i = Len(work[s0]) + 1 /\ c = c0 /\ kind = kind0
         /\ \A i \in Nat, c \in Calls : KernelAt(work, s0, i, c) => i < Len(work[s0]) + 1
         /\ \A s \in Streams, i \in Nat, c \in Calls :
              KernelAt(work', s, i, c) <=> KernelAt(work, s, i, c)
<1> DEFINE x == <<c0, kind0, s0>>
<1>1. x \in Items(s0)
  BY DEF Items
<1>2. /\ \A c \in Calls, kind \in Kinds, s \in Streams :
           x = <<c, kind, s>> <=> c = c0 /\ kind = kind0 /\ s = s0
      /\ \A c \in Calls : x # <<c, "kernel">>
  BY DEF Kinds
<1> HIDE DEF x
<1>3. work' = [work EXCEPT ![s0] = Append(@, x)]
  BY DEF x
<1>4. Len(work[s0]) \in Nat /\ Len(work[s0]) + 1 \in Nat
  BY <1>1, <1>3, PushFacts
<1>5. \A s \in Streams, i \in Nat, c \in Calls :
        KernelAt(work', s, i, c) <=>
          \/ KernelAt(work, s, i, c)
          \/ s = s0 /\ i = Len(work[s0]) + 1 /\ x = <<c, "kernel">>
  BY <1>1, <1>3, PushFacts
<1>6. \A s \in Streams, i \in Nat, c \in Calls, kind \in Kinds :
        BlockAt(work', s, i, c, kind) <=>
          \/ BlockAt(work, s, i, c, kind)
          \/ s = s0 /\ i = Len(work[s0]) + 1 /\ x = <<c, kind, s>>
  BY <1>1, <1>3, PushFacts
<1>7. \A i \in Nat, c \in Calls :
        /\ KernelAt(work, s0, i, c) => i <= Len(work[s0])
        /\ \A kind \in Kinds : BlockAt(work, s0, i, c, kind) => i <= Len(work[s0])
  BY <1>1, <1>3, PushFacts
<1>8. \A i \in Nat, c \in Calls : KernelAt(work, s0, i, c) => i < Len(work[s0]) + 1
  BY <1>4, <1>7
<1>9. \A s \in Streams, i \in Nat, c \in Calls, kind \in Kinds :
        BlockAt(work', s, i, c, kind) <=>
          \/ BlockAt(work, s, i, c, kind)
          \/ s = s0 /\ i = Len(work[s0]) + 1 /\ c = c0 /\ kind = kind0
  <2> SUFFICES ASSUME NEW s \in Streams, NEW i \in Nat, NEW c \in Calls, NEW kind \in Kinds
               PROVE  BlockAt(work', s, i, c, kind) <=>
                        \/ BlockAt(work, s, i, c, kind)
                        \/ s = s0 /\ i = Len(work[s0]) + 1 /\ c = c0 /\ kind = kind0
    OBVIOUS
  <2>1. x = <<c, kind, s>> <=> c = c0 /\ kind = kind0 /\ s = s0
    BY <1>2
  <2>2. BlockAt(work', s, i, c, kind) <=>
          BlockAt(work, s, i, c, kind) \/ (s = s0 /\ i = Len(work[s0]) + 1 /\ x = <<c, kind, s>>)
    BY <1>6
  <2> QED BY <2>1, <2>2
<1>10. \A s \in Streams, i \in Nat, c \in Calls : KernelAt(work', s, i, c) <=> KernelAt(work, s, i, c)
  BY <1>2, <1>5
<1>11. DeviceTypeOK' \/ executed' \notin SUBSET Calls
  BY <1>1, <1>3, PushFacts DEF DeviceTypeOK
<1> QED BY <1>4, <1>8, <1>9, <1>10, <1>11

LEMMA PopFacts ==
  ASSUME DeviceTypeOK, NEW s0 \in Streams, work[s0] # <<>>,
         work' = [work EXCEPT ![s0] = Tail(@)]
  PROVE  /\ DOMAIN work' = Streams
         /\ \A s \in Streams : work'[s] \in Seq(Items(s))
         /\ Head(work[s0]) \in Items(s0)
         /\ \A c \in Calls : KernelAt(work, s0, 1, c) <=> Head(work[s0]) = <<c, "kernel">>
         /\ \A c \in Calls, kind \in Kinds :
              BlockAt(work, s0, 1, c, kind) <=> Head(work[s0]) = <<c, kind, s0>>
         /\ \A s \in Streams \ {s0}, i \in Nat, c \in Calls :
              /\ KernelAt(work', s, i, c) <=> KernelAt(work, s, i, c)
              /\ \A kind \in Kinds : BlockAt(work', s, i, c, kind) <=> BlockAt(work, s, i, c, kind)
         /\ \A i \in Nat, c \in Calls :
              /\ KernelAt(work', s0, i, c) => KernelAt(work, s0, i + 1, c) /\ i # 0
              /\ KernelAt(work, s0, i, c) => i >= 1 /\ (i # 1 => KernelAt(work', s0, i - 1, c))
              /\ \A kind \in Kinds :
                   /\ BlockAt(work', s0, i, c, kind) => BlockAt(work, s0, i + 1, c, kind) /\ i # 0
                   /\ BlockAt(work, s0, i, c, kind) => i >= 1
<1> DEFINE q == work[s0]
<1>1. q \in Seq(Items(s0)) /\ q # <<>>
  BY DEF DeviceTypeOK
<1>2. /\ 1 \in DOMAIN q /\ Head(q) = q[1] /\ Head(q) \in Items(s0)
      /\ Tail(q) \in Seq(Items(s0))
      /\ \A i \in DOMAIN Tail(q) :
           i \in Nat \ {0} /\ i + 1 \in DOMAIN q /\ Tail(q)[i] = q[i + 1]
      /\ \A i \in DOMAIN q \ {1} :
           i - 1 \in DOMAIN Tail(q) /\ Tail(q)[i - 1] = q[i]
  BY <1>1, TailFacts
<1>3. /\ work'[s0] = Tail(q) /\ DOMAIN work' = Streams
      /\ \A s \in Streams \ {s0} : work'[s] = work[s]
  BY DEF DeviceTypeOK
<1>4. \A s \in Streams : work'[s] \in Seq(Items(s))
  BY <1>2, <1>3 DEF DeviceTypeOK
<1>5. \A i \in DOMAIN q : i >= 1
  BY <1>1
<1> HIDE DEF q
<1>6. work[s0] = q
  BY DEF q
<1> QED BY <1>2, <1>3, <1>4, <1>5, <1>6 DEF KernelAt, BlockAt

-----------------------------------------------------------------------------
(* The invariant of the composition, step by step.                         *)

LEMMA DeviceInitOK == DeviceInit => DInv
<1> SUFFICES ASSUME DeviceInit
             PROVE  DInv
  OBVIOUS
<1>1. IInv
  BY InitOK DEF DeviceInit
<1>2. \A c \in Calls : task[c] = "none"
  BY DEF DeviceInit, Init
<1>3. DeviceTypeOK
  BY DEF DeviceInit, DeviceTypeOK
<1>4. \A s \in Streams, i \in Nat, c \in Calls :
        ~KernelAt(work, s, i, c) /\ \A kind \in Kinds : ~BlockAt(work, s, i, c, kind)
  BY DEF DeviceInit, KernelAt, BlockAt
<1> QED BY <1>1, <1>2, <1>3, <1>4
        DEF DeviceInit, DInv, HandedOnOK, KernelsOK, KernelFirst

(* A step of the host launches one kernel on its stream, or none.          *)
LEMMA HostSteps ==
  ASSUME IInv, NEW c \in Calls, Host(c) \/ Python(c)
  PROVE  /\ [Next]_vars /\ UNCHANGED <<executed, handedOn, overwritten>>
         /\ \/ /\ Launch(c)
               /\ work' = [work EXCEPT ![stream[c]] = Append(@, <<c, "kernel">>)]
            \/ /\ work' = work
               /\ \A d \in Calls : task'[d] = "launched" => task[d] = "launched"
<1>1. TypeOK
  BY DEF IInv
<1>2. [Next]_vars /\ UNCHANGED <<executed, handedOn, overwritten>>
  BY DEF Host, Python, Next, deviceVars
<1>3. CASE Launch(c) /\ Host(c)
  <2>1. launched \in Seq(Calls) /\ launched' = Append(launched, c)
    BY <1>1, <1>3 DEF Launch, TypeOK
  <2>2. launched' # launched /\ Last(launched') = c
    BY <2>1 DEF Last
  <2> QED BY <1>2, <1>3, <2>2 DEF Host, Submit
<1>4. CASE Python(c)
  BY <1>2, <1>4 DEF Python, deviceVars, PythonDrops, Enter
<1>5. CASE Host(c) /\ ~Launch(c)
  <2>1. launched' = launched
    BY <1>5 DEF Host, Caller, Closure, GetWorkspaceSize, GetWorkspaceSizeRaises,
         RunOpApiV2, RunOpApiV2Raises, Return, Dequeue, Discard, LaunchRaises
  <2>2. ASSUME NEW d \in Calls, task'[d] = "launched", task[d] # "launched"
        PROVE  FALSE
    <3>1. Launch(d)
      BY <1>2, <2>2, OnlyLaunchLaunches
    <3>2. launched \in Seq(Calls) /\ launched' = Append(launched, d)
      BY <1>1, <3>1 DEF Launch, TypeOK
    <3> QED BY <2>1, <3>2
  <2> QED BY <1>2, <1>5, <2>1, <2>2 DEF Host, Submit
<1> QED BY <1>3, <1>4, <1>5

LEMMA HandedOnStays ==
  ASSUME DInv, [Next]_vars, UNCHANGED handedOn
  PROVE  \A c \in Calls, kind \in Kinds, s \in Streams :
           <<c, kind, s>> \in handedOn' => Unneeded(c, kind)' /\ s \in Homes(c, kind)'
<1> SUFFICES ASSUME NEW c \in Calls, NEW kind \in Kinds, NEW s \in Streams,
                    <<c, kind, s>> \in handedOn
             PROVE  Unneeded(c, kind)' /\ s \in Homes(c, kind)'
  OBVIOUS
<1>1. IInv /\ Unneeded(c, kind) /\ s \in Homes(c, kind)
  BY DEF DInv, HandedOnOK
<1>2. stream'[c] = stream[c]
  BY <1>1, UnneededEnded, NextOnward DEF Onward
<1> QED BY <1>1, <1>2, StaysUnneeded DEF Homes

LEMMA QuietHostKeeps ==
  ASSUME DInv, [Next]_vars, UNCHANGED deviceVars,
         \A d \in Calls : task'[d] = "launched" => task[d] = "launched"
  PROVE  DInv'
<1>1. /\ IInv' /\ UNCHANGED <<work, executed, handedOn, overwritten>>
      /\ \A c \in Calls : task[c] = "launched" <=> task'[c] = "launched"
  BY StepOK, NextOnward DEF DInv, deviceVars, Onward
<1>2. \A c \in Calls : task[c] = "launched" =>
        stream'[c] = stream[c] /\ thread'[c] = thread[c]
  BY NextOnward DEF DInv, IInv, CallsOK, CallerOK, Onward
<1>3. \A s \in Streams, i \in Nat, c \in Calls :
        /\ KernelAt(work', s, i, c) <=> KernelAt(work, s, i, c)
        /\ \A kind \in Kinds : BlockAt(work', s, i, c, kind) <=> BlockAt(work, s, i, c, kind)
  BY <1>1 DEF KernelAt, BlockAt
<1>4. \A c \in Calls : task[c] = "launched" => stream[c] \in Streams
  BY DEF DInv, IInv, CallsOK, CallerOK
<1>5. DeviceTypeOK'
  BY <1>1 DEF DInv, DeviceTypeOK
<1>6. HandedOnOK'
  BY <1>1, <1>3, HandedOnStays DEF DInv, HandedOnOK
<1>7. KernelsOK'
  <2>1. KernelsOK
    BY DEF DInv
  <2>2. \A c \in executed' : task'[c] = "launched"
    BY <1>1, <2>1 DEF KernelsOK, DeviceTypeOK, DInv
  <2>3. \A c \in Calls, s \in Streams, i \in Nat :
          KernelAt(work', s, i, c) =>
            task'[c] = "launched" /\ stream'[c] = s /\ c \notin executed'
    BY <1>1, <1>2, <1>3, <2>1 DEF KernelsOK
  <2>4. \A c, d \in Calls, s \in Streams, i, j \in Nat :
          KernelAt(work', s, i, c) /\ KernelAt(work', s, j, d) /\ i < j =>
            c # d /\ (thread'[c] = thread'[d] => c < d)
    <3> SUFFICES ASSUME NEW c \in Calls, NEW d \in Calls, NEW s \in Streams,
                        NEW i \in Nat, NEW j \in Nat, i < j,
                        KernelAt(work', s, i, c), KernelAt(work', s, j, d)
                 PROVE  c # d /\ (thread'[c] = thread'[d] => c < d)
      OBVIOUS
    <3>1. KernelAt(work, s, i, c) /\ KernelAt(work, s, j, d)
      BY <1>3
    <3>2. thread'[c] = thread[c] /\ thread'[d] = thread[d]
      BY <1>2, <2>1, <3>1 DEF KernelsOK
    <3> QED BY <2>1, <3>1, <3>2 DEF KernelsOK
  <2> QED BY <2>2, <2>3, <2>4 DEF KernelsOK
<1>8. KernelFirst'
  BY <1>1, <1>2, <1>3, <1>4 DEF DInv, KernelFirst
<1> QED BY <1>1, <1>5, <1>6, <1>7, <1>8 DEF DInv

LEMMA DeviceLaunchKeeps ==
  ASSUME DInv, NEW c \in Calls, Launch(c), [Next]_vars,
         UNCHANGED <<executed, handedOn, overwritten>>,
         work' = [work EXCEPT ![stream[c]] = Append(@, <<c, "kernel">>)]
  PROVE  DInv'
<1> DEFINE home == stream[c]
<1>1. /\ IInv /\ IInv' /\ TypeOK /\ CallsOK /\ OldestFirst
      /\ DeviceTypeOK /\ HandedOnOK /\ KernelsOK /\ KernelFirst
  BY StepOK DEF DInv, IInv
<1>2. /\ task[c] = "running" /\ home \in Streams /\ c \notin executed
      /\ task' = [task EXCEPT ![c] = "launched"] /\ UNCHANGED <<stream, thread>>
  BY <1>1 DEF Launch, Leave, CallsOK, CallerOK, KernelsOK
<1>3. \A kind \in Kinds, s \in Streams, i \in Nat :
        <<c, kind, s>> \notin handedOn /\ ~BlockAt(work, s, i, c, kind)
  BY <1>1, <1>2, UnneededEnded DEF HandedOnOK, Waiting
<1>4. DeviceTypeOK'
  BY <1>1, <1>2, PushKernel DEF DeviceTypeOK
<1>5. \A s \in Streams, i \in Nat, d \in Calls, kind \in Kinds :
        BlockAt(work', s, i, d, kind) <=> BlockAt(work, s, i, d, kind)
  BY <1>1, <1>2, PushKernel
<1>6. PICK last \in Nat :
        /\ \A s \in Streams, i \in Nat, d \in Calls :
             KernelAt(work', s, i, d) <=>
               KernelAt(work, s, i, d) \/ (s = home /\ i = last /\ d = c)
        /\ \A i \in Nat, d \in Calls :
             /\ KernelAt(work, home, i, d) => i < last
             /\ \A kind \in Kinds : BlockAt(work, home, i, d, kind) => i < last
  BY <1>1, <1>2, PushKernel
<1> HIDE DEF home
<1>7. stream[c] = home
  BY DEF home
<1>8. HandedOnOK'
  BY <1>1, <1>5, HandedOnStays DEF DInv, HandedOnOK
<1>9. KernelsOK'
  <2>1. \A d \in executed' : task'[d] = "launched"
    BY <1>1, <1>2 DEF KernelsOK, TypeOK, DeviceTypeOK
  <2>2. \A d \in Calls, s \in Streams, i \in Nat :
          KernelAt(work', s, i, d) =>
            task'[d] = "launched" /\ stream'[d] = s /\ d \notin executed'
    BY <1>1, <1>2, <1>6, <1>7 DEF KernelsOK, TypeOK
  <2>3. ASSUME NEW d \in Calls, NEW e \in Calls, NEW s \in Streams,
               NEW i \in Nat, NEW j \in Nat, i < j, KernelAt(work', s, i, d), KernelAt(work', s, j, e)
        PROVE  d # e /\ (thread'[d] = thread'[e] => d < e)
    <3>1. KernelAt(work, s, i, d)
      BY <1>6, <2>3
    <3>2. task[d] = "launched" /\ d # c
      BY <1>1, <1>2, <3>1 DEF KernelsOK
    <3>3. CASE e = c
      BY <1>1, <1>2, <3>2, <3>3 DEF OldestFirst, Waiting
    <3>4. CASE e # c
      <4>1. KernelAt(work, s, j, e)
        BY <1>6, <2>3, <3>4
      <4> QED BY <1>1, <1>2, <2>3, <3>1, <4>1 DEF KernelsOK
    <3> QED BY <3>3, <3>4
  <2> QED BY <2>1, <2>2, <2>3 DEF KernelsOK
<1>10. KernelFirst'
  <2> SUFFICES ASSUME NEW d \in Calls, task'[d] = "launched", d \notin executed
               PROVE  \E i \in Nat :
                        /\ KernelAt(work', stream'[d], i, d)
                        /\ \A kind \in Kinds :
                             /\ <<d, kind, stream'[d]>> \notin overwritten'
                             /\ \A j \in Nat : BlockAt(work', stream'[d], j, d, kind) => i < j
    BY DEF KernelFirst
  <2>1. CASE d = c
    <3>1. KernelAt(work', home, last, c) /\ stream'[d] = home
      BY <1>2, <1>6, <1>7, <2>1
    <3>2. \A kind \in Kinds : <<c, kind, home>> \notin overwritten'
      BY <1>1, <1>2, <1>3 DEF HandedOnOK
    <3>3. \A kind \in Kinds, j \in Nat : ~BlockAt(work', home, j, c, kind)
      BY <1>2, <1>3, <1>5
    <3> QED BY <2>1, <3>1, <3>2, <3>3
  <2>2. CASE d # c
    <3>1. task[d] = "launched" /\ stream[d] \in Streams /\ stream'[d] = stream[d]
      BY <1>1, <1>2, <2>2 DEF TypeOK, CallsOK, CallerOK
    <3>2. PICK i \in Nat :
            /\ KernelAt(work, stream[d], i, d)
            /\ \A kind \in Kinds : /\ <<d, kind, stream[d]>> \notin overwritten
                                   /\ \A j \in Nat : BlockAt(work, stream[d], j, d, kind) => i < j
      BY <1>1, <3>1 DEF KernelFirst
    <3>3. KernelAt(work', stream[d], i, d)
      BY <1>6, <3>1, <3>2
    <3>4. \A kind \in Kinds, j \in Nat : BlockAt(work', stream[d], j, d, kind) => i < j
      BY <1>5, <3>1, <3>2
    <3> QED BY <3>1, <3>2, <3>3, <3>4
  <2> QED BY <2>1, <2>2
<1> QED BY <1>1, <1>4, <1>8, <1>9, <1>10 DEF DInv

LEMMA HandOnKeeps ==
  ASSUME DInv, NEW c \in Calls, NEW kind0 \in Kinds, HandOn(c, kind0)
  PROVE  DInv'
<1>1. /\ IInv /\ TypeOK /\ CallsOK
      /\ DeviceTypeOK /\ HandedOnOK /\ KernelsOK /\ KernelFirst
  BY DEF DInv, IInv
<1>2. /\ Unneeded(c, kind0) /\ UNCHANGED <<vars, executed, overwritten>>
      /\ \A s \in Streams : <<c, kind0, s>> \notin handedOn
  BY DEF HandOn, Unneeded
<1>3. pc[c] \in {"returned", "raised"}
  BY <1>1, <1>2, UnneededEnded
<1>4. PICK s0 \in Homes(c, kind0) :
        /\ handedOn' = handedOn \cup {<<c, kind0, s0>>}
        /\ work' = [work EXCEPT ![s0] = Append(@, <<c, kind0, s0>>)]
  BY DEF HandOn
<1>5. s0 \in Streams
  BY <1>1, <1>3 DEF Homes, CallsOK, CallerOK
<1>6. DeviceTypeOK'
  BY <1>1, <1>2, <1>4, <1>5, PushBlock DEF DeviceTypeOK
<1>7. \A s \in Streams, i \in Nat, d \in Calls : KernelAt(work', s, i, d) <=> KernelAt(work, s, i, d)
  BY <1>1, <1>4, <1>5, PushBlock
<1>8. /\ \A s \in Streams, i \in Nat, d \in Calls, kind \in Kinds :
           BlockAt(work', s, i, d, kind) <=>
             \/ BlockAt(work, s, i, d, kind)
             \/ s = s0 /\ i = Len(work[s0]) + 1 /\ d = c /\ kind = kind0
      /\ \A i \in Nat, d \in Calls : KernelAt(work, s0, i, d) => i < Len(work[s0]) + 1
  BY <1>1, <1>4, <1>5, PushBlock
<1>9. IInv'
  BY <1>1, <1>2, StepOK
<1>10. HandedOnOK'
  <2>1. \A d \in Calls, kind \in Kinds : Unneeded(d, kind) => Unneeded(d, kind)'
    BY <1>2 DEF vars, Unneeded, Allocated, Held, InCall, Ended
  <2>2. \A d \in Calls, kind \in Kinds, s \in Streams :
          <<d, kind, s>> \in handedOn' => Unneeded(d, kind)' /\ s \in Homes(d, kind)'
    BY <1>1, <1>2, <1>4, <2>1 DEF HandedOnOK, Homes, vars
  <2>3. \A d \in Calls, kind \in Kinds, s \in Streams, i \in Nat :
          BlockAt(work', s, i, d, kind) => <<d, kind, s>> \in handedOn'
    BY <1>1, <1>4, <1>8 DEF HandedOnOK
  <2>4. overwritten' \subseteq handedOn'
    BY <1>1, <1>2, <1>4 DEF HandedOnOK
  <2> QED BY <2>2, <2>3, <2>4 DEF HandedOnOK
<1>11. KernelsOK'
  BY <1>1, <1>2, <1>7 DEF KernelsOK, vars
<1>12. KernelFirst'
  <2> SUFFICES ASSUME NEW d \in Calls, task[d] = "launched", d \notin executed
               PROVE  \E i \in Nat :
                        /\ KernelAt(work', stream[d], i, d)
                        /\ \A kind \in Kinds :
                             /\ <<d, kind, stream[d]>> \notin overwritten
                             /\ \A j \in Nat : BlockAt(work', stream[d], j, d, kind) => i < j
    BY <1>2 DEF KernelFirst, vars
  <2>1. stream[d] \in Streams
    BY <1>1 DEF CallsOK, CallerOK
  <2>2. PICK i \in Nat :
          /\ KernelAt(work, stream[d], i, d)
          /\ \A kind \in Kinds : /\ <<d, kind, stream[d]>> \notin overwritten
                                 /\ \A j \in Nat : BlockAt(work, stream[d], j, d, kind) => i < j
    BY <1>1 DEF KernelFirst
  <2>3. ASSUME NEW kind \in Kinds, NEW j \in Nat, BlockAt(work', stream[d], j, d, kind)
        PROVE  i < j
    <3>1. \/ BlockAt(work, stream[d], j, d, kind)
          \/ stream[d] = s0 /\ j = Len(work[s0]) + 1
      BY <1>8, <2>1, <2>3
    <3>2. stream[d] = s0 => i < Len(work[s0]) + 1
      BY <1>8, <2>2
    <3> QED BY <2>2, <3>1, <3>2
  <2> QED BY <1>7, <2>1, <2>2, <2>3
<1> QED BY <1>6, <1>9, <1>10, <1>11, <1>12 DEF DInv

(* The device runs the oldest kernel of a stream, or writes to a block.    *)
LEMMA ExecuteFacts ==
  ASSUME DeviceTypeOK, NEW s0 \in Streams, Execute(s0)
  PROVE  /\ work[s0] # <<>> /\ work' = [work EXCEPT ![s0] = Tail(@)]
         /\ UNCHANGED <<vars, handedOn>>
         /\ \/ \E c \in Calls : /\ KernelAt(work, s0, 1, c)
                                /\ \A d \in Calls : KernelAt(work, s0, 1, d) => d = c
                                /\ executed' = executed \cup {c}
                                /\ UNCHANGED overwritten
            \/ \E c \in Calls, kind \in Kinds :
                 /\ BlockAt(work, s0, 1, c, kind)
                 /\ \A d \in Calls : ~KernelAt(work, s0, 1, d)
                 /\ overwritten' = overwritten \cup {<<c, kind, s0>>}
                 /\ UNCHANGED executed
<1> DEFINE item == Head(work[s0])
<1>1. work[s0] # <<>> /\ work' = [work EXCEPT ![s0] = Tail(@)] /\ UNCHANGED <<vars, handedOn>>
  BY DEF Execute
<1>2. /\ item \in Items(s0)
      /\ \A c \in Calls : KernelAt(work, s0, 1, c) <=> item = <<c, "kernel">>
      /\ \A c \in Calls, kind \in Kinds : BlockAt(work, s0, 1, c, kind) <=> item = <<c, kind, s0>>
  BY <1>1, PopFacts
<1>3. IF item[2] = "kernel"
        THEN executed' = executed \cup {item[1]} /\ UNCHANGED overwritten
        ELSE overwritten' = overwritten \cup {item} /\ UNCHANGED executed
  BY DEF Execute
<1> HIDE DEF item
<1>4. CASE \E c \in Calls : item = <<c, "kernel">>
  <2>1. PICK c \in Calls : item = <<c, "kernel">>
    BY <1>4
  <2>2. item[2] = "kernel" /\ item[1] = c
    BY <2>1
  <2>3. \A d \in Calls : KernelAt(work, s0, 1, d) => d = c
    BY <1>2, <2>1
  <2> QED BY <1>1, <1>2, <1>3, <2>1, <2>2, <2>3
<1>5. CASE \E c \in Calls, kind \in Kinds : item = <<c, kind, s0>>
  <2>1. PICK c \in Calls, kind \in Kinds : item = <<c, kind, s0>>
    BY <1>5
  <2>2. item[2] # "kernel"
    BY <2>1 DEF Kinds
  <2>3. \A d \in Calls : ~KernelAt(work, s0, 1, d)
    BY <1>2, <2>2
  <2> QED BY <1>1, <1>2, <1>3, <2>1, <2>2, <2>3
<1> QED BY <1>2, <1>4, <1>5 DEF Items

LEMMA ExecuteKeeps ==
  ASSUME DInv, NEW s0 \in Streams, Execute(s0)
  PROVE  DInv'
<1>1. /\ IInv /\ DeviceTypeOK /\ HandedOnOK /\ KernelsOK /\ KernelFirst
  BY DEF DInv
<1>2. /\ work[s0] # <<>> /\ work' = [work EXCEPT ![s0] = Tail(@)]
      /\ UNCHANGED <<vars, handedOn>>
  BY <1>1, ExecuteFacts
<1>3. IInv'
  BY <1>1, <1>2, StepOK
<1>4. /\ DOMAIN work' = Streams
      /\ \A s \in Streams : work'[s] \in Seq(Items(s))
  BY <1>1, <1>2, PopFacts
<1>5. /\ \A s \in Streams \ {s0}, i \in Nat, c \in Calls :
           /\ KernelAt(work', s, i, c) <=> KernelAt(work, s, i, c)
           /\ \A kind \in Kinds : BlockAt(work', s, i, c, kind) <=> BlockAt(work, s, i, c, kind)
      /\ \A i \in Nat, c \in Calls :
           /\ KernelAt(work', s0, i, c) => KernelAt(work, s0, i + 1, c) /\ i # 0
           /\ KernelAt(work, s0, i, c) => i >= 1 /\ (i # 1 => KernelAt(work', s0, i - 1, c))
           /\ \A kind \in Kinds :
                BlockAt(work', s0, i, c, kind) => BlockAt(work, s0, i + 1, c, kind)
  BY <1>1, <1>2, PopFacts
(* What is left was there before, one place further back in s0.            *)
<1>6. DEFINE before(s, i) == IF s = s0 THEN i + 1 ELSE i
<1>7. \A s \in Streams, i \in Nat, c \in Calls :
        /\ before(s, i) \in Nat
        /\ KernelAt(work', s, i, c) => KernelAt(work, s, before(s, i), c)
        /\ \A kind \in Kinds :
             BlockAt(work', s, i, c, kind) => BlockAt(work, s, before(s, i), c, kind)
  BY <1>5
<1>8. \A s \in Streams, i, j \in Nat : i < j => before(s, i) < before(s, j)
  OBVIOUS
<1> HIDE DEF before
<1>9. /\ \A c \in Calls, s \in Streams, i \in Nat :
           KernelAt(work', s, i, c) => task[c] = "launched" /\ stream[c] = s
      /\ \A c, d \in Calls, s \in Streams, i, j \in Nat :
           KernelAt(work', s, i, c) /\ KernelAt(work', s, j, d) /\ i < j =>
             c # d /\ (thread[c] = thread[d] => c < d)
  BY <1>1, <1>7, <1>8 DEF KernelsOK
<1>10. \A c \in Calls, kind \in Kinds, s \in Streams, i \in Nat :
         BlockAt(work', s, i, c, kind) => <<c, kind, s>> \in handedOn
  BY <1>1, <1>7 DEF HandedOnOK
<1>11. ASSUME executed' \in SUBSET Calls, overwritten' \subseteq handedOn,
              \A c \in executed' : task[c] = "launched",
              \A c \in Calls, s \in Streams, i \in Nat :
                KernelAt(work', s, i, c) => c \notin executed',
              \A c \in Calls : task[c] = "launched" /\ c \notin executed' =>
                /\ c \notin executed /\ ~KernelAt(work, s0, 1, c)
                /\ \A kind \in Kinds : <<c, kind, stream[c]>> \notin overwritten'
       PROVE  DInv'
  <2>1. DeviceTypeOK'
    BY <1>4, <1>11 DEF DeviceTypeOK
  <2>2. HandedOnOK'
    <3>1. \A c \in Calls, kind \in Kinds, s \in Streams :
            <<c, kind, s>> \in handedOn' => Unneeded(c, kind)' /\ s \in Homes(c, kind)'
      BY <1>2, HandedOnStays
    <3> QED BY <1>2, <1>10, <1>11, <3>1 DEF HandedOnOK
  <2>3. KernelsOK'
    BY <1>2, <1>9, <1>11 DEF KernelsOK, vars
  <2>4. KernelFirst'
    <3> SUFFICES ASSUME NEW c \in Calls, task[c] = "launched", c \notin executed'
                 PROVE  \E i \in Nat :
                          /\ KernelAt(work', stream[c], i, c)
                          /\ \A kind \in Kinds :
                               /\ <<c, kind, stream[c]>> \notin overwritten'
                               /\ \A j \in Nat :
                                    BlockAt(work', stream[c], j, c, kind) => i < j
      BY <1>2 DEF KernelFirst, vars
    <3>1. stream[c] \in Streams
      BY <1>1 DEF IInv, CallsOK, CallerOK
    <3>2. PICK i \in Nat :
            /\ KernelAt(work, stream[c], i, c)
            /\ \A kind \in Kinds, j \in Nat : BlockAt(work, stream[c], j, c, kind) => i < j
      BY <1>1, <1>11 DEF KernelFirst
    <3>3. CASE stream[c] = s0
      <4>1. i - 1 \in Nat /\ KernelAt(work', stream[c], i - 1, c)
        BY <1>5, <1>11, <3>2, <3>3
      <4>2. \A kind \in Kinds, j \in Nat :
              BlockAt(work', stream[c], j, c, kind) => i - 1 < j
        BY <1>5, <3>2, <3>3
      <4> QED BY <1>11, <4>1, <4>2
    <3>4. CASE stream[c] # s0
      BY <1>5, <1>11, <3>1, <3>2, <3>4
    <3> QED BY <3>3, <3>4
  <2> QED BY <1>3, <2>1, <2>2, <2>3, <2>4 DEF DInv
<1>12. ASSUME NEW c \in Calls, KernelAt(work, s0, 1, c),
              \A d \in Calls : KernelAt(work, s0, 1, d) => d = c,
              executed' = executed \cup {c}, UNCHANGED overwritten
       PROVE  DInv'
  <2>1. task[c] = "launched" /\ stream[c] = s0
    BY <1>1, <1>12 DEF KernelsOK
  <2>2. \A d \in Calls, s \in Streams, i \in Nat :
          KernelAt(work', s, i, d) => d \notin executed'
    <3> SUFFICES ASSUME NEW d \in Calls, NEW s \in Streams, NEW i \in Nat,
                        KernelAt(work', s, i, d)
                 PROVE  d # c /\ d \notin executed
      BY <1>12
    <3>1. d \notin executed /\ stream[d] = s
      BY <1>1, <1>7 DEF KernelsOK
    <3>2. CASE s = s0
      <4>1. KernelAt(work, s0, i + 1, d) /\ 1 < i + 1 /\ i + 1 \in Nat
        BY <1>5, <3>2
      <4> QED BY <1>1, <1>12, <3>1, <4>1 DEF KernelsOK
    <3> QED BY <2>1, <3>1, <3>2
  <2>3. \A d \in Calls, kind \in Kinds :
          task[d] = "launched" /\ d \notin executed =>
            <<d, kind, stream[d]>> \notin overwritten
    BY <1>1 DEF KernelFirst
  <2> QED BY <1>1, <1>2, <1>11, <1>12, <2>1, <2>2, <2>3
          DEF DeviceTypeOK, HandedOnOK, KernelsOK
<1>13. ASSUME NEW c \in Calls, NEW kind \in Kinds, BlockAt(work, s0, 1, c, kind),
              \A d \in Calls : ~KernelAt(work, s0, 1, d),
              overwritten' = overwritten \cup {<<c, kind, s0>>}, UNCHANGED executed
       PROVE  DInv'
  <2>1. <<c, kind, s0>> \in handedOn
    BY <1>1, <1>13 DEF HandedOnOK
  <2>2. ASSUME NEW d \in Calls, NEW k \in Kinds, task[d] = "launched", d \notin executed
        PROVE  <<d, k, stream[d]>> \notin overwritten'
    <3>1. PICK i \in Nat :
            /\ KernelAt(work, stream[d], i, d)
            /\ <<d, k, stream[d]>> \notin overwritten
            /\ \A j \in Nat : BlockAt(work, stream[d], j, d, k) => i < j
      BY <1>1, <2>2 DEF KernelFirst
    <3>2. <<d, k, stream[d]>> # <<c, kind, s0>>
      <4> SUFFICES ASSUME d = c, k = kind, stream[d] = s0
                   PROVE  FALSE
        OBVIOUS
      <4>1. i < 1 /\ i >= 1
        BY <1>5, <1>13, <3>1
      <4> QED BY <4>1
    <3> QED BY <1>13, <3>1, <3>2
  <2>3. \A d \in Calls, s \in Streams, i \in Nat :
          KernelAt(work', s, i, d) => d \notin executed'
    BY <1>1, <1>7, <1>13 DEF KernelsOK
  <2> QED BY <1>1, <1>2, <1>11, <1>13, <2>1, <2>2, <2>3
          DEF DeviceTypeOK, HandedOnOK, KernelsOK
<1> QED BY <1>1, <1>12, <1>13, ExecuteFacts

LEMMA DeviceStepOK == DInv /\ [DeviceNext]_allVars => DInv'
<1> SUFFICES ASSUME DInv, [DeviceNext]_allVars
             PROVE  DInv'
  OBVIOUS
<1>1. IInv
  BY DEF DInv
<1>2. ASSUME NEW c \in Calls, Host(c) \/ Python(c)
      PROVE  DInv'
  <2>1. /\ [Next]_vars /\ UNCHANGED <<executed, handedOn, overwritten>>
        /\ \/ /\ Launch(c)
              /\ work' = [work EXCEPT ![stream[c]] = Append(@, <<c, "kernel">>)]
           \/ /\ work' = work
              /\ \A d \in Calls : task'[d] = "launched" => task[d] = "launched"
    BY <1>1, <1>2, HostSteps
  <2> QED BY <2>1, DeviceLaunchKeeps, QuietHostKeeps DEF deviceVars
<1>3. ASSUME NEW c \in Calls, NEW kind \in Kinds, HandOn(c, kind)
      PROVE  DInv'
  BY <1>3, HandOnKeeps
<1>4. ASSUME NEW s \in Streams, Execute(s)
      PROVE  DInv'
  BY <1>4, ExecuteKeeps
<1>5. CASE AllIdle \/ UNCHANGED allVars
  <2>1. UNCHANGED vars /\ UNCHANGED deviceVars
    BY <1>5 DEF AllIdle, Terminated, allVars
  <2> QED BY <2>1, QuietHostKeeps DEF vars
<1> QED BY <1>2, <1>3, <1>4, <1>5 DEF DeviceNext

(* The invariant of the launch and the device together.                    *)
THEOREM DeviceInvariance == DeviceSpec => []DInv
BY DeviceInitOK, DeviceStepOK, PTL DEF DeviceSpec

(* From queueing to completion nobody else writes to a kernel's workspace, *)
(* nor to those of its tensors that belong to its own stream.              *)
THEOREM DeviceMemoryCorrect == DeviceSpec => []KernelMemoryUntouched
<1>1. DInv => KernelMemoryUntouched
  <2> SUFFICES ASSUME DInv, NEW c \in Calls, NEW kind \in Kinds, NEW s \in Streams,
                      <<c, kind, s>> \in overwritten, c \notin executed,
                      task[c] \in {"queued", "running", "launched"},
                      kind = "tensors" => s = stream[c]
               PROVE  FALSE
    BY DEF KernelMemoryUntouched
  <2>1. Unneeded(c, kind)
    BY DEF DInv, HandedOnOK
  <2>2. task[c] = "launched"
    BY <2>1, UnneededEnded DEF DInv, Waiting
  <2>3. s = stream[c]
    BY DEF DInv, HandedOnOK, Homes, Kinds
  <2> QED BY <2>2, <2>3 DEF DInv, KernelFirst
<1> QED BY <1>1, DeviceInvariance, PTL

-----------------------------------------------------------------------------
(* The promise of OrderedCalls: each step is one of its steps or none.     *)

Told(c) == IF Ended(c) THEN pc[c] ELSE "nothing"

LEMMA AbstractSame ==
  ASSUME UNCHANGED <<thread, stream>>,
         \A c \in Calls : Told(c)' = Told(c) /\ Kernel(c)' = Kernel(c)
  PROVE  UNCHANGED Abstract!vars
BY DEF Told, Abstract!vars

LEMMA AbstractLose ==
  ASSUME NEW c \in Calls, UNCHANGED <<thread, stream>>, Kernel(c) = "open",
         \A d \in Calls : Kernel(d)' = IF d = c THEN "lost" ELSE Kernel(d),
         \A d \in Calls \ {c} : Told(d)' = Told(d),
         Told(c)' = Told(c) \/ (Told(c) = "nothing" /\ Told(c)' = "raised")
  PROVE  Abstract!Next
<1>1. Abstract!Lose(c)
  BY DEF Told, Abstract!Lose
<1> QED BY <1>1 DEF Abstract!Next

LEMMA AbstractReturn ==
  ASSUME NEW c \in Calls, UNCHANGED <<thread, stream>>, Kernel(c) # "none",
         Told(c) = "nothing", Told(c)' = "returned",
         \A d \in Calls \ {c} : Told(d)' = Told(d),
         \A d \in Calls : Kernel(d)' = Kernel(d)
  PROVE  Abstract!Next
<1>1. Abstract!Return(c)
  BY DEF Told, Abstract!Return
<1> QED BY <1>1 DEF Abstract!Next

LEMMA AbstractRun ==
  ASSUME NEW c \in Calls, UNCHANGED <<thread, stream>>, Kernel(c) = "open",
         \A d \in Calls : d < c /\ thread[d] = thread[c] /\ stream[d] = stream[c] =>
                            Kernel(d) # "open",
         \A d \in Calls : Kernel(d)' = IF d = c THEN "run" ELSE Kernel(d),
         \A d \in Calls : Told(d)' = Told(d)
  PROVE  Abstract!Next
<1>1. Abstract!Run(c)
  BY DEF Told, Abstract!Run
<1> QED BY <1>1 DEF Abstract!Next

LEMMA AbstractBegin ==
  ASSUME NEW c \in Calls, NEW t \in Threads, NEW s \in Streams,
         Kernel(c) = "none", \A d \in Calls : d < c => Kernel(d) # "none",
         \A d \in Calls : thread[d] = t => Told(d) # "nothing",
         thread' = [thread EXCEPT ![c] = t], stream' = [stream EXCEPT ![c] = s],
         \A d \in Calls \ {c} : Kernel(d)' = Kernel(d) /\ Told(d)' = Told(d),
         \/ Kernel(c)' = "open" /\ Told(c)' = Told(c)
         \/ Kernel(c)' = "lost" /\ Told(c)' = "raised"
  PROVE  Abstract!Next
<1>1. Abstract!Begin(c, t, s)
  BY DEF Told, Abstract!Begin
<1> QED BY <1>1 DEF Abstract!Next

(* Which kernel is which; a lost one has not run, nor has a waiting one.   *)
LEMMA KernelIs ==
  ASSUME DInv, NEW c \in Calls
  PROVE  /\ Kernel(c) = "none" <=> pc[c] = "idle"
         /\ Kernel(c) = "open" <=>
              /\ pc[c] \notin {"idle", "raised"} /\ c \notin executed
              /\ task[c] \notin {"failed", "dropped"}
         /\ pc[c] = "idle" => Told(c) = "nothing" /\ task[c] = "none"
         /\ InCall(c) => Told(c) = "nothing"
         /\ task[c] # "launched" => c \notin executed
BY DEF DInv, IInv, CallsOK, CallerOK, KernelsOK, Kernel, Told, InCall, Ended

(* A step of the host that keeps every call at the same kernel.            *)
LEMMA HostStutters ==
  ASSUME DInv, NEW c \in Calls, UNCHANGED <<thread, stream, executed>>,
         \A d \in Calls \ {c} : pc'[d] = pc[d] /\ task'[d] = task[d],
         Kernel(c) = "open", pc'[c] \notin {"idle", "raised"},
         task'[c] \notin {"failed", "dropped"}, Told(c)' = Told(c)
  PROVE  UNCHANGED Abstract!vars
<1>1. \A d \in Calls \ {c} : Kernel(d)' = Kernel(d) /\ Told(d)' = Told(d)
  BY DEF Kernel, Told, Ended
<1>2. Kernel(c)' = "open"
  BY KernelIs DEF Kernel
<1> QED BY <1>1, <1>2, AbstractSame

LEMMA EnterImplements ==
  ASSUME DInv, NEW c \in Calls, NEW t \in Threads, NEW s \in Streams,
         Enter(t, c, s), UNCHANGED executed
  PROVE  Abstract!Next
<1>1. TypeOK /\ CallsOK
  BY DEF DInv, IInv
<1>2. /\ pc[c] = "idle" /\ task[c] = "none" /\ c \notin executed
      /\ Kernel(c) = "none" /\ Told(c) = "nothing"
  BY KernelIs DEF Enter, NextCall
<1>3. \A d \in Calls : d < c => Kernel(d) # "none"
  BY KernelIs DEF Enter, NextCall
<1>4. \A d \in Calls : thread[d] = t => Told(d) # "nothing"
  BY <1>1, OrderedLaunchAssumption DEF Enter, CallsOK, CallerOK, InCall, Told, Ended
<1>5. /\ thread' = [thread EXCEPT ![c] = t] /\ stream' = [stream EXCEPT ![c] = s]
      /\ pc'[c] \in {"raised", "converted"} /\ UNCHANGED task
      /\ \A d \in Calls \ {c} : pc'[d] = pc[d]
  BY <1>1 DEF Enter, TypeOK
<1>6. \A d \in Calls \ {c} : Kernel(d)' = Kernel(d) /\ Told(d)' = Told(d)
  BY <1>5 DEF Kernel, Told, Ended
<1>7. \/ Kernel(c)' = "open" /\ Told(c)' = Told(c)
      \/ Kernel(c)' = "lost" /\ Told(c)' = "raised"
  <2>1. CASE pc'[c] = "raised"
    BY <1>2, <2>1 DEF Kernel, Told, Ended
  <2>2. CASE pc'[c] = "converted"
    BY <1>2, <1>5, <2>2 DEF Kernel, Told, Ended
  <2> QED BY <1>5, <2>1, <2>2
<1> QED BY <1>2, <1>3, <1>4, <1>5, <1>6, <1>7, AbstractBegin

(* The steps of a call after it has entered, and those of its closure.     *)
LEMMA CallImplements ==
  ASSUME DInv, NEW c \in Calls, Caller(c) \/ Closure(c) \/ PythonDrops(c),
         UNCHANGED executed
  PROVE  Abstract!Next \/ UNCHANGED Abstract!vars
<1>1. TypeOK /\ CallsOK /\ QueueOK
  BY DEF DInv, IInv
<1>2. UNCHANGED <<thread, stream>>
  BY DEF Caller, Closure, GetWorkspaceSize, GetWorkspaceSizeRaises, RunOpApiV2,
       RunOpApiV2Raises, Return, PythonDrops, Dequeue, Discard, Launch, LaunchRaises, Leave
<1>3. ASSUME NEW next, pc' = [pc EXCEPT ![c] = next], UNCHANGED task,
             pc[c] \in {"converted", "sized"}
      PROVE  /\ next = "sized" => UNCHANGED Abstract!vars
             /\ next = "raised" => Abstract!Next
  <2>1. /\ Kernel(c) = "open" /\ Told(c) = "nothing" /\ pc'[c] = next
        /\ \A d \in Calls \ {c} : pc'[d] = pc[d]
        /\ task[c] = "none" /\ c \notin executed
    BY <1>1, <1>3, KernelIs DEF TypeOK, CallsOK, CallerOK, InCall, Ended
  <2>2. ASSUME next = "sized"
        PROVE  UNCHANGED Abstract!vars
    <3>1. Told(c)' = Told(c)
      BY <2>1, <2>2 DEF Told, Ended
    <3> QED BY <1>2, <1>3, <2>1, <2>2, <3>1, HostStutters
  <2>3. ASSUME next = "raised"
        PROVE  Abstract!Next
    <3>1. \A d \in Calls \ {c} : Kernel(d)' = Kernel(d) /\ Told(d)' = Told(d)
      BY <1>3, <2>1 DEF Kernel, Told, Ended
    <3>2. Kernel(c)' = "lost" /\ Told(c)' = "raised"
      BY <1>3, <2>1, <2>3 DEF Kernel, Told, Ended
    <3> QED BY <1>2, <2>1, <3>1, <3>2, AbstractLose
  <2> QED BY <2>2, <2>3
<1>4. CASE GetWorkspaceSize(c) \/ GetWorkspaceSizeRaises(c) \/ RunOpApiV2Raises(c)
  BY <1>3, <1>4 DEF GetWorkspaceSize, GetWorkspaceSizeRaises, RunOpApiV2Raises
<1>5. CASE RunOpApiV2(c)
  <2>1. /\ pc[c] = "sized" /\ pc'[c] \in {"submitted", "running"}
        /\ task[c] = "none" /\ task'[c] \in {"queued", "running"}
        /\ \A d \in Calls \ {c} : pc'[d] = pc[d] /\ task'[d] = task[d]
    BY <1>1, <1>5 DEF RunOpApiV2, TypeOK, CallsOK, CallerOK
  <2>2. Kernel(c) = "open" /\ Told(c)' = Told(c)
    BY <2>1, KernelIs DEF Told, Ended
  <2> QED BY <1>2, <2>1, <2>2, HostStutters
<1>6. CASE Return(c)
  <2>1. /\ pc[c] = "submitted" /\ pc' = [pc EXCEPT ![c] = "returned"] /\ UNCHANGED task
        /\ pc'[c] = "returned" /\ \A d \in Calls \ {c} : pc'[d] = pc[d]
    BY <1>1, <1>6 DEF Return, TypeOK
  <2>2. Told(c) = "nothing" /\ Told(c)' = "returned" /\ Kernel(c) # "none"
    BY <2>1, KernelIs DEF Told, Ended
  <2>3. \A d \in Calls \ {c} : Kernel(d)' = Kernel(d) /\ Told(d)' = Told(d)
    BY <2>1 DEF Kernel, Told, Ended
  <2>4. Kernel(c)' = Kernel(c)
    BY <2>1 DEF Kernel
  <2> QED BY <1>2, <2>2, <2>3, <2>4, AbstractReturn
<1>7. CASE PythonDrops(c)
  <2>1. UNCHANGED <<pc, task>>
    BY <1>7 DEF PythonDrops
  <2>2. \A d \in Calls : Kernel(d)' = Kernel(d) /\ Told(d)' = Told(d)
    BY <2>1 DEF Kernel, Told, Ended
  <2> QED BY <1>2, <2>2, AbstractSame
<1>8. CASE Dequeue(c)
  <2>1. /\ task[c] = "queued" /\ task'[c] = "running" /\ UNCHANGED pc
        /\ \A d \in Calls \ {c} : task'[d] = task[d]
    BY <1>1, <1>8, TakeFacts DEF Dequeue, TypeOK, DInv
  <2>2. Kernel(c) = "open" /\ pc[c] \notin {"idle", "raised"} /\ Told(c)' = Told(c)
    BY <1>1, <2>1, KernelIs DEF CallsOK, CallerOK, Told, Ended
  <2> QED BY <1>2, <2>1, <2>2, HostStutters
<1>9. CASE Discard(c)
  <2>1. /\ task[c] = "queued" /\ task'[c] = "dropped" /\ UNCHANGED pc
        /\ \A d \in Calls \ {c} : task'[d] = task[d]
    BY <1>1, <1>9, TakeFacts DEF Discard, TypeOK, DInv
  <2>2. Kernel(c) = "open" /\ pc[c] \notin {"idle", "raised"} /\ c \notin executed
    BY <1>1, <2>1, KernelIs DEF CallsOK, CallerOK
  <2>3. \A d \in Calls \ {c} : Kernel(d)' = Kernel(d)
    BY <2>1 DEF Kernel
  <2>4. Kernel(c)' = "lost" /\ \A d \in Calls : Told(d)' = Told(d)
    BY <2>1, <2>2 DEF Kernel, Told, Ended
  <2> QED BY <1>2, <2>2, <2>3, <2>4, AbstractLose
<1>10. CASE Launch(c)
  <2>1. /\ task[c] = "running" /\ task'[c] = "launched"
        /\ \A d \in Calls \ {c} : pc'[d] = pc[d] /\ task'[d] = task[d]
        /\ pc'[c] = pc[c] \/ (pc[c] = "running" /\ pc'[c] = "submitted")
    BY <1>1, <1>10 DEF Launch, Leave, TypeOK, CallsOK, ClosureOK
  <2>2. Kernel(c) = "open" /\ pc'[c] \notin {"idle", "raised"} /\ Told(c)' = Told(c)
    BY <1>1, <2>1, KernelIs DEF CallsOK, CallerOK, Told, Ended
  <2> QED BY <1>2, <2>1, <2>2, HostStutters
<1>11. CASE LaunchRaises(c)
  <2>1. /\ task[c] = "running" /\ task'[c] = "failed"
        /\ \A d \in Calls \ {c} : pc'[d] = pc[d] /\ task'[d] = task[d]
        /\ pc'[c] = pc[c] \/ (pc[c] = "running" /\ pc'[c] = "raised")
    BY <1>1, <1>11 DEF LaunchRaises, Leave, TypeOK, CallsOK, ClosureOK
  <2>2. Kernel(c) = "open" /\ pc[c] \notin {"idle", "raised"} /\ c \notin executed
    BY <1>1, <2>1, KernelIs DEF CallsOK, CallerOK
  <2>3. \A d \in Calls \ {c} : Kernel(d)' = Kernel(d) /\ Told(d)' = Told(d)
    BY <2>1 DEF Kernel, Told, Ended
  <2>4. Kernel(c)' = "lost"
    BY <2>1, <2>2 DEF Kernel
  <2>5. Told(c)' = Told(c) \/ (Told(c) = "nothing" /\ Told(c)' = "raised")
    BY <2>1 DEF Told, Ended
  <2> QED BY <1>2, <2>2, <2>3, <2>4, <2>5, AbstractLose
<1> QED BY <1>4, <1>5, <1>6, <1>7, <1>8, <1>9, <1>10, <1>11 DEF Caller, Closure

(* The kernel that runs is its thread's oldest open one on the stream.     *)
LEMMA ExecuteImplements ==
  ASSUME DInv, NEW s0 \in Streams, Execute(s0)
  PROVE  Abstract!Next \/ UNCHANGED Abstract!vars
<1>1. /\ CallsOK /\ LatestOfThread /\ OldestFirst /\ TypeOK
      /\ DeviceTypeOK /\ KernelsOK /\ KernelFirst
  BY DEF DInv, IInv
<1>2. UNCHANGED <<thread, stream, pc, task>>
  BY DEF Execute, vars
<1>3. CASE UNCHANGED executed
  <2>1. \A d \in Calls : Kernel(d)' = Kernel(d) /\ Told(d)' = Told(d)
    BY <1>2, <1>3 DEF Kernel, Told, Ended
  <2> QED BY <1>2, <2>1, AbstractSame
<1>4. ASSUME NEW c \in Calls, KernelAt(work, s0, 1, c), executed' = executed \cup {c}
      PROVE  Abstract!Next
  <2>1. task[c] = "launched" /\ stream[c] = s0 /\ c \notin executed
    BY <1>1, <1>4 DEF KernelsOK
  <2>2. pc[c] \notin {"idle", "raised"} /\ Kernel(c) = "open"
    BY <1>1, <2>1, KernelIs DEF CallsOK, CallerOK
  <2>3. ASSUME NEW d \in Calls, d < c, thread[d] = thread[c], stream[d] = stream[c],
               Kernel(d) = "open"
        PROVE  FALSE
    <3>1. /\ pc[d] \notin {"idle", "raised"} /\ d \notin executed
          /\ task[d] \notin {"failed", "dropped"}
      BY <2>3, KernelIs
    <3>2. ~(c < d) /\ ~(c <= d) /\ c # d
      BY <2>3 DEF Calls
    <3>3. ~InCall(d)
      BY <1>1, <2>3, <3>2 DEF LatestOfThread
    <3>4. task[d] # "none"
      BY <1>1, <3>1, <3>3 DEF TypeOK, CallsOK, CallerOK, InCall, Ended
    <3>5. task[d] \notin Waiting
      BY <1>1, <2>1, <2>3, <3>2 DEF OldestFirst
    <3>6. task[d] = "launched"
      BY <1>1, <3>1, <3>4, <3>5 DEF TypeOK, Waiting
    <3>7. PICK i \in Nat : KernelAt(work, s0, i, d)
      BY <1>1, <2>1, <2>3, <3>1, <3>6 DEF KernelFirst
    <3>8. i >= 1
      BY <1>1, <3>7 DEF KernelAt, DeviceTypeOK
    <3>9. i # 1
      BY <1>4, <3>2, <3>7 DEF KernelAt
    <3> QED BY <1>1, <1>4, <2>3, <3>2, <3>7, <3>8, <3>9 DEF KernelsOK
  <2>4. \A d \in Calls : Told(d)' = Told(d)
    BY <1>2 DEF Told, Ended
  <2>5. \A d \in Calls : Kernel(d)' = IF d = c THEN "run" ELSE Kernel(d)
    BY <1>2, <1>4, <2>2 DEF Kernel
  <2> QED BY <1>2, <2>2, <2>3, <2>4, <2>5, AbstractRun
<1> QED BY <1>1, <1>3, <1>4, ExecuteFacts

LEMMA DeviceStepImplements ==
  DInv /\ [DeviceNext]_allVars => [Abstract!Next]_(Abstract!vars)
<1> SUFFICES ASSUME DInv, [DeviceNext]_allVars
             PROVE  Abstract!Next \/ UNCHANGED Abstract!vars
  OBVIOUS
<1>1. ASSUME NEW c \in Calls, Host(c) \/ Python(c)
      PROVE  Abstract!Next \/ UNCHANGED Abstract!vars
  BY <1>1, CallImplements, EnterImplements DEF Host, Python, deviceVars
<1>2. ASSUME NEW s \in Streams, Execute(s)
      PROVE  Abstract!Next \/ UNCHANGED Abstract!vars
  BY <1>2, ExecuteImplements
<1>3. ASSUME UNCHANGED <<vars, executed>>
      PROVE  UNCHANGED Abstract!vars
  <2>1. UNCHANGED <<thread, stream, pc, task, executed>>
    BY <1>3 DEF vars
  <2>2. \A d \in Calls : Kernel(d)' = Kernel(d) /\ Told(d)' = Told(d)
    BY <2>1 DEF Kernel, Told, Ended
  <2> QED BY <2>1, <2>2, AbstractSame
<1>4. ASSUME NEW c \in Calls, NEW kind \in Kinds, HandOn(c, kind)
      PROVE  UNCHANGED Abstract!vars
  BY <1>3, <1>4 DEF HandOn
<1>5. CASE AllIdle \/ UNCHANGED allVars
  BY <1>3, <1>5 DEF AllIdle, Terminated, allVars, deviceVars
<1> QED BY <1>1, <1>2, <1>4, <1>5 DEF DeviceNext

(* The launch with the device keeps the safety of OrderedCalls: a kernel   *)
(* runs at most once, a thread's on a stream in the order of its calls, a  *)
(* call that raised has not run and never will.                            *)
THEOREM DeviceImplementsOrderedCalls == DeviceSpec => Abstract!Spec
<1>1. DeviceInit => Abstract!Init
  BY DEF DeviceInit, Init, Abstract!Init, Kernel, Ended
<1> QED BY <1>1, DeviceInvariance, DeviceStepImplements, PTL DEF DeviceSpec, Abstract!Spec
=============================================================================
