------------------------ MODULE SweepResults_proofs ------------------------
(***************************************************************************)
(* What the results directory says, for any cases and plans, any results   *)
(* of old runs, and any number of sweeps that pass, fail, are interrupted  *)
(* or killed, of analyses, of tests that outlive their sweep and of tests  *)
(* started by hand.                                                        *)
(***************************************************************************)
EXTENDS SweepResults, TLAPS

FileType == [status : {"absent", "running", "failed", "passed"}, run : 0 .. last]

TypeOK ==
  /\ last \in Runs
  /\ run \in 0 .. last
  /\ byHand \in SUBSET (1 .. last)
  /\ tool \in {"none", "sweep", "analysis"}
  /\ pc \in {"idle", "case", "wait", "raising", "load", "open", "write"}
  /\ plan \in Seq(Cases)
  /\ \A i, j \in DOMAIN plan : plan[i] = plan[j] => i = j
  /\ k \in Nat \ {0}
  /\ child \in {"none", "running", "written"}
  /\ strays \in SUBSET (Cases \X (1 .. run))
  /\ orphans \in SUBSET strays
  /\ manifest = [status |-> manifest.status, cases |-> plan, run |-> run]
  /\ manifest.status \in {"absent", "running", "failed", "passed"}
  /\ file \in [Cases -> FileType]
  /\ part \in DOMAIN Parts
  /\ DOMAIN summary = Elements(Parts)
  /\ stopped \in BOOLEAN

(* Which tool is where, and what the manifest says then.                   *)
ControlOK ==
  /\ tool = "none" <=> pc = "idle"
  /\ pc \in {"case", "wait", "raising"} => tool = "sweep"
  /\ manifest.status = "absent" <=> run = 0
  /\ run = 0 => plan = <<>>
  /\ tool = "sweep" => run # 0
  /\ pc \in {"case", "wait"} => manifest.status = "running"
  /\ tool = "sweep" /\ pc \in {"load", "open", "write"} => manifest.status = "passed"
  /\ child # "none" => pc = "wait"
  /\ pc = "wait" => k \in DOMAIN plan
  /\ manifest.status = "passed" => k > Len(plan)

(* A case behind the current one has its result; the current one has none  *)
(* of an earlier sweep, and its own once the test has written it.          *)
CasesOK ==
  /\ \A i \in DOMAIN plan : i < k \/ (i = k /\ pc = "wait" /\ child = "written") =>
       file[plan[i]].status = "passed"
  /\ \A i \in DOMAIN plan : i < k \/ (i = k /\ pc = "wait") =>
       (file[plan[i]].status = "passed" => Of(run, plan[i], file[plan[i]].run))

(* The rows are of the latest sweep, and of all its cases, if there has    *)
(* been a sweep.                                                           *)
Current(result) ==
  run # 0 => /\ \A c \in DOMAIN result : Of(run, c, result[c])
             /\ DOMAIN result = Elements(plan)

RowsOK ==
  pc \in {"open", "write"} =>
    /\ Current(rows)
    /\ \A i \in 1 .. part - 1 : summary[Parts[i]] = Written(run, rows)

(* The summaries stay as they are until an analysis has opened the first.  *)
Resting == tool = "none" \/ (tool = "analysis" /\ pc = "load")

(* No summary is older than its sweep; they are of the sweep the manifest  *)
(* tells of when that one has ended, unless an analysis is not through.    *)
SummariesOK ==
  /\ SummaryFromOneRun
  /\ manifest.status = "passed" /\ ~stopped /\ Resting =>
       \A p \in Elements(Parts) :
         /\ summary[p] \notin {NoSummary, Truncated}
         /\ summary[p].sweep = run /\ Current(summary[p].rows)

IInv == TypeOK /\ ControlOK /\ CasesOK /\ RowsOK /\ SummariesOK

-----------------------------------------------------------------------------
(* Facts the steps share.                                                  *)

LEMMA PartsFacts ==
  /\ DOMAIN Parts = 1 .. 3 /\ Len(Parts) = 3
  /\ Elements(Parts) = {Parts[1], Parts[2], Parts[3]}
  /\ \A i, j \in 1 .. 3 : Parts[i] = Parts[j] => i = j
BY DEF Parts, Elements

LEMMA WrittenFacts ==
  \A r, result : /\ Written(r, result) \notin {NoSummary, Truncated}
                 /\ Written(r, result).sweep = r
                 /\ Written(r, result).rows = result
BY DEF Written, NoSummary, Truncated

LEMMA ManifestFacts ==
  ASSUME TypeOK, ControlOK
  PROVE  /\ manifest.cases = plan /\ manifest.run = run
         /\ manifest = NoManifest <=> run = 0
         /\ \A s : [manifest EXCEPT !.status = s] = [status |-> s, cases |-> plan, run |-> run]
<1>1. manifest = [status |-> manifest.status, cases |-> plan, run |-> run]
  BY DEF TypeOK
<1> DEFINE m == manifest.status
<1>2. manifest = [status |-> m, cases |-> plan, run |-> run]
  BY <1>1
<1>3. run = 0 => m = "absent" /\ plan = <<>>
  BY DEF ControlOK
<1> HIDE DEF m
<1>4. run = 0 => manifest = NoManifest
  BY <1>2, <1>3 DEF NoManifest
<1> QED BY <1>2, <1>4 DEF NoManifest

(* The results so far are unharmed by whatever is not about them.          *)
LEMMA CasesStay ==
  ASSUME CasesOK, UNCHANGED <<run, byHand, plan, file>>, strays \subseteq strays',
         k' = k,
         pc' = "wait" => pc = "wait" /\ (child' = "written" => child = "written")
  PROVE  CasesOK'
BY DEF CasesOK, Of

LEMMA SummariesStay ==
  ASSUME SummariesOK, UNCHANGED <<summary, run, plan>>, byHand \subseteq byHand', strays \subseteq strays',
         manifest'.status = "passed" /\ ~stopped' /\ Resting' =>
           manifest.status = "passed" /\ ~stopped /\ Resting
  PROVE  SummariesOK'
BY DEF SummariesOK, SummaryFromOneRun, Current, Of

(* The invariant holds in a directory with or without old results.         *)
THEOREM InitOK == Init => IInv
<1> SUFFICES ASSUME Init
             PROVE  IInv
  OBVIOUS
<1>1. /\ last = OldRuns /\ run = 0 /\ byHand = {} /\ tool = "none" /\ pc = "idle"
      /\ plan = <<>> /\ k = 1 /\ child = "none" /\ strays = {} /\ orphans = {}
      /\ manifest = NoManifest /\ part = 1 /\ stopped = FALSE
      /\ summary = [p \in Elements(Parts) |-> NoSummary]
  BY DEF Init
<1>2. file \in [Cases -> FileType]
  BY <1>1 DEF Init, File, FileType
<1>3. /\ manifest = [status |-> manifest.status, cases |-> plan, run |-> run]
      /\ manifest.status = "absent"
  BY <1>1 DEF NoManifest
<1>4. last \in Runs /\ run \in 0 .. last /\ part \in DOMAIN Parts
  BY <1>1, SweepAssumption, PartsFacts DEF Runs
<1>5. TypeOK
  <2>1. plan \in Seq(Cases) /\ DOMAIN plan = {} /\ k \in Nat \ {0}
    BY <1>1
  <2>2. /\ byHand \in SUBSET (1 .. last) /\ strays \in SUBSET (Cases \X (1 .. run))
        /\ orphans \in SUBSET strays
    BY <1>1
  <2>3. DOMAIN summary = Elements(Parts)
    BY <1>1
  <2> QED BY <1>1, <1>2, <1>3, <1>4, <2>1, <2>2, <2>3 DEF TypeOK
<1>6. ControlOK /\ CasesOK /\ RowsOK
  BY <1>1, <1>3 DEF ControlOK, CasesOK, RowsOK
<1>7. SummariesOK
  BY <1>1, <1>3 DEF SummariesOK, SummaryFromOneRun
<1> QED BY <1>5, <1>6, <1>7 DEF IInv

-----------------------------------------------------------------------------
(* The sweep.                                                              *)

LEMMA StartSweepKeeps ==
  ASSUME IInv, NEW p \in Plans, StartSweep(p)
  PROVE  IInv'
<1>1. TypeOK /\ ControlOK /\ SummariesOK
  BY DEF IInv
<1>2. /\ tool = "none" /\ last < MaxRuns /\ last' = last + 1 /\ run' = last'
      /\ tool' = "sweep" /\ plan' = p /\ k' = 1 /\ pc' = "case"
      /\ manifest' = [status |-> "running", cases |-> plan', run |-> run']
      /\ UNCHANGED <<byHand, child, strays, orphans, file, rows, part, summary, stopped>>
  BY DEF StartSweep, strayVars
<1>3. p \in Seq(Cases) /\ \A i, j \in DOMAIN p : p[i] = p[j] => i = j
  BY SweepAssumption
<1>4. /\ last \in Nat /\ run \in Nat /\ run <= last
      /\ last' \in Runs /\ run' \in 0 .. last' /\ run' # 0
  BY <1>1, <1>2, SweepAssumption DEF TypeOK, Runs
<1>5. /\ strays' \in SUBSET (Cases \X (1 .. run')) /\ byHand' \in SUBSET (1 .. last')
      /\ file' \in [Cases -> FileType']
  BY <1>1, <1>2, <1>4 DEF TypeOK, FileType
<1>6. manifest'.status = "running"
  BY <1>2
<1>7. TypeOK'
  BY <1>1, <1>2, <1>3, <1>4, <1>5, <1>6 DEF TypeOK
<1>8. ControlOK'
  BY <1>1, <1>2, <1>4, <1>6 DEF ControlOK
<1>9. CasesOK' /\ RowsOK'
  <2>1. \A i \in DOMAIN plan' : i \in Nat /\ i >= 1
    BY <1>2, <1>3
  <2> QED BY <1>2, <2>1 DEF CasesOK, RowsOK
<1>10. SummariesOK'
  BY <1>1, <1>2, <1>6 DEF SummariesOK, SummaryFromOneRun, Of
<1> QED BY <1>7, <1>8, <1>9, <1>10 DEF IInv

(* A step that writes one case's file, the current one's or an orphan's.   *)
LEMMA FileTyped ==
  ASSUME TypeOK, NEW c \in Cases, NEW s \in {"running", "failed", "passed"}, NEW r \in 0 .. last,
         file' = [file EXCEPT ![c] = File(s, r)]
  PROVE  /\ file' \in [Cases -> FileType]
         /\ file'[c].status = s /\ file'[c].run = r
         /\ \A d \in Cases \ {c} : file'[d] = file[d]
<1>1. File(s, r) \in FileType
  BY DEF File, FileType
<1>2. File(s, r).status = s /\ File(s, r).run = r
  BY DEF File
<1> QED BY <1>1, <1>2 DEF TypeOK

LEMMA PlanFacts ==
  ASSUME TypeOK
  PROVE  /\ \A i \in DOMAIN plan : plan[i] \in Cases /\ i \in Nat
         /\ \A i, j \in DOMAIN plan : plan[i] = plan[j] => i = j
         /\ Len(plan) \in Nat /\ DOMAIN plan = 1 .. Len(plan) /\ k \in Nat
         /\ last \in Nat /\ run \in Nat /\ run \in 0 .. last
BY DEF TypeOK, Runs

LEMMA BeginCaseKeeps ==
  ASSUME IInv, BeginCase
  PROVE  IInv'
<1>1. TypeOK /\ ControlOK /\ CasesOK /\ SummariesOK
  BY DEF IInv
<1>2. /\ pc = "case" /\ k <= Len(plan) /\ child' = "running" /\ pc' = "wait"
      /\ file' = [file EXCEPT ![plan[k]] = File("running", run)]
      /\ UNCHANGED <<last, run, byHand, tool, plan, k, strays, orphans, manifest,
                     rows, part, summary, stopped>>
  BY DEF BeginCase, runVars, strayVars
<1>3. k \in DOMAIN plan /\ plan[k] \in Cases /\ run \in 0 .. last
  BY <1>1, <1>2, PlanFacts DEF TypeOK
<1>4. /\ file' \in [Cases -> FileType]
      /\ file'[plan[k]].status = "running"
      /\ \A d \in Cases \ {plan[k]} : file'[d] = file[d]
  BY <1>1, <1>2, <1>3, FileTyped
<1>5. TypeOK'
  BY <1>1, <1>2, <1>4 DEF TypeOK, FileType
<1>6. ControlOK' /\ RowsOK'
  BY <1>1, <1>2, <1>3 DEF ControlOK, RowsOK
<1>7. CasesOK'
  <2>1. \A i \in DOMAIN plan : i < k => file'[plan[i]] = file[plan[i]]
    BY <1>1, <1>3, <1>4, PlanFacts
  <2> QED BY <1>1, <1>2, <1>4, <2>1, PlanFacts DEF CasesOK, Of
<1>8. SummariesOK'
  BY <1>1, <1>2, SummariesStay DEF Resting, ControlOK, TypeOK
<1> QED BY <1>5, <1>6, <1>7, <1>8 DEF IInv

LEMMA TestWritesKeeps ==
  ASSUME IInv, TestWrites
  PROVE  IInv'
<1>1. TypeOK /\ ControlOK /\ CasesOK /\ RowsOK /\ SummariesOK
  BY DEF IInv
<1>2. /\ child = "running" /\ child' = "written"
      /\ file' = [file EXCEPT ![plan[k]] = File("passed", run)]
      /\ UNCHANGED <<last, run, byHand, tool, pc, plan, k, strays, orphans,
                     manifest, rows, part, summary, stopped>>
  BY DEF TestWrites, runVars, strayVars
<1>3. pc = "wait" /\ k \in DOMAIN plan /\ plan[k] \in Cases /\ run \in 0 .. last
  BY <1>1, <1>2, PlanFacts DEF ControlOK
<1>4. /\ file' \in [Cases -> FileType]
      /\ file'[plan[k]].status = "passed" /\ file'[plan[k]].run = run
      /\ \A d \in Cases \ {plan[k]} : file'[d] = file[d]
  BY <1>1, <1>2, <1>3, FileTyped
<1>5. TypeOK'
  BY <1>1, <1>2, <1>4 DEF TypeOK, FileType
<1>6. ControlOK' /\ RowsOK'
  BY <1>1, <1>2, <1>3 DEF ControlOK, RowsOK
<1>7. CasesOK'
  <2>1. \A i \in DOMAIN plan : i < k => file'[plan[i]] = file[plan[i]]
    BY <1>1, <1>3, <1>4, PlanFacts
  <2> QED BY <1>1, <1>2, <1>4, <2>1, PlanFacts DEF CasesOK, Of
<1>8. SummariesOK'
  BY <1>1, <1>2, SummariesStay DEF Resting, ControlOK, TypeOK
<1> QED BY <1>5, <1>6, <1>7, <1>8 DEF IInv

LEMMA CasePassedKeeps ==
  ASSUME IInv, CasePassed
  PROVE  IInv'
<1>1. TypeOK /\ ControlOK /\ CasesOK /\ SummariesOK
  BY DEF IInv
<1>2. /\ pc = "wait" /\ child = "written" /\ child' = "none" /\ k' = k + 1 /\ pc' = "case"
      /\ UNCHANGED <<last, run, byHand, tool, plan, strays, orphans, manifest,
                     file, rows, part, summary, stopped>>
  BY DEF CasePassed, runVars, strayVars
<1>3. k' \in Nat \ {0}
  BY <1>1, <1>2 DEF TypeOK
<1>4. TypeOK'
  BY <1>1, <1>2, <1>3 DEF TypeOK, FileType
<1>5. ControlOK' /\ RowsOK'
  BY <1>1, <1>2 DEF ControlOK, RowsOK
<1>6. CasesOK'
  <2>1. \A i \in DOMAIN plan : i < k' => i < k \/ i = k
    BY <1>1, <1>2, PlanFacts
  <2> QED BY <1>1, <1>2, <2>1 DEF CasesOK, Of
<1>7. SummariesOK'
  BY <1>1, <1>2, SummariesStay DEF Resting, ControlOK, TypeOK
<1> QED BY <1>4, <1>5, <1>6, <1>7 DEF IInv

LEMMA CaseFailedKeeps ==
  ASSUME IInv, CaseFailed
  PROVE  IInv'
<1>1. TypeOK /\ ControlOK /\ CasesOK /\ SummariesOK
  BY DEF IInv
<1>2. /\ pc = "wait" /\ child' = "none" /\ pc' = "raising"
      /\ file' = [file EXCEPT ![plan[k]] = File("failed", run)]
      /\ UNCHANGED <<last, run, byHand, tool, plan, k, strays, orphans, manifest,
                     rows, part, summary, stopped>>
  BY DEF CaseFailed, runVars, strayVars
<1>3. k \in DOMAIN plan /\ plan[k] \in Cases /\ run \in 0 .. last
  BY <1>1, <1>2, PlanFacts DEF ControlOK
<1>4. /\ file' \in [Cases -> FileType]
      /\ \A d \in Cases \ {plan[k]} : file'[d] = file[d]
  BY <1>1, <1>2, <1>3, FileTyped
<1>5. TypeOK'
  BY <1>1, <1>2, <1>4 DEF TypeOK, FileType
<1>6. ControlOK' /\ RowsOK'
  BY <1>1, <1>2 DEF ControlOK, RowsOK
<1>7. CasesOK'
  <2>1. \A i \in DOMAIN plan : i < k => file'[plan[i]] = file[plan[i]]
    BY <1>1, <1>3, <1>4, PlanFacts
  <2> QED BY <1>1, <1>2, <2>1 DEF CasesOK, Of
<1>8. SummariesOK'
  BY <1>1, <1>2, SummariesStay DEF Resting, ControlOK, TypeOK
<1> QED BY <1>5, <1>6, <1>7, <1>8 DEF IInv

LEMMA AllCasesPassedKeeps ==
  ASSUME IInv, AllCasesPassed
  PROVE  IInv'
<1>1. TypeOK /\ ControlOK /\ CasesOK /\ SummariesOK
  BY DEF IInv
<1>2. /\ pc = "case" /\ k > Len(plan) /\ pc' = "load"
      /\ manifest' = [status |-> "passed", cases |-> plan, run |-> run]
      /\ UNCHANGED <<last, run, byHand, tool, plan, k, child, strays, orphans,
                     file, rows, part, summary, stopped>>
  BY <1>1, ManifestFacts DEF AllCasesPassed, runVars, strayVars
<1>3. manifest'.status = "passed" /\ tool = "sweep"
  BY <1>1, <1>2 DEF ControlOK
<1>4. TypeOK'
  BY <1>1, <1>2, <1>3 DEF TypeOK, FileType
<1>5. ControlOK' /\ RowsOK'
  BY <1>1, <1>2, <1>3 DEF ControlOK, RowsOK
<1>6. CasesOK' /\ SummariesOK'
  BY <1>1, <1>2, <1>3, CasesStay, SummariesStay DEF Resting, ControlOK, TypeOK
<1> QED BY <1>4, <1>5, <1>6 DEF IInv

LEMMA InterruptKeeps ==
  ASSUME IInv, Interrupt
  PROVE  IInv'
<1>1. TypeOK /\ ControlOK /\ CasesOK /\ SummariesOK
  BY DEF IInv
<1>2. /\ tool = "sweep" /\ child' = "none" /\ part' = 1 /\ pc' = "raising"
      /\ UNCHANGED <<last, run, byHand, tool, plan, k, strays, orphans, manifest,
                     file, summary, stopped>>
  BY DEF Interrupt, runVars, strayVars
<1>3. TypeOK'
  BY <1>1, <1>2, PartsFacts DEF TypeOK, FileType
<1>4. ControlOK' /\ RowsOK'
  BY <1>1, <1>2 DEF ControlOK, RowsOK
<1>5. CasesOK' /\ SummariesOK'
  BY <1>1, <1>2, CasesStay, SummariesStay DEF Resting, ControlOK, TypeOK
<1> QED BY <1>3, <1>4, <1>5 DEF IInv

LEMMA RecordFailureKeeps ==
  ASSUME IInv, RecordFailure
  PROVE  IInv'
<1>1. TypeOK /\ ControlOK /\ CasesOK /\ SummariesOK
  BY DEF IInv
<1>2. /\ pc = "raising" /\ tool' = "none" /\ pc' = "idle"
      /\ manifest' = [status |-> "failed", cases |-> plan, run |-> run]
      /\ UNCHANGED <<last, run, byHand, plan, k, child, strays, orphans, file,
                     rows, part, summary, stopped>>
  BY <1>1, ManifestFacts DEF RecordFailure, runVars, strayVars
<1>3. manifest'.status = "failed" /\ tool = "sweep"
  BY <1>1, <1>2 DEF ControlOK
<1>4. TypeOK'
  BY <1>1, <1>2, <1>3 DEF TypeOK, FileType
<1>5. ControlOK' /\ RowsOK'
  BY <1>1, <1>2, <1>3 DEF ControlOK, RowsOK
<1>6. CasesOK' /\ SummariesOK'
  BY <1>1, <1>2, <1>3, CasesStay, SummariesStay
<1> QED BY <1>4, <1>5, <1>6 DEF IInv

-----------------------------------------------------------------------------
(* The analysis.                                                           *)

LEMMA StartAnalysisKeeps ==
  ASSUME IInv, StartAnalysis
  PROVE  IInv'
<1>1. TypeOK /\ ControlOK /\ CasesOK /\ SummariesOK
  BY DEF IInv
<1>2. /\ tool = "none" /\ tool' = "analysis" /\ pc' = "load"
      /\ UNCHANGED <<last, run, byHand, plan, k, child, strays, orphans, manifest,
                     file, rows, part, summary, stopped>>
  BY DEF StartAnalysis, runVars, strayVars
<1>3. TypeOK'
  BY <1>1, <1>2 DEF TypeOK, FileType
<1>4. ControlOK' /\ RowsOK'
  BY <1>1, <1>2 DEF ControlOK, RowsOK
<1>5. CasesOK' /\ SummariesOK'
  BY <1>1, <1>2, CasesStay, SummariesStay DEF Resting, ControlOK, TypeOK
<1> QED BY <1>3, <1>4, <1>5 DEF IInv

(* What is loaded is the latest sweep's, or all from before the first.     *)
LEMMA LoadKeeps ==
  ASSUME IInv, Load
  PROVE  IInv'
<1>1. TypeOK /\ ControlOK /\ CasesOK /\ SummariesOK
  BY DEF IInv
<1>2. /\ pc = "load" /\ Loadable /\ rows' = [c \in Listed |-> file[c].run] /\ part' = 1
      /\ pc' = "open"
      /\ UNCHANGED <<last, run, byHand, tool, plan, k, child, strays, orphans,
                     manifest, file, summary, stopped>>
  BY DEF Load, runVars, strayVars
<1>3. TypeOK'
  BY <1>1, <1>2, PartsFacts DEF TypeOK, FileType
<1>4. ControlOK'
  BY <1>1, <1>2 DEF ControlOK
<1>5. RowsOK'
  <2>1. DOMAIN rows' = Listed /\ \A c \in Listed : rows'[c] = file[c].run
    BY <1>2
  <2>2. CASE run = 0
    BY <1>2, <2>2 DEF RowsOK, Current
  <2>3. CASE run # 0
    <3>1. Listed = Elements(plan)
      BY <1>1, <2>3, ManifestFacts DEF Listed
    <3>2. manifest.status = "passed" /\ k > Len(plan)
      BY <1>1, <1>2, <2>3 DEF Loadable, ControlOK
    <3>3. \A i \in DOMAIN plan : i < k
      BY <1>1, <3>2, PlanFacts
    <3>4. \A c \in Listed : Of(run, c, file[c].run)
      BY <1>1, <3>1, <3>3 DEF CasesOK, Elements
    <3> QED BY <1>2, <2>1, <3>1, <3>4 DEF RowsOK, Current, Of
  <2> QED BY <2>2, <2>3
<1>6. CasesOK' /\ SummariesOK'
  BY <1>1, <1>2, CasesStay, SummariesStay DEF Resting, ControlOK, TypeOK
<1> QED BY <1>3, <1>4, <1>5, <1>6 DEF IInv

LEMMA LoadRaisesKeeps ==
  ASSUME IInv, LoadRaises
  PROVE  IInv'
<1>1. TypeOK /\ ControlOK /\ CasesOK /\ SummariesOK
  BY DEF IInv
<1>2. /\ pc = "load"
      /\ \/ tool = "sweep" /\ pc' = "raising" /\ tool' = tool
         \/ tool # "sweep" /\ pc' = "idle" /\ tool' = "none"
      /\ UNCHANGED <<last, run, byHand, plan, k, child, strays, orphans, manifest,
                     file, rows, part, summary, stopped>>
  BY DEF LoadRaises, runVars, strayVars
<1>3. TypeOK'
  BY <1>1, <1>2 DEF TypeOK, FileType
<1>4. ControlOK' /\ RowsOK'
  BY <1>1, <1>2 DEF ControlOK, RowsOK
<1>5. CasesOK' /\ SummariesOK'
  BY <1>1, <1>2, CasesStay, SummariesStay DEF Resting, ControlOK, TypeOK
<1> QED BY <1>3, <1>4, <1>5 DEF IInv

LEMMA OpenPartKeeps ==
  ASSUME IInv, OpenPart
  PROVE  IInv'
<1>1. TypeOK /\ ControlOK /\ CasesOK /\ RowsOK /\ SummariesOK
  BY DEF IInv
<1>2. /\ pc = "open" /\ summary' = [summary EXCEPT ![Parts[part]] = Truncated]
      /\ pc' = "write"
      /\ UNCHANGED <<last, run, byHand, tool, plan, k, child, strays, orphans,
                     manifest, file, rows, part, stopped>>
  BY DEF OpenPart, runVars, strayVars
<1>3. DOMAIN summary = Elements(Parts) /\ part \in 1 .. 3
  BY <1>1, PartsFacts DEF TypeOK
<1>4. \A p \in Elements(Parts) :
        summary'[p] = IF p = Parts[part] THEN Truncated ELSE summary[p]
  BY <1>2, <1>3
<1>5. TypeOK'
  BY <1>1, <1>2 DEF TypeOK, FileType
<1>6. ControlOK'
  BY <1>1, <1>2 DEF ControlOK
<1>7. RowsOK'
  <2>1. \A i \in 1 .. part - 1 : Parts[i] \in Elements(Parts) /\ Parts[i] # Parts[part]
    BY <1>3, PartsFacts
  <2> QED BY <1>1, <1>2, <1>4, <2>1 DEF RowsOK, Current, Of
<1>8. CasesOK'
  BY <1>1, <1>2, CasesStay
<1>9. SummariesOK'
  BY <1>1, <1>2, <1>4 DEF SummariesOK, Resting, ControlOK, TypeOK, SummaryFromOneRun, Of
<1> QED BY <1>5, <1>6, <1>7, <1>8, <1>9 DEF IInv

LEMMA WritePartKeeps ==
  ASSUME IInv, WritePart
  PROVE  IInv'
<1>1. TypeOK /\ ControlOK /\ CasesOK /\ RowsOK /\ SummariesOK
  BY DEF IInv
<1>2. /\ pc = "write" /\ summary' = [summary EXCEPT ![Parts[part]] = Written(run, rows)]
      /\ UNCHANGED <<last, run, byHand, plan, k, child, strays, orphans, manifest,
                     file>>
      /\ \/ /\ part < 3 /\ part' = part + 1 /\ pc' = "open" /\ tool' = tool
            /\ rows' = rows /\ stopped' = stopped
         \/ /\ ~(part < 3) /\ tool' = "none" /\ pc' = "idle" /\ stopped' = FALSE /\ part' = 1
  BY PartsFacts DEF WritePart, runVars, strayVars
<1>3. DOMAIN summary = Elements(Parts) /\ part \in 1 .. 3
  BY <1>1, PartsFacts DEF TypeOK
<1>4. \A p \in Elements(Parts) :
        summary'[p] = IF p = Parts[part] THEN Written(run, rows) ELSE summary[p]
  BY <1>2, <1>3
<1>5. part' \in DOMAIN Parts
  BY <1>2, <1>3, PartsFacts
<1>6. TypeOK'
  BY <1>1, <1>2, <1>5 DEF TypeOK, FileType
<1>7. ControlOK'
  BY <1>1, <1>2 DEF ControlOK
<1>8. \A i \in 1 .. part : Parts[i] \in Elements(Parts) /\ summary'[Parts[i]] = Written(run, rows)
  <2>1. \A i \in 1 .. part : i \in 1 .. 3 /\ (i \in 1 .. part - 1 \/ i = part)
    BY <1>3
  <2>2. \A i \in 1 .. part : Parts[i] \in Elements(Parts)
    BY <2>1, PartsFacts
  <2>3. \A i \in 1 .. part - 1 : Parts[i] # Parts[part]
    BY <1>3, PartsFacts
  <2> QED BY <1>1, <1>2, <1>4, <2>1, <2>2, <2>3 DEF RowsOK
<1>9. Current(rows)
  BY <1>1, <1>2 DEF RowsOK
<1>10. RowsOK'
  BY <1>2, <1>3, <1>8, <1>9 DEF RowsOK, Current, Of
<1>11. CasesOK'
  BY <1>1, <1>2, CasesStay
<1>12. SummariesOK'
  <2>1. SummaryFromOneRun'
    <3>1. run # 0 => \A c \in DOMAIN rows : Of(run, c, rows[c])
      BY <1>9 DEF Current
    <3>2. SummaryFromOneRun
      BY <1>1 DEF SummariesOK
    <3> SUFFICES ASSUME NEW p \in Elements(Parts), summary'[p] \notin {NoSummary, Truncated},
                        summary'[p].sweep # 0, NEW c \in DOMAIN summary'[p].rows
                 PROVE  Of(summary'[p].sweep, c, summary'[p].rows[c])
      BY <1>2 DEF SummaryFromOneRun, Of
    <3>3. CASE p = Parts[part]
      BY <1>4, <3>1, <3>3, WrittenFacts
    <3>4. CASE p # Parts[part]
      BY <1>4, <3>2, <3>4 DEF SummaryFromOneRun
    <3> QED BY <3>3, <3>4
  <2>2. CASE part < 3
    BY <1>1, <1>2, <2>1, <2>2 DEF SummariesOK, ControlOK, Resting
  <2>3. CASE ~(part < 3)
    <3>1. \A p \in Elements(Parts) : summary'[p] = Written(run, rows)
      BY <1>3, <1>8, <2>3, PartsFacts
    <3>2. \A p \in Elements(Parts) :
            /\ summary'[p] \notin {NoSummary, Truncated}
            /\ summary'[p].sweep = run /\ Current(summary'[p].rows)
      BY <1>9, <3>1, WrittenFacts
    <3> QED BY <1>2, <2>1, <3>2 DEF SummariesOK, Current, Of
  <2> QED BY <2>2, <2>3
<1> QED BY <1>6, <1>7, <1>10, <1>11, <1>12 DEF IInv

-----------------------------------------------------------------------------
(* The machine.                                                            *)

LEMMA KillKeeps ==
  ASSUME IInv, Kill
  PROVE  IInv'
<1>1. TypeOK /\ ControlOK /\ CasesOK /\ SummariesOK
  BY DEF IInv
<1>2. /\ tool # "none" /\ tool' = "none" /\ pc' = "idle" /\ child' = "none" /\ part' = 1
      /\ strays' = strays \cup IF child = "running" THEN {<<plan[k], run>>} ELSE {}
      /\ orphans' = orphans \cup IF child = "running" THEN {<<plan[k], run>>} ELSE {}
      /\ stopped' = TRUE
      /\ UNCHANGED <<last, run, byHand, plan, k, manifest, file, summary>>
  BY DEF Kill, runVars
<1>3. run \in Nat /\ (tool = "sweep" => run \in 1 .. run)
  BY <1>1, PlanFacts DEF ControlOK
<1>4. strays' \in SUBSET (Cases \X (1 .. run)) /\ orphans' \in SUBSET strays'
  <2>1. strays \in SUBSET (Cases \X (1 .. run)) /\ orphans \in SUBSET strays
    BY <1>1 DEF TypeOK
  <2>2. child = "running" => tool = "sweep" /\ plan[k] \in Cases
    BY <1>1, PlanFacts DEF ControlOK
  <2> QED BY <1>2, <1>3, <2>1, <2>2
<1>5. TypeOK'
  BY <1>1, <1>2, <1>4, PartsFacts DEF TypeOK, FileType
<1>6. ControlOK' /\ RowsOK'
  BY <1>1, <1>2 DEF ControlOK, RowsOK
<1>7. CasesOK'
  BY <1>1, <1>2, CasesStay
<1>8. SummariesOK'
  BY <1>1, <1>2, SummariesStay
<1> QED BY <1>5, <1>6, <1>7, <1>8 DEF IInv

LEMMA OrphanWritesKeeps ==
  ASSUME IInv, NEW c \in Cases, NEW r \in Runs, OrphanWrites(c, r)
  PROVE  IInv'
<1>1. TypeOK /\ ControlOK /\ CasesOK /\ RowsOK /\ SummariesOK
  BY DEF IInv
<1>2. /\ <<c, r>> \in orphans /\ orphans' = orphans \ {<<c, r>>}
      /\ file' = [file EXCEPT ![c] = File("passed", r)]
      /\ UNCHANGED <<last, run, byHand, tool, pc, plan, k, child, strays,
                     manifest, rows, part, summary, stopped>>
  BY DEF OrphanWrites, runVars
<1>3. <<c, r>> \in strays /\ r \in 0 .. last
  <2>1. <<c, r>> \in strays /\ strays \in SUBSET (Cases \X (1 .. run))
    BY <1>1, <1>2 DEF TypeOK
  <2>2. r \in 1 .. run /\ run \in 0 .. last /\ last \in Nat
    BY <1>1, <2>1, PlanFacts DEF TypeOK
  <2> QED BY <2>1, <2>2
<1>4. /\ file' \in [Cases -> FileType]
      /\ file'[c].status = "passed" /\ file'[c].run = r
      /\ \A d \in Cases \ {c} : file'[d] = file[d]
  BY <1>1, <1>2, <1>3, FileTyped
<1>5. TypeOK'
  BY <1>1, <1>2, <1>4 DEF TypeOK, FileType
<1>6. ControlOK' /\ RowsOK'
  BY <1>1, <1>2 DEF ControlOK, RowsOK, Current, Of
<1>7. CasesOK'
  BY <1>1, <1>2, <1>3, <1>4, PlanFacts DEF CasesOK, Of
<1>8. SummariesOK'
  BY <1>1, <1>2, SummariesStay DEF Resting, ControlOK, TypeOK
<1> QED BY <1>5, <1>6, <1>7, <1>8 DEF IInv

(* A result of a test started by hand is newer than the latest sweep.      *)
LEMMA TestByHandKeeps ==
  ASSUME IInv, NEW c \in Cases, TestByHand(c)
  PROVE  IInv'
<1>1. TypeOK /\ ControlOK /\ CasesOK /\ RowsOK /\ SummariesOK
  BY DEF IInv
<1>2. /\ last < MaxRuns /\ last' = last + 1 /\ byHand' = byHand \cup {last'}
      /\ file' = [file EXCEPT ![c] = File("passed", last')]
      /\ UNCHANGED <<run, tool, pc, plan, k, child, strays, orphans, manifest,
                     rows, part, summary, stopped>>
  BY DEF TestByHand, strayVars
<1>3. /\ last \in Nat /\ run \in Nat /\ last' \in Runs /\ last' \in 0 .. last'
      /\ run \in 0 .. last' /\ last' > run /\ byHand' \in SUBSET (1 .. last')
  BY <1>1, <1>2, SweepAssumption DEF TypeOK, Runs
<1>4. /\ file' \in [Cases -> FileType']
      /\ file'[c].status = "passed" /\ file'[c].run = last'
      /\ \A d \in Cases \ {c} : file'[d] = file[d]
  <2>1. /\ File("passed", last') \in FileType'
        /\ File("passed", last').status = "passed" /\ File("passed", last').run = last'
    BY <1>3 DEF File, FileType
  <2>2. file \in [Cases -> FileType']
    BY <1>1, <1>2, <1>3 DEF TypeOK, FileType
  <2> QED BY <1>2, <2>1, <2>2
<1>5. TypeOK'
  BY <1>1, <1>2, <1>3, <1>4 DEF TypeOK
<1>6. ControlOK' /\ RowsOK'
  BY <1>1, <1>2 DEF ControlOK, RowsOK, Current, Of
<1>7. CasesOK'
  BY <1>1, <1>2, <1>3, <1>4, PlanFacts DEF CasesOK, Of
<1>8. SummariesOK'
  BY <1>1, <1>2, SummariesStay DEF Resting, ControlOK, TypeOK
<1> QED BY <1>5, <1>6, <1>7, <1>8 DEF IInv

-----------------------------------------------------------------------------
(* The theorems.                                                           *)

(* Every step of a sweep, an analysis, a test or the machine keeps the     *)
(* invariant.                                                              *)
THEOREM StepOK == IInv /\ [Next]_vars => IInv'
<1> SUFFICES ASSUME IInv, [Next]_vars
             PROVE  IInv'
  OBVIOUS
<1>1. CASE Sweep
  BY <1>1, StartSweepKeeps, BeginCaseKeeps, CasePassedKeeps, CaseFailedKeeps,
     AllCasesPassedKeeps, InterruptKeeps, RecordFailureKeeps DEF Sweep
<1>2. CASE Analysis
  BY <1>2, StartAnalysisKeeps, LoadKeeps, LoadRaisesKeeps, OpenPartKeeps, WritePartKeeps
     DEF Analysis
<1>3. CASE \/ TestWrites \/ Kill
           \/ \E c \in Cases : TestByHand(c) \/ \E r \in Runs : OrphanWrites(c, r)
  BY <1>3, TestWritesKeeps, KillKeeps, TestByHandKeeps, OrphanWritesKeeps
<1>4. CASE UNCHANGED vars
  <2>1. UNCHANGED <<last, run, byHand, tool, pc, plan, k, child, strays, orphans,
                    manifest, file, rows, part, summary, stopped>>
    BY <1>4 DEF vars, runVars, strayVars
  <2> QED BY <2>1 DEF IInv, TypeOK, FileType, ControlOK, CasesOK, RowsOK, Current, SummariesOK, Resting,
                      SummaryFromOneRun, Of
<1> QED BY <1>1, <1>2, <1>3, <1>4 DEF Next

(* The invariant holds throughout every run.                               *)
THEOREM Invariance == Spec => []IInv
<1> QED BY InitOK, StepOK, PTL DEF Spec

(* A manifest that says "passed" can be believed, wherever the tools were  *)
(* stopped and whatever was started by hand: every case it lists has a     *)
(* result, of that sweep or one that replaced it since.                    *)
THEOREM ManifestCorrect == Spec => []ManifestTruthful
<1>1. IInv => ManifestTruthful
  <2> SUFFICES ASSUME IInv, manifest.status = "passed", NEW c \in Elements(manifest.cases)
               PROVE  file[c].status = "passed" /\ Of(manifest.run, c, file[c].run)
    BY DEF ManifestTruthful
  <2>1. TypeOK /\ ControlOK /\ CasesOK
    BY DEF IInv
  <2>2. PICK i \in DOMAIN plan : c = plan[i]
    BY <2>1, ManifestFacts DEF Elements
  <2>3. i < k
    BY <2>1, PlanFacts DEF ControlOK
  <2> QED BY <2>1, <2>2, <2>3, ManifestFacts DEF CasesOK
<1> QED BY Invariance, <1>1, PTL

(* A sweep invalidates what earlier runs left of a case before it starts   *)
(* the case's test.                                                        *)
THEOREM FreshCorrect == Spec => []StartedCasesFresh
<1>1. IInv => StartedCasesFresh
  BY DEF IInv, CasesOK, StartedCasesFresh
<1> QED BY Invariance, <1>1, PTL

(* A summary made under a manifest shows no result from before its sweep.  *)
THEOREM OneRunCorrect == Spec => []SummaryFromOneRun
<1>1. IInv => SummaryFromOneRun
  BY DEF IInv, SummariesOK
<1> QED BY Invariance, <1>1, PTL

(* A sweep that passed has all three summaries, made under its manifest,   *)
(* of exactly its cases and of no result from before it.                   *)
THEOREM SummaryCorrect == Spec => []SummaryMatchesManifest
<1>1. IInv => SummaryMatchesManifest
  <2> SUFFICES ASSUME IInv, tool = "none", manifest.status = "passed", ~stopped,
                      NEW p \in Elements(Parts)
               PROVE  /\ summary[p] \notin {NoSummary, Truncated}
                      /\ summary[p].sweep = manifest.run
                      /\ DOMAIN summary[p].rows = Elements(manifest.cases)
                      /\ \A c \in DOMAIN summary[p].rows : Of(manifest.run, c, summary[p].rows[c])
    BY DEF SummaryMatchesManifest
  <2>1. /\ manifest.cases = plan /\ manifest.run = run /\ run # 0 /\ SummariesOK
    BY ManifestFacts DEF IInv, ControlOK
  <2> QED BY <2>1 DEF SummariesOK, Current, Resting
<1> QED BY Invariance, <1>1, PTL
=============================================================================
