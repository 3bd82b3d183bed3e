---------------------------- MODULE SweepResults ----------------------------
(***************************************************************************)
(* The results directory of the timing sweep: what run_scatter_copy_       *)
(* sweep.py, the multiprocess tests it starts and analyze_scatter_copy_    *)
(* results.py leave in it, over sweeps that pass, fail, are interrupted or *)
(* killed, and are run again with other cases.                             *)
(*                                                                         *)
(* One tool works on the directory at a time, a sweep or an analysis.  But *)
(* a test whose sweep was killed lives on and may still write its result,  *)
(* and so may, at any time, a multiprocess test somebody starts by hand:   *)
(* without --output its result goes to the case's file in this directory.  *)
(*                                                                         *)
(* Sweeps and tests started by hand are numbered as they come, and a       *)
(* result is represented by the number of the one that wrote it.  Numbers  *)
(* up to OldRuns stand for runs from before there were manifests.          *)
(***************************************************************************)
EXTENDS Naturals, Sequences

CONSTANTS
  Cases,    \* the cases (cards, batch size, copy count) a sweep may select
  Plans,    \* the case lists a sweep may be given
  OldRuns,  \* the runs whose results are there at the start
  MaxRuns   \* bound: all runs, old ones, sweeps and tests started by hand

ASSUME SweepAssumption ==
  /\ OldRuns \in Nat /\ MaxRuns \in Nat /\ OldRuns <= MaxRuns
  /\ \A p \in Plans : /\ p \in Seq(Cases) /\ p # <<>>
                      /\ \A i, j \in DOMAIN p : p[i] = p[j] => i = j

VARIABLES
  last,      \* the number of the last run
  run,       \* the number of the last sweep
  byHand,    \* the numbers of the tests started by hand
  tool,      \* the tool that is working: none, sweep or analysis
  pc,        \* where it is: idle; case, wait or raising; load, open or write
  plan,      \* the sweep's planned cases
  k,         \* the case it is at
  child,     \* the test of the current case: none, running or written
  strays,    \* the tests that killed sweeps left behind: case and sweep
  orphans,   \* those that have not ended
  manifest,  \* scatter_copy_run_manifest.json
  file,      \* per case: its JSON file: absent, running, failed or passed
  rows,      \* the rows an analysis has built
  part,      \* the summary file it is at
  summary,   \* the three summary files
  stopped    \* was a tool killed, and has no analysis come to its end since?

runVars == <<last, run, byHand>>
strayVars == <<strays, orphans>>
vars == <<runVars, tool, pc, plan, k, child, strayVars, manifest, file, rows,
          part, summary, stopped>>

(* Definitions marked "a mistake" are wrong variants of the definition     *)
(* they precede, kept to show which property would notice them.            *)

Runs == 0 .. MaxRuns
File(status, r) == [status |-> status, run |-> r]
Elements(s) == {s[i] : i \in DOMAIN s}

Parts == <<"csv", "md", "json">>
NoSummary == [state |-> "none"]
Truncated == [state |-> "truncated"]

(* A summary, and the sweep of the manifest it was made under (0: none).   *)
Written(r, result) == [state |-> "written", sweep |-> r, rows |-> result]
NoManifest == [status |-> "absent", cases |-> <<>>, run |-> 0]

Init ==
  /\ last = OldRuns
  /\ run = 0
  /\ byHand = {}
  /\ tool = "none"
  /\ pc = "idle"
  /\ plan = <<>>
  /\ k = 1
  /\ child = "none"
  /\ strays = {}
  /\ orphans = {}
  /\ manifest = NoManifest
  /\ \E old \in [Cases -> 0 .. OldRuns] :
       file = [c \in Cases |-> File(IF old[c] = 0 THEN "absent" ELSE "passed", old[c])]
  /\ rows = <<>>
  /\ part = 1
  /\ summary = [p \in Elements(Parts) |-> NoSummary]
  /\ stopped = FALSE

-----------------------------------------------------------------------------
(* The sweep.                                                              *)

StartSweep(p) ==
  /\ tool = "none" /\ last < MaxRuns
  /\ last' = last + 1
  /\ run' = last'
  /\ tool' = "sweep"
  /\ plan' = p
  /\ k' = 1
  /\ manifest' = [status |-> "running", cases |-> p, run |-> run']
  /\ pc' = "case"
  /\ UNCHANGED <<byHand, child, strayVars, file, rows, part, summary, stopped>>

(* A mistake: leaving the file of the case as it is.                       *)
BeginCaseKeep ==
  /\ pc = "case" /\ k <= Len(plan)
  /\ child' = "running"
  /\ pc' = "wait"
  /\ UNCHANGED <<runVars, tool, plan, k, strayVars, manifest, file, rows, part,
                 summary, stopped>>

(* Invalidate the case's earlier result, then start its test.              *)
BeginCase ==
  /\ pc = "case" /\ k <= Len(plan)
  /\ file' = [file EXCEPT ![plan[k]] = File("running", run)]
  /\ child' = "running"
  /\ pc' = "wait"
  /\ UNCHANGED <<runVars, tool, plan, k, strayVars, manifest, rows, part,
                 summary, stopped>>

(* The test writes its result, in one rename, when every worker passed.    *)
TestWrites ==
  /\ child = "running"
  /\ child' = "written"
  /\ file' = [file EXCEPT ![plan[k]] = File("passed", run)]
  /\ UNCHANGED <<runVars, tool, pc, plan, k, strayVars, manifest, rows, part,
                 summary, stopped>>

(* A mistake: not looking at the test's return code.                       *)
CasePassedAnyway ==
  /\ pc = "wait"
  /\ child' = "none"
  /\ k' = k + 1
  /\ pc' = "case"
  /\ UNCHANGED <<runVars, tool, plan, strayVars, manifest, file, rows, part,
                 summary, stopped>>

CasePassed ==
  /\ pc = "wait" /\ child = "written"
  /\ child' = "none"
  /\ k' = k + 1
  /\ pc' = "case"
  /\ UNCHANGED <<runVars, tool, plan, strayVars, manifest, file, rows, part,
                 summary, stopped>>

(* The test fails, or is killed before it returns.                         *)
CaseFailed ==
  /\ pc = "wait"
  /\ child' = "none"
  /\ file' = [file EXCEPT ![plan[k]] = File("failed", run)]
  /\ pc' = "raising"
  /\ UNCHANGED <<runVars, tool, plan, k, strayVars, manifest, rows, part,
                 summary, stopped>>

AllCasesPassed ==
  /\ pc = "case" /\ k > Len(plan)
  /\ manifest' = [manifest EXCEPT !.status = "passed"]
  /\ pc' = "load"
  /\ UNCHANGED <<runVars, tool, plan, k, child, strayVars, file, rows, part,
                 summary, stopped>>

(* KeyboardInterrupt, or an error in the analysis: the running test is     *)
(* killed.                                                                 *)
Interrupt ==
  /\ tool = "sweep" /\ pc # "raising"
  /\ child' = "none"
  /\ rows' = <<>>
  /\ part' = 1
  /\ pc' = "raising"
  /\ UNCHANGED <<runVars, tool, plan, k, strayVars, manifest, file, summary,
                 stopped>>

(* A mistake: recording a failed case only, not an interrupt.              *)
RecordCaseFailure ==
  /\ pc = "raising"
  /\ manifest' = [manifest EXCEPT !.status = IF @ = "running" THEN "failed" ELSE @]
  /\ tool' = "none"
  /\ pc' = "idle"
  /\ UNCHANGED <<runVars, plan, k, child, strayVars, file, rows, part, summary,
                 stopped>>

RecordFailure ==
  /\ pc = "raising"
  /\ manifest' = [manifest EXCEPT !.status = "failed"]
  /\ tool' = "none"
  /\ pc' = "idle"
  /\ UNCHANGED <<runVars, plan, k, child, strayVars, file, rows, part, summary,
                 stopped>>

-----------------------------------------------------------------------------
(* The analysis, at the end of a sweep or on its own.                      *)

StartAnalysis ==
  /\ tool = "none"
  /\ tool' = "analysis"
  /\ pc' = "load"
  /\ UNCHANGED <<runVars, plan, k, child, strayVars, manifest, file, rows,
                 part, summary, stopped>>

(* A mistake: always reading every case file there is.                     *)
ListedAll == {c \in Cases : file[c].status # "absent"}

(* The case files an analysis reads.                                       *)
Listed ==
  IF manifest = NoManifest
    THEN {c \in Cases : file[c].status # "absent"}
    ELSE Elements(manifest.cases)

Loadable ==
  /\ manifest.status \in {"absent", "passed"}
  /\ Listed # {}
  /\ \A c \in Listed : file[c].status = "passed"

Load ==
  /\ pc = "load" /\ Loadable
  /\ rows' = [c \in Listed |-> file[c].run]
  /\ part' = 1
  /\ pc' = "open"
  /\ UNCHANGED <<runVars, tool, plan, k, child, strayVars, manifest, file,
                 summary, stopped>>

LoadRaises ==
  /\ pc = "load" /\ ~Loadable
  /\ IF tool = "sweep"
       THEN pc' = "raising" /\ UNCHANGED tool
       ELSE pc' = "idle" /\ tool' = "none"
  /\ UNCHANGED <<runVars, plan, k, child, strayVars, manifest, file, rows,
                 part, summary, stopped>>

(* The summary files are rewritten in place, one after the other.          *)
OpenPart ==
  /\ pc = "open"
  /\ summary' = [summary EXCEPT ![Parts[part]] = Truncated]
  /\ pc' = "write"
  /\ UNCHANGED <<runVars, tool, plan, k, child, strayVars, manifest, file,
                 rows, part, stopped>>

WritePart ==
  /\ pc = "write"
  /\ summary' = [summary EXCEPT ![Parts[part]] = Written(run, rows)]
  /\ IF part < Len(Parts)
       THEN /\ part' = part + 1
            /\ pc' = "open"
            /\ UNCHANGED <<tool, stopped>>
       ELSE /\ tool' = "none"
            /\ pc' = "idle"
            /\ part' = 1
            /\ stopped' = FALSE
  /\ rows' = IF part < Len(Parts) THEN rows ELSE <<>>
  /\ UNCHANGED <<runVars, plan, k, child, strayVars, manifest, file>>

-----------------------------------------------------------------------------
(* The machine, and tests that no sweep waits for.                         *)

(* SIGKILL; an interrupt of an analysis on its own does the same.          *)
Kill ==
  /\ tool # "none"
  /\ tool' = "none"
  /\ pc' = "idle"
  /\ LET left == IF child = "running" THEN {<<plan[k], run>>} ELSE {}
     IN  strays' = strays \cup left /\ orphans' = orphans \cup left
  /\ child' = "none"
  /\ rows' = <<>>
  /\ part' = 1
  /\ stopped' = TRUE
  /\ UNCHANGED <<runVars, plan, k, manifest, file, summary>>

OrphanWrites(c, r) ==
  /\ <<c, r>> \in orphans
  /\ orphans' = orphans \ {<<c, r>>}
  /\ file' = [file EXCEPT ![c] = File("passed", r)]
  /\ UNCHANGED <<runVars, tool, pc, plan, k, child, strays, manifest, rows,
                 part, summary, stopped>>

(* A test somebody starts by hand, without --output, ends well; one that   *)
(* fails leaves the file as it is.                                         *)
TestByHand(c) ==
  /\ last < MaxRuns
  /\ last' = last + 1
  /\ byHand' = byHand \cup {last'}
  /\ file' = [file EXCEPT ![c] = File("passed", last')]
  /\ UNCHANGED <<run, tool, pc, plan, k, child, strayVars, manifest, rows,
                 part, summary, stopped>>

Sweep ==
  \/ \E p \in Plans : StartSweep(p)
  \/ BeginCase \/ CasePassed \/ CaseFailed \/ AllCasesPassed
  \/ Interrupt \/ RecordFailure

Analysis == StartAnalysis \/ Load \/ LoadRaises \/ OpenPart \/ WritePart

Next ==
  \/ Sweep \/ Analysis \/ TestWrites \/ Kill
  \/ \E c \in Cases : TestByHand(c) \/ \E r \in Runs : OrphanWrites(c, r)

Spec == Init /\ [][Next]_vars

-----------------------------------------------------------------------------
(* Properties.                                                             *)

(* A result of case c that may stand for sweep r's: its own, that of a     *)
(* test a killed sweep left behind, which may write at any time, or that   *)
(* of a test started by hand which ended since the sweep began.            *)
Of(r, c, result) ==
  \/ result = r
  \/ <<c, result>> \in strays
  \/ result \in byHand /\ result > r

(* A manifest that says "passed" can be believed, wherever the tools were  *)
(* stopped: every case it lists has a result, and of that sweep, unless it *)
(* was replaced since.                                                     *)
ManifestTruthful ==
  manifest.status = "passed" =>
    \A c \in Elements(manifest.cases) :
      file[c].status = "passed" /\ Of(manifest.run, c, file[c].run)

(* No case whose test has been started, and none finished before it, still *)
(* shows a success from before the sweep.                                  *)
StartedCasesFresh ==
  \A i \in DOMAIN plan : i < k \/ (i = k /\ pc = "wait") =>
    (file[plan[i]].status = "passed" => Of(run, plan[i], file[plan[i]].run))

(* A summary made under a sweep's manifest never shows a result from       *)
(* before that sweep ("only the cases selected in this run").  Without a   *)
(* manifest the analysis takes whatever case files there are.              *)
SummaryFromOneRun ==
  \A p \in Elements(Parts) :
    summary[p] \notin {NoSummary, Truncated} /\ summary[p].sweep # 0 =>
      \A c \in DOMAIN summary[p].rows : Of(summary[p].sweep, c, summary[p].rows[c])

(* When no tool is working, a passed sweep has all three summaries, made   *)
(* under its manifest and of exactly its cases: unless a tool was killed,  *)
(* and then again as soon as an analysis has come to its end.              *)
SummaryMatchesManifest ==
  tool = "none" /\ manifest.status = "passed" /\ ~stopped =>
    \A p \in Elements(Parts) :
      /\ summary[p] \notin {NoSummary, Truncated}
      /\ summary[p].sweep = manifest.run
      /\ DOMAIN summary[p].rows = Elements(manifest.cases)
      /\ \A c \in DOMAIN summary[p].rows : Of(manifest.run, c, summary[p].rows[c])
=============================================================================
