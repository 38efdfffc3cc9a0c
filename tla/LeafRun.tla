------------------------------- MODULE LeafRun -------------------------------
(***************************************************************************)
(* One leaf step of a regression campaign: its launcher (launch.mjs), the  *)
(* Playwright process group it supervises (process-supervisor.ts,          *)
(* process-group.ts), the reporter inside that group (reporter.ts), and    *)
(* the evidence the coordinator above takes from the step's files          *)
(* (campaign-evidence.ts, interrupted-evidence.ts, report.ts).             *)
(*                                                                         *)
(* truth is what really happened to a test; reported is what the reporter  *)
(* has noted of it.  A report is a row per test plus the two rows of the   *)
(* harness itself: HAR-10 (infrastructure) and HAR-07 (cleanup).           *)
(***************************************************************************)
EXTENDS Naturals, Sequences

CONSTANTS
  Tests,       \* the scenarios the step selects
  LeafFaults   \* bound: crashes, failed hangs, failed teardowns

VARIABLES
  live,        \* a live step, or an isolated one
  truth,       \* the real result of each test
  reported,    \* the reporter's state and outcome of each test
  unexpected,  \* the reporter met an error of its own
  ledger,      \* runner-evidence.json
  rend,        \* onEnd: "none", "saving", "ended"
  infra,       \* the reporter's infrastructure failure
  summary,     \* summary.json
  direct,      \* the direct child: "none", "alive", or how it exited
  worker,      \* its worker: "none", "busy", "gone", "stuck"
  cleaned,     \* nothing of the step is left on the appliance
  lpc,         \* the launcher's step
  stop,        \* [interrupted, forced, timedOut, orphaned] of the supervisor
  stopped,     \* the group was seen to have no member
  session,     \* runner-session.json
  exitCode,    \* of the launcher, with its receipt; 9 without
  taken,       \* what the coordinator has taken from the step
  leafFaults

reporter == <<reported, unexpected, ledger, rend, infra, summary>>
group == <<direct, worker, cleaned, truth>>
launcher == <<lpc, stop, stopped, session, exitCode>>
leafVars == <<live, truth, reported, unexpected, ledger, rend, infra,
              summary, direct, worker, cleaned, lpc, stop, stopped, session,
              exitCode, taken, leafFaults>>

Unstarted == [state |-> "selected", outcome |-> "none"]
NoReport == [rows |-> <<>>, har10 |-> "none", har07 |-> FALSE]
NoStop == [interrupted |-> "no", forced |-> FALSE, timedOut |-> FALSE,
           orphaned |-> FALSE]
NotTaken == [rows |-> <<>>, green |-> FALSE, fence |-> FALSE]

Exits == {"passed", "failed", "signalled"}

LFault == leafFaults < LeafFaults /\ leafFaults' = leafFaults + 1

LeafInit ==
  /\ live \in BOOLEAN
  /\ truth = [t \in Tests |-> "none"]
  /\ reported = [t \in Tests |-> Unstarted]
  /\ unexpected = FALSE /\ ledger = <<>> /\ rend = "none"
  /\ infra = "none" /\ summary = NoReport
  /\ direct = "none" /\ worker = "none" /\ cleaned = TRUE
  /\ lpc = "start" /\ stop = NoStop /\ stopped = FALSE
  /\ session = "running" /\ exitCode = 9 /\ taken = NotTaken /\ leafFaults = 0

(***************************************************************************)
(* Reports.                                                                *)
(***************************************************************************)
\* Every required row is there and every row is a pass.
Summarize(report) ==
  /\ \A t \in Tests : report.rows[t] = "Passed"
  /\ report.har10 = "none" /\ ~report.har07

\* A row that is missing is filled in as blocked, never as passed.
CompleteCases(rows) ==
  [t \in Tests |-> IF rows[t] = "none" THEN "Blocked" ELSE rows[t]]

Outcomes(report) ==
  {report.rows[t] : t \in Tests} \union {report.har10}
    \union (IF report.har07 THEN {"Failed"} ELSE {})

ReportExitCode(outcomes) ==
  IF "Failed" \in outcomes THEN 1 ELSE IF "Blocked" \in outcomes THEN 2 ELSE 0

\* A step that looks green but did not end as one gets a failed row.
StepCases(report, code, acceptable) ==
  IF (code = 0 /\ acceptable) \/ Outcomes(report) \ {"Passed", "none"} # {}
  THEN report ELSE [report EXCEPT !.har10 = "Failed"]

\* Mutant: a scenario that was still running counts as passed.
InterruptedOptimistic(reason) ==
  LET known == ledger # <<>>
      row(t) == IF known /\ ledger[t].state # "selected" THEN "Passed" ELSE "none"
  IN [rows |-> CompleteCases([t \in Tests |-> row(t)]), har10 |-> "Failed",
      har07 |-> FALSE]

\* The evidence of a step that has no report of its own.
InterruptedEvidence(reason) ==
  LET cut == IF reason = "CANCELLED" THEN "Blocked" ELSE "Failed"
      row(t) == CASE ledger = <<>> -> "none"
                  [] ledger # <<>> /\ ledger[t].state = "completed" -> ledger[t].outcome
                  [] ledger # <<>> /\ ledger[t].state = "running" -> cut
                  [] OTHER -> "Blocked"
  IN [rows |-> CompleteCases([t \in Tests |-> row(t)]), har10 |-> cut,
      har07 |-> FALSE]

(***************************************************************************)
(* The reporter.                                                           *)
(***************************************************************************)
Running == direct = "alive" /\ rend = "none"

\* Snapshots are taken at once and written in order, each some time later.
PersistEvidence == ledger' \in {ledger, reported'}

WriteFails ==
  /\ Running /\ ledger # reported /\ LFault /\ unexpected' = TRUE
  /\ infra' = IF infra = "none" THEN "PRIVATE_FILE" ELSE infra
  /\ UNCHANGED <<live, group, launcher, taken, reported, ledger, rend, summary>>

OnError ==
  /\ Running /\ LFault /\ unexpected' = TRUE
  /\ infra' = IF infra = "none" THEN "UNEXPECTED" ELSE infra
  /\ reported' = reported /\ PersistEvidence
  /\ UNCHANGED <<live, group, launcher, taken, rend, summary>>

\* A test that cannot be mapped to its cases.
BadMapping ==
  /\ Running /\ ~unexpected /\ LFault /\ unexpected' = TRUE
  /\ UNCHANGED <<live, group, launcher, taken, reported, ledger, rend, infra, summary>>

OnTestBegin(t) ==
  /\ Running /\ reported[t].state = "selected" /\ worker # "stuck"
  /\ \A u \in Tests : reported[u].state # "running"
  /\ stop.interrupted = "no"
  /\ reported' = [reported EXCEPT ![t].state = "running"]
  /\ PersistEvidence
  /\ worker' = "busy" /\ cleaned' = (cleaned /\ ~live)
  /\ UNCHANGED <<live, truth, direct, launcher, taken, unexpected, rend,
                 infra, summary, leafFaults>>

Completed(t, outcome) ==
  reported' = IF reported[t].state = "completed" THEN reported
              ELSE [reported EXCEPT ![t] = [state |-> "completed", outcome |-> outcome]]

\* The worker ends the test it is running, at its first attempt: a pass on a
\* retry is a failure, and a test that onEnd has closed keeps its outcome.
OnTestEnd(t) ==
  /\ direct = "alive" /\ worker = "busy"
  /\ truth[t] = "none" /\ reported[t].state # "selected"
  /\ \E result \in {"pass", "fail"} :
     /\ truth' = [truth EXCEPT ![t] = result]
     /\ Completed(t, IF result = "pass" THEN "Passed" ELSE "Failed")
  /\ IF rend = "none" THEN PersistEvidence ELSE UNCHANGED ledger
  /\ UNCHANGED <<live, direct, worker, cleaned, launcher, taken, unexpected,
                 rend, infra, summary, leafFaults>>

\* A serial suite skips what comes after a failure.
OnTestSkipped(t) ==
  /\ Running /\ reported[t].state = "selected" /\ stop.interrupted = "no"
  /\ \E u \in Tests : reported[u].outcome = "Failed"
  /\ Completed(t, "Blocked") /\ PersistEvidence
  /\ UNCHANGED <<live, group, launcher, taken, unexpected, rend, infra,
                 summary, leafFaults>>

\* The memory of the reporter ends with the direct child.
Forgotten ==
  /\ reported' = [t \in Tests |-> Unstarted]
  /\ unexpected' = FALSE /\ infra' = "none" /\ rend' = "none"

Unfinished == {t \in Tests : reported[t].state # "completed"}

\* onEnd closes what has no end yet, as the infrastructure failure allows.
OnEnd(status) ==
  /\ Running
  /\ infra' = IF status = "timedout" THEN "DEADLINE"
              ELSE IF infra # "none" THEN infra
              ELSE IF status = "interrupted" THEN "CANCELLED"
              ELSE IF \E t \in Tests : reported[t].state = "running" THEN "UNEXPECTED"
              ELSE "none"
  /\ reported' =
       IF infra' = "none" THEN reported
       ELSE [t \in Tests |->
               IF t \notin Unfinished THEN reported[t]
               ELSE [state |-> "completed",
                     outcome |-> IF reported[t].state = "running" /\ infra' # "CANCELLED"
                                 THEN "Failed" ELSE "Blocked"]]
  /\ rend' = "saving"
  /\ UNCHANGED <<live, group, launcher, taken, unexpected, ledger, summary>>

Ending ==
  \/ OnEnd("done") /\ Unfinished = {} /\ UNCHANGED leafFaults
  \/ OnEnd("interrupted") /\ stop.interrupted # "no" /\ UNCHANGED leafFaults
  \/ OnEnd("timedout") /\ LFault

\* The reporter's own report, and the exit code Playwright derives from it.
SaveSummary ==
  /\ direct = "alive" /\ rend = "saving"
  /\ LET report == [rows |-> CompleteCases([t \in Tests |-> reported[t].outcome]),
                    har10 |-> IF infra = "none" THEN "none"
                              ELSE IF infra = "CANCELLED" THEN "Blocked" ELSE "Failed",
                    har07 |-> FALSE]
     IN \/ /\ summary' = report /\ UNCHANGED leafFaults
           /\ direct' = IF Summarize(report) /\ ~unexpected THEN "passed" ELSE "failed"
        \/ LFault /\ UNCHANGED summary /\ direct' = "failed"
  /\ Forgotten
  /\ UNCHANGED <<live, truth, worker, cleaned, launcher, taken, ledger>>

(***************************************************************************)
(* The rest of the process group.                                          *)
(***************************************************************************)
\* The worker's teardown removes what the tests made, if it comes to run.
TeardownWorker ==
  /\ worker = "busy"
  /\ (\A t \in Tests : reported[t].state # "running")
       \/ stop.interrupted # "no" \/ direct # "alive" \/ rend # "none"
  /\ worker' = "gone"
  /\ \/ cleaned' = TRUE /\ UNCHANGED leafFaults
     \/ UNCHANGED cleaned /\ LFault
  /\ UNCHANGED <<live, truth, direct, reporter, launcher, taken>>

\* A worker that no signal ends, or a Playwright process that dies.
GroupFault ==
  /\ LFault
  /\ \/ /\ worker = "busy" /\ worker' = "stuck"
        /\ UNCHANGED <<direct, reported, unexpected, infra, rend>>
     \/ /\ direct = "alive" /\ direct' \in {"failed", "signalled"}
        /\ Forgotten /\ UNCHANGED worker
  /\ UNCHANGED <<live, truth, cleaned, ledger, summary, launcher, taken>>

Killed == worker' = IF worker = "stuck" THEN "stuck" ELSE "gone"

(***************************************************************************)
(* The launcher.                                                           *)
(***************************************************************************)
SupervisedProcess ==
  /\ lpc = "start" /\ lpc' = "wait" /\ direct' = "alive"
  /\ reported' = reported /\ PersistEvidence
  /\ UNCHANGED <<live, truth, worker, cleaned, taken, unexpected, rend,
                 infra, summary, stop, stopped, session, exitCode, leafFaults>>

\* A signal from above, or the campaign's deadline: Playwright is asked to
\* unwind, once.
Interrupt ==
  /\ lpc = "wait" /\ stop.interrupted = "no"
  /\ \E why \in {"CANCELLED", "DEADLINE"} : stop' = [stop EXCEPT !.interrupted = why]
  /\ UNCHANGED <<live, group, reporter, lpc, stopped, session, exitCode, taken,
                 leafFaults>>

\* The grace, or the hard limit of a scenario, is over.
ForceKill ==
  /\ lpc = "wait" /\ direct = "alive"
  /\ \/ /\ stop.interrupted # "no" /\ stop' = [stop EXCEPT !.forced = TRUE]
        /\ UNCHANGED leafFaults
     \/ /\ LFault /\ stop' = [stop EXCEPT !.forced = TRUE, !.timedOut = TRUE]
  /\ direct' = "signalled" /\ Killed /\ Forgotten
  /\ UNCHANGED <<live, truth, cleaned, ledger, summary, lpc, stopped, session, exitCode,
                 taken>>

\* The direct child has gone: what is left of its group is an orphan.
Settle ==
  /\ lpc = "wait" /\ direct \in Exits
  /\ IF worker \in {"none", "gone"}
     THEN lpc' = "report" /\ stopped' = TRUE /\ UNCHANGED stop
     ELSE /\ lpc' = "drain" /\ UNCHANGED stopped
          /\ stop' = IF stop.interrupted = "no" /\ ~stop.forced
                     THEN [stop EXCEPT !.orphaned = TRUE] ELSE stop
  /\ UNCHANGED <<live, group, reporter, session, exitCode, taken, leafFaults>>

\* The wait for a group that was killed is bounded.
Drained == worker = "gone" \/ stop.forced

Drain ==
  /\ lpc = "drain"
  /\ \/ /\ worker = "busy" /\ stop' = [stop EXCEPT !.forced = TRUE] /\ Killed
        /\ UNCHANGED <<lpc, stopped, leafFaults>>
     \/ /\ worker = "stuck" /\ ~stop.forced /\ stop' = [stop EXCEPT !.forced = TRUE]
        /\ UNCHANGED <<worker, lpc, stopped, leafFaults>>
     \/ /\ Drained /\ lpc' = "report"
        /\ \/ stopped' = (worker = "gone") /\ UNCHANGED leafFaults
           \/ stopped' = FALSE /\ LFault    \* the group cannot be read
        /\ UNCHANGED <<stop, worker>>
  /\ UNCHANGED <<live, truth, direct, cleaned, reporter, session, exitCode, taken>>

\* A session is finished only when every process of its group has stopped.
FinishSession ==
  /\ lpc = "report" /\ lpc' = "read"
  /\ session' = IF stopped THEN "finished" ELSE "unsettled"
  /\ UNCHANGED <<live, group, reporter, stop, stopped, exitCode, taken, leafFaults>>

CleanupVerified == session = "finished" /\ cleaned

Reason ==
  IF stop.timedOut \/ stop.interrupted = "DEADLINE" THEN "DEADLINE"
  ELSE IF stop.interrupted = "CANCELLED" THEN "CANCELLED" ELSE "UNEXPECTED"

Irregular == stop.timedOut \/ stop.forced \/ stop.orphaned \/ ~stopped

\* The launcher's final report, its exit code and its receipt.
LeafReport ==
  LET read == IF summary # NoReport THEN summary ELSE InterruptedEvidence(Reason)
      checked == IF Irregular THEN [read EXCEPT !.har10 = "Failed"] ELSE read
  IN IF live /\ ~CleanupVerified THEN [checked EXCEPT !.har07 = TRUE] ELSE checked

Evaluate ==
  /\ lpc = "read" /\ lpc' = "done"
  /\ summary' = LeafReport
  /\ exitCode' = LET code == IF stop.timedOut \/ stop.orphaned \/ direct # "passed" THEN 1 ELSE 0
                 IN ReportExitCode(Outcomes(StepCases(LeafReport, code, Summarize(LeafReport))))
  /\ UNCHANGED <<live, group, stop, stopped, session, taken, reported, unexpected,
                 ledger, rend, infra, leafFaults>>

\* The launcher is killed: no receipt, and its group lives on.
LauncherKilled ==
  /\ lpc \notin {"done", "dead"} /\ LFault
  /\ lpc' = "dead"
  /\ UNCHANGED <<live, group, reporter, stop, stopped, session, exitCode, taken>>

(***************************************************************************)
(* The coordinator takes the step's evidence.                              *)
(***************************************************************************)
TakeEvidence ==
  /\ lpc \in {"done", "dead"} /\ taken = NotTaken
  /\ LET report == IF lpc = "done" THEN summary ELSE InterruptedEvidence("UNEXPECTED")
     IN taken' = [rows |-> report.rows,
                  green |-> lpc = "done" /\ exitCode = 0 /\ Summarize(report),
                  fence |-> live /\ ~CleanupVerified]
  /\ UNCHANGED <<live, group, reporter, launcher, leafFaults>>

LauncherStep ==
  \/ SupervisedProcess \/ Interrupt \/ Settle \/ Drain \/ FinishSession \/ Evaluate
  \/ TakeEvidence \/ (stop.interrupted # "no" /\ ForceKill)

LeafNext ==
  \/ LauncherStep \/ ForceKill \/ LauncherKilled
  \/ WriteFails \/ OnError \/ BadMapping \/ Ending \/ SaveSummary
  \/ TeardownWorker \/ GroupFault
  \/ \E t \in Tests : OnTestBegin(t) \/ OnTestEnd(t) \/ OnTestSkipped(t)

LeafFairness == WF_leafVars(LauncherStep)

(***************************************************************************)
(* What the evidence of a step is worth.                                   *)
(***************************************************************************)
\* A row that says a test passed is true: the test ran, once, and passed,
\* whatever was killed, timed out, lost or late (reporter.ts onTestEnd, onEnd;
\* interruptedEvidence).
PassedTrue ==
  taken # NotTaken =>
    \A t \in Tests : taken.rows[t] = "Passed" => truth[t] = "pass"

\* A step is green only when every test passed, nothing of it is left on the
\* appliance and no process of it can still write (launch.mjs, the leaf).
GreenTrue ==
  taken.green =>
    /\ \A t \in Tests : truth[t] = "pass"
    /\ live => cleaned
    /\ direct = "passed" /\ worker \in {"none", "gone"}

\* A live step that has left something behind, or of which a process still
\* runs, is fenced: also when its launcher died and another process judges
\* from the files (supervisedProcess, session.finish, assessRunCleanup).
FencedInDoubt ==
  taken # NotTaken /\ live /\ ~taken.fence =>
    cleaned /\ direct # "alive" /\ worker \in {"none", "gone"}

\* What is reported of one step is true, whoever had to write the report: what
\* passed has passed, green means clean, and doubt means a fence.
StepTrue == PassedTrue /\ GreenTrue /\ FencedInDoubt

LeafEnded == taken # NotTaken

\* Every step ends and is judged, also when a test hangs, a worker cannot be
\* killed or the launcher dies: the deadline, the grace and the drain.
LeafEnds == <>LeafEnded

LeafSpec == LeafInit /\ [][LeafNext]_leafVars /\ LeafFairness
=============================================================================
