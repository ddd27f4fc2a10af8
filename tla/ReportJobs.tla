----------------------------- MODULE ReportJobs -----------------------------
(***************************************************************************)
(* A compliance report made by a request or a background job of the web    *)
(* application, and the browser that asks for it: endpoints/compliance.py  *)
(* and the polling loop of static/index.js.                                *)
(*                                                                         *)
(* The job is an object of one process.  Its thread sets the fields of the *)
(* object one by one under a lock; a request reads them one by one after   *)
(* it has given the lock back.                                             *)
(***************************************************************************)
EXTENDS Naturals, Sequences

CONSTANTS ReportControls,  \* the controls a report can be about, in their order
          NoReport

\* They are a sequence, of whatever.
ASSUME ReportControlsAssumption == ReportControls \in Seq({ReportControls[i] : i \in DOMAIN ReportControls})

VARIABLES
    order,      \* [kind, strategy, validation, now]: the report asked for; now
                \* is TRUE when one request is to make and return it
    indexed,    \* whether Corpus C, and the batch asked for, have documents
    registered, \* whether the process knows the job
    stage,      \* what the thread does next
    state, result, jobError,   \* fields of _ReportJob
    todo,       \* controls still to be assessed
    total,      \* how many there were
    findings,   \* findings so far
    failed,     \* some part of the assessment failed or could not be read
    report,     \* the report as it is returned, and whether an item of the reply was lost
    browser,    \* "asking", "done", "refused"
    reading,    \* the fields a poll has still to read
    shown,      \* the fields it has read
    restarted

workerVars == <<stage, todo, total, findings, failed, report>>
fieldVars == <<state, result, jobError>>
clientVars == <<browser, reading, shown>>
jobVars == <<order, indexed, registered, restarted, workerVars, fieldVars, clientVars>>

Kinds == {"compliance", "azure", "aws"}
Statuses == {"compliant", "non_compliant", "insufficient_evidence"}
Unreadable == "unreadable"        \* a field ComplianceFinding does not accept

ReportInit ==
    /\ order \in [kind : Kinds, strategy : {"per_control", "single_pass"}, validation : {"hard", "soft"}, now : BOOLEAN]
    /\ indexed \in BOOLEAN
    /\ registered = FALSE /\ stage = "preflight" /\ state = "none" /\ result = NoReport /\ jobError = FALSE
    /\ todo = <<>> /\ total = 0 /\ findings = <<>> /\ failed = FALSE /\ report = NoReport
    /\ browser = "asking" /\ reading = <<>> /\ shown = [state |-> "none", error |-> FALSE, result |-> NoReport]
    /\ restarted = FALSE

\* Only the report on indexed artifacts looks for them first; a count that
\* fails is a count of zero.
Ready == order.kind = "compliance" => indexed

NewReportJob ==
    /\ registered' = TRUE /\ state' = "queued" /\ stage' = "start"
    /\ UNCHANGED <<order, indexed, restarted, result, jobError, todo, total, findings, failed, report, clientVars>>

StartComplianceReport == stage = "preflight" /\ ~order.now /\ order.kind = "compliance" /\ Ready /\ NewReportJob
StartAzureReport == stage = "preflight" /\ ~order.now /\ order.kind = "azure" /\ NewReportJob
StartAwsReport == stage = "preflight" /\ ~order.now /\ order.kind = "aws" /\ NewReportJob

RefuseReport ==
    /\ stage = "preflight" /\ ~Ready
    /\ stage' = "ended" /\ browser' = "refused"
    /\ UNCHANGED <<order, indexed, registered, restarted, fieldVars, todo, total, findings, failed, report,
                   reading, shown>>

\* One request does the work of a job and returns the report, or an error.
GenerateNow ==
    /\ stage = "preflight" /\ order.now /\ Ready
    /\ stage' = IF order.kind = "aws" THEN "wrap" ELSE "collect"
    /\ UNCHANGED <<order, indexed, registered, restarted, fieldVars, todo, total, findings, failed, report, clientVars>>

AnswerNow ==
    /\ order.now /\ stage \in {"complete", "fail"}
    /\ browser' = IF stage = "complete" THEN "done" ELSE "refused"
    /\ stage' = "ended"
    /\ UNCHANGED <<order, indexed, registered, restarted, fieldVars, todo, total, findings, failed, report,
                   reading, shown>>

RunJob ==
    /\ stage = "start"
    /\ state' = "running" /\ stage' = IF order.kind = "aws" THEN "wrap" ELSE "collect"
    /\ UNCHANGED <<order, indexed, registered, restarted, result, jobError, todo, total, findings, failed, report,
                   clientVars>>

\* The AWS report is the report on all indexed artifacts, asked a question of
\* its own about an account and a region.
WrapAwsReport(scoped) ==
    /\ stage = "wrap"
    /\ stage' = IF scoped THEN "collect" ELSE "fail"
    /\ UNCHANGED <<order, indexed, registered, restarted, fieldVars, todo, total, findings, failed, report, clientVars>>

\* The controls are searched or listed; a search that fails finds none, and
\* without controls there is one call for the whole report.
CollectControls(controls) ==
    /\ stage = "collect" /\ order.kind # "azure"
    /\ todo' = controls /\ total' = Len(controls)
    /\ stage' = IF order.strategy = "per_control" /\ controls # <<>> THEN "assess" ELSE "single"
    /\ UNCHANGED <<order, indexed, registered, restarted, fieldVars, findings, failed, report, clientVars>>

\* The controls of an Azure report come with its evidence, and there is one
\* finding for each even when there is none.
CollectAzure(controls) ==
    /\ stage = "collect" /\ order.kind = "azure"
    /\ todo' = IF order.strategy = "per_control" THEN controls ELSE <<>>
    /\ total' = Len(todo')
    /\ stage' = IF order.strategy = "per_control" THEN "assess" ELSE "single"
    /\ UNCHANGED <<order, indexed, registered, restarted, fieldVars, findings, failed, report, clientVars>>

\* One control: what the model says is taken as it is; when it cannot be
\* called or understood the finding says so.
AssessControl(status) ==
    /\ stage = "assess" /\ todo # <<>>
    /\ findings' = Append(findings, status)
    /\ todo' = Tail(todo)
    /\ UNCHANGED <<order, indexed, registered, restarted, fieldVars, stage, total, failed, report, clientVars>>

\* Bug: a control the model failed on is taken for compliant.
AssumeCompliant ==
    /\ stage = "assess" /\ todo # <<>>
    /\ findings' = Append(findings, "compliant")
    /\ failed' = TRUE
    /\ todo' = Tail(todo)
    /\ UNCHANGED <<order, indexed, registered, restarted, fieldVars, stage, total, report, clientVars>>

\* Bug: it is left out.
SkipControl ==
    /\ stage = "assess" /\ todo # <<>>
    /\ failed' = TRUE
    /\ todo' = Tail(todo)
    /\ UNCHANGED <<order, indexed, registered, restarted, fieldVars, stage, total, findings, report, clientVars>>

AssessmentFails ==
    /\ stage = "assess" /\ todo # <<>>
    /\ findings' = Append(findings, "insufficient_evidence")
    /\ failed' = TRUE
    /\ todo' = Tail(todo)
    /\ UNCHANGED <<order, indexed, registered, restarted, fieldVars, stage, total, report, clientVars>>

In(f, statuses) == \E i \in DOMAIN f : f[i] \in statuses
Risk(f) == IF In(f, {"non_compliant"}) THEN "high"
           ELSE IF In(f, {"insufficient_evidence"}) THEN "medium" ELSE "low"
Report(f, risk) == [findings |-> f, risk |-> risk, valid |-> TRUE, lost |-> FALSE]
Fallback == [findings |-> <<"insufficient_evidence">>, risk |-> "medium", valid |-> FALSE, lost |-> FALSE]
BlankReport == [findings |-> <<>>, risk |-> "none", valid |-> FALSE, lost |-> FALSE]
Accepted(f) == f # <<>> /\ ~In(f, {Unreadable})

\* Bug: the exception ends the thread.
ThreadDies == stage' = "ended" /\ UNCHANGED report

JobFails == stage' = "fail" /\ UNCHANGED report
Reported(r) == stage' = "complete" /\ report' = r

\* The findings are validated together: one that is not accepted costs the
\* whole report.
ValidateFindings ==
    /\ stage = "assess" /\ todo = <<>>
    /\ failed' = (failed \/ ~Accepted(findings))
    /\ IF Accepted(findings) THEN Reported(Report(findings, Risk(findings)))
       ELSE IF order.validation = "hard" THEN JobFails
       ELSE IF order.kind = "azure" THEN Reported(BlankReport) ELSE Reported(Fallback)
    /\ UNCHANGED <<order, indexed, registered, restarted, fieldVars, todo, total, findings, clientVars>>

\* Bug: what cannot be read is taken for compliant.
Lenient(f) == IF f = <<>> THEN <<"compliant">> ELSE [i \in DOMAIN f |-> IF f[i] = Unreadable THEN "compliant" ELSE f[i]]

\* A status the model makes up becomes insufficient evidence, and so does a reply
\* without a finding; a rating it makes up becomes medium.
Normal(f) == IF f = <<>> THEN <<"insufficient_evidence">>
             ELSE [i \in DOMAIN f |-> IF f[i] = Unreadable THEN "insufficient_evidence" ELSE f[i]]

\* One call for the whole report.  Of the items of its reply f are objects, and
\* others may be none: these are dropped.  What the model says is made to fit,
\* and its own rating is kept, except for Azure, where findings and rating come
\* from the orchestrator and are taken as they are.
SinglePass(f, others, risk) ==
    /\ stage = "single"
    /\ order.kind = "azure" => Accepted(f) /\ ~others
    /\ failed' = (~Accepted(f) \/ others)
    /\ Reported([Report(Normal(f), risk) EXCEPT !.lost = (others /\ f # <<>>)])
    /\ UNCHANGED <<order, indexed, registered, restarted, fieldVars, todo, total, findings, clientVars>>

SinglePassUnreadable ==
    /\ stage = "single"
    /\ failed' = TRUE
    /\ IF order.validation = "hard" THEN JobFails
       ELSE IF order.kind = "azure" THEN Reported(BlankReport) ELSE Reported(Fallback)
    /\ UNCHANGED <<order, indexed, registered, restarted, fieldVars, todo, total, findings, clientVars>>

\* Collecting the controls or the evidence for one of them, or the one call,
\* raises.
GenerationRaises ==
    /\ stage \in {"collect", "single"} \/ (stage = "assess" /\ todo # <<>>)
    /\ JobFails
    /\ UNCHANGED <<order, indexed, registered, restarted, fieldVars, todo, total, findings, failed, clientVars>>

\* _update_report_job sets state, message and then result or error.
SetState ==
    /\ ~order.now /\ stage \in {"complete", "fail"}
    /\ state' = IF stage = "complete" THEN "completed" ELSE "failed"
    /\ stage' = IF stage = "complete" THEN "set result" ELSE "set error"
    /\ UNCHANGED <<order, indexed, registered, restarted, result, jobError, todo, total, findings, failed, report,
                   clientVars>>

SetRest ==
    /\ stage \in {"set result", "set error"}
    /\ result' = IF stage = "set result" THEN report ELSE result
    /\ jobError' = (stage = "set error")
    /\ stage' = "ended"
    /\ UNCHANGED <<order, indexed, registered, restarted, state, todo, total, findings, failed, report, clientVars>>

\* The process ends and with it the thread and every job.
RestartJobs ==
    /\ ~restarted
    /\ restarted' = TRUE /\ registered' = FALSE /\ stage' = "ended"
    /\ UNCHANGED <<order, indexed, fieldVars, todo, total, findings, failed, report, clientVars>>

(***************************************************************************)
(* The browser asks every 1.2 seconds until it is told that the job ended. *)
(***************************************************************************)
Poll ==
    /\ ~order.now /\ stage # "preflight" /\ browser = "asking" /\ reading = <<>>
    /\ IF registered THEN reading' = <<"state", "error", "result">>
       ELSE UNCHANGED reading              \* 404, which the loop takes for progress
    /\ UNCHANGED <<order, indexed, registered, restarted, workerVars, fieldVars, browser, shown>>

\* The reply is put together field by field; the result is only given when the
\* state, read again, is completed.
ReadField ==
    /\ reading # <<>>
    /\ reading' = Tail(reading)
    /\ shown' = CASE Head(reading) = "state" -> [shown EXCEPT !.state = state]
                  [] Head(reading) = "error" -> [shown EXCEPT !.error = jobError]
                  [] OTHER -> [shown EXCEPT !.result = IF state = "completed" THEN result ELSE NoReport]
    /\ browser' = IF Len(reading) = 1 /\ (shown.state \in {"completed", "failed"} \/ shown.error) THEN "done" ELSE browser
    /\ UNCHANGED <<order, indexed, registered, restarted, workerVars, fieldVars>>

Replies == {<<>>} \cup {<<s>> : s \in Statuses \cup {Unreadable}}

Worker ==
    \/ StartComplianceReport \/ StartAzureReport \/ StartAwsReport \/ RefuseReport
    \/ GenerateNow \/ AnswerNow \/ RunJob \/ \E scoped \in BOOLEAN : WrapAwsReport(scoped)
    \/ \E n \in 0..Len(ReportControls) : LET controls == SubSeq(ReportControls, 1, n)
                                        IN  CollectControls(controls) \/ CollectAzure(controls)
    \/ \E s \in Statuses \cup {Unreadable} : AssessControl(s)
    \/ AssessmentFails \/ ValidateFindings
    \/ \E f \in Replies, others \in BOOLEAN, risk \in {"low", "medium", "high"} : SinglePass(f, others, risk)
    \/ SinglePassUnreadable \/ GenerationRaises
    \/ SetState \/ SetRest

Browser == Poll \/ ReadField

ReportNext == Worker \/ Browser \/ RestartJobs

\* A thread that runs and a browser that is open go on: the calls of the job
\* have timeouts, and the loop of the browser has no other end.
ReportSpec == ReportInit /\ [][ReportNext]_jobVars /\ WF_jobVars(Worker) /\ WF_jobVars(Browser)

(***************************************************************************)
(* Properties.                                                             *)
(***************************************************************************)

\* The rating comes from the model, with its findings in one reply.
RatedByModel == (order.strategy = "single_pass" \/ (order.kind # "azure" /\ total = 0)) /\ report.valid

\* When an assessment, or reading it, failed, the report says somewhere that
\* evidence is missing, or is blank, and is not rated low: a failure does not look
\* like compliance, however findings are taken together.  Two things are the
\* model's word: the rating of a report made by one call, which stays low beside
\* findings that could not be read; and an item of that reply that is no finding
\* at all and is lost beside others.
FailureIsNoCompliance ==
    failed /\ report # NoReport =>
        /\ report.risk = "low" => RatedByModel
        /\ In(report.findings, {"insufficient_evidence"}) \/ report = BlankReport \/ report.lost

\* A report of one finding per control has as many findings as there are
\* controls, the ones the model failed on included, or is marked invalid.
EveryControlIsAssessed ==
    order.strategy = "per_control" /\ report # NoReport /\ report.valid /\ total > 0 => Len(report.findings) = total

\* Unless the application restarts, the browser that asked for a report gets an
\* answer or stops asking: the job ends whatever its calls do, and its end reaches the reader
\* however the reads of the fields fall between their writes.
BrowserIsAnswered == <>(browser \in {"done", "refused"} \/ restarted)
=============================================================================
