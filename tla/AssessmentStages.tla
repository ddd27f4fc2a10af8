-------------------------- MODULE AssessmentStages --------------------------
(***************************************************************************)
(* One assessment, from the intake of a request to the report: intake.py  *)
(* and queue.py, the orchestrator adapter of interfaces.py with its audit  *)
(* trail, the access checks of the provider servers, and the search-backed *)
(* agent of assessment_runtime.py.                                         *)
(*                                                                         *)
(* Whatever the adapter calls may raise, the audit sink too, and then the  *)
(* assessment is over; nothing is tried again here.                        *)
(***************************************************************************)
EXTENDS AzureExtract

CONSTANTS
    Requests,        \* [source, missing, kind, provider, scope, mode, requester, readable, each, review]
    AllControls,     \* [id, scope, sure]: what the search would find, best first
    NotYet

ASSUME StagesAssumption ==
    /\ \A r \in Requests : r.scope \in Seq(DOMAIN Estate.assigned)
    /\ AllControls \in Seq(Items(AllControls))

VARIABLES
    request, step,
    trail,           \* stages on record in the audit sink
    granted,         \* the access decision
    artifact,        \* what has been read: the content, or a placeholder for it
    sent,            \* what of it has left: "query" to search, "page" to the model
    controls,        \* the controls to assess, by their places in AllControls
    left,            \* those still to be assessed one by one
    statuses,        \* findings so far
    asked,           \* requests to the chat model
    gap,             \* the model failed on a control
    assessment,      \* the report that is returned
    outcome          \* "none", "refused", "denied", "raised", "returned"

agentVars == <<controls, left, statuses, asked, gap, assessment>>
stageVars == <<extractVars, request, step, trail, granted, artifact, sent, agentVars, outcome>>

StageInitWith(requests) ==
    /\ request \in requests /\ step = "intake" /\ trail = <<>> /\ granted = NotYet
    /\ artifact = NotYet /\ sent = {} /\ controls = {} /\ left = {} /\ statuses = <<>>
    /\ asked = 0 /\ gap = FALSE /\ assessment = NotYet /\ outcome = "none"
    /\ ExtractInitWith(request.scope)

StageInit == StageInitWith(Requests)

Stop(how) == step' = "ended" /\ outcome' = how
Goto(s) == step' = s /\ UNCHANGED outcome
Record(stage) == trail' = Append(trail, stage)

(***************************************************************************)
(* Intake.                                                                 *)
(***************************************************************************)
MessageTypes == {"assessment_requested", "assessment_retry_requested"}

\* A notification by mail makes up the id of its target; an event must have it.
Malformed(r) ==
    \/ r.missing = "url"
    \/ r.missing = "id" /\ r.source = "event"
    \/ r.source = "queue" /\ (r.missing = "id" \/ r.kind \notin MessageTypes)

TakeRequest ==
    /\ step = "intake"
    /\ IF Malformed(request) THEN Stop("refused")
       ELSE IF request.source = "queue" THEN Goto("receive") ELSE Goto("resolve")
    /\ UNCHANGED <<extractVars, request, trail, granted, artifact, sent, agentVars>>

ReceiveMessage ==
    /\ step = "receive" /\ Goto("resolve")
    /\ Record("queue_message_received")
    /\ UNCHANGED <<extractVars, request, granted, artifact, sent, agentVars>>

(***************************************************************************)
(* collect_grounding.                                                      *)
(***************************************************************************)
Resolve ==
    /\ step = "resolve" /\ Goto("check")
    /\ Record("resolved_target")
    /\ UNCHANGED <<extractVars, request, granted, artifact, sent, agentVars>>

\* A page whose address has its id is looked up, and its space, and what fails
\* raises; a file that cannot be looked up goes by its address; a scope of Azure is
\* only read from it.
ResolvePage == request.provider = "confluence" /\ Resolve
ResolveFile == request.provider = "sharepoint" /\ Resolve
ResolveScope == request.provider = "azure" /\ Resolve

\* The adapter names the requester under other keys than the page servers look
\* for; the Azure server grants whoever asks, and without a delegated request
\* nobody is asked.
Context == [requester_id |-> request.requester, requester_email |-> request.requester]
Principal == {k \in DOMAIN Context : k \in {"principal_id", "email"} /\ Context[k] # ""}
Grants ==
    \/ request.mode = "app_only"
    \/ request.provider = "azure"
    \/ Principal # {} /\ request.readable

CheckAccess ==
    /\ step = "check" /\ Goto("decide")
    /\ granted' = Grants
    /\ UNCHANGED <<extractVars, request, trail, artifact, sent, agentVars>>

\* Bug: a refusal is raised before it is recorded.
RaiseFirst ==
    /\ step = "decide"
    /\ IF granted THEN Record("granted") /\ Goto("content") ELSE UNCHANGED trail /\ Stop("denied")
    /\ UNCHANGED <<extractVars, request, granted, artifact, sent, agentVars>>

\* Granted or not, the decision is recorded as access_validated.
DecideAccess ==
    /\ step = "decide"
    /\ Record(IF granted THEN "granted" ELSE "denied")
    /\ IF granted THEN Goto("content") ELSE Stop("denied")
    /\ UNCHANGED <<extractVars, request, granted, artifact, sent, agentVars>>

Read(what) ==
    /\ step = "content" /\ Goto("record content")
    /\ artifact' = what
    /\ UNCHANGED <<extractVars, request, trail, granted, sent, agentVars>>

\* A page with its comments; persons who cannot be looked up are left out.
ReadPage == request.provider = "confluence" /\ request.readable /\ Read("content")

\* A file whose content cannot be had is represented by a sentence that says
\* so, and comments that cannot be had are left out.
ReadFile ==
    /\ request.provider = "sharepoint" /\ request.readable
    /\ \E what \in {"content", "placeholder"} : Read(what)

Extract ==
    /\ request.provider = "azure" /\ step = "content" /\ ExtractNext
    /\ UNCHANGED <<request, step, trail, granted, artifact, sent, agentVars, outcome>>

ReadResources == request.provider = "azure" /\ extracting = "extracted" /\ Read("content")

RecordContent ==
    /\ step = "record content" /\ Goto("controls")
    /\ Record("content_retrieved")
    /\ UNCHANGED <<extractVars, request, granted, artifact, sent, agentVars>>

(***************************************************************************)
(* retrieve_corpus_grounding.                                              *)
(***************************************************************************)
\* A search that fails finds nothing.  Of an Azure configuration only the
\* controls stay that are not surely about process or governance.
Applicable(c) == c.scope \in {"process", "governance"} => ~c.sure
FindControls ==
    /\ step = "controls" /\ Goto("review")
    /\ \E n \in 0..Len(AllControls) :
           controls' = {i \in 1..n : request.provider = "azure" => Applicable(AllControls[i])}
    /\ sent' = sent \cup {"query"}
    /\ UNCHANGED <<extractVars, request, trail, granted, artifact, left, statuses, asked, gap, assessment>>

\* The review of unsure controls asks the model once or twice for each and
\* notes what it says; its failures are passed over.
Unsure == Cardinality({i \in controls : ~AllControls[i].sure})
ReviewRequests == Unsure..2 * Unsure
ReviewControls ==
    /\ step = "review" /\ Goto("guidance")
    /\ IF request.review THEN \E n \in ReviewRequests : asked' = asked + n ELSE UNCHANGED asked
    /\ UNCHANGED <<extractVars, request, trail, granted, artifact, sent, controls, left, statuses, gap, assessment>>

\* The question is made a vector, which may raise, and searched, which may not.
FindGuidance ==
    /\ step = "guidance" /\ Goto("record corpus")
    /\ UNCHANGED <<extractVars, request, trail, granted, artifact, sent, agentVars>>

RecordCorpus ==
    /\ step = "record corpus" /\ Goto(IF request.each THEN "each" ELSE "whole")
    /\ Record("corpus_retrieved")
    /\ left' = controls
    /\ UNCHANGED <<extractVars, request, granted, artifact, sent, controls, statuses, asked, gap, assessment>>

(***************************************************************************)
(* generate_assessment: one report for everything, read and validated.     *)
(***************************************************************************)
Verdicts == {"compliant", "partially_compliant", "non_compliant", "not_applicable", "insufficient_evidence"}
Others == {"made up", "critical"}
Ask == asked' = asked + 1 /\ sent' = sent \cup {"page"}
Whole == step \in {"whole", "again"} /\ UNCHANGED <<extractVars, request, trail, granted, artifact, controls, left, gap>>

ReadableReply ==
    /\ Whole /\ Ask
    /\ \E v \in Verdicts, rating \in {"low", "medium", "high"} :
           statuses' = <<v>> /\ assessment' = [rating |-> rating, missing |-> {}]
    /\ Goto("record assessment")

\* JSON that is not a report; the adapter never asks for the fallback report.
InvalidReply ==
    /\ Whole /\ Ask
    /\ Stop("raised")
    /\ UNCHANGED <<statuses, assessment>>

\* What is not JSON is asked for again, once.
UnreadableReply ==
    /\ Whole /\ Ask
    /\ IF step = "whole" THEN Goto("again") ELSE Stop("raised")
    /\ UNCHANGED <<statuses, assessment>>

(***************************************************************************)
(* generate_per_control_assessment.                                        *)
(***************************************************************************)
NextControl == step = "each" /\ left # {} /\ left' = left \ {NextOf(left)} /\ Ask /\ Goto("each")

\* The status is taken as the model gives it.
AssessOne ==
    /\ NextControl
    /\ \E v \in Verdicts \cup Others : statuses' = Append(statuses, v)
    /\ UNCHANGED <<extractVars, request, trail, granted, artifact, controls, gap, assessment>>

\* Bug: the control is passed over.
PassControl ==
    /\ NextControl
    /\ gap' = TRUE
    /\ UNCHANGED <<extractVars, request, trail, granted, artifact, controls, statuses, assessment>>

\* The model cannot be asked, or not be understood.
AssessOneFails ==
    /\ NextControl
    /\ gap' = TRUE
    /\ statuses' = Append(statuses, "insufficient_evidence")
    /\ UNCHANGED <<extractVars, request, trail, granted, artifact, controls, assessment>>

Given(verdicts) == \E i \in DOMAIN statuses : statuses[i] \in verdicts

SumUp ==
    /\ step = "each" /\ left = {} /\ Goto("record assessment")
    /\ assessment' = [rating  |-> IF Given({"non_compliant", "critical"}) THEN "high"
                                  ELSE IF Given({"partially_compliant", "insufficient_evidence"}) THEN "medium" ELSE "low",
                      missing |-> {i \in DOMAIN statuses : statuses[i] \in {"partially_compliant", "insufficient_evidence"}}]
    /\ UNCHANGED <<extractVars, request, trail, granted, artifact, sent, controls, left, statuses, asked, gap>>

RecordAssessment ==
    /\ step = "record assessment" /\ Stop("returned")
    /\ Record("assessment_generated")
    /\ UNCHANGED <<extractVars, request, granted, artifact, sent, agentVars>>

\* Any call of the adapter or the agent raises, unless it is caught above.
CallRaises ==
    /\ step \notin {"intake", "review", "each", "ended"}
    /\ Stop("raised")
    /\ UNCHANGED <<extractVars, request, trail, granted, artifact, sent, agentVars>>

StageNext ==
    \/ TakeRequest \/ ReceiveMessage \/ ResolvePage \/ ResolveFile \/ ResolveScope \/ CheckAccess \/ DecideAccess
    \/ ReadPage \/ ReadFile \/ Extract \/ ReadResources \/ RecordContent
    \/ FindControls \/ ReviewControls \/ FindGuidance \/ RecordCorpus
    \/ ReadableReply \/ InvalidReply \/ UnreadableReply \/ AssessOne \/ AssessOneFails \/ SumUp \/ RecordAssessment
    \/ CallRaises

StageSpec == StageInit /\ [][StageNext]_stageVars

(***************************************************************************)
(* Properties.                                                             *)
(***************************************************************************)
Recorded(stage) == \E i \in DOMAIN trail : trail[i] = stage
Recording(stages) == trail = (IF request.source = "queue" THEN <<"queue_message_received">> \o stages ELSE stages)

\* Whatever raises on the way, the audit trail accounts for what was done with
\* the page: it is read only after a recorded grant, nothing of it reaches a
\* search or a model before the reading is on record, a refusal is on record
\* and the last thing there, and a report that is returned has all stages
\* behind it in their order, the receipt of a queued request first.
TrailAccountsForContent ==
    /\ artifact # NotYet \/ resources # <<>> => Recorded("granted")
    /\ sent # {} => Recorded("content_retrieved")
    /\ outcome = "denied" => Recording(<<"resolved_target", "denied">>) /\ artifact = NotYet
    /\ outcome = "returned" =>
           Recording(<<"resolved_target", "granted", "content_retrieved", "corpus_retrieved", "assessment_generated">>)

\* No report hides that the model failed: made control by control it has a
\* finding for each of the controls, is not rated low when one failed, and
\* names evidence as missing for it; made as a whole it has findings.  (A status
\* that the model makes up counts as low, and so does finding no controls.)  And
\* unless an answer was no list, one about Azure resources rests on the first
\* resources up to the limit, which nothing tells of, and on all assignments of
\* its paths and their policies.
NoReportHidesFailure ==
    outcome = "returned" =>
        /\ request.provider = "azure" => extracting = "extracted" /\ ExtractIsWhole
        /\ IF request.each THEN /\ Len(statuses) = Cardinality(controls)
                                /\ gap => assessment.rating # "low" /\ assessment.missing # {}
           ELSE statuses # <<>>
=============================================================================
