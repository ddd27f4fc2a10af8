----------------------------- MODULE PollCycle -----------------------------
(***************************************************************************)
(* The Confluence polling worker: run_forever, run_poll_cycle and          *)
(* _process_assessment_event of                                            *)
(* runtime/assessment_orchestration/polling_worker.py, composed with the   *)
(* state store and the Confluence site.                                    *)
(*                                                                         *)
(* A runner is one poller process.  Every call it makes on the store or on *)
(* Confluence is a step of its own, so a crash, a raised exception, a user *)
(* or another runner can come between any two of them.  A label of pc      *)
(* names the call the runner makes next.                                   *)
(***************************************************************************)
EXTENDS PollingStateStore, ConfluenceSite

CONSTANTS
  DryRun,    \* config.dry_run
  NoEvent    \* "no event in hand"

ASSUME CycleAssumption ==
  /\ DryRun \in BOOLEAN
  /\ NoEvent \notin [id : Event, at : Nat]
  /\ AtomicLease => \A r, s \in Runner : r = s

VARIABLES
  pc,       \* the call each runner makes next
  batch,    \* mentions fetched by the cycle and not yet looked at
  cur,      \* the mention in hand
  ver,      \* page version read for it
  text,     \* page version the assessment in hand was made from
  fw,       \* position in its list of frameworks
  part,     \* next part of the assessment to post
  raised,   \* an exception is leaving the cycle
  age,      \* time since the runner took its lease
  lockRead, \* history: runners that have read the lock document as it still is
  raced     \* history: a runner wrote or deleted it without having done so

runVars == <<pc, batch, cur, ver, text, fw, part, raised, age>>
raceVars == <<lockRead, raced>>
vars == <<storeVars, siteVars, runVars, raceVars>>

\* Calls made inside the try around handler(event), mark_processed_event and
\* commit_state: an exception there is a failed attempt at the event.
AttemptLabels == {"content", "clarifyRow", "clarifyPost", "compare", "noChangeRow",
                  "noChangePost", "assess", "snapshot", "row", "post", "mark", "commit"}

\* Calls made by the cycle itself: an exception there ends the cycle.
CycleLabels == {"fetch", "next", "skip", "failure", "terminal", "quarantine"}

Label == {"idle", "acquire", "summary", "release", "delete", "down"} \cup AttemptLabels \cup CycleLabels

\* A cycle is under way from the moment the lease is taken until it is released.
InCycle(r) == pc[r] \notin {"idle", "acquire", "down"}

RunnerTypeOK ==
  /\ pc \in [Runner -> Label]
  /\ batch \in [Runner -> SUBSET [id : Event, at : Nat \ {0}]]
  /\ cur \in [Runner -> [id : Event, at : Nat \ {0}] \cup {NoEvent}]
  /\ ver \in [Runner -> 0 .. MaxVersion]
  /\ text \in [Runner -> 0 .. MaxVersion]
  /\ fw \in [Runner -> Nat]
  /\ part \in [Runner -> 0 .. Parts]
  /\ raised \in [Runner -> BOOLEAN]
  /\ age \in [Runner -> 0 .. LeaseTTL]
  /\ lockRead \in SUBSET Runner
  /\ raced \in BOOLEAN

TypeOK == StoreTypeOK /\ SiteTypeOK /\ RunnerTypeOK

Init ==
  /\ StoreInit
  /\ SiteInit
  /\ pc = [r \in Runner |-> "idle"]
  /\ batch = [r \in Runner |-> {}]
  /\ cur = [r \in Runner |-> NoEvent]
  /\ ver = [r \in Runner |-> 0]
  /\ text = [r \in Runner |-> 0]
  /\ fw = [r \in Runner |-> 0]
  /\ part = [r \in Runner |-> 0]
  /\ raised = [r \in Runner |-> FALSE]
  /\ age = [r \in Runner |-> 0]
  /\ lockRead = {}
  /\ raced = FALSE

Goto(r, label) == pc' = [pc EXCEPT ![r] = label]

\* The mention in hand, its page and the framework being assessed.
E(r) == cur[r].id
P(r) == PageOf[E(r)]
F(r) == Requested[E(r)][fw[r]]

\* The step makes no change outside the runner.
NothingOutside ==
  UNCHANGED <<watermark, lease, processed, failures, snapshot, pageRow, siteVars, raceVars>>

\* The step leaves what the runner holds but its place in the program.
KeepHand == UNCHANGED <<batch, cur, ver, text, fw, part, raised, age>>

-----------------------------------------------------------------------------
(* Taking the lease.  A refused tick changes nothing and is not a step.    *)

\* What the history variables keep of a run's read and of its write.
LockIsRead(r, lost) ==
  /\ lockRead' = IF lost THEN lockRead \ {r} ELSE lockRead \cup {r}
  /\ UNCHANGED raced

LockIsWritten(r) ==
  /\ raced' = (raced \/ r \notin lockRead)
  /\ lockRead' = {}

AcquireLease(r) ==
  /\ AtomicLease
  /\ pc[r] = "idle"
  /\ LeaseIsFree(FALSE)
  /\ TakeLease(r)
  /\ age' = [age EXCEPT ![r] = 0]
  /\ Goto(r, "fetch")
  /\ UNCHANGED <<batch, cur, ver, text, fw, part, raised>>
  /\ UNCHANGED <<watermark, processed, failures, snapshot, pageRow, faults, siteVars, raceVars>>

ReadLease(r) ==
  /\ ~AtomicLease
  /\ pc[r] = "idle"
  /\ \E lost \in BOOLEAN : ReadAnswers(lost) /\ LeaseIsFree(lost) /\ LockIsRead(r, lost)
  /\ Goto(r, "acquire")
  /\ KeepHand
  /\ UNCHANGED <<watermark, lease, processed, failures, snapshot, pageRow, siteVars>>

WriteLease(r) ==
  /\ pc[r] = "acquire"
  /\ TakeLease(r)
  /\ LockIsWritten(r)
  /\ age' = [age EXCEPT ![r] = 0]
  /\ Goto(r, "fetch")
  /\ UNCHANGED <<batch, cur, ver, text, fw, part, raised>>
  /\ UNCHANGED <<watermark, processed, failures, snapshot, pageRow, faults, siteVars>>

-----------------------------------------------------------------------------
(* The cycle: load the watermark, fetch, and take the mentions in order.   *)

\* load_state and the search are one step: nothing is written between them.
\* The search begins at the watermark or, without one, an initial lookback
\* before now, which moves with the clock from cycle to cycle.
Fetch(r) ==
  /\ pc[r] = "fetch"
  /\ \E lost \in BOOLEAN, o \in Openings :
       LET mark == LoadWatermark(lost)
       IN  /\ ReadAnswers(lost)
           /\ IF mark # 0 THEN o = opening ELSE o >= opening
           /\ opening' = o
           /\ \E B \in SearchResults(IF mark # 0 THEN mark ELSE o) :
                batch' = [batch EXCEPT ![r] = {Mention(e) : e \in B}]
  /\ Goto(r, "next")
  /\ UNCHANGED <<cur, ver, text, fw, part, raised, age>>
  /\ UNCHANGED <<watermark, lease, processed, failures, snapshot, pageRow, raceVars>>
  /\ UNCHANGED <<visible, occurredAt, pageVersion, comments, reposted>>

\* The next mention by (occurred_at, title, event_id); a processed one is skipped.
TakeNext(r) ==
  /\ pc[r] = "next"
  /\ \E m \in batch[r], lost \in BOOLEAN :
       /\ \A n \in batch[r] \ {m} : SortsBefore(m, n)
       /\ ReadAnswers(lost)
       /\ batch' = [batch EXCEPT ![r] = @ \ {m}]
       /\ cur' = [cur EXCEPT ![r] = m]
       /\ Goto(r, IF IsEventProcessed(m.id, lost) THEN "skip" ELSE "content")
  /\ UNCHANGED <<ver, text, fw, part, raised, age>>
  /\ NothingOutside

SkipProcessed(r) ==
  /\ pc[r] = "skip"
  /\ CommitState(cur[r].at)
  /\ Goto(r, "next")
  /\ KeepHand
  /\ UNCHANGED <<lease, processed, failures, snapshot, pageRow, faults, siteVars, raceVars>>

EndOfBatch(r) ==
  /\ pc[r] = "next"
  /\ batch[r] = {}
  /\ Goto(r, "summary")
  /\ KeepHand
  /\ NothingOutside
  /\ UNCHANGED faults

-----------------------------------------------------------------------------
(* One attempt at a mention.                                               *)

\* The page is read for its version and hash; without a framework the requester is asked for one,
\* and a dry run does nothing more.
ReadContent(r) ==
  /\ pc[r] = "content"
  /\ E(r) \notin Poison
  /\ ver' = [ver EXCEPT ![r] = pageVersion[P(r)]]
  /\ fw' = [fw EXCEPT ![r] = 1]
  /\ Goto(r, IF Requested[E(r)] # << >> THEN "compare"
             ELSE IF DryRun THEN "mark" ELSE "clarifyRow")
  /\ UNCHANGED <<batch, cur, text, part, raised, age>>
  /\ NothingOutside
  /\ UNCHANGED faults

ClarifyRow(r) ==
  /\ pc[r] = "clarifyRow"
  /\ UpsertPageAssessment(P(r), AnyFramework, "clarification_required")
  /\ Goto(r, "clarifyPost")
  /\ KeepHand
  /\ UNCHANGED <<watermark, lease, processed, failures, snapshot, faults, siteVars, raceVars>>

PostClarification(r) ==
  /\ pc[r] = "clarifyPost"
  /\ PostComment(ClarificationComment(E(r)))
  /\ Goto(r, "mark")
  /\ KeepHand
  /\ UNCHANGED <<storeVars, visible, occurredAt, pageVersion, opening, raceVars>>

\* Bug: the loop stops one framework early.
NextFrameworkTooFew(r) ==
  /\ fw' = [fw EXCEPT ![r] = @ + 1]
  /\ Goto(r, IF fw[r] + 1 < Len(Requested[E(r)]) THEN "compare" ELSE "mark")
  /\ part' = [part EXCEPT ![r] = 0]
  /\ UNCHANGED <<batch, cur, ver, text, raised, age>>

\* The next turn of "for framework_scope in framework_scopes", or its end.
NextFramework(r) ==
  /\ fw' = [fw EXCEPT ![r] = @ + 1]
  /\ Goto(r, IF fw[r] < Len(Requested[E(r)]) THEN "compare" ELSE "mark")
  /\ part' = [part EXCEPT ![r] = 0]
  /\ UNCHANGED <<batch, cur, ver, text, raised, age>>

\* Bug: an unchanged page gets no answer at all.
CompareSilently(r) ==
  /\ pc[r] = "compare"
  /\ \E lost \in BOOLEAN :
       /\ ReadAnswers(lost)
       /\ IF LastSnapshot(P(r), F(r), lost) = ver[r]
          THEN NextFramework(r)
          ELSE Goto(r, "assess") /\ KeepHand
  /\ NothingOutside

Compare(r) ==
  /\ pc[r] = "compare"
  /\ \E lost \in BOOLEAN :
       /\ ReadAnswers(lost)
       /\ LET unchanged == LastSnapshot(P(r), F(r), lost) = ver[r]
          IN  IF unchanged /\ DryRun
              THEN NextFramework(r)
              ELSE /\ Goto(r, IF unchanged THEN "noChangeRow" ELSE "assess")
                   /\ KeepHand
  /\ NothingOutside

NoChangeRow(r) ==
  /\ pc[r] = "noChangeRow"
  /\ UpsertPageAssessment(P(r), F(r), "no_change")
  /\ Goto(r, "noChangePost")
  /\ KeepHand
  /\ UNCHANGED <<watermark, lease, processed, failures, snapshot, faults, siteVars, raceVars>>

PostNoChange(r) ==
  /\ pc[r] = "noChangePost"
  /\ PostComment(NoChangeComment(E(r), F(r), ver[r]))
  /\ NextFramework(r)
  /\ UNCHANGED <<storeVars, visible, occurredAt, pageVersion, opening, raceVars>>

\* The assessment is made from the page as collect_grounding reads it again,
\* and stamped with the version read first.
Assess(r) ==
  /\ pc[r] = "assess"
  /\ IF DryRun
     THEN NextFramework(r)
     ELSE /\ text' = [text EXCEPT ![r] = pageVersion[P(r)]]
          /\ Goto(r, "snapshot")
          /\ UNCHANGED <<batch, cur, ver, fw, part, raised, age>>
  /\ NothingOutside
  /\ UNCHANGED faults

SaveSnapshot(r) ==
  /\ pc[r] = "snapshot"
  /\ UpsertSnapshot(P(r), F(r), ver[r])
  /\ Goto(r, "row")
  /\ KeepHand
  /\ UNCHANGED <<watermark, lease, processed, failures, pageRow, faults, siteVars, raceVars>>

SaveRow(r) ==
  /\ pc[r] = "row"
  /\ UpsertPageAssessment(P(r), F(r), "assessed")
  /\ Goto(r, "post")
  /\ part' = [part EXCEPT ![r] = 1]
  /\ UNCHANGED <<batch, cur, ver, text, fw, raised, age>>
  /\ UNCHANGED <<watermark, lease, processed, failures, snapshot, faults, siteVars, raceVars>>

\* Bug: the part counter runs past the last part.
PostPartTooMany(r) ==
  /\ pc[r] = "post"
  /\ PostComment(AssessmentComment(E(r), F(r), ver[r], text[r], part[r]))
  /\ IF part[r] <= Parts
     THEN /\ part' = [part EXCEPT ![r] = @ + 1]
          /\ UNCHANGED <<pc, batch, cur, ver, text, fw, raised, age>>
     ELSE NextFramework(r)
  /\ UNCHANGED <<storeVars, visible, occurredAt, pageVersion, opening, raceVars>>

PostPart(r) ==
  /\ pc[r] = "post"
  /\ PostComment(AssessmentComment(E(r), F(r), ver[r], text[r], part[r]))
  /\ IF part[r] < Parts
     THEN /\ part' = [part EXCEPT ![r] = @ + 1]
          /\ UNCHANGED <<pc, batch, cur, ver, text, fw, raised, age>>
     ELSE NextFramework(r)
  /\ UNCHANGED <<storeVars, visible, occurredAt, pageVersion, opening, raceVars>>

MarkProcessed(r) ==
  /\ pc[r] = "mark"
  /\ MarkProcessedEvent(E(r))
  /\ Goto(r, "commit")
  /\ KeepHand
  /\ UNCHANGED <<watermark, lease, failures, snapshot, pageRow, faults, siteVars, raceVars>>

CommitProcessed(r) ==
  /\ pc[r] = "commit"
  /\ CommitState(cur[r].at)
  /\ Goto(r, "next")
  /\ KeepHand
  /\ UNCHANGED <<lease, processed, failures, snapshot, pageRow, faults, siteVars, raceVars>>

-----------------------------------------------------------------------------
(* A failed attempt: count it, then quarantine the mention or end the loop. *)

\* Bug: the last permitted attempt does not count as the last.
AfterOneTooMany(attempts) == IF attempts > MaxAttempts THEN "terminal" ELSE "summary"

\* Bug: a retryable failure does not stop the loop.
AfterContinuing(attempts) == IF attempts >= MaxAttempts THEN "terminal" ELSE "next"

\* Out of attempts: quarantine.  Otherwise "break": the rest of the batch waits.
AfterFailure(attempts) == IF attempts >= MaxAttempts THEN "terminal" ELSE "summary"

CountFailure(r) ==
  /\ pc[r] = "failure"
  /\ \E lost \in BOOLEAN :
       /\ ReadAnswers(lost)
       /\ IncrementFailureCount(E(r), lost)
       /\ Goto(r, AfterFailure(Attempts(E(r), lost)))
  /\ KeepHand
  /\ UNCHANGED <<watermark, lease, processed, snapshot, pageRow, siteVars, raceVars>>

MarkTerminal(r) ==
  /\ pc[r] = "terminal"
  /\ \E lost \in BOOLEAN : ReadAnswers(lost) /\ MarkTerminalFailure(E(r), lost)
  /\ Goto(r, "quarantine")
  /\ KeepHand
  /\ UNCHANGED <<watermark, lease, processed, snapshot, pageRow, siteVars, raceVars>>

CommitQuarantined(r) ==
  /\ pc[r] = "quarantine"
  /\ CommitState(cur[r].at)
  /\ Goto(r, "next")
  /\ KeepHand
  /\ UNCHANGED <<lease, processed, failures, snapshot, pageRow, faults, siteVars, raceVars>>

-----------------------------------------------------------------------------
(* The finally block, and what goes wrong.                                 *)

SaveSummary(r) ==
  /\ pc[r] = "summary"
  /\ Goto(r, "release")
  /\ KeepHand
  /\ NothingOutside
  /\ UNCHANGED faults

\* What the runner held is gone with the cycle.
DropHand(r) ==
  /\ batch' = [batch EXCEPT ![r] = {}]
  /\ cur' = [cur EXCEPT ![r] = NoEvent]
  /\ ver' = [ver EXCEPT ![r] = 0]
  /\ text' = [text EXCEPT ![r] = 0]
  /\ fw' = [fw EXCEPT ![r] = 0]
  /\ part' = [part EXCEPT ![r] = 0]
  /\ raised' = [raised EXCEPT ![r] = FALSE]
  /\ age' = [age EXCEPT ![r] = 0]

\* run_forever catches nothing: a raised cycle ends the process.
EndCycle(r) ==
  /\ Goto(r, IF raised[r] THEN "down" ELSE "idle")
  /\ DropHand(r)

Release(r) ==
  /\ AtomicLease
  /\ pc[r] = "release"
  /\ \E lost \in BOOLEAN : ReadAnswers(lost) /\ ReleaseLease(r, lost)
  /\ EndCycle(r)
  /\ UNCHANGED <<watermark, processed, failures, snapshot, pageRow, siteVars, raceVars>>

ReadOwner(r) ==
  /\ ~AtomicLease
  /\ pc[r] = "release"
  /\ \E lost \in BOOLEAN :
       /\ ReadAnswers(lost)
       /\ LockIsRead(r, lost)
       /\ IF LeaseIsMine(r, lost) THEN Goto(r, "delete") /\ KeepHand ELSE EndCycle(r)
  /\ UNCHANGED <<watermark, lease, processed, failures, snapshot, pageRow, siteVars>>

\* The lock document is deleted whoever owns it by now; a deletion that fails
\* is swallowed where a failed read is.
DeleteLock(r) ==
  /\ pc[r] = "delete"
  /\ \/ DeleteLease /\ LockIsWritten(r) /\ UNCHANGED faults
     \/ SwallowReads /\ SpendFault /\ UNCHANGED <<lease, raceVars>>
  /\ EndCycle(r)
  /\ UNCHANGED <<watermark, processed, failures, snapshot, pageRow, siteVars>>

\* An attempt at a poison mention raises, whatever the weather.
PoisonRaises(r) ==
  /\ pc[r] = "content"
  /\ E(r) \in Poison
  /\ Goto(r, "failure")
  /\ KeepHand
  /\ NothingOutside
  /\ UNCHANGED faults

\* A store, Confluence or adapter call raises (a post Confluence rejects too).
AttemptRaises(r) ==
  /\ pc[r] \in AttemptLabels
  /\ SpendFault
  /\ Goto(r, "failure")
  /\ KeepHand
  /\ NothingOutside

CycleRaises(r) ==
  /\ pc[r] \in CycleLabels
  /\ pc[r] = "next" => batch[r] # {}
  /\ SpendFault
  /\ raised' = [raised EXCEPT ![r] = TRUE]
  /\ Goto(r, "summary")
  /\ UNCHANGED <<batch, cur, ver, text, fw, part, age>>
  /\ NothingOutside

\* The process dies: killed, or by an exception out of the finally block.
Crash(r) ==
  /\ pc[r] # "down"
  /\ SpendFault
  /\ Goto(r, "down")
  /\ DropHand(r)
  /\ NothingOutside

Restart(r) ==
  /\ pc[r] = "down"
  /\ Goto(r, "idle")
  /\ KeepHand
  /\ NothingOutside
  /\ UNCHANGED faults

-----------------------------------------------------------------------------
(* Time and users.                                                         *)

Tick ==
  /\ lease.left > 0 \/ \E r \in Runner : InCycle(r) /\ age[r] < LeaseTTL
  /\ LeaseAges
  /\ age' = [r \in Runner |-> IF InCycle(r) /\ age[r] < LeaseTTL THEN age[r] + 1 ELSE age[r]]
  /\ UNCHANGED <<watermark, processed, failures, snapshot, pageRow, faults, siteVars, raceVars>>
  /\ UNCHANGED <<pc, batch, cur, ver, text, fw, part, raised>>

MarkerExpires(e) ==
  /\ MarkersExpire
  /\ ExpireMarker(e)
  /\ UNCHANGED <<watermark, lease, failures, snapshot, pageRow, faults, siteVars, runVars, raceVars>>

Users ==
  /\ \/ \E e \in Event : Publish(e) \/ EditMention(e)
     \/ \E p \in Page : EditPage(p)
  /\ UNCHANGED <<storeVars, runVars, raceVars>>

Cycle(r) ==
  \/ AcquireLease(r) \/ ReadLease(r) \/ WriteLease(r)
  \/ Fetch(r) \/ TakeNext(r) \/ SkipProcessed(r) \/ EndOfBatch(r)
  \/ ReadContent(r) \/ ClarifyRow(r) \/ PostClarification(r)
  \/ Compare(r) \/ NoChangeRow(r) \/ PostNoChange(r)
  \/ Assess(r) \/ SaveSnapshot(r) \/ SaveRow(r) \/ PostPart(r)
  \/ MarkProcessed(r) \/ CommitProcessed(r)
  \/ PoisonRaises(r) \/ CountFailure(r) \/ MarkTerminal(r) \/ CommitQuarantined(r)
  \/ SaveSummary(r) \/ Release(r) \/ ReadOwner(r) \/ DeleteLock(r)

Fault(r) == AttemptRaises(r) \/ CycleRaises(r) \/ Crash(r)

Next ==
  \/ \E r \in Runner : Cycle(r) \/ Fault(r) \/ Restart(r)
  \/ Tick
  \/ \E e \in Event : MarkerExpires(e)
  \/ Users

Spec == Init /\ [][Next]_vars

\* A running process keeps going, the platform restarts one that exited, and
\* time passes.  Users and faults owe nothing.
Fairness ==
  /\ \A r \in Runner : WF_vars(Cycle(r)) /\ WF_vars(Restart(r))
  /\ WF_vars(Tick)

FairSpec == Spec /\ Fairness
=============================================================================
