-------------------------- MODULE PollCycleProofs --------------------------
(***************************************************************************)
(* Theorems about the polling worker, for any number of mentions, pages,   *)
(* frameworks, processes, comment parts and faults.                        *)
(***************************************************************************)
EXTENDS PollCycleProperties, TLAPS

\* Where the runner holds a mention.
Holding == AttemptLabels \cup {"skip", "failure", "terminal", "quarantine"}

\* Where it is at one of the frameworks of that mention.
Assessing == {"compare", "noChangeRow", "noChangePost", "assess", "snapshot", "row", "post"}

MentionInHand == [id : Event, at : Nat \ {0}]

\* What the program counter says of the rest of the runner's variables.
HandOK(r) ==
  /\ pc[r] \in Holding => cur[r] \in MentionInHand
  /\ pc[r] \in Assessing => /\ fw[r] \in 1 .. Len(Requested[E(r)])
                            /\ ver[r] \in 1 .. MaxVersion
  /\ pc[r] \in {"clarifyRow", "clarifyPost"} => Requested[E(r)] = << >>
  /\ pc[r] \in {"snapshot", "row", "post"} => text[r] \in 1 .. MaxVersion
  /\ pc[r] = "post" => part[r] \in 1 .. Parts

TypeInv == TypeOK /\ \A r \in Runner : HandOK(r)

\* The steps that give the lease back.
Ending(r) == Release(r) \/ ReadOwner(r) \/ DeleteLock(r)

USE StoreAssumption, SiteAssumption, MentionAssumption, CycleAssumption

-----------------------------------------------------------------------------
(* Facts about the operators of the store and of the site.                 *)

LEMMA RequestedType ==
  ASSUME NEW e \in Event
  PROVE  /\ Requested[e] \in Seq(Framework)
         /\ Len(Requested[e]) \in Nat
         /\ \A i \in 1 .. Len(Requested[e]) : Requested[e][i] \in Framework
  OBVIOUS

LEMMA AttemptsType ==
  ASSUME StoreTypeOK, NEW e \in Event, NEW lost \in BOOLEAN
  PROVE  Attempts(e, lost) \in 1 .. MaxAttempts
  BY DEF Attempts, StoreTypeOK

LEMMA SpendFaultType ==
  ASSUME faults \in 0 .. MaxFaults, SpendFault
  PROVE  faults' \in 0 .. MaxFaults
  BY DEF SpendFault

LEMMA ReadAnswersType ==
  ASSUME faults \in 0 .. MaxFaults, NEW lost, ReadAnswers(lost)
  PROVE  faults' \in 0 .. MaxFaults
  BY SpendFaultType DEF ReadAnswers

LEMMA CommentTypes ==
  ASSUME NEW e \in Event, NEW f \in Framework, NEW v \in Nat, NEW w \in Nat, NEW i \in Nat
  PROVE  /\ AssessmentComment(e, f, v, w, i) \in Comment
         /\ NoChangeComment(e, f, v) \in Comment
  BY DEF AssessmentComment, NoChangeComment, Comment, Scope

LEMMA ClarificationType ==
  ASSUME NEW e \in Event
  PROVE  ClarificationComment(e) \in Comment
  BY DEF ClarificationComment, Comment, Scope

LEMMA PostCommentType ==
  ASSUME SiteTypeOK, NEW c \in Comment, PostComment(c)
  PROVE  comments' \in SUBSET Comment /\ reposted' \in SUBSET comments'
  BY DEF PostComment, SiteTypeOK

LEMMA TakeLeaseType ==
  ASSUME NEW r \in Runner, TakeLease(r)
  PROVE  lease' \in [owner : Runner \cup {NoOwner}, left : 0 .. LeaseTTL]
  <1>1. LeaseTTL \in 0 .. LeaseTTL
    OBVIOUS
  <1> QED
    BY <1>1 DEF TakeLease

LEMMA FailuresType ==
  ASSUME StoreTypeOK, NEW e \in Event, NEW lost \in BOOLEAN,
         IncrementFailureCount(e, lost) \/ MarkTerminalFailure(e, lost)
  PROVE  failures' \in [Event -> [count : 0 .. MaxAttempts, status : FailureStatus]]
  <1>1. failures[e].count \in 0 .. MaxAttempts /\ 0 \in 0 .. MaxAttempts
    BY DEF StoreTypeOK
  <1>2. CASE IncrementFailureCount(e, lost)
    <2>1. [count |-> Attempts(e, lost), status |-> "failed_retryable"]
            \in [count : 0 .. MaxAttempts, status : FailureStatus]
      BY AttemptsType DEF FailureStatus
    <2> QED
      BY <1>2, <2>1 DEF IncrementFailureCount, StoreTypeOK
  <1>3. CASE MarkTerminalFailure(e, lost)
    <2>1. [count |-> IF lost THEN 0 ELSE failures[e].count, status |-> "failed_terminal"]
            \in [count : 0 .. MaxAttempts, status : FailureStatus]
      BY <1>1 DEF FailureStatus
    <2> QED
      BY <1>3, <2>1 DEF MarkTerminalFailure, StoreTypeOK
  <1> QED
    BY <1>2, <1>3

\* A runner at one of these labels holds a mention of the site.
LEMMA HandType ==
  ASSUME TypeInv, NEW r \in Runner, pc[r] \in Holding
  PROVE  /\ cur[r] \in MentionInHand
         /\ E(r) \in Event
         /\ cur[r].at \in Nat \ {0}
         /\ P(r) \in Page
  BY DEF TypeInv, HandOK, MentionInHand, E, P

LEMMA FrameworkType ==
  ASSUME TypeInv, NEW r \in Runner, pc[r] \in Assessing
  PROVE  /\ pc[r] \in Holding
         /\ E(r) \in Event
         /\ P(r) \in Page
         /\ F(r) \in Framework
         /\ fw[r] \in 1 .. Len(Requested[E(r)])
         /\ ver[r] \in 1 .. MaxVersion
  <1>1. pc[r] \in Holding
    BY DEF Assessing, Holding, AttemptLabels
  <1> QED
    BY <1>1, HandType, RequestedType DEF TypeInv, HandOK, F

-----------------------------------------------------------------------------
LEMMA InitType == Init => TypeInv
  <1> SUFFICES ASSUME Init PROVE TypeInv
    OBVIOUS
  <1>1. StoreTypeOK
    <2>1. 0 \in 0 .. LeaseTTL /\ 0 \in 0 .. MaxAttempts /\ 0 \in 0 .. MaxFaults
      OBVIOUS
    <2>2. failures \in [Event -> [count : 0 .. MaxAttempts, status : FailureStatus]]
      BY <2>1 DEF Init, StoreInit, FailureStatus
    <2>3. pageRow \in [Page \X Scope -> RowStatus]
      BY DEF Init, StoreInit, RowStatus
    <2> QED
      BY <2>1, <2>2, <2>3 DEF Init, StoreInit, StoreTypeOK
  <1>2. SiteTypeOK
    BY DEF Init, SiteInit, SiteTypeOK
  <1>3. RunnerTypeOK
    <2>1. 0 \in 0 .. MaxVersion /\ 0 \in 0 .. Parts /\ 0 \in 0 .. LeaseTTL
      OBVIOUS
    <2>2. pc \in [Runner -> Label]
      BY DEF Init, Label
    <2>3. /\ ver \in [Runner -> 0 .. MaxVersion] /\ text \in [Runner -> 0 .. MaxVersion]
          /\ part \in [Runner -> 0 .. Parts] /\ age \in [Runner -> 0 .. LeaseTTL]
      BY <2>1 DEF Init
    <2> QED
      BY <2>2, <2>3 DEF Init, RunnerTypeOK
  <1>4. \A r \in Runner : HandOK(r)
    BY DEF Init, HandOK, Holding, Assessing, AttemptLabels
  <1> QED
    BY <1>1, <1>2, <1>3, <1>4 DEF TypeInv, TypeOK

LEMMA StoreStep == ASSUME TypeInv, Next PROVE StoreTypeOK'
  <1> USE DEF TypeInv, TypeOK, StoreTypeOK, NothingOutside, storeVars
  <1>1. ASSUME NEW r \in Runner, AcquireLease(r) \/ WriteLease(r)
        PROVE  StoreTypeOK'
    BY <1>1, TakeLeaseType DEF AcquireLease, WriteLease
  <1>2. ASSUME NEW r \in Runner, ReadLease(r) \/ Fetch(r) \/ TakeNext(r) \/ Compare(r)
        PROVE  StoreTypeOK'
    BY <1>2, ReadAnswersType DEF ReadLease, Fetch, TakeNext, Compare
  <1>3. ASSUME NEW r \in Runner,
               \/ EndOfBatch(r) \/ ReadContent(r) \/ PostClarification(r)
               \/ PostNoChange(r) \/ Assess(r) \/ PostPart(r) \/ SaveSummary(r)
               \/ PoisonRaises(r) \/ Restart(r)
        PROVE  StoreTypeOK'
    BY <1>3 DEF EndOfBatch, ReadContent, PostClarification, PostNoChange, Assess, PostPart,
                SaveSummary, PoisonRaises, Restart
  <1>4. ASSUME NEW r \in Runner, AttemptRaises(r) \/ CycleRaises(r) \/ Crash(r)
        PROVE  StoreTypeOK'
    BY <1>4, SpendFaultType DEF AttemptRaises, CycleRaises, Crash
  <1>5. ASSUME NEW r \in Runner, SkipProcessed(r) \/ CommitProcessed(r) \/ CommitQuarantined(r)
        PROVE  StoreTypeOK'
    <2>1. pc[r] \in Holding
      BY <1>5 DEF SkipProcessed, CommitProcessed, CommitQuarantined, Holding, AttemptLabels
    <2> QED
      BY <1>5, <2>1, HandType DEF SkipProcessed, CommitProcessed, CommitQuarantined, CommitState
  <1>6. ASSUME NEW r \in Runner, ClarifyRow(r)
        PROVE  StoreTypeOK'
    <2>1. pc[r] \in Holding
      BY <1>6 DEF ClarifyRow, Holding, AttemptLabels
    <2> QED
      BY <1>6, <2>1, HandType DEF ClarifyRow, UpsertPageAssessment, Scope, RowStatus
  <1>7. ASSUME NEW r \in Runner, NoChangeRow(r) \/ SaveRow(r)
        PROVE  StoreTypeOK'
    <2>1. pc[r] \in Assessing
      BY <1>7 DEF NoChangeRow, SaveRow, Assessing
    <2> QED
      BY <1>7, <2>1, FrameworkType
      DEF NoChangeRow, SaveRow, UpsertPageAssessment, Scope, RowStatus
  <1>8. ASSUME NEW r \in Runner, SaveSnapshot(r)
        PROVE  StoreTypeOK'
    <2>1. pc[r] \in Assessing
      BY <1>8 DEF SaveSnapshot, Assessing
    <2>2. ver[r] \in Nat
      BY <2>1, FrameworkType
    <2>3. <<P(r), F(r)>> \in Page \X Framework
      BY <2>1, FrameworkType
    <2> QED
      BY <1>8, <2>2, <2>3 DEF SaveSnapshot, UpsertSnapshot
  <1>9. ASSUME NEW r \in Runner, MarkProcessed(r)
        PROVE  StoreTypeOK'
    <2>1. pc[r] \in Holding
      BY <1>9 DEF MarkProcessed, Holding, AttemptLabels
    <2> QED
      BY <1>9, <2>1, HandType DEF MarkProcessed, MarkProcessedEvent
  <1>10. ASSUME NEW r \in Runner, CountFailure(r) \/ MarkTerminal(r)
         PROVE  StoreTypeOK'
    <2>1. pc[r] \in Holding
      BY <1>10 DEF CountFailure, MarkTerminal, Holding
    <2>2. PICK lost \in BOOLEAN :
             /\ ReadAnswers(lost)
             /\ IncrementFailureCount(E(r), lost) \/ MarkTerminalFailure(E(r), lost)
      BY <1>10 DEF CountFailure, MarkTerminal
    <2>3. failures' \in [Event -> [count : 0 .. MaxAttempts, status : FailureStatus]]
      BY <2>1, <2>2, HandType, FailuresType
    <2> QED
      BY <1>10, <2>2, <2>3, ReadAnswersType DEF CountFailure, MarkTerminal
  <1>11. ASSUME NEW r \in Runner, Ending(r)
         PROVE  StoreTypeOK'
    BY <1>11, ReadAnswersType, SpendFaultType
    DEF Ending, Release, ReleaseLease, LeaseIsMine, DeleteLease, ReadOwner, DeleteLock, raceVars
  <1>12. CASE Tick
    BY <1>12 DEF Tick, LeaseAges
  <1>13. ASSUME NEW e \in Event, MarkerExpires(e)
         PROVE  StoreTypeOK'
    BY <1>13 DEF MarkerExpires, ExpireMarker
  <1>14. CASE Users
    BY <1>14 DEF Users
  <1> QED
    BY <1>1, <1>2, <1>3, <1>4, <1>5, <1>6, <1>7, <1>8, <1>9, <1>10, <1>11, <1>12, <1>13,
       <1>14 DEF Next, Cycle, Fault, Ending

LEMMA SiteStep == ASSUME TypeInv, Next PROVE SiteTypeOK'
  <1> USE DEF TypeInv, TypeOK, SiteTypeOK, NothingOutside, siteVars
  <1>1. ASSUME NEW r \in Runner, PostClarification(r)
        PROVE  SiteTypeOK'
    <2>1. pc[r] \in Holding
      BY <1>1 DEF PostClarification, Holding, AttemptLabels
    <2> QED
      BY <1>1, <2>1, HandType, ClarificationType, PostCommentType DEF PostClarification
  <1>2. ASSUME NEW r \in Runner, PostNoChange(r) \/ PostPart(r)
        PROVE  SiteTypeOK'
    <2>1. pc[r] \in Assessing
      BY <1>2 DEF PostNoChange, PostPart, Assessing
    <2>2. E(r) \in Event /\ F(r) \in Framework
      BY <2>1, FrameworkType
    <2>3. ver[r] \in Nat /\ text[r] \in Nat /\ part[r] \in Nat
      BY DEF RunnerTypeOK
    <2>4. /\ NoChangeComment(E(r), F(r), ver[r]) \in Comment
          /\ AssessmentComment(E(r), F(r), ver[r], text[r], part[r]) \in Comment
      BY <2>2, <2>3, CommentTypes
    <2> QED
      BY <1>2, <2>4, PostCommentType DEF PostNoChange, PostPart
  <1>3. CASE Users
    <2>1. ASSUME NEW e \in Event, Publish(e) PROVE SiteTypeOK'
      BY <2>1 DEF Publish
    <2>2. ASSUME NEW e \in Event, EditMention(e) PROVE SiteTypeOK'
      <3>1. EditedAt[e] \in Nat \ {0}
        BY <2>2 DEF EditMention
      <3> QED
        BY <2>2, <3>1 DEF EditMention
    <2>3. ASSUME NEW p \in Page, EditPage(p) PROVE SiteTypeOK'
      BY <2>3 DEF EditPage
    <2> QED
      BY <1>3, <2>1, <2>2, <2>3 DEF Users
  <1>4. ASSUME NEW r \in Runner,
               \/ AcquireLease(r) \/ ReadLease(r) \/ WriteLease(r)
               \/ TakeNext(r) \/ SkipProcessed(r) \/ EndOfBatch(r) \/ ReadContent(r)
               \/ ClarifyRow(r) \/ Compare(r) \/ NoChangeRow(r) \/ Assess(r)
               \/ SaveSnapshot(r) \/ SaveRow(r) \/ MarkProcessed(r) \/ CommitProcessed(r)
               \/ PoisonRaises(r) \/ CountFailure(r) \/ MarkTerminal(r)
               \/ CommitQuarantined(r) \/ SaveSummary(r) \/ Ending(r) \/ Fault(r)
               \/ Restart(r)
        PROVE  SiteTypeOK'
    BY <1>4 DEF AcquireLease, ReadLease, WriteLease, TakeNext, SkipProcessed, EndOfBatch,
       ReadContent, ClarifyRow, Compare, NoChangeRow, Assess, SaveSnapshot,
       SaveRow, MarkProcessed, CommitProcessed, PoisonRaises, CountFailure, MarkTerminal,
       CommitQuarantined, SaveSummary, Ending, Release, ReadOwner, DeleteLock, EndCycle,
       Fault, AttemptRaises, CycleRaises, Crash,
       Restart
  <1>5. CASE Tick \/ \E e \in Event : MarkerExpires(e)
    BY <1>5 DEF Tick, MarkerExpires
  <1>6. ASSUME NEW r \in Runner, Fetch(r)
        PROVE  SiteTypeOK'
    BY <1>6 DEF Fetch
  <1> QED
    BY <1>1, <1>2, <1>3, <1>4, <1>5, <1>6 DEF Next, Cycle, Ending

\* The history variables keep their types.
LEMMA LockStep ==
  ASSUME RunnerTypeOK, NEW r \in Runner, NEW lost,
         LockIsRead(r, lost) \/ LockIsWritten(r) \/ UNCHANGED raceVars
  PROVE  lockRead' \in SUBSET Runner /\ raced' \in BOOLEAN
  BY DEF LockIsRead, LockIsWritten, raceVars, RunnerTypeOK

\* The steps that leave the hand alone and the labels they lead to.
LEMMA KeepHandStep ==
  ASSUME RunnerTypeOK, NEW r \in Runner, NEW l \in Label, Goto(r, l), KeepHand,
         lockRead' \in SUBSET Runner, raced' \in BOOLEAN
  PROVE  RunnerTypeOK'
  BY DEF RunnerTypeOK, Goto, KeepHand

LEMMA NextFrameworkStep ==
  ASSUME RunnerTypeOK, NEW r \in Runner, NextFramework(r), UNCHANGED raceVars
  PROVE  RunnerTypeOK'
  <1>1. pc' \in [Runner -> Label]
    BY DEF NextFramework, RunnerTypeOK, Goto, Label, AttemptLabels
  <1>2. fw' \in [Runner -> Nat] /\ part' \in [Runner -> 0 .. Parts]
    BY DEF NextFramework, RunnerTypeOK
  <1> QED
    BY <1>1, <1>2 DEF NextFramework, RunnerTypeOK, raceVars

LEMMA DropHandStep ==
  ASSUME RunnerTypeOK, NEW r \in Runner, NEW l \in Label, Goto(r, l), DropHand(r),
         lockRead' \in SUBSET Runner, raced' \in BOOLEAN
  PROVE  RunnerTypeOK'
  BY DEF RunnerTypeOK, Goto, DropHand

LEMMA RunnerStep == ASSUME TypeInv, Next PROVE RunnerTypeOK'
  <1> USE DEF TypeInv, TypeOK, NothingOutside, raceVars
  <1>1. ASSUME NEW r \in Runner, AcquireLease(r) \/ WriteLease(r)
        PROVE  RunnerTypeOK'
    <2>1. pc' = [pc EXCEPT ![r] = "fetch"] /\ age' = [age EXCEPT ![r] = 0]
      BY <1>1 DEF AcquireLease, WriteLease, Goto
    <2>2. UNCHANGED <<batch, cur, ver, text, fw, part, raised>>
      BY <1>1 DEF AcquireLease, WriteLease
    <2>3. pc' \in [Runner -> Label] /\ age' \in [Runner -> 0 .. LeaseTTL]
      BY <2>1 DEF RunnerTypeOK, Label, CycleLabels
    <2>4. lockRead' \in SUBSET Runner /\ raced' \in BOOLEAN
      BY <1>1, LockStep DEF AcquireLease, WriteLease
    <2> QED
      BY <2>2, <2>3, <2>4 DEF RunnerTypeOK
  <1>2. ASSUME NEW r \in Runner, Fetch(r)
        PROVE  RunnerTypeOK'
    <2>1. ASSUME NEW e \in Event PROVE Mention(e) \in [id : Event, at : Nat \ {0}]
      BY <2>1 DEF Mention, SiteTypeOK
    <2>2. PICK B \in SUBSET visible : batch' = [batch EXCEPT ![r] = {Mention(e) : e \in B}]
      BY <1>2 DEF Fetch, SearchResults, Matching
    <2>3. {Mention(e) : e \in B} \in SUBSET [id : Event, at : Nat \ {0}]
      BY <2>1 DEF SiteTypeOK
    <2> QED
      BY <1>2, <2>2, <2>3 DEF Fetch, RunnerTypeOK, Goto, Label, CycleLabels
  <1>3. ASSUME NEW r \in Runner, TakeNext(r)
        PROVE  RunnerTypeOK'
    <2>1. PICK m \in batch[r] :
             /\ batch' = [batch EXCEPT ![r] = @ \ {m}]
             /\ cur' = [cur EXCEPT ![r] = m]
             /\ Goto(r, "skip") \/ Goto(r, "content")
      BY <1>3 DEF TakeNext
    <2>2. batch[r] \in SUBSET [id : Event, at : Nat \ {0}]
      BY DEF RunnerTypeOK
    <2>3. pc' \in [Runner -> Label]
      BY <2>1 DEF RunnerTypeOK, Goto, Label, AttemptLabels, CycleLabels
    <2> QED
      BY <1>3, <2>1, <2>2, <2>3 DEF TakeNext, RunnerTypeOK
  <1>4. ASSUME NEW r \in Runner, ReadContent(r)
        PROVE  RunnerTypeOK'
    <2>1. pc[r] \in Holding
      BY <1>4 DEF ReadContent, Holding, AttemptLabels
    <2>2. pageVersion[P(r)] \in 0 .. MaxVersion
      BY <2>1, HandType DEF SiteTypeOK
    <2> QED
      BY <1>4, <2>2 DEF ReadContent, RunnerTypeOK, Goto, Label, AttemptLabels
  <1>5. ASSUME NEW r \in Runner, Compare(r) \/ PostNoChange(r) \/ Assess(r)
        PROVE  RunnerTypeOK'
    <2>1. {"noChangeRow", "assess", "snapshot"} \subseteq Label
      BY DEF Label, AttemptLabels
    <2>2. CASE Assess(r) /\ ~NextFramework(r)
      <3>1. pc[r] \in Holding
        BY <2>2 DEF Assess, Holding, AttemptLabels
      <3>2. pageVersion[P(r)] \in 0 .. MaxVersion
        BY <3>1, HandType DEF SiteTypeOK
      <3>3. /\ text' = [text EXCEPT ![r] = pageVersion[P(r)]]
            /\ pc' = [pc EXCEPT ![r] = "snapshot"]
        BY <2>2 DEF Assess, Goto
      <3>4. text' \in [Runner -> 0 .. MaxVersion] /\ pc' \in [Runner -> Label]
        BY <2>1, <3>2, <3>3 DEF RunnerTypeOK
      <3> QED
        BY <2>2, <3>4 DEF Assess, RunnerTypeOK
    <2>3. UNCHANGED raceVars /\ lockRead' \in SUBSET Runner /\ raced' \in BOOLEAN
      BY <1>5 DEF Compare, PostNoChange, Assess, RunnerTypeOK
    <2> QED
      BY <1>5, <2>1, <2>2, <2>3, NextFrameworkStep, KeepHandStep DEF Compare, PostNoChange, Assess
  <1>6. ASSUME NEW r \in Runner, SaveRow(r)
        PROVE  RunnerTypeOK'
    <2>1. pc' \in [Runner -> Label] /\ part' \in [Runner -> 0 .. Parts]
      BY <1>6 DEF SaveRow, RunnerTypeOK, Goto, Label, AttemptLabels
    <2> QED
      BY <1>6, <2>1 DEF SaveRow, RunnerTypeOK
  <1>7. ASSUME NEW r \in Runner, PostPart(r)
        PROVE  RunnerTypeOK'
    <2>1. CASE part[r] < Parts
      <3>1. part' = [part EXCEPT ![r] = @ + 1] /\ UNCHANGED <<pc, batch, cur, ver, text, fw, raised, age>>
        BY <1>7, <2>1 DEF PostPart
      <3>2. part[r] + 1 \in 0 .. Parts
        BY <2>1 DEF RunnerTypeOK
      <3>3. part' \in [Runner -> 0 .. Parts]
        BY <3>1, <3>2 DEF RunnerTypeOK
      <3> QED
        BY <1>7, <3>1, <3>3 DEF PostPart, RunnerTypeOK
    <2>2. CASE ~(part[r] < Parts)
      BY <1>7, <2>2, NextFrameworkStep DEF PostPart
    <2> QED
      BY <2>1, <2>2
  <1>8. ASSUME NEW r \in Runner,
               \/ ReadLease(r) \/ SkipProcessed(r) \/ EndOfBatch(r) \/ ClarifyRow(r)
               \/ PostClarification(r) \/ NoChangeRow(r) \/ SaveSnapshot(r)
               \/ MarkProcessed(r) \/ CommitProcessed(r) \/ PoisonRaises(r)
               \/ CountFailure(r) \/ MarkTerminal(r) \/ CommitQuarantined(r)
               \/ SaveSummary(r) \/ AttemptRaises(r) \/ Restart(r)
        PROVE  RunnerTypeOK'
    <2>1. KeepHand
      BY <1>8 DEF ReadLease, SkipProcessed, EndOfBatch, ClarifyRow, PostClarification,
         NoChangeRow, SaveSnapshot, MarkProcessed, CommitProcessed, PoisonRaises,
         CountFailure, MarkTerminal, CommitQuarantined, SaveSummary, AttemptRaises, Restart
    <2>2. \E l \in {"acquire", "next", "summary", "clarifyPost", "mark", "noChangePost",
                    "row", "commit", "failure", "terminal", "quarantine", "release",
                    "idle"} : Goto(r, l)
      BY <1>8 DEF ReadLease, SkipProcessed, EndOfBatch, ClarifyRow, PostClarification,
         NoChangeRow, SaveSnapshot, MarkProcessed, CommitProcessed, PoisonRaises,
         CountFailure, MarkTerminal, CommitQuarantined, SaveSummary, AttemptRaises, Restart,
         AfterFailure
    <2>3. \E l \in Label : Goto(r, l)
      BY <2>2 DEF Label, AttemptLabels, CycleLabels
    <2>4. lockRead' \in SUBSET Runner /\ raced' \in BOOLEAN
      BY <1>8, LockStep DEF ReadLease, SkipProcessed, EndOfBatch, ClarifyRow, PostClarification,
         NoChangeRow, SaveSnapshot, MarkProcessed, CommitProcessed, PoisonRaises,
         CountFailure, MarkTerminal, CommitQuarantined, SaveSummary, AttemptRaises, Restart
    <2> QED
      BY <2>1, <2>3, <2>4, KeepHandStep
  <1>9. ASSUME NEW r \in Runner, CycleRaises(r)
        PROVE  RunnerTypeOK'
    BY <1>9 DEF CycleRaises, RunnerTypeOK, Goto, Label
  <1>10. ASSUME NEW r \in Runner, Ending(r) \/ Crash(r)
         PROVE  RunnerTypeOK'
    <2>1. {"idle", "down", "delete"} \subseteq Label
      BY DEF Label
    <2>2. lockRead' \in SUBSET Runner /\ raced' \in BOOLEAN
      BY <1>10, LockStep DEF Ending, Release, ReadOwner, DeleteLock, Crash, raceVars,
         NothingOutside, RunnerTypeOK
    <2>3. EndCycle(r) \/ (DropHand(r) /\ Goto(r, "down")) \/ (KeepHand /\ Goto(r, "delete"))
      BY <1>10 DEF Ending, Release, ReadOwner, DeleteLock, Crash
    <2> QED
      BY <2>1, <2>2, <2>3, DropHandStep, KeepHandStep DEF EndCycle
  <1>11. CASE Tick
    BY <1>11 DEF Tick, raceVars, RunnerTypeOK
  <1>12. CASE Users \/ \E e \in Event : MarkerExpires(e)
    BY <1>12 DEF Users, MarkerExpires, runVars, raceVars, RunnerTypeOK
  <1> QED
    BY <1>1, <1>2, <1>3, <1>4, <1>5, <1>6, <1>7, <1>8, <1>9, <1>10, <1>11, <1>12
    DEF Next, Cycle, Fault, Ending

\* A step of one runner leaves the others where they are.
LEMMA OneRunner ==
  ASSUME TypeInv, NEW r \in Runner, Cycle(r) \/ Fault(r) \/ Restart(r),
         NEW s \in Runner \ {r}
  PROVE  /\ pc'[s] = pc[s] /\ cur'[s] = cur[s] /\ ver'[s] = ver[s] /\ text'[s] = text[s]
         /\ fw'[s] = fw[s] /\ part'[s] = part[s] /\ age'[s] = age[s]
  <1> USE DEF TypeInv, TypeOK, RunnerTypeOK, Goto, KeepHand
  <1> DEFINE Same == /\ pc'[s] = pc[s] /\ cur'[s] = cur[s] /\ ver'[s] = ver[s] /\ text'[s] = text[s]
                     /\ fw'[s] = fw[s] /\ part'[s] = part[s] /\ age'[s] = age[s]
  <1>1. CASE AcquireLease(r) \/ ReadLease(r) \/ WriteLease(r) \/ Fetch(r) \/ TakeNext(r)
    BY <1>1 DEF AcquireLease, ReadLease, WriteLease, Fetch, TakeNext
  <1>2. CASE SkipProcessed(r) \/ EndOfBatch(r) \/ ReadContent(r) \/ ClarifyRow(r)
             \/ PostClarification(r) \/ NoChangeRow(r) \/ SaveSnapshot(r) \/ SaveRow(r)
    BY <1>2 DEF SkipProcessed, EndOfBatch, ReadContent, ClarifyRow, PostClarification,
                NoChangeRow, SaveSnapshot, SaveRow
  <1>3. CASE Compare(r) \/ PostNoChange(r) \/ Assess(r) \/ PostPart(r)
    BY <1>3 DEF Compare, PostNoChange, Assess, PostPart, NextFramework
  <1>4. CASE MarkProcessed(r) \/ CommitProcessed(r) \/ PoisonRaises(r) \/ CountFailure(r)
             \/ MarkTerminal(r) \/ CommitQuarantined(r) \/ SaveSummary(r) \/ Restart(r)
    BY <1>4 DEF MarkProcessed, CommitProcessed, PoisonRaises, CountFailure, MarkTerminal,
                CommitQuarantined, SaveSummary, Restart
  <1>5. CASE Ending(r) \/ Fault(r)
    BY <1>5 DEF Ending, Release, ReadOwner, DeleteLock, EndCycle, Fault, AttemptRaises, CycleRaises, Crash, DropHand
  <1> QED
    BY <1>1, <1>2, <1>3, <1>4, <1>5 DEF Cycle, Ending

\* The next framework is one the mention asked for.
LEMMA NextFrameworkHand ==
  ASSUME TypeInv, NEW r \in Runner, pc[r] \in Assessing, NextFramework(r)
  PROVE  HandOK(r)'
  <1>1. /\ cur[r] \in MentionInHand /\ fw[r] \in 1 .. Len(Requested[E(r)])
        /\ ver[r] \in 1 .. MaxVersion /\ Len(Requested[E(r)]) \in Nat
    BY FrameworkType, HandType, RequestedType
  <1>2. cur' = cur /\ ver' = ver /\ fw'[r] = fw[r] + 1
    BY DEF NextFramework, TypeInv, TypeOK, RunnerTypeOK
  <1>3. CASE fw[r] < Len(Requested[E(r)])
    <2>1. pc'[r] = "compare"
      BY <1>3 DEF NextFramework, Goto, TypeInv, TypeOK, RunnerTypeOK
    <2>2. fw[r] + 1 \in 1 .. Len(Requested[E(r)])
      BY <1>1, <1>3
    <2> QED
      BY <1>1, <1>2, <2>1, <2>2 DEF HandOK, E
  <1>4. CASE ~(fw[r] < Len(Requested[E(r)]))
    <2>1. pc'[r] = "mark"
      BY <1>4 DEF NextFramework, Goto, TypeInv, TypeOK, RunnerTypeOK
    <2> QED
      BY <1>1, <1>2, <2>1 DEF HandOK, Assessing
  <1> QED
    BY <1>3, <1>4

LEMMA HandStep ==
  ASSUME TypeInv, NEW r \in Runner, Cycle(r) \/ Fault(r) \/ Restart(r)
  PROVE  HandOK(r)'
  <1> DEFINE Nowhere == {"idle", "acquire", "fetch", "next", "summary", "release", "delete", "down"}
             Closing == {"mark", "commit", "failure", "terminal", "quarantine"}
  <1>1. pc[r] \in Holding => cur[r] \in MentionInHand
    BY HandType
  <1>2. ASSUME pc'[r] \in Nowhere PROVE HandOK(r)'
    BY <1>2 DEF HandOK, Holding, AttemptLabels, Assessing
  <1>3. ASSUME pc'[r] \in Closing, pc[r] \in Holding, KeepHand PROVE HandOK(r)'
    BY <1>1, <1>3 DEF HandOK, Holding, AttemptLabels, Assessing, KeepHand
  <1>4. ASSUME pc'[r] \in {"noChangeRow", "noChangePost", "assess", "row"}, pc[r] \in Assessing,
               pc'[r] = "row" => pc[r] = "snapshot", KeepHand
        PROVE  HandOK(r)'
    <2>1. fw[r] \in 1 .. Len(Requested[E(r)]) /\ ver[r] \in 1 .. MaxVersion /\ pc[r] \in Holding
      BY <1>4, FrameworkType
    <2>2. /\ fw'[r] = fw[r] /\ ver'[r] = ver[r] /\ cur'[r] = cur[r] /\ E(r)' = E(r)
          /\ text'[r] = text[r]
      BY <1>4 DEF KeepHand, E
    <2>3. pc[r] = "snapshot" => text[r] \in 1 .. MaxVersion
      BY DEF TypeInv, HandOK
    <2> QED
      BY <1>1, <1>4, <2>1, <2>2, <2>3 DEF HandOK, Assessing
  <1>5. \A l : Goto(r, l) => pc'[r] = l
    BY DEF Goto, TypeInv, TypeOK, RunnerTypeOK
  <1>6. CASE \/ AcquireLease(r) \/ ReadLease(r) \/ WriteLease(r) \/ Fetch(r)
             \/ SkipProcessed(r) \/ EndOfBatch(r) \/ CommitProcessed(r)
             \/ CommitQuarantined(r) \/ SaveSummary(r) \/ Ending(r) \/ CycleRaises(r)
             \/ Crash(r) \/ Restart(r)
    BY <1>2, <1>5, <1>6 DEF AcquireLease, ReadLease, WriteLease, Fetch, SkipProcessed,
       EndOfBatch, CommitProcessed, CommitQuarantined, SaveSummary, Ending, Release, ReadOwner,
       DeleteLock, EndCycle, CycleRaises, Crash, Restart
  <1>7. CASE \/ PostClarification(r) \/ MarkProcessed(r) \/ PoisonRaises(r)
             \/ AttemptRaises(r) \/ CountFailure(r) \/ MarkTerminal(r)
    <2>1. pc[r] \in Holding /\ KeepHand
      BY <1>7 DEF PostClarification, MarkProcessed, PoisonRaises, AttemptRaises,
         CountFailure, MarkTerminal, Holding, AttemptLabels
    <2>2. pc'[r] \in Closing \cup Nowhere
      BY <1>5, <1>7 DEF PostClarification, MarkProcessed, PoisonRaises, AttemptRaises,
         CountFailure, MarkTerminal, AfterFailure
    <2> QED
      BY <1>2, <1>3, <2>1, <2>2
  <1>8. CASE TakeNext(r)
    <2>1. PICK m \in batch[r] : cur' = [cur EXCEPT ![r] = m]
      BY <1>8 DEF TakeNext
    <2>2. cur'[r] \in MentionInHand
      BY <2>1 DEF TypeInv, TypeOK, RunnerTypeOK, MentionInHand
    <2>3. pc'[r] \in {"skip", "content"}
      BY <1>5, <1>8 DEF TakeNext
    <2> QED
      BY <2>2, <2>3 DEF HandOK, Assessing
  <1>9. CASE ReadContent(r)
    <2>1. pc[r] \in Holding
      BY <1>9 DEF ReadContent, Holding, AttemptLabels
    <2>2. cur'[r] = cur[r] /\ fw'[r] = 1 /\ ver'[r] = pageVersion[P(r)]
      BY <1>9 DEF ReadContent, TypeInv, TypeOK, RunnerTypeOK
    <2>3. ver'[r] \in 1 .. MaxVersion
      BY <2>1, <2>2, HandType DEF TypeInv, TypeOK, SiteTypeOK
    <2>4. CASE Requested[E(r)] # << >>
      <3>1. pc'[r] = "compare"
        BY <1>5, <1>9, <2>4 DEF ReadContent
      <3>2. 1 \in 1 .. Len(Requested[E(r)])
        BY <2>1, <2>4, HandType, RequestedType
      <3> QED
        BY <1>1, <2>1, <2>2, <2>3, <3>1, <3>2 DEF HandOK, E
    <2>5. CASE Requested[E(r)] = << >>
      <3>1. pc'[r] \in {"mark", "clarifyRow"}
        BY <1>5, <1>9, <2>5 DEF ReadContent
      <3> QED
        BY <1>1, <2>1, <2>2, <2>5, <3>1 DEF HandOK, Assessing, E
    <2> QED
      BY <2>4, <2>5
  <1>10. CASE ClarifyRow(r)
    <2>1. pc[r] = "clarifyRow" /\ pc'[r] = "clarifyPost" /\ KeepHand
      BY <1>5, <1>10 DEF ClarifyRow
    <2>2. pc[r] \in Holding /\ Requested[E(r)] = << >>
      BY <2>1 DEF TypeInv, HandOK, Holding, AttemptLabels
    <2> QED
      BY <1>1, <2>1, <2>2 DEF KeepHand, HandOK, Assessing, E
  <1>11. CASE Compare(r) \/ PostNoChange(r) \/ Assess(r)
    <2>1. pc[r] \in Assessing
      BY <1>11 DEF Compare, PostNoChange, Assess, Assessing
    <2>2. CASE NextFramework(r)
      BY <2>1, <2>2, NextFrameworkHand
    <2>3. CASE Compare(r) /\ ~NextFramework(r)
      <3>1. KeepHand /\ pc'[r] \in {"noChangeRow", "assess"}
        BY <1>5, <2>3 DEF Compare
      <3> QED
        BY <1>4, <2>1, <3>1
    <2>4. CASE Assess(r) /\ ~NextFramework(r)
      <3>1. /\ pc'[r] = "snapshot" /\ text'[r] = pageVersion[P(r)]
            /\ UNCHANGED <<cur, ver, fw>> /\ E(r)' = E(r)
        BY <1>5, <2>4 DEF Assess, E, TypeInv, TypeOK, RunnerTypeOK
      <3>2. /\ fw[r] \in 1 .. Len(Requested[E(r)]) /\ ver[r] \in 1 .. MaxVersion
            /\ pc[r] \in Holding /\ P(r) \in Page
        BY <2>1, FrameworkType
      <3>3. pageVersion[P(r)] \in 1 .. MaxVersion
        BY <3>2 DEF TypeInv, TypeOK, SiteTypeOK
      <3> QED
        BY <1>1, <3>1, <3>2, <3>3 DEF HandOK
    <2> QED
      BY <1>11, <2>2, <2>3, <2>4 DEF PostNoChange
  <1>12. CASE NoChangeRow(r) \/ SaveSnapshot(r)
    <2>1. /\ KeepHand /\ pc'[r] \in {"noChangePost", "row"}
          /\ pc'[r] = "row" => pc[r] = "snapshot"
      BY <1>5, <1>12 DEF NoChangeRow, SaveSnapshot
    <2> QED
      BY <1>4, <1>12, <2>1 DEF NoChangeRow, SaveSnapshot, Assessing
  <1>13. CASE SaveRow(r)
    <2>1. pc'[r] = "post" /\ part'[r] = 1 /\ UNCHANGED <<cur, ver, text, fw>>
      BY <1>5, <1>13 DEF SaveRow, TypeInv, TypeOK, RunnerTypeOK
    <2>2. pc[r] \in Assessing
      BY <1>13 DEF SaveRow, Assessing
    <2>3. /\ fw[r] \in 1 .. Len(Requested[E(r)]) /\ ver[r] \in 1 .. MaxVersion
          /\ pc[r] \in Holding
      BY <2>2, FrameworkType
    <2>4. 1 \in 1 .. Parts
      OBVIOUS
    <2>5. text[r] \in 1 .. MaxVersion
      BY <1>13 DEF SaveRow, TypeInv, HandOK
    <2> QED
      BY <1>1, <2>1, <2>3, <2>4, <2>5 DEF HandOK, E
  <1>14. CASE PostPart(r)
    <2>1. pc[r] \in Assessing /\ pc[r] = "post"
      BY <1>14 DEF PostPart, Assessing
    <2>2. CASE part[r] < Parts
      <3>1. part'[r] = part[r] + 1 /\ UNCHANGED <<pc, cur, ver, text, fw>>
        BY <1>14, <2>2 DEF PostPart, TypeInv, TypeOK, RunnerTypeOK
      <3>2. part[r] + 1 \in 1 .. Parts
        BY <2>1, <2>2 DEF TypeInv, HandOK
      <3> QED
        BY <2>1, <3>1, <3>2 DEF TypeInv, HandOK, E
    <2>3. CASE ~(part[r] < Parts)
      BY <1>14, <2>1, <2>3, NextFrameworkHand DEF PostPart
    <2> QED
      BY <2>2, <2>3
  <1> QED
    BY <1>6, <1>7, <1>8, <1>9, <1>10, <1>11, <1>12, <1>13, <1>14 DEF Cycle, Fault, Ending

LEMMA StepType == TypeInv /\ [Next]_vars => TypeInv'
  <1> SUFFICES ASSUME TypeInv, [Next]_vars PROVE TypeInv'
    OBVIOUS
  <1>1. CASE Next
    <2>1. TypeOK'
      BY <1>1, StoreStep, SiteStep, RunnerStep DEF TypeOK
    <2>2. ASSUME NEW s \in Runner PROVE HandOK(s)'
      <3>1. CASE Cycle(s) \/ Fault(s) \/ Restart(s)
        BY <3>1, HandStep
      <3>2. ASSUME NEW r \in Runner \ {s}, Cycle(r) \/ Fault(r) \/ Restart(r)
            PROVE  HandOK(s)'
        <4>1. /\ pc'[s] = pc[s] /\ cur'[s] = cur[s] /\ ver'[s] = ver[s]
              /\ text'[s] = text[s] /\ fw'[s] = fw[s] /\ part'[s] = part[s]
          BY <3>2, OneRunner
        <4> QED
          BY <4>1 DEF TypeInv, HandOK, E
      <3>3. CASE Tick \/ (\E e \in Event : MarkerExpires(e)) \/ Users
        BY <3>3 DEF Tick, MarkerExpires, Users, runVars, TypeInv, HandOK, E
      <3> QED
        BY <1>1, <3>1, <3>2, <3>3 DEF Next
    <2> QED
      BY <2>1, <2>2 DEF TypeInv
  <1>2. CASE UNCHANGED vars
    BY <1>2 DEF vars, storeVars, siteVars, runVars, raceVars, TypeInv, TypeOK, StoreTypeOK, SiteTypeOK,
                RunnerTypeOK, HandOK, E
  <1> QED
    BY <1>1, <1>2

LEMMA TypeInvariant == Spec => []TypeInv
  BY InitType, StepType, PTL DEF Spec

\* The store, the site and every process keep values of their types, whatever
\* the number of processes, faults and mentions: no part counter passes the
\* last part and no attempt count its limit.
THEOREM TypeCorrect == Spec => []TypeOK
  <1>1. TypeInv => TypeOK
    BY DEF TypeInv
  <1> QED
    BY <1>1, TypeInvariant, PTL

-----------------------------------------------------------------------------
(* A dry run.                                                              *)

\* Where comments, snapshots and dashboard rows are written.
Writing == {"clarifyRow", "clarifyPost", "noChangeRow", "noChangePost", "snapshot", "row",
            "post"}

DryInv == \A r \in Runner : pc[r] \notin Writing

LEMMA DryStep == DryRun /\ TypeInv /\ DryInv /\ [Next]_vars => DryInv'
  <1> SUFFICES ASSUME DryRun, TypeInv, DryInv, [Next]_vars, NEW s \in Runner
               PROVE  pc'[s] \notin Writing
    BY DEF DryInv
  <1>1. ASSUME NEW r \in Runner, Cycle(r) \/ Fault(r) \/ Restart(r)
        PROVE  pc'[r] \notin Writing
    <2>1. \A l : Goto(r, l) => pc'[r] = l
      BY DEF Goto, TypeInv, TypeOK, RunnerTypeOK
    <2>2. pc[r] \notin Writing
      BY DEF DryInv
    <2>3. CASE NextFramework(r)
      BY <2>1, <2>3 DEF NextFramework, Writing
    <2>4. CASE ~NextFramework(r)
      BY <1>1, <2>1, <2>2, <2>4 DEF Cycle, Fault, AcquireLease, ReadLease, WriteLease, Fetch,
         TakeNext, SkipProcessed, EndOfBatch, ReadContent, ClarifyRow, PostClarification,
         Compare, NoChangeRow, PostNoChange, Assess, SaveSnapshot, SaveRow, PostPart,
         MarkProcessed, CommitProcessed, PoisonRaises, CountFailure, MarkTerminal,
         CommitQuarantined, SaveSummary, Ending, Release, ReadOwner, DeleteLock,
         EndCycle, DropHand, AttemptRaises, CycleRaises, Crash, Restart,
         AfterFailure, Writing
    <2> QED
      BY <2>3, <2>4
  <1>2. CASE ~(Cycle(s) \/ Fault(s) \/ Restart(s))
    <2>1. ASSUME NEW r \in Runner \ {s}, Cycle(r) \/ Fault(r) \/ Restart(r)
          PROVE  pc'[s] = pc[s]
      BY <2>1, OneRunner
    <2>2. ASSUME Tick \/ (\E e \in Event : MarkerExpires(e)) \/ Users \/ UNCHANGED vars
          PROVE  pc'[s] = pc[s]
      BY <2>2 DEF Tick, MarkerExpires, Users, vars, runVars
    <2>3. pc'[s] = pc[s]
      BY <1>2, <2>1, <2>2 DEF Next
    <2> QED
      BY <2>3 DEF DryInv
  <1> QED
    BY <1>1, <1>2

\* A dry run posts no comment and writes no snapshot and no dashboard row,
\* whatever raises, crashes or restarts, so a later live run finds none of
\* its assessments to compare with.
THEOREM DryRunWritesNothing == Spec => DryRunLeavesNoTrace
  <1>1. CASE DryRun
    <2>1. Init => DryInv
      BY DEF Init, DryInv, Writing
    <2>2. DryInv /\ [Next]_vars => [DryRun => UNCHANGED <<comments, reposted, snapshot, pageRow>>]_vars
      <3> SUFFICES ASSUME DryInv, Next
                   PROVE  UNCHANGED <<comments, reposted, snapshot, pageRow>>
        OBVIOUS
      <3>1. ASSUME NEW r \in Runner, Cycle(r) \/ Fault(r) \/ Restart(r)
            PROVE  UNCHANGED <<comments, reposted, snapshot, pageRow>>
        <4>1. pc[r] \notin Writing
          BY DEF DryInv
        <4> QED
          BY <3>1, <4>1 DEF Cycle, Fault, NothingOutside, siteVars, storeVars, AcquireLease,
             ReadLease, WriteLease, Fetch, TakeNext, SkipProcessed, EndOfBatch, ReadContent,
             ClarifyRow, PostClarification, Compare, NoChangeRow, PostNoChange, Assess,
             SaveSnapshot, SaveRow, PostPart, MarkProcessed, CommitProcessed, PoisonRaises,
             CountFailure, MarkTerminal, CommitQuarantined, SaveSummary, Ending, Release, ReadOwner,
             DeleteLock, EndCycle, AttemptRaises, CycleRaises, Crash, Restart, Writing
      <3>2. CASE Tick \/ (\E e \in Event : MarkerExpires(e)) \/ Users
        BY <3>2 DEF Tick, MarkerExpires, Users, siteVars, storeVars, Publish, EditMention,
           EditPage
      <3> QED
        BY <3>1, <3>2 DEF Next
    <2>3. TypeInv /\ DryInv /\ [Next]_vars => DryInv'
      BY <1>1, DryStep
    <2> QED
      BY <2>1, <2>2, <2>3, TypeInvariant, PTL DEF Spec, DryRunLeavesNoTrace
  <1>2. CASE ~DryRun
    <2>1. [DryRun => UNCHANGED <<comments, reposted, snapshot, pageRow>>]_vars
      BY <1>2
    <2> QED
      BY <2>1, PTL DEF DryRunLeavesNoTrace
  <1> QED
    BY <1>1, <1>2
-----------------------------------------------------------------------------
(* Single flight: as long as nobody writes the lock document on the word   *)
(* of an old read, it is that of the one young cycle, and what it has left *)
(* is the rest of that cycle's time to live; so it is not free for another *)
(* process, and the only one to delete it is its owner.                    *)

\* A cycle that still has its lease.
Young(r) == InCycle(r) /\ age[r] < LeaseTTL

\* A young cycle's lock is in the document, and what a process read there
\* still holds, if the document is as it read it.
HoldsLock(r) ==
  /\ Young(r) => lease.owner = r /\ lease.left + age[r] = LeaseTTL
  /\ pc[r] = "acquire" /\ r \in lockRead => lease.left = 0
  /\ pc[r] = "delete" /\ r \in lockRead => lease.owner = r

LeaseInv == ~raced => \A r \in Runner : HoldsLock(r)

\* The steps of a runner that neither take nor give back its lease.
Working(r) ==
  \/ Fetch(r) \/ TakeNext(r) \/ SkipProcessed(r) \/ EndOfBatch(r) \/ ReadContent(r)
  \/ ClarifyRow(r) \/ PostClarification(r) \/ Compare(r) \/ NoChangeRow(r)
  \/ PostNoChange(r) \/ Assess(r) \/ SaveSnapshot(r) \/ SaveRow(r) \/ PostPart(r)
  \/ MarkProcessed(r) \/ CommitProcessed(r) \/ PoisonRaises(r) \/ CountFailure(r)
  \/ MarkTerminal(r) \/ CommitQuarantined(r) \/ SaveSummary(r) \/ AttemptRaises(r)
  \/ CycleRaises(r)

LEMMA WorkingKeepsLease ==
  ASSUME TypeInv, NEW r \in Runner, Working(r)
  PROVE  /\ UNCHANGED <<lease, age, lockRead, raced>>
         /\ InCycle(r)
         /\ pc'[r] \notin {"acquire", "delete"}
  <1> USE DEF NothingOutside, storeVars, raceVars, Goto, KeepHand, InCycle
  <1>1. UNCHANGED <<lease, lockRead, raced>>
    BY DEF Working, Fetch, TakeNext, SkipProcessed, EndOfBatch, ReadContent, ClarifyRow,
       PostClarification, Compare, NoChangeRow, PostNoChange, Assess, SaveSnapshot, SaveRow,
       PostPart, MarkProcessed, CommitProcessed, PoisonRaises, CountFailure, MarkTerminal,
       CommitQuarantined, SaveSummary, AttemptRaises, CycleRaises
  <1>2. age' = age
    BY DEF Working, Fetch, TakeNext, SkipProcessed, EndOfBatch, ReadContent, ClarifyRow,
       PostClarification, Compare, NoChangeRow, PostNoChange, Assess, SaveSnapshot, SaveRow,
       PostPart, MarkProcessed, CommitProcessed, PoisonRaises, CountFailure, MarkTerminal,
       CommitQuarantined, SaveSummary, AttemptRaises, CycleRaises, NextFramework
  <1>3. pc[r] \in AttemptLabels \cup CycleLabels \cup {"summary"}
    BY DEF Working, Fetch, TakeNext, SkipProcessed, EndOfBatch, ReadContent, ClarifyRow,
       PostClarification, Compare, NoChangeRow, PostNoChange, Assess, SaveSnapshot, SaveRow,
       PostPart, MarkProcessed, CommitProcessed, PoisonRaises, CountFailure, MarkTerminal,
       CommitQuarantined, SaveSummary, AttemptRaises, CycleRaises, AttemptLabels,
       CycleLabels
  <1>4. \A l : Goto(r, l) => pc'[r] = l
    BY DEF TypeInv, TypeOK, RunnerTypeOK
  <1>5. pc'[r] \notin {"acquire", "delete"}
    <2>1. CASE NextFramework(r)
      <3>1. Goto(r, "compare") \/ Goto(r, "mark")
        BY <2>1 DEF NextFramework
      <3> HIDE DEF Goto
      <3> QED
        BY <1>4, <3>1
    <2>2. CASE pc' = pc
      BY <1>3, <2>2 DEF AttemptLabels, CycleLabels
    <2>3. CASE ~NextFramework(r) /\ pc' # pc
      <3> HIDE DEF Goto
      <3> QED
        BY <1>4, <2>3 DEF Working, Fetch, TakeNext, SkipProcessed, EndOfBatch, ReadContent,
           ClarifyRow, PostClarification, Compare, NoChangeRow, PostNoChange, Assess,
           SaveSnapshot, SaveRow, PostPart, MarkProcessed, CommitProcessed, PoisonRaises,
           CountFailure, MarkTerminal, CommitQuarantined, SaveSummary, AttemptRaises,
           CycleRaises, AfterFailure
    <2> QED
      BY <2>1, <2>2, <2>3
  <1> QED
    BY <1>1, <1>2, <1>3, <1>5 DEF AttemptLabels, CycleLabels

LEMMA LeaseInit == Init => LeaseInv
  BY DEF Init, LeaseInv, HoldsLock, Young, InCycle

\* A runner that stays where it is, when another leaves the lock alone.
LEMMA LockStays ==
  ASSUME NEW s \in Runner, HoldsLock(s), pc'[s] = pc[s], age'[s] = age[s], lease' = lease,
         s \in lockRead' => s \in lockRead
  PROVE  HoldsLock(s)'
  BY DEF HoldsLock, Young, InCycle

\* Nobody is young while the lock is free, and nobody but its owner.
LEMMA YoungOwns ==
  ASSUME TypeInv, NEW s \in Runner, HoldsLock(s), Young(s)
  PROVE  lease.owner = s /\ lease.left # 0
  <1>1. lease.owner = s /\ lease.left + age[s] = LeaseTTL /\ age[s] < LeaseTTL
    BY DEF HoldsLock, Young
  <1>2. age[s] \in Nat /\ lease.left \in Nat /\ LeaseTTL \in Nat
    BY DEF TypeInv, TypeOK, RunnerTypeOK, StoreTypeOK
  <1> QED
    BY <1>1, <1>2

LEMMA LeaseStep == ~AtomicLease /\ TypeInv /\ LeaseInv /\ [Next]_vars => LeaseInv'
  <1> SUFFICES ASSUME ~AtomicLease, TypeInv, LeaseInv, [Next]_vars, ~raced', NEW s \in Runner
               PROVE  HoldsLock(s)'
    BY DEF LeaseInv
  <1>1. \A l, q : q \in Runner /\ Goto(q, l) => pc'[q] = l
    BY DEF Goto, TypeInv, TypeOK, RunnerTypeOK
  <1>2. ASSUME NEW r \in Runner, Cycle(r) \/ Fault(r) \/ Restart(r), s # r
        PROVE  pc'[s] = pc[s] /\ age'[s] = age[s]
    BY <1>2, OneRunner
  <1>3. ASSUME NEW r \in Runner, Working(r) PROVE HoldsLock(s)'
    <2>1. UNCHANGED <<lease, age, lockRead, raced>> /\ InCycle(r) /\ pc'[r] \notin {"acquire", "delete"}
      BY <1>3, WorkingKeepsLease
    <2>2. HoldsLock(s)
      BY <2>1 DEF LeaseInv
    <2>3. CASE s = r
      BY <2>1, <2>2, <2>3 DEF HoldsLock, Young
    <2>4. CASE s # r
      BY <1>2, <1>3, <2>1, <2>2, <2>4, LockStays DEF Working, Cycle, Fault
    <2> QED
      BY <2>3, <2>4
  <1>4. ASSUME NEW r \in Runner, ReadLease(r) \/ ReadOwner(r) PROVE HoldsLock(s)'
    <2>1. PICK lost \in BOOLEAN :
            /\ LockIsRead(r, lost)
            /\ \/ pc' = [pc EXCEPT ![r] = "acquire"] /\ LeaseIsFree(lost)
               \/ pc' = [pc EXCEPT ![r] = "delete"] /\ LeaseIsMine(r, lost) /\ KeepHand /\ pc[r] = "release"
               \/ pc'[r] \in {"idle", "down"}
      BY <1>1, <1>4 DEF ReadLease, ReadOwner, EndCycle, Goto
    <2>2. lease' = lease /\ raced' = raced
      BY <1>4, <2>1 DEF ReadLease, ReadOwner, LockIsRead
    <2>3. HoldsLock(s)
      BY <2>2 DEF LeaseInv
    <2>4. CASE s # r
      <3>1. s \in lockRead' => s \in lockRead
        BY <2>1, <2>4 DEF LockIsRead
      <3> QED
        BY <1>2, <1>4, <2>2, <2>3, <2>4, <3>1, LockStays DEF Cycle
    <2>5. CASE s = r
      <3>1. lost => s \notin lockRead'
        BY <2>1, <2>5 DEF LockIsRead
      <3>2. CASE pc' = [pc EXCEPT ![r] = "acquire"] /\ LeaseIsFree(lost)
        <4>1. pc'[s] = "acquire"
          BY <2>5, <3>2 DEF TypeInv, TypeOK, RunnerTypeOK
        <4> QED
          BY <2>2, <3>1, <3>2, <4>1 DEF LeaseIsFree, HoldsLock, Young, InCycle
      <3>3. CASE pc' = [pc EXCEPT ![r] = "delete"] /\ LeaseIsMine(r, lost) /\ KeepHand /\ pc[r] = "release"
        <4>1. pc'[s] = "delete" /\ lease.owner = s /\ pc[s] = "release" /\ age' = age
          BY <2>5, <3>3 DEF LeaseIsMine, KeepHand, TypeInv, TypeOK, RunnerTypeOK
        <4> QED
          BY <2>2, <2>3, <4>1 DEF HoldsLock, Young, InCycle
      <3>4. CASE pc'[r] \in {"idle", "down"}
        BY <2>5, <3>4 DEF HoldsLock, Young, InCycle
      <3> QED
        BY <2>1, <3>2, <3>3, <3>4
    <2> QED
      BY <2>4, <2>5
  <1>5. ASSUME NEW r \in Runner, WriteLease(r) PROVE HoldsLock(s)'
    <2>1. /\ pc[r] = "acquire" /\ r \in lockRead /\ ~raced /\ lockRead' = {}
          /\ lease' = [owner |-> r, left |-> LeaseTTL]
      BY <1>5 DEF WriteLease, LockIsWritten, TakeLease
    <2>2. \A q \in Runner : HoldsLock(q)
      BY <2>1 DEF LeaseInv
    <2>3. lease.left = 0
      BY <2>1, <2>2 DEF HoldsLock
    <2>4. CASE s # r
      <3>1. ~Young(s)
        BY <2>2, <2>3, YoungOwns
      <3>2. ~Young(s)'
        BY <1>2, <1>5, <2>4, <3>1 DEF Cycle, Young, InCycle
      <3> QED
        BY <2>1, <3>2 DEF HoldsLock
    <2>5. CASE s = r
      <3>1. pc'[s] = "fetch" /\ age'[s] = 0
        BY <1>5, <2>5 DEF WriteLease, Goto, TypeInv, TypeOK, RunnerTypeOK
      <3>2. LeaseTTL + 0 = LeaseTTL
        OBVIOUS
      <3> QED
        BY <2>1, <2>5, <3>1, <3>2 DEF HoldsLock
    <2> QED
      BY <2>4, <2>5
  <1>6. ASSUME NEW r \in Runner, DeleteLock(r) PROVE HoldsLock(s)'
    <2>1. pc'[r] \in {"idle", "down"} /\ pc[r] = "delete"
      BY <1>1, <1>6 DEF DeleteLock, EndCycle
    <2>2. CASE s = r
      BY <2>1, <2>2 DEF HoldsLock, Young, InCycle
    <2>3. CASE s # r /\ UNCHANGED <<lease, raceVars>>
      <3>1. HoldsLock(s)
        BY <2>3 DEF LeaseInv, raceVars
      <3> QED
        BY <1>2, <1>6, <2>3, <3>1, LockStays DEF Cycle, raceVars
    <2>4. CASE s # r /\ DeleteLease /\ LockIsWritten(r)
      <3>1. r \in lockRead /\ ~raced /\ lockRead' = {}
        BY <2>4 DEF LockIsWritten
      <3>2. \A q \in Runner : HoldsLock(q)
        BY <3>1 DEF LeaseInv
      <3>3. lease.owner = r
        BY <2>1, <3>1, <3>2 DEF HoldsLock
      <3>4. ~Young(s)
        BY <2>4, <3>2, <3>3, YoungOwns
      <3>5. ~Young(s)'
        BY <1>2, <1>6, <2>4, <3>4 DEF Cycle, Young, InCycle
      <3> QED
        BY <3>1, <3>5 DEF HoldsLock
    <2> QED
      BY <1>6, <2>2, <2>3, <2>4 DEF DeleteLock
  <1>7. ASSUME NEW r \in Runner, Crash(r) \/ Restart(r) PROVE HoldsLock(s)'
    <2>1. pc'[r] \in {"idle", "down"} /\ UNCHANGED <<lease, raceVars>>
      BY <1>1, <1>7 DEF Crash, Restart, NothingOutside
    <2>2. HoldsLock(s)
      BY <2>1 DEF LeaseInv, raceVars
    <2>3. CASE s = r
      BY <2>1, <2>3 DEF HoldsLock, Young, InCycle
    <2>4. CASE s # r
      BY <1>2, <1>7, <2>1, <2>2, <2>4, LockStays DEF Fault, raceVars
    <2> QED
      BY <2>3, <2>4
  <1>8. CASE Tick
    <2>1. pc' = pc /\ age'[s] = (IF Young(s) THEN age[s] + 1 ELSE age[s]) /\ UNCHANGED raceVars
      BY <1>8 DEF Tick, Young
    <2>2. /\ lease'.owner = lease.owner
          /\ lease'.left = IF lease.left = 0 THEN 0 ELSE lease.left - 1
      BY <1>8 DEF Tick, LeaseAges
    <2>3. age[s] \in Nat /\ lease.left \in Nat /\ LeaseTTL \in Nat
      BY DEF TypeInv, TypeOK, RunnerTypeOK, StoreTypeOK
    <2>4. HoldsLock(s)
      BY <2>1 DEF LeaseInv, raceVars
    <2>5. CASE Young(s)
      <3>1. lease.owner = s /\ lease.left # 0 /\ lease.left + age[s] = LeaseTTL
        BY <2>4, <2>5, YoungOwns DEF HoldsLock
      <3>2. lease'.left + age'[s] = LeaseTTL
        <4>1. lease'.left = lease.left - 1 /\ age'[s] = age[s] + 1
          BY <2>1, <2>2, <2>5, <3>1
        <4>2. PICK l \in Nat, a \in Nat : l = lease.left /\ a = age[s] /\ l + a = LeaseTTL
          BY <2>3, <3>1
        <4>3. (l - 1) + (a + 1) = LeaseTTL
          BY <4>2
        <4> QED
          BY <4>1, <4>2, <4>3
      <3> QED
        BY <2>1, <2>2, <2>4, <3>1, <3>2 DEF HoldsLock, raceVars
    <2>6. CASE ~Young(s)
      BY <2>1, <2>2, <2>4, <2>6 DEF HoldsLock, Young, InCycle, raceVars
    <2> QED
      BY <2>5, <2>6
  <1>9. ASSUME Users \/ (\E e \in Event : MarkerExpires(e)) \/ UNCHANGED vars
        PROVE  HoldsLock(s)'
    BY <1>9 DEF Users, MarkerExpires, vars, storeVars, runVars, raceVars, LeaseInv, HoldsLock,
       Young, InCycle
  <1>10. \A r \in Runner : ~AcquireLease(r) /\ ~Release(r)
    BY DEF AcquireLease, Release
  <1> QED
    BY <1>3, <1>4, <1>5, <1>6, <1>7, <1>8, <1>9, <1>10 DEF Next, Cycle, Fault, Working

\* Two cycles younger than the lease are under way together only after a run
\* wrote or deleted the lock document on the word of a read that another write
\* had made stale, or of a failed read: cycles that outlive their lease,
\* crash, restart and release late do not bring it about, for any number of
\* processes (try_acquire_lease and the owner check of release_lease).
THEOREM OverlapsComeFromRaces == Spec => []OverlapNeedsRace
  <1>1. CASE AtomicLease
    <2>1. OverlapNeedsRace
      BY <1>1 DEF OverlapNeedsRace, SingleFlight
    <2> QED
      BY <2>1, PTL
  <1>2. CASE ~AtomicLease
    <2>1. TypeInv /\ LeaseInv /\ [Next]_vars => LeaseInv'
      BY <1>2, LeaseStep
    <2>2. LeaseInv => OverlapNeedsRace
      BY DEF LeaseInv, HoldsLock, OverlapNeedsRace, SingleFlight, Young
    <2> QED
      BY <2>1, <2>2, LeaseInit, TypeInvariant, PTL DEF Spec
  <1> QED
    BY <1>1, <1>2
=============================================================================
