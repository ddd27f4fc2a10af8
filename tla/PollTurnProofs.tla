--------------------------- MODULE PollTurnProofs ---------------------------
(***************************************************************************)
(* What the polling worker posts, and in which order it settles mentions.  *)
(*                                                                         *)
(* Answers precede markers, and no part of an assessment is posted twice:  *)
(* comments are never taken back, so what has been delivered stays         *)
(* delivered; a runner that is at framework fw has delivered the ones      *)
(* before it, one that is at part i has posted the parts before it, and    *)
(* one that has reached the marker has run through the list.               *)
(*                                                                         *)
(* Mentions in their turn, for one process and a store that tells a failed *)
(* read from a missing document: every mention that still has to be dealt  *)
(* with is in hand, in the batch or no older than what is in hand; so the  *)
(* watermark, which is moved to the time of the mention in hand, never     *)
(* passes it.  Together the two are the refinement of the mention desk.    *)
(***************************************************************************)
EXTENDS PollCycleProofs, FiniteSetTheorems

\* The parts of the current assessment posted before the next one.
PartsPosted(r, n) ==
  \A i \in 1 .. n : AssessmentComment(E(r), F(r), ver[r], text[r], i) \in comments

\* The frameworks before position n have been answered.
AnsweredBefore(r, n) == \A i \in 1 .. n - 1 : Delivered(E(r), Requested[E(r)][i])

\* How far the runner has got with the mention in hand.
HandAnswered(r) ==
  /\ pc[r] \in Assessing => AnsweredBefore(r, fw[r])
  /\ pc[r] = "post" => PartsPosted(r, part[r] - 1)
  /\ pc[r] = "mark" => Answered(E(r))

AnswerInv ==
  /\ \A e \in processed : Answered(e)
  /\ \A r \in Runner : HandAnswered(r)

-----------------------------------------------------------------------------
\* What an attempt has in hand.
LEMMA AttemptTypes ==
  ASSUME TypeInv, NEW r \in Runner, pc[r] \in Assessing
  PROVE  /\ E(r) \in Event /\ P(r) \in Page /\ F(r) \in Framework
         /\ ver[r] \in Nat /\ text[r] \in Nat /\ part[r] \in Nat
  <1>1. E(r) \in Event /\ P(r) \in Page /\ F(r) \in Framework
    BY FrameworkType
  <1>2. ver[r] \in 0 .. MaxVersion /\ text[r] \in 0 .. MaxVersion /\ part[r] \in 0 .. Parts
    BY DEF TypeInv, TypeOK, RunnerTypeOK
  <1>3. ver[r] \in Nat /\ text[r] \in Nat /\ part[r] \in Nat
    BY <1>2
  <1> QED
    BY <1>1, <1>3

\* No step takes a comment back.
LEMMA CommentsGrow == ASSUME Next PROVE comments \subseteq comments'
  <1>1. ASSUME NEW r \in Runner, Cycle(r) \/ Fault(r) \/ Restart(r)
        PROVE  comments \subseteq comments'
    <2>1. CASE PostClarification(r) \/ PostNoChange(r) \/ PostPart(r)
      BY <2>1 DEF PostClarification, PostNoChange, PostPart, PostComment
    <2>2. CASE ~(PostClarification(r) \/ PostNoChange(r) \/ PostPart(r))
      BY <1>1, <2>2 DEF Cycle, Fault, NothingOutside, siteVars, storeVars,
         AcquireLease, ReadLease, WriteLease, Fetch, TakeNext, SkipProcessed,
         EndOfBatch, ReadContent, ClarifyRow, Compare, NoChangeRow, Assess, SaveSnapshot,
         SaveRow, MarkProcessed, CommitProcessed, PoisonRaises, CountFailure, MarkTerminal,
         CommitQuarantined, SaveSummary, Ending, Release, ReadOwner, DeleteLock, EndCycle,
         AttemptRaises, CycleRaises, Crash, Restart
    <2> QED
      BY <2>1, <2>2
  <1>2. CASE Tick \/ Users \/ \E e \in Event : MarkerExpires(e)
    BY <1>2 DEF Tick, Users, MarkerExpires, siteVars, Publish, EditMention, EditPage
  <1> QED
    BY <1>1, <1>2 DEF Next

\* A marker is written by MarkProcessed and nowhere else.
LEMMA OnlyMarkProcessed ==
  ASSUME Next, NEW e \in processed' \ processed
  PROVE  \E r \in Runner : MarkProcessed(r)
  <1>1. ASSUME NEW r \in Runner, Cycle(r) \/ Fault(r) \/ Restart(r), ~MarkProcessed(r)
        PROVE  processed' = processed
    BY <1>1 DEF Cycle, Fault, NothingOutside, siteVars, storeVars,
         AcquireLease, ReadLease, WriteLease, Fetch, TakeNext, SkipProcessed, EndOfBatch,
         ReadContent, ClarifyRow, PostClarification, Compare, NoChangeRow, PostNoChange,
         Assess, SaveSnapshot, SaveRow, PostPart, CommitProcessed, PoisonRaises,
         CountFailure, MarkTerminal, CommitQuarantined, SaveSummary, Ending, Release,
         ReadOwner, DeleteLock, EndCycle, AttemptRaises, CycleRaises, Crash, Restart
  <1>2. CASE Tick \/ Users \/ \E x \in Event : MarkerExpires(x)
    BY <1>2 DEF Tick, Users, MarkerExpires, ExpireMarker, storeVars
  <1> QED
    BY <1>1, <1>2 DEF Next

LEMMA DeliveredStays ==
  ASSUME comments \subseteq comments', NEW e, NEW f, Delivered(e, f)
  PROVE  Delivered(e, f)'
  BY DEF Delivered

LEMMA AnsweredStays ==
  ASSUME comments \subseteq comments', NEW e, Answered(e)
  PROVE  Answered(e)'
  BY DeliveredStays DEF Answered

\* A runner that stays where it is stays as far.
LEMMA HandStays ==
  ASSUME comments \subseteq comments', NEW s \in Runner, HandAnswered(s),
         pc'[s] = pc[s], cur'[s] = cur[s], ver'[s] = ver[s], text'[s] = text[s],
         fw'[s] = fw[s], part'[s] = part[s]
  PROVE  HandAnswered(s)'
  <1>1. E(s)' = E(s) /\ F(s)' = F(s)
    BY DEF E, F
  <1>2. pc[s] \in Assessing => AnsweredBefore(s, fw[s])'
    BY <1>1, DeliveredStays DEF HandAnswered, AnsweredBefore
  <1>3. pc[s] = "post" => PartsPosted(s, part[s] - 1)'
    BY <1>1 DEF HandAnswered, PartsPosted, AssessmentComment
  <1>4. pc[s] = "mark" => Answered(E(s))'
    BY <1>1, AnsweredStays DEF HandAnswered
  <1> QED
    BY <1>1, <1>2, <1>3, <1>4 DEF HandAnswered, AnsweredBefore, PartsPosted

\* Once the framework in hand is answered the runner may go on to the next,
\* and after the last one the mention is answered.
LEMMA NextFrameworkAnswered ==
  ASSUME TypeInv, NEW r \in Runner, pc[r] \in Assessing, comments \subseteq comments',
         HandAnswered(r), NextFramework(r),
         NEW e \in Event, e = E(r), NEW f \in Framework, f = F(r), Delivered(e, f)'
  PROVE  HandAnswered(r)'
  <1> DEFINE n == Len(Requested[e])
  <1>1. n \in Nat /\ fw[r] \in 1 .. n
    BY FrameworkType, RequestedType
  <1>2. E(r)' = e /\ fw'[r] = fw[r] + 1
    BY DEF NextFramework, E, TypeInv, TypeOK, RunnerTypeOK
  <1>3. ASSUME NEW i \in 1 .. fw[r]
        PROVE  Delivered(e, Requested[e][i])'
    <2>1. CASE i = fw[r]
      BY <2>1 DEF F
    <2>2. CASE i # fw[r]
      <3>1. i \in 1 .. fw[r] - 1
        BY <1>1, <2>2
      <3>2. Delivered(e, Requested[e][i])
        BY <3>1 DEF HandAnswered, AnsweredBefore
      <3> QED
        BY <3>2, DeliveredStays
    <2> QED
      BY <2>1, <2>2
  <1>4. CASE fw[r] < n
    <2>1. pc'[r] = "compare"
      BY <1>4 DEF NextFramework, Goto, TypeInv, TypeOK, RunnerTypeOK
    <2>2. AnsweredBefore(r, fw[r])'
      BY <1>1, <1>2, <1>3 DEF AnsweredBefore
    <2> QED
      BY <2>1, <2>2 DEF HandAnswered
  <1>5. CASE ~(fw[r] < n)
    <2>1. pc'[r] = "mark"
      BY <1>5 DEF NextFramework, Goto, TypeInv, TypeOK, RunnerTypeOK
    <2>2. fw[r] = n /\ Requested[e] # << >>
      BY <1>1, <1>5
    <2>3. Answered(E(r))'
      BY <1>2, <1>3, <2>2 DEF Answered
    <2> QED
      BY <2>1, <2>3 DEF HandAnswered, Assessing
  <1> QED
    BY <1>4, <1>5

\* The comments a step posts deliver what it is at.
LEMMA NoChangeDelivers ==
  ASSUME NEW e \in Event, NEW f \in Framework, NEW v \in Nat,
         PostComment(NoChangeComment(e, f, v))
  PROVE  Delivered(e, f)'
  BY DEF PostComment, NoChangeComment, Delivered

LEMMA LastPartDelivers ==
  ASSUME NEW e \in Event, NEW f \in Framework, NEW v \in 1 .. MaxVersion,
         NEW w \in 1 .. MaxVersion,
         \A i \in 1 .. Parts - 1 : AssessmentComment(e, f, v, w, i) \in comments,
         PostComment(AssessmentComment(e, f, v, w, Parts))
  PROVE  Delivered(e, f)'
  <1>1. ASSUME NEW i \in 1 .. Parts PROVE AssessmentComment(e, f, v, w, i) \in comments'
    <2>1. CASE i = Parts
      BY <2>1 DEF PostComment
    <2>2. CASE i # Parts
      <3>1. i \in 1 .. Parts - 1
        BY <2>2, SiteAssumption
      <3> QED
        BY <3>1 DEF PostComment
    <2> QED
      BY <2>1, <2>2
  <1>2. ASSUME NEW i \in 1 .. Parts
        PROVE  \E c \in comments' : /\ c.kind = "assessment" /\ c.event = e
                                    /\ c.framework = f /\ c.version = v /\ c.content = w
                                    /\ c.part = i
    <2>1. AssessmentComment(e, f, v, w, i) \in comments'
      BY <1>1, <1>2
    <2> WITNESS AssessmentComment(e, f, v, w, i) \in comments'
    <2> QED
      BY DEF AssessmentComment
  <1> QED
    BY <1>2 DEF Delivered

LEMMA HandAnsweredStep ==
  ASSUME ~DryRun, TypeInv, AnswerInv, NEW r \in Runner, Cycle(r) \/ Fault(r) \/ Restart(r),
         comments \subseteq comments'
  PROVE  HandAnswered(r)'
  <1>1. \A l : Goto(r, l) => pc'[r] = l
    BY DEF Goto, TypeInv, TypeOK, RunnerTypeOK
  <1>2. HandAnswered(r)
    BY DEF AnswerInv
  <1>3. ASSUME pc'[r] \notin Assessing \cup {"mark"} PROVE HandAnswered(r)'
    BY <1>3 DEF HandAnswered, Assessing
  <1>4. ASSUME pc[r] \in Assessing, pc'[r] \in Assessing \ {"post"}, UNCHANGED <<cur, fw>>
        PROVE  HandAnswered(r)'
    <2>1. E(r)' = E(r) /\ fw'[r] = fw[r]
      BY <1>4 DEF E
    <2>2. AnsweredBefore(r, fw[r])'
      BY <1>2, <1>4, <2>1, DeliveredStays DEF HandAnswered, AnsweredBefore
    <2> QED
      BY <1>4, <2>2 DEF HandAnswered, Assessing
  <1>5. CASE \/ AcquireLease(r) \/ ReadLease(r) \/ WriteLease(r) \/ Fetch(r) \/ TakeNext(r)
             \/ SkipProcessed(r) \/ EndOfBatch(r) \/ ClarifyRow(r) \/ MarkProcessed(r)
             \/ CommitProcessed(r) \/ PoisonRaises(r) \/ CountFailure(r) \/ MarkTerminal(r)
             \/ CommitQuarantined(r) \/ SaveSummary(r) \/ Ending(r) \/ Fault(r)
             \/ Restart(r)
    <2>1. pc'[r] \notin Assessing \cup {"mark"}
      BY <1>1, <1>5 DEF AcquireLease, ReadLease, WriteLease, Fetch, TakeNext, SkipProcessed,
         EndOfBatch, ClarifyRow, MarkProcessed, CommitProcessed, PoisonRaises, CountFailure,
         MarkTerminal, CommitQuarantined, SaveSummary, Ending, Release, ReadOwner, DeleteLock,
         EndCycle, Fault, AttemptRaises, CycleRaises, Crash, Restart, AfterFailure, Assessing
    <2> QED
      BY <1>3, <2>1
  <1>6. CASE ReadContent(r)
    <2>1. CASE pc'[r] = "compare"
      <3>1. fw'[r] = 1
        BY <1>6 DEF ReadContent, TypeInv, TypeOK, RunnerTypeOK
      <3> QED
        BY <2>1, <3>1 DEF HandAnswered, AnsweredBefore
    <2>2. CASE pc'[r] # "compare"
      <3>1. pc'[r] = "clarifyRow"
        BY <1>1, <1>6, <2>2 DEF ReadContent
      <3> QED
        BY <1>3, <3>1 DEF Assessing
    <2> QED
      BY <2>1, <2>2
  <1>7. CASE PostClarification(r)
    <2>1. pc[r] = "clarifyPost" /\ pc'[r] = "mark" /\ KeepHand
      BY <1>1, <1>7 DEF PostClarification
    <2>2. Requested[E(r)] = << >> /\ E(r)' = E(r)
      BY <2>1 DEF TypeInv, HandOK, KeepHand, E
    <2>3. ClarificationComment(E(r)) \in comments'
      BY <1>7 DEF PostClarification, PostComment
    <2>4. Answered(E(r))'
      BY <2>2, <2>3 DEF Answered, ClarificationComment
    <2> QED
      BY <2>1, <2>4 DEF HandAnswered, Assessing
  <1>8. CASE Compare(r) \/ Assess(r) \/ NoChangeRow(r) \/ SaveSnapshot(r)
    <2>1. /\ UNCHANGED <<cur, fw>>
          /\ pc'[r] \in {"noChangeRow", "assess", "snapshot", "noChangePost", "row"}
      BY <1>1, <1>8 DEF Compare, Assess, NoChangeRow, SaveSnapshot, KeepHand
    <2>2. pc[r] \in Assessing
      BY <1>8 DEF Compare, Assess, NoChangeRow, SaveSnapshot, Assessing
    <2> QED
      BY <1>4, <2>1, <2>2 DEF Assessing
  <1>9. CASE PostNoChange(r)
    <2>1. pc[r] \in Assessing
      BY <1>9 DEF PostNoChange, Assessing
    <2>2. E(r) \in Event /\ F(r) \in Framework /\ ver[r] \in Nat
      BY <2>1, AttemptTypes
    <2>3. PICK e \in Event, f \in Framework, v \in Nat : e = E(r) /\ f = F(r) /\ v = ver[r]
      BY <2>2
    <2>4. Delivered(e, f)'
      BY <1>9, <2>3, NoChangeDelivers DEF PostNoChange
    <2> QED
      BY <1>2, <1>9, <2>1, <2>3, <2>4, NextFrameworkAnswered DEF PostNoChange
  <1>10. CASE SaveRow(r)
    <2>1. pc'[r] = "post" /\ part'[r] = 1 /\ UNCHANGED <<cur, ver, fw>>
      BY <1>1, <1>10 DEF SaveRow, TypeInv, TypeOK, RunnerTypeOK
    <2>2. AnsweredBefore(r, fw[r])'
      BY <1>2, <1>10, <2>1, DeliveredStays DEF SaveRow, HandAnswered, Assessing, AnsweredBefore, E
    <2>3. PartsPosted(r, part[r] - 1)'
      BY <2>1 DEF PartsPosted
    <2> QED
      BY <2>1, <2>2, <2>3 DEF HandAnswered
  <1>11. CASE PostPart(r)
    <2>1. pc[r] \in Assessing /\ pc[r] = "post"
      BY <1>11 DEF PostPart, Assessing
    <2>2. /\ E(r) \in Event /\ F(r) \in Framework /\ ver[r] \in 1 .. MaxVersion
          /\ text[r] \in 1 .. MaxVersion /\ part[r] \in 1 .. Parts
      BY <2>1, FrameworkType DEF TypeInv, HandOK
    <2>3. PICK e \in Event, f \in Framework, v \in 1 .. MaxVersion, w \in 1 .. MaxVersion :
             e = E(r) /\ f = F(r) /\ v = ver[r] /\ w = text[r]
      BY <2>2
    <2>4. \A i \in 1 .. part[r] - 1 : AssessmentComment(e, f, v, w, i) \in comments
      BY <1>2, <2>1, <2>3 DEF HandAnswered, PartsPosted
    <2>5. PostComment(AssessmentComment(e, f, v, w, part[r]))
      BY <1>11, <2>3 DEF PostPart
    <2>6. CASE part[r] < Parts
      <3>1. part'[r] = part[r] + 1 /\ UNCHANGED <<pc, cur, ver, text, fw>>
        BY <1>11, <2>6 DEF PostPart, TypeInv, TypeOK, RunnerTypeOK
      <3>2. E(r)' = e /\ F(r)' = f /\ ver'[r] = v /\ text'[r] = w
        BY <2>3, <3>1 DEF E, F
      <3>3. ASSUME NEW i \in 1 .. part[r] PROVE AssessmentComment(e, f, v, w, i) \in comments'
        <4>1. i = part[r] \/ i \in 1 .. part[r] - 1
          BY <2>2
        <4> QED
          BY <2>4, <2>5, <4>1 DEF PostComment
      <3>4. PartsPosted(r, part[r] - 1)'
        BY <2>2, <3>1, <3>2, <3>3 DEF PartsPosted, AssessmentComment
      <3>5. AnsweredBefore(r, fw[r])'
        BY <1>2, <2>1, <3>1, DeliveredStays DEF HandAnswered, AnsweredBefore, E
      <3> QED
        BY <2>1, <3>1, <3>4, <3>5 DEF HandAnswered
    <2>7. CASE ~(part[r] < Parts)
      <3>1. part[r] = Parts
        BY <2>2, <2>7, SiteAssumption
      <3>2. Delivered(e, f)'
        BY <2>4, <2>5, <3>1, LastPartDelivers
      <3> QED
        BY <1>2, <1>11, <2>1, <2>3, <2>7, <3>2, NextFrameworkAnswered DEF PostPart
    <2> QED
      BY <2>6, <2>7
  <1> QED
    BY <1>5, <1>6, <1>7, <1>8, <1>9, <1>10, <1>11 DEF Cycle, Ending

LEMMA AnswerInit == Init => AnswerInv
  BY DEF Init, StoreInit, AnswerInv, HandAnswered, Assessing

LEMMA AnswerStep == ~DryRun /\ TypeInv /\ AnswerInv /\ [Next]_vars => AnswerInv'
  <1> SUFFICES ASSUME ~DryRun, TypeInv, AnswerInv, [Next]_vars PROVE AnswerInv'
    OBVIOUS
  <1>1. CASE Next
    <2>1. comments \subseteq comments'
      BY <1>1, CommentsGrow
    <2>2. ASSUME NEW s \in Runner PROVE HandAnswered(s)'
      <3>1. CASE Cycle(s) \/ Fault(s) \/ Restart(s)
        BY <2>1, <3>1, HandAnsweredStep
      <3>2. CASE ~(Cycle(s) \/ Fault(s) \/ Restart(s))
        <4>1. /\ pc'[s] = pc[s] /\ cur'[s] = cur[s] /\ ver'[s] = ver[s]
              /\ text'[s] = text[s] /\ fw'[s] = fw[s] /\ part'[s] = part[s]
          <5>1. ASSUME NEW r \in Runner \ {s}, Cycle(r) \/ Fault(r) \/ Restart(r)
                PROVE  /\ pc'[s] = pc[s] /\ cur'[s] = cur[s] /\ ver'[s] = ver[s]
                       /\ text'[s] = text[s] /\ fw'[s] = fw[s] /\ part'[s] = part[s]
            BY <5>1, OneRunner
          <5>2. CASE Tick \/ (\E e \in Event : MarkerExpires(e)) \/ Users
            BY <5>2 DEF Tick, MarkerExpires, Users, runVars
          <5> QED
            BY <1>1, <3>2, <5>1, <5>2 DEF Next
        <4> QED
          BY <2>1, <4>1, HandStays DEF AnswerInv
      <3> QED
        BY <3>1, <3>2
    <2>3. ASSUME NEW e \in processed' PROVE Answered(e)'
      <3>1. CASE e \in processed
        BY <2>1, <3>1, AnsweredStays DEF AnswerInv
      <3>2. CASE e \notin processed
        <4>1. PICK r \in Runner : MarkProcessed(r)
          BY <1>1, <2>3, <3>2, OnlyMarkProcessed
        <4>2. e = E(r) /\ pc[r] = "mark"
          BY <2>3, <3>2, <4>1 DEF MarkProcessed, MarkProcessedEvent
        <4> QED
          BY <2>1, <4>2, AnsweredStays DEF AnswerInv, HandAnswered
      <3> QED
        BY <3>1, <3>2
    <2> QED
      BY <2>2, <2>3 DEF AnswerInv
  <1>2. CASE UNCHANGED vars
    <2>1. comments \subseteq comments' /\ processed' = processed
      BY <1>2 DEF vars, storeVars, siteVars
    <2>2. ASSUME NEW s \in Runner PROVE HandAnswered(s)'
      BY <1>2, <2>1, HandStays DEF vars, runVars, AnswerInv
    <2> QED
      BY <2>1, <2>2, AnsweredStays DEF AnswerInv
  <1> QED
    BY <1>1, <1>2

\* A processed marker, which keeps the poller from ever looking at a mention
\* again, is written only after every comment that answers it is posted: for
\* any number of processes, overlapping cycles, crashes, failed calls, pages,
\* frameworks and comment parts, on every store.
THEOREM AnswersPrecedeMarkers == Spec => []ProcessedImpliesAnswered
  <1>1. CASE DryRun
    <2>1. ProcessedImpliesAnswered
      BY <1>1 DEF ProcessedImpliesAnswered
    <2> QED
      BY <2>1, PTL
  <1>2. CASE ~DryRun
    <2>1. Init => AnswerInv
      BY AnswerInit
    <2>2. TypeInv /\ AnswerInv /\ [Next]_vars => AnswerInv'
      BY <1>2, AnswerStep
    <2>3. AnswerInv => ProcessedImpliesAnswered
      BY DEF AnswerInv, ProcessedImpliesAnswered
    <2> QED
      BY <2>1, <2>2, <2>3, TypeInvariant, PTL DEF Spec
  <1> QED
    BY <1>1, <1>2
-----------------------------------------------------------------------------
(* No assessment part is posted twice under one version, for one process   *)
(* and a store that tells a failed read from a missing document.  The      *)
(* snapshot of a page bounds the versions of the assessments posted for    *)
(* it; it is raised to the version in hand before the first part of that   *)
(* version is posted, and the parts then go out in order.  The page is     *)
(* read again after its version was, so no text is older than its stamp.   *)

\* One poller process, and reads that do not fail silently.
OneProcess == \A r, s \in Runner : r = s

Snap(r, f) == snapshot[<<P(r), f>>]

IsAssessmentOf(c, p, f, v) ==
  c.kind = "assessment" /\ PageOf[c.event] = p /\ c.framework = f /\ c.version = v

\* No part of an assessment is there twice under one version.
OnePerVersion ==
  \A c \in comments : c.kind = "assessment" =>
    /\ c \notin reposted
    /\ c.version <= c.content
    /\ \A d \in comments \ {c} :
         /\ d.kind = "assessment" /\ d.framework = c.framework
         /\ PageOf[d.event] = PageOf[c.event] /\ d.part = c.part
         => d.version # c.version

SnapshotsKnown ==
  /\ \A p \in Page, f \in Framework : snapshot[<<p, f>>] <= pageVersion[p]
  /\ \A c \in comments, p \in Page, f \in Framework, v \in Nat :
       IsAssessmentOf(c, p, f, v) => v <= snapshot[<<p, f>>]

HandOnce(r) ==
  /\ pc[r] \in Assessing => /\ ver[r] <= pageVersion[P(r)]
                            /\ \A f \in Framework : Snap(r, f) <= ver[r]
  /\ pc[r] \in {"assess", "snapshot"} => Snap(r, F(r)) < ver[r]
  /\ pc[r] \in {"row", "post"} => Snap(r, F(r)) = ver[r]
  /\ pc[r] = "row" => \A c \in comments : ~IsAssessmentOf(c, P(r), F(r), ver[r])
  /\ pc[r] = "post" => \A c \in comments :
                         IsAssessmentOf(c, P(r), F(r), ver[r]) => c.part < part[r]
  /\ pc[r] \in {"snapshot", "row", "post"} => ver[r] <= text[r]

OnceInv == OnePerVersion /\ SnapshotsKnown /\ \A r \in Runner : HandOnce(r)

-----------------------------------------------------------------------------
LEMMA OnceInit == Init => OnceInv
  BY SiteAssumption DEF Init, StoreInit, SiteInit, OnceInv, OnePerVersion, SnapshotsKnown, HandOnce, Assessing

\* A step that posts nothing, leaves the snapshots and can only raise page
\* versions keeps all of it but the place of the runner.
LEMMA QuietStep ==
  ASSUME TypeInv, TypeInv', OnceInv, comments' = comments, reposted' = reposted,
         snapshot' = snapshot, \A p \in Page : pageVersion[p] <= pageVersion'[p]
  PROVE  OnePerVersion' /\ SnapshotsKnown'
  <1>1. OnePerVersion'
    BY DEF OnceInv, OnePerVersion
  <1>2. ASSUME NEW p \in Page, NEW f \in Framework
        PROVE  snapshot'[<<p, f>>] <= pageVersion'[p]
    <2>1. /\ snapshot[<<p, f>>] \in Nat /\ pageVersion[p] \in Nat /\ pageVersion'[p] \in Nat
      BY SiteAssumption DEF TypeInv, TypeOK, StoreTypeOK, SiteTypeOK
    <2>2. snapshot[<<p, f>>] <= pageVersion[p]
      BY DEF OnceInv, SnapshotsKnown
    <2> QED
      BY <2>1, <2>2
  <1> QED
    BY <1>1, <1>2 DEF OnceInv, SnapshotsKnown, IsAssessmentOf

\* Where the runner stays at the framework in hand.
LEMMA QuietHand ==
  ASSUME TypeInv, TypeInv', OnceInv, comments' = comments, snapshot' = snapshot,
         \A p \in Page : pageVersion[p] <= pageVersion'[p],
         NEW r \in Runner, pc[r] \in Assessing, UNCHANGED <<cur, ver>>
  PROVE  /\ ver'[r] <= pageVersion'[P(r)']
         /\ \A f \in Framework : Snap(r, f)' <= ver'[r]
  <1>1. P(r) \in Page /\ P(r)' = P(r)
    BY FrameworkType DEF P, E
  <1>2. ver[r] <= pageVersion[P(r)] /\ pageVersion[P(r)] <= pageVersion'[P(r)]
    BY <1>1 DEF OnceInv, HandOnce
  <1>3. /\ ver[r] \in Nat /\ pageVersion[P(r)] \in Nat /\ pageVersion'[P(r)] \in Nat
    BY <1>1, SiteAssumption DEF TypeInv, TypeOK, SiteTypeOK, RunnerTypeOK
  <1>4. \A f \in Framework : Snap(r, f) <= ver[r]
    BY DEF OnceInv, HandOnce
  <1> QED
    BY <1>1, <1>2, <1>3, <1>4 DEF Snap

\* Steps of the runner that touch neither comments, snapshots nor pages.
Quiet(r) ==
  \/ AcquireLease(r) \/ ReadLease(r) \/ WriteLease(r) \/ Fetch(r) \/ TakeNext(r)
  \/ SkipProcessed(r) \/ EndOfBatch(r) \/ ReadContent(r) \/ ClarifyRow(r) \/ Compare(r)
  \/ NoChangeRow(r) \/ Assess(r) \/ SaveRow(r) \/ MarkProcessed(r) \/ CommitProcessed(r)
  \/ PoisonRaises(r) \/ CountFailure(r) \/ MarkTerminal(r) \/ CommitQuarantined(r)
  \/ SaveSummary(r) \/ Ending(r) \/ Fault(r) \/ Restart(r)

LEMMA QuietFrame ==
  ASSUME NEW r \in Runner, Quiet(r)
  PROVE  /\ comments' = comments /\ reposted' = reposted /\ snapshot' = snapshot
         /\ pageVersion' = pageVersion
  BY DEF Quiet, NothingOutside, siteVars, AcquireLease, ReadLease, WriteLease, Fetch,
     TakeNext, SkipProcessed, EndOfBatch, ReadContent, ClarifyRow, Compare, NoChangeRow,
     Assess, SaveRow, MarkProcessed, CommitProcessed, PoisonRaises, CountFailure,
     MarkTerminal, CommitQuarantined, SaveSummary, Ending, Release, ReadOwner, DeleteLock,
     Fault, AttemptRaises, CycleRaises, Crash, Restart

LEMMA QuietOnce ==
  ASSUME ~SwallowReads, TypeInv, TypeInv', OnceInv, NEW r \in Runner, Quiet(r)
  PROVE  HandOnce(r)'
  <1>1. \A l : Goto(r, l) => pc'[r] = l
    BY DEF Goto, TypeInv, TypeOK, RunnerTypeOK
  <1>2. /\ comments' = comments /\ reposted' = reposted /\ snapshot' = snapshot
        /\ pageVersion' = pageVersion
    BY QuietFrame
  <1>3. \A p \in Page : pageVersion[p] \in Nat /\ pageVersion[p] <= pageVersion'[p]
    BY <1>2, SiteAssumption DEF TypeInv, TypeOK, SiteTypeOK
  <1>4. ASSUME pc[r] \in Assessing, UNCHANGED <<cur, ver>>
        PROVE  /\ ver'[r] <= pageVersion'[P(r)']
               /\ \A f \in Framework : Snap(r, f)' <= ver'[r]
    BY <1>2, <1>3, <1>4, QuietHand
  <1>5. CASE pc'[r] \notin Assessing
    BY <1>5 DEF HandOnce, Assessing
  <1>6. CASE ReadContent(r) /\ pc'[r] = "compare"
    <2>1. cur' = cur /\ ver'[r] = pageVersion[P(r)] /\ pc[r] \in Holding
      BY <1>6 DEF ReadContent, Holding, AttemptLabels, TypeInv, TypeOK, RunnerTypeOK
    <2>2. P(r)' = P(r) /\ P(r) \in Page
      BY <2>1, HandType DEF P, E
    <2>3. \A f \in Framework : Snap(r, f)' <= ver'[r]
      BY <1>2, <2>1, <2>2 DEF Snap, OnceInv, SnapshotsKnown
    <2>4. ver'[r] <= pageVersion'[P(r)']
      BY <1>2, <1>3, <2>1, <2>2
    <2> QED
      BY <1>6, <2>3, <2>4 DEF HandOnce
  <1>7. CASE NextFramework(r) /\ pc[r] \in Assessing /\ pc'[r] \in Assessing
    <2>1. pc'[r] = "compare" /\ UNCHANGED <<cur, ver>>
      BY <1>1, <1>7 DEF NextFramework, Assessing
    <2> QED
      BY <1>4, <1>7, <2>1 DEF HandOnce
  <1>8. CASE Compare(r) /\ ~NextFramework(r)
    <2>1. pc[r] \in Assessing /\ KeepHand
      BY <1>8 DEF Compare, Assessing
    <2>3. pc'[r] \in {"noChangeRow", "assess"}
      BY <1>1, <1>8 DEF Compare
    <2>4. pc'[r] = "assess" => Snap(r, F(r)) # ver[r]
      BY <1>1, <1>8 DEF Compare, ReadAnswers, LastSnapshot, Snap
    <2>5. P(r)' = P(r) /\ F(r)' = F(r) /\ ver' = ver
      BY <2>1 DEF KeepHand, P, E, F
    <2>6. /\ F(r) \in Framework /\ ver[r] \in Nat /\ <<P(r), F(r)>> \in Page \X Framework
      BY <2>1, AttemptTypes
    <2>7. Snap(r, F(r)) <= ver[r] /\ Snap(r, F(r)) \in Nat
      BY <2>1, <2>6 DEF OnceInv, HandOnce, Snap, TypeInv, TypeOK, StoreTypeOK
    <2>8. pc'[r] = "assess" => Snap(r, F(r))' < ver'[r]
      BY <1>2, <2>4, <2>5, <2>6, <2>7 DEF Snap
    <2>9. UNCHANGED <<cur, ver>>
      BY <2>1 DEF KeepHand
    <2> QED
      BY <1>4, <2>1, <2>3, <2>8, <2>9 DEF HandOnce
  <1>9. CASE (NoChangeRow(r) \/ Assess(r) \/ SaveRow(r)) /\ ~NextFramework(r)
    <2>1. /\ pc[r] \in Assessing /\ UNCHANGED <<cur, ver, fw>>
      BY <1>9 DEF NoChangeRow, Assess, SaveRow, KeepHand, Assessing
    <2>2. P(r)' = P(r) /\ F(r)' = F(r) /\ ver' = ver
      BY <2>1 DEF P, E, F
    <2>3. \/ pc[r] = "noChangeRow" /\ pc'[r] = "noChangePost"
          \/ pc[r] = "assess" /\ pc'[r] = "snapshot"
          \/ pc[r] = "row" /\ pc'[r] = "post"
      BY <1>1, <1>9 DEF NoChangeRow, Assess, SaveRow
    <2>4. pc'[r] \in {"snapshot", "row", "post"} => ver[r] <= text'[r]
      <3>1. ASSUME Assess(r) PROVE text'[r] = pageVersion[P(r)] /\ ver[r] <= pageVersion[P(r)]
        BY <1>9, <2>1, <3>1 DEF Assess, OnceInv, HandOnce, TypeInv, TypeOK, RunnerTypeOK
      <3>2. ASSUME SaveRow(r) PROVE text' = text /\ ver[r] <= text[r]
        BY <3>2 DEF SaveRow, OnceInv, HandOnce
      <3>3. NoChangeRow(r) => pc'[r] = "noChangePost"
        BY <1>1 DEF NoChangeRow
      <3> QED
        BY <1>9, <3>1, <3>2, <3>3
    <2> QED
      BY <1>2, <1>4, <2>1, <2>2, <2>3, <2>4 DEF OnceInv, HandOnce, Snap, IsAssessmentOf
  <1>10. Ending(r) => pc'[r] \notin Assessing
    BY <1>1 DEF Ending, Release, ReadOwner, DeleteLock, EndCycle, Assessing
  <1>11. pc'[r] \in Assessing =>
           \/ ReadContent(r) /\ pc'[r] = "compare"
           \/ NextFramework(r) /\ pc[r] \in Assessing
           \/ Compare(r) /\ ~NextFramework(r)
           \/ (NoChangeRow(r) \/ Assess(r) \/ SaveRow(r)) /\ ~NextFramework(r)
    BY <1>1, <1>10 DEF Quiet, AcquireLease, ReadLease, WriteLease, Fetch, TakeNext, SkipProcessed,
       EndOfBatch, ReadContent, ClarifyRow, Compare, NoChangeRow, Assess, SaveRow,
       MarkProcessed, CommitProcessed, PoisonRaises, CountFailure, MarkTerminal,
       CommitQuarantined, SaveSummary, Fault, AttemptRaises, CycleRaises, Crash, Restart,
       AfterFailure, Assessing
  <1> QED
    BY <1>5, <1>6, <1>7, <1>8, <1>9, <1>11

LEMMA SnapshotOnce ==
  ASSUME TypeInv, TypeInv', OnceInv, NEW r \in Runner, SaveSnapshot(r)
  PROVE  OnePerVersion' /\ SnapshotsKnown' /\ HandOnce(r)'
  <1>1. pc[r] = "snapshot" /\ pc[r] \in Assessing /\ pc'[r] = "row" /\ KeepHand
    BY DEF SaveSnapshot, Goto, Assessing, TypeInv, TypeOK, RunnerTypeOK
  <1>2. comments' = comments /\ reposted' = reposted /\ pageVersion' = pageVersion
    BY DEF SaveSnapshot, siteVars
  <1>3. PICK p \in Page, g \in Framework, v \in Nat : p = P(r) /\ g = F(r) /\ v = ver[r]
    BY <1>1, AttemptTypes
  <1>4. P(r)' = p /\ F(r)' = g /\ ver'[r] = v
    BY <1>1, <1>3 DEF KeepHand, P, E, F
  <1>5. snapshot' = [snapshot EXCEPT ![<<p, g>>] = v]
    BY <1>3 DEF SaveSnapshot, UpsertSnapshot
  <1>6. snapshot \in [Page \X Framework -> Nat]
    BY DEF TypeInv, TypeOK, StoreTypeOK
  <1>7. snapshot[<<p, g>>] < v /\ v <= pageVersion[p] /\ \A f \in Framework : snapshot[<<p, f>>] <= v
    BY <1>1, <1>3 DEF OnceInv, HandOnce, Snap
  <1>8. ASSUME NEW q \in Page, NEW f \in Framework
        PROVE  /\ snapshot[<<q, f>>] <= snapshot'[<<q, f>>]
               /\ snapshot'[<<q, f>>] \in {snapshot[<<q, f>>], v}
               /\ snapshot'[<<q, f>>] <= pageVersion[q]
    <2>1. CASE q = p /\ f = g
      BY <1>5, <1>6, <1>7, <2>1
    <2>2. CASE ~(q = p /\ f = g)
      <3>1. snapshot'[<<q, f>>] = snapshot[<<q, f>>] /\ snapshot[<<q, f>>] \in Nat
        BY <1>5, <1>6, <2>2
      <3> QED
        BY <3>1 DEF OnceInv, SnapshotsKnown
    <2> QED
      BY <2>1, <2>2
  <1>9. SnapshotsKnown'
    <2>1. ASSUME NEW c \in comments, NEW q \in Page, NEW f \in Framework, NEW w \in Nat,
                 IsAssessmentOf(c, q, f, w)
          PROVE  w <= snapshot'[<<q, f>>]
      <3>1. w <= snapshot[<<q, f>>]
        BY <2>1 DEF OnceInv, SnapshotsKnown
      <3>2. snapshot[<<q, f>>] \in Nat /\ snapshot'[<<q, f>>] \in Nat
        BY <1>6, <1>8
      <3> QED
        BY <1>8, <3>1, <3>2
    <2> QED
      BY <1>2, <1>8, <2>1 DEF SnapshotsKnown, IsAssessmentOf
  <1>10. ASSUME NEW c \in comments PROVE ~IsAssessmentOf(c, p, g, v)
    BY <1>6, <1>7 DEF OnceInv, SnapshotsKnown
  <1>11. HandOnce(r)'
    <2>1. \A f \in Framework : Snap(r, f)' <= v
      BY <1>4, <1>5, <1>6, <1>7 DEF Snap
    <2>2. Snap(r, g)' = v
      BY <1>4, <1>5, <1>6 DEF Snap
    <2>3. \A c \in comments' : ~IsAssessmentOf(c, p, g, v)'
      BY <1>2, <1>10 DEF IsAssessmentOf
    <2>4. v <= text'[r]
      BY <1>1, <1>3 DEF KeepHand, OnceInv, HandOnce
    <2> QED
      BY <1>1, <1>2, <1>4, <1>7, <2>1, <2>2, <2>3, <2>4 DEF HandOnce, IsAssessmentOf, Snap
  <1> QED
    BY <1>2, <1>9, <1>11 DEF OnceInv, OnePerVersion

\* Posting something that is no assessment.
LEMMA OtherPostOnce ==
  ASSUME TypeInv, TypeInv', OnceInv, NEW x \in Comment, x.kind # "assessment",
         PostComment(x), snapshot' = snapshot, pageVersion' = pageVersion
  PROVE  OnePerVersion' /\ SnapshotsKnown'
  <1>1. \A c \in comments' : c.kind = "assessment" => c \in comments
    BY DEF PostComment
  <1>2. \A c \in comments : c.kind = "assessment" /\ c \notin reposted => c \notin reposted'
    BY DEF PostComment
  <1>3. OnePerVersion'
    BY <1>1, <1>2 DEF OnceInv, OnePerVersion
  <1>4. SnapshotsKnown'
    BY <1>1 DEF OnceInv, SnapshotsKnown, IsAssessmentOf
  <1> QED
    BY <1>3, <1>4

\* Posting a part that is not there, of a version that is the snapshot's.
LEMMA PartOnce ==
  ASSUME TypeInv, OnceInv, NEW e \in Event, NEW f \in Framework, NEW v \in Nat, NEW i \in Nat,
         NEW w \in Nat, v <= w,
         PostComment(AssessmentComment(e, f, v, w, i)),
         snapshot[<<PageOf[e], f>>] = v, snapshot' = snapshot, pageVersion' = pageVersion,
         \A c \in comments : IsAssessmentOf(c, PageOf[e], f, v) => c.part < i
  PROVE  OnePerVersion' /\ SnapshotsKnown'
  <1> DEFINE x == AssessmentComment(e, f, v, w, i)
  <1>1. /\ x.kind = "assessment" /\ x.event = e /\ x.framework = f /\ x.version = v /\ x.part = i
        /\ x.content = w
    BY DEF AssessmentComment
  <1>2. \A c \in comments : ~(IsAssessmentOf(c, PageOf[e], f, v) /\ c.part = i)
    OBVIOUS
  <1>3. x \notin comments
    BY <1>1, <1>2 DEF IsAssessmentOf
  <1>4. comments' = comments \cup {x} /\ reposted' = reposted
    BY <1>3 DEF PostComment
  <1>5. x \notin reposted
    BY <1>3 DEF TypeInv, TypeOK, SiteTypeOK
  <1> HIDE DEF x
  <1>6. OnePerVersion'
    BY <1>1, <1>2, <1>4, <1>5 DEF OnceInv, OnePerVersion, IsAssessmentOf
  <1>7. SnapshotsKnown'
    BY <1>1, <1>4 DEF OnceInv, SnapshotsKnown, IsAssessmentOf
  <1> QED
    BY <1>6, <1>7

LEMMA PostOnce ==
  ASSUME TypeInv, TypeInv', OnceInv, NEW r \in Runner,
         PostClarification(r) \/ PostNoChange(r) \/ PostPart(r)
  PROVE  OnePerVersion' /\ SnapshotsKnown' /\ HandOnce(r)'
  <1>1. \A l : Goto(r, l) => pc'[r] = l
    BY DEF Goto, TypeInv, TypeOK, RunnerTypeOK
  <1>2. snapshot' = snapshot /\ pageVersion' = pageVersion
    BY DEF PostClarification, PostNoChange, PostPart, storeVars
  <1>3. ASSUME pc[r] \in Assessing, NextFramework(r)
        PROVE  HandOnce(r)'
    <2>1. P(r)' = P(r) /\ P(r) \in Page /\ ver' = ver
      BY <1>3, FrameworkType DEF NextFramework, P, E
    <2>2. pc'[r] \in {"compare", "mark"}
      BY <1>1, <1>3 DEF NextFramework
    <2> QED
      BY <1>2, <1>3, <2>1, <2>2 DEF OnceInv, HandOnce, Snap, Assessing
  <1>4. CASE PostClarification(r)
    <2>1. pc[r] \in Holding /\ pc'[r] = "mark"
      BY <1>1, <1>4 DEF PostClarification, Holding, AttemptLabels
    <2>2. /\ ClarificationComment(E(r)) \in Comment
          /\ ClarificationComment(E(r)).kind # "assessment"
      BY <2>1, HandType, ClarificationType DEF ClarificationComment
    <2>3. OnePerVersion' /\ SnapshotsKnown'
      BY <1>2, <1>4, <2>2, OtherPostOnce DEF PostClarification
    <2> QED
      BY <2>1, <2>3 DEF HandOnce, Assessing
  <1>5. CASE PostNoChange(r)
    <2>1. pc[r] \in Assessing
      BY <1>5 DEF PostNoChange, Assessing
    <2>2. ver[r] \in Nat
      BY DEF TypeInv, TypeOK, RunnerTypeOK
    <2>3. NoChangeComment(E(r), F(r), ver[r]) \in Comment
      BY <2>1, <2>2, FrameworkType, CommentTypes
    <2>4. NoChangeComment(E(r), F(r), ver[r]).kind # "assessment"
      BY DEF NoChangeComment
    <2>5. OnePerVersion' /\ SnapshotsKnown'
      BY <1>2, <1>5, <2>3, <2>4, OtherPostOnce DEF PostNoChange
    <2> QED
      BY <1>3, <1>5, <2>1, <2>5 DEF PostNoChange
  <1>6. CASE PostPart(r)
    <2>1. pc[r] = "post" /\ pc[r] \in Assessing
      BY <1>6 DEF PostPart, Assessing
    <2>2. PICK e \in Event, f \in Framework, v \in Nat, w \in Nat, i \in Nat :
             e = E(r) /\ f = F(r) /\ v = ver[r] /\ w = text[r] /\ i = part[r]
      BY <2>1, AttemptTypes
    <2>3. v <= w
      BY <2>1, <2>2 DEF OnceInv, HandOnce
    <2>4. PostComment(AssessmentComment(e, f, v, w, i))
      BY <1>6, <2>2 DEF PostPart
    <2>5. /\ snapshot[<<PageOf[e], f>>] = v
          /\ \A c \in comments : IsAssessmentOf(c, PageOf[e], f, v) => c.part < i
      BY <2>1, <2>2 DEF OnceInv, HandOnce, Snap, P
    <2>6. OnePerVersion' /\ SnapshotsKnown'
      BY <1>2, <2>4, <2>5, <2>3, PartOnce
    <2>7. CASE part[r] < Parts
      <3>1. part'[r] = i + 1 /\ UNCHANGED <<pc, cur, ver, text, fw>>
        BY <1>6, <2>2, <2>7 DEF PostPart, TypeInv, TypeOK, RunnerTypeOK
      <3>2. E(r)' = e /\ P(r)' = PageOf[e] /\ F(r)' = f /\ ver'[r] = v /\ P(r) = PageOf[e]
        BY <2>2, <3>1 DEF P, E, F
      <3>3. ASSUME NEW c \in comments', IsAssessmentOf(c, PageOf[e], f, v)
            PROVE  c.part < i + 1
        <4>1. CASE c \in comments
          <5>1. c.part < i /\ c.part \in Nat
            BY <2>5, <3>3, <4>1 DEF TypeInv, TypeOK, SiteTypeOK, Comment
          <5> QED
            BY <5>1
        <4>2. CASE c = AssessmentComment(e, f, v, w, i)
          BY <4>2 DEF AssessmentComment
        <4> QED
          BY <2>4, <3>3, <4>1, <4>2 DEF PostComment
      <3>4. ver'[r] <= pageVersion'[P(r)'] /\ \A g \in Framework : Snap(r, g)' <= ver'[r]
        BY <1>2, <2>1, <2>2, <3>2 DEF OnceInv, HandOnce, Snap
      <3>5. Snap(r, F(r))' = ver'[r]
        BY <1>2, <2>5, <3>2 DEF Snap
      <3>6. \A c \in comments' : IsAssessmentOf(c, P(r), F(r), ver[r])' => c.part < part'[r]
        BY <3>1, <3>2, <3>3 DEF IsAssessmentOf
      <3>7. pc'[r] = "post" /\ ver'[r] <= text'[r]
        BY <2>1, <2>2, <2>3, <3>1
      <3> QED
        BY <2>6, <3>4, <3>5, <3>6, <3>7 DEF HandOnce
    <2>8. CASE ~(part[r] < Parts)
      BY <1>3, <1>6, <2>1, <2>6, <2>8 DEF PostPart
    <2> QED
      BY <2>6, <2>7, <2>8
  <1> QED
    BY <1>4, <1>5, <1>6

LEMMA OnceStep ==
  OneProcess /\ ~SwallowReads /\ TypeInv /\ TypeInv' /\ OnceInv /\ [Next]_vars => OnceInv'
  <1> SUFFICES ASSUME OneProcess, ~SwallowReads, TypeInv, TypeInv', OnceInv, [Next]_vars
               PROVE  OnceInv'
    OBVIOUS
  <1>1. ASSUME NEW r \in Runner, Cycle(r) \/ Fault(r) \/ Restart(r)
        PROVE  OnceInv'
    <2>1. \A s \in Runner : s = r
      BY DEF OneProcess
    <2>2. CASE Quiet(r)
      <3>1. \A p \in Page : pageVersion[p] <= pageVersion'[p]
        BY <2>2, QuietFrame, SiteAssumption DEF TypeInv, TypeOK, SiteTypeOK
      <3>2. OnePerVersion' /\ SnapshotsKnown'
        BY <2>2, <3>1, QuietFrame, QuietStep
      <3>3. HandOnce(r)'
        BY <2>2, QuietOnce
      <3> QED
        BY <2>1, <3>2, <3>3 DEF OnceInv
    <2>3. CASE SaveSnapshot(r)
      <3>1. OnePerVersion' /\ SnapshotsKnown' /\ HandOnce(r)'
        BY <2>3, SnapshotOnce
      <3> QED
        BY <2>1, <3>1 DEF OnceInv
    <2>4. CASE PostClarification(r) \/ PostNoChange(r) \/ PostPart(r)
      <3>1. OnePerVersion' /\ SnapshotsKnown' /\ HandOnce(r)'
        BY <2>4, PostOnce
      <3> QED
        BY <2>1, <3>1 DEF OnceInv
    <2> QED
      BY <1>1, <2>2, <2>3, <2>4 DEF Cycle, Quiet, Ending
  <1>2. ASSUME UNCHANGED <<comments, reposted, snapshot, pc, cur, ver, text, fw, part>>,
               \A p \in Page : pageVersion[p] <= pageVersion'[p]
        PROVE  OnceInv'
    <2>1. OnePerVersion' /\ SnapshotsKnown'
      BY <1>2, QuietStep
    <2>2. ASSUME NEW r \in Runner PROVE HandOnce(r)'
      <3>1. P(r)' = P(r) /\ F(r)' = F(r) /\ \A f \in Framework : Snap(r, f)' = Snap(r, f)
        BY <1>2 DEF P, E, F, Snap
      <3>2. pc[r] \in Assessing => /\ ver'[r] <= pageVersion'[P(r)']
                                   /\ \A f \in Framework : Snap(r, f)' <= ver'[r]
        BY <1>2, <3>1, QuietHand
      <3> QED
        BY <1>2, <3>1, <3>2 DEF OnceInv, HandOnce, Snap, IsAssessmentOf
    <2> QED
      BY <2>1, <2>2 DEF OnceInv
  <1>3. CASE Tick \/ Users \/ (\E e \in Event : MarkerExpires(e)) \/ UNCHANGED vars
    <2>1. UNCHANGED <<comments, reposted, snapshot, pc, cur, ver, text, fw, part>>
      BY <1>3 DEF Tick, Users, MarkerExpires, vars, storeVars, siteVars, runVars, Publish,
         EditMention, EditPage
    <2>2. ASSUME NEW p \in Page PROVE pageVersion[p] <= pageVersion'[p]
      <3>1. pageVersion[p] \in Nat /\ pageVersion \in [Page -> 1 .. MaxVersion]
        BY SiteAssumption DEF TypeInv, TypeOK, SiteTypeOK
      <3>2. pageVersion' = pageVersion \/ \E q \in Page : EditPage(q)
        BY <1>3 DEF Tick, Users, MarkerExpires, vars, siteVars, Publish, EditMention
      <3> QED
        BY <3>1, <3>2 DEF EditPage
    <2> QED
      BY <1>2, <2>1, <2>2
  <1> QED
    BY <1>1, <1>3 DEF Next

\* A text that was assessed twice was once stamped with an older version.
LEMMA OnceUnlessEdited == TypeInv /\ OnePerVersion => AssessedOnce
  <1> SUFFICES ASSUME TypeInv, OnePerVersion,
                      NEW c \in comments, c.kind = "assessment", NEW d \in comments \ {c},
                      d.kind = "assessment", d.framework = c.framework,
                      PageOf[d.event] = PageOf[c.event], d.part = c.part,
                      d.content = c.content, ~EditedMeanwhile(c), ~EditedMeanwhile(d)
               PROVE  FALSE
    BY DEF OnePerVersion, AssessedOnce
  <1>1. c.version \in Nat /\ c.content \in Nat /\ d.version \in Nat /\ d.content \in Nat
    BY DEF TypeInv, TypeOK, SiteTypeOK, Comment
  <1>2. c.version <= c.content /\ d.version <= d.content /\ d.version # c.version
    BY DEF OnePerVersion
  <1> QED
    BY <1>1, <1>2 DEF EditedMeanwhile

\* One poller process, with a store that reports its failed reads, posts no
\* part of an assessment of a page against one framework twice under one
\* version, and the same text of the page twice only where an edit came in
\* between the read for the stamp and the read for the assessment: whatever
\* crashes, raises, is retried or edited, for any number of mentions, pages,
\* frameworks and parts.
THEOREM OneProcessAssessesOnce ==
  OneProcess /\ ~SwallowReads => (Spec => []AssessedOnce)
  <1> SUFFICES ASSUME OneProcess, ~SwallowReads PROVE Spec => []AssessedOnce
    OBVIOUS
  <1>1. TypeInv /\ TypeInv' /\ OnceInv /\ [Next]_vars => OnceInv'
    BY OnceStep
  <1>2. TypeInv /\ OnceInv => AssessedOnce
    BY OnceUnlessEdited DEF OnceInv
  <1> QED
    BY <1>1, <1>2, OnceInit, TypeInvariant, PTL DEF Spec

-----------------------------------------------------------------------------

\* One search returns all there is, or no mention is edited.  When there are
\* more mentions than BatchLimit, the time of an edited one may pass mentions
\* that were not returned.
OneSearchSuffices ==
  \/ \A e \in Event : EditedAt[e] <= CreatedAt[e]
  \/ IsFiniteSet(Event) /\ Cardinality(Event) <= BatchLimit

\* What the argument needs of the deployment.
InOrder == OneProcess /\ ~SwallowReads /\ ~MarkersExpire /\ ~IndexLag /\ OneSearchSuffices

\* Where the runner is between the search and the end of the batch.
InBatch == Holding \cup {"next"}

\* A mention as a search reported it, then or now.
Reported(m) ==
  /\ m.id \in visible
  /\ CreatedAt[m.id] <= m.at
  /\ m.at <= occurredAt[m.id]
  /\ Minute(m.at) >= Minute(watermark)

\* Mention x comes no earlier than m.
NotBefore(x, m) == CreatedAt[x] >= m.at

\* Before the attempt and during it, the mention in hand is not processed;
\* a runner that skips it or commits its time knows that it is settled.
HandSettled(r) ==
  /\ pc[r] \in AttemptLabels \ {"commit"} => E(r) \notin processed
  /\ pc[r] \in {"skip", "commit"} /\ ~MarkersExpire => E(r) \in processed
  /\ pc[r] = "quarantine" => Quarantined(E(r))

\* The batch and the mention in hand, in the order of the cycle.
BatchInOrder(r) ==
  /\ pc[r] \in InBatch => \A m \in batch[r] : Reported(m)
  /\ pc[r] \in Holding => Reported(cur[r]) /\ \A m \in batch[r] : cur[r].at <= m.at

\* Mention x will still be taken from the batch, or is no older than any of it.
InBatchOrLater(r, x) ==
  \/ \E m \in batch[r] : m.id = x
  \/ pc[r] \in Holding /\ E(r) = x
  \/ /\ \A m \in batch[r] : NotBefore(x, m)
     /\ pc[r] \in Holding => NotBefore(x, cur[r])

NoneLeftBehind(r) ==
  pc[r] \in InBatch => \A x \in Event : Due(x) => InBatchOrLater(r, x)

TimesGrow ==
  /\ \A e \in Event : CreatedAt[e] <= occurredAt[e]
  /\ watermark = 0 \/ \E e \in visible : watermark <= occurredAt[e]

SettledInv == \A r \in Runner : HandSettled(r)

TurnInv ==
  /\ TimesGrow
  /\ NothingSkipped
  /\ \A r \in Runner : BatchInOrder(r) /\ NoneLeftBehind(r)

-----------------------------------------------------------------------------
(* The steps of a runner, by what they do to the mention in hand.          *)

Attempting(r) ==
  \/ ReadContent(r) \/ ClarifyRow(r) \/ PostClarification(r) \/ Compare(r)
  \/ NoChangeRow(r) \/ PostNoChange(r) \/ Assess(r) \/ SaveSnapshot(r) \/ SaveRow(r)
  \/ PostPart(r) \/ PoisonRaises(r) \/ AttemptRaises(r)

Committing(r) == SkipProcessed(r) \/ CommitProcessed(r) \/ CommitQuarantined(r)

Leaving(r) ==
  \/ AcquireLease(r) \/ ReadLease(r) \/ WriteLease(r) \/ EndOfBatch(r) \/ SaveSummary(r)
  \/ Ending(r) \/ CycleRaises(r) \/ Crash(r) \/ Restart(r)

LEMMA AttemptingFrame ==
  ASSUME TypeInv, NEW r \in Runner, Attempting(r)
  PROVE  /\ pc[r] \in AttemptLabels
         /\ pc'[r] \in (AttemptLabels \ {"commit"}) \cup {"failure"}
         /\ pc'[r] # "failure" => pc[r] # "commit"
         /\ UNCHANGED <<batch, cur, watermark, processed, failures, visible, occurredAt, opening>>
  <1> USE DEF Attempting, ReadContent, ClarifyRow, PostClarification, Compare, NoChangeRow,
         PostNoChange, Assess, SaveSnapshot, SaveRow, PostPart, PoisonRaises, AttemptRaises
  <1>1. pc[r] \in AttemptLabels
    BY DEF AttemptLabels
  <1>2. UNCHANGED <<batch, cur, watermark, processed, failures, visible, occurredAt, opening>>
    BY DEF NextFramework, KeepHand, NothingOutside, siteVars, storeVars
  <1>3. \A l : Goto(r, l) => pc'[r] = l
    BY DEF Goto, TypeInv, TypeOK, RunnerTypeOK
  <1>4. CASE NextFramework(r)
    <2>1. pc'[r] \in {"compare", "mark"} /\ pc[r] # "commit"
      BY <1>3, <1>4 DEF NextFramework
    <2> QED
      BY <1>1, <1>2, <2>1 DEF AttemptLabels
  <1>5. CASE pc' = pc
    BY <1>1, <1>2, <1>3, <1>5 DEF AttemptLabels
  <1>6. CASE ~NextFramework(r) /\ pc' # pc
    <2>1. pc'[r] \in (AttemptLabels \ {"commit"}) \cup {"failure"}
      BY <1>3, <1>6 DEF AttemptLabels
    <2>2. pc'[r] # "failure" => pc[r] # "commit"
      BY <1>3, <1>6
    <2> QED
      BY <1>1, <1>2, <2>1, <2>2
  <1> QED
    BY <1>4, <1>5, <1>6

LEMMA LeavingFrame ==
  ASSUME TypeInv, NEW r \in Runner, Leaving(r)
  PROVE  /\ pc'[r] \notin InBatch
         /\ UNCHANGED <<watermark, processed, failures, visible, occurredAt, opening>>
  <1>1. \A l : Goto(r, l) => pc'[r] = l
    BY DEF Goto, TypeInv, TypeOK, RunnerTypeOK
  <1> USE DEF Leaving, AcquireLease, ReadLease, WriteLease, EndOfBatch, SaveSummary, Ending,
         Release, ReadOwner, DeleteLock, EndCycle, CycleRaises, Crash, Restart
  <1>2. pc'[r] \notin InBatch
    BY <1>1 DEF InBatch, Holding, AttemptLabels
  <1>3. UNCHANGED <<watermark, processed, failures, visible, occurredAt, opening>>
    BY DEF NothingOutside, siteVars, storeVars
  <1> QED
    BY <1>2, <1>3

LEMMA CommittingFrame ==
  ASSUME TypeInv, NEW r \in Runner, Committing(r)
  PROVE  /\ pc[r] \in {"skip", "commit", "quarantine"}
         /\ pc'[r] = "next"
         /\ watermark' = cur[r].at
         /\ UNCHANGED <<batch, cur, processed, failures, visible, occurredAt, opening>>
  BY DEF Committing, SkipProcessed, CommitProcessed, CommitQuarantined, CommitState, Goto,
     KeepHand, siteVars, TypeInv, TypeOK, RunnerTypeOK

LEMMA CountingFrame ==
  ASSUME TypeInv, NEW r \in Runner, CountFailure(r) \/ MarkTerminal(r)
  PROVE  /\ pc[r] \in {"failure", "terminal"}
         /\ pc'[r] \in {"terminal", "summary", "quarantine"}
         /\ pc'[r] = "quarantine" => Quarantined(E(r))'
         /\ \A x \in Event \ {E(r)} : failures'[x] = failures[x]
         /\ UNCHANGED <<batch, cur, watermark, processed, visible, occurredAt, opening>>
  <1>1. \A l : Goto(r, l) => pc'[r] = l
    BY DEF Goto, TypeInv, TypeOK, RunnerTypeOK
  <1>2. pc[r] \in {"failure", "terminal"} /\ pc[r] \in Holding
    BY DEF CountFailure, MarkTerminal, Holding
  <1>3. UNCHANGED <<batch, cur, watermark, processed, visible, occurredAt, opening>>
    BY DEF CountFailure, MarkTerminal, KeepHand, siteVars
  <1>4. E(r)' = E(r) /\ E(r) \in Event
    BY <1>2, <1>3, HandType DEF E
  <1>5. CASE CountFailure(r)
    <2>1. pc'[r] \in {"terminal", "summary"}
      BY <1>1, <1>5 DEF CountFailure, AfterFailure
    <2>2. \A x \in Event \ {E(r)} : failures'[x] = failures[x]
      BY <1>5 DEF CountFailure, IncrementFailureCount, TypeInv, TypeOK, StoreTypeOK
    <2> QED
      BY <1>2, <1>3, <2>1, <2>2
  <1>6. CASE MarkTerminal(r)
    <2>1. pc'[r] = "quarantine"
      BY <1>1, <1>6 DEF MarkTerminal
    <2>2. \A x \in Event \ {E(r)} : failures'[x] = failures[x]
      BY <1>6 DEF MarkTerminal, MarkTerminalFailure, TypeInv, TypeOK, StoreTypeOK
    <2>3. Quarantined(E(r))'
      BY <1>4, <1>6 DEF MarkTerminal, MarkTerminalFailure, Quarantined, TypeInv, TypeOK, StoreTypeOK
    <2> QED
      BY <1>2, <1>3, <2>1, <2>2, <2>3
  <1> QED
    BY <1>5, <1>6

LEMMA MarkFrame ==
  ASSUME TypeInv, NEW r \in Runner, MarkProcessed(r)
  PROVE  /\ pc[r] = "mark" /\ pc[r] \in Holding
         /\ pc'[r] = "commit"
         /\ processed' = processed \cup {E(r)}
         /\ UNCHANGED <<batch, cur, watermark, failures, visible, occurredAt, opening>>
  BY DEF MarkProcessed, MarkProcessedEvent, Goto, KeepHand, siteVars, Holding, AttemptLabels,
     TypeInv, TypeOK, RunnerTypeOK

\* With reads that do not fail silently, the mention taken is the first of the
\* batch, and it is skipped exactly when it is processed.
LEMMA TakeFrame ==
  ASSUME TypeInv, ~SwallowReads, NEW r \in Runner, TakeNext(r)
  PROVE  /\ pc[r] = "next"
         /\ cur'[r] \in batch[r]
         /\ batch'[r] = batch[r] \ {cur'[r]}
         /\ \A n \in batch'[r] : cur'[r].at <= n.at
         /\ pc'[r] = IF E(r)' \in processed THEN "skip" ELSE "content"
         /\ UNCHANGED <<watermark, processed, failures, visible, occurredAt, opening>>
  <1>1. PICK m \in batch[r], lost \in BOOLEAN :
          /\ \A n \in batch[r] \ {m} : SortsBefore(m, n)
          /\ ReadAnswers(lost)
          /\ batch' = [batch EXCEPT ![r] = @ \ {m}]
          /\ cur' = [cur EXCEPT ![r] = m]
          /\ Goto(r, IF IsEventProcessed(m.id, lost) THEN "skip" ELSE "content")
    BY DEF TakeNext
  <1>2. cur'[r] = m /\ batch'[r] = batch[r] \ {m} /\ E(r)' = m.id
    BY <1>1 DEF E, TypeInv, TypeOK, RunnerTypeOK
  <1>3. lost = FALSE
    BY <1>1 DEF ReadAnswers
  <1>4. pc'[r] = IF E(r)' \in processed THEN "skip" ELSE "content"
    BY <1>1, <1>2, <1>3 DEF Goto, IsEventProcessed, TypeInv, TypeOK, RunnerTypeOK
  <1>5. batch[r] \subseteq MentionInHand
    BY DEF MentionInHand, TypeInv, TypeOK, RunnerTypeOK
  <1>6. \A n \in batch'[r] : cur'[r].at <= n.at
    BY <1>1, <1>2, <1>5 DEF SortsBefore, MentionInHand
  <1>7. UNCHANGED <<watermark, processed, failures, visible, occurredAt, opening>> /\ pc[r] = "next"
    BY DEF TakeNext, NothingOutside, siteVars
  <1> QED
    BY <1>2, <1>4, <1>6, <1>7

LEMMA RunnerSteps ==
  ASSUME NEW r \in Runner, Cycle(r) \/ Fault(r) \/ Restart(r)
  PROVE  \/ Attempting(r) \/ Committing(r) \/ Leaving(r)
         \/ Fetch(r) \/ TakeNext(r) \/ MarkProcessed(r) \/ CountFailure(r) \/ MarkTerminal(r)
  BY DEF Cycle, Ending, Fault, Attempting, Committing, Leaving

-----------------------------------------------------------------------------
(* Processed is final.                                                     *)

LEMMA SettledInit == Init => SettledInv
  BY DEF Init, SettledInv, HandSettled, AttemptLabels

LEMMA HandSettledStep ==
  ASSUME TypeInv, ~SwallowReads, NEW r \in Runner, HandSettled(r),
         Cycle(r) \/ Fault(r) \/ Restart(r)
  PROVE  HandSettled(r)'
  <1>1. CASE Attempting(r)
    <2>1. /\ pc[r] \in AttemptLabels
          /\ pc'[r] \in (AttemptLabels \ {"commit"}) \cup {"failure"}
          /\ pc'[r] # "failure" => pc[r] # "commit"
          /\ UNCHANGED <<cur, processed, failures>>
      BY <1>1, AttemptingFrame
    <2>2. E(r)' = E(r)
      BY <2>1 DEF E
    <2> QED
      BY <2>1, <2>2 DEF HandSettled, AttemptLabels
  <1>2. CASE Leaving(r) \/ Fetch(r)
    <2>1. pc'[r] \notin Holding
      BY <1>2, LeavingFrame DEF Fetch, Goto, InBatch, Holding, AttemptLabels, TypeInv,
         TypeOK, RunnerTypeOK
    <2> QED
      BY <2>1 DEF HandSettled, Holding, AttemptLabels
  <1>3. CASE Committing(r)
    BY <1>3, CommittingFrame DEF HandSettled, AttemptLabels
  <1>4. CASE TakeNext(r)
    <2>1. pc'[r] = (IF E(r)' \in processed THEN "skip" ELSE "content") /\ processed' = processed
      BY <1>4, TakeFrame
    <2> QED
      BY <2>1 DEF HandSettled, AttemptLabels
  <1>5. CASE MarkProcessed(r)
    <2>1. pc'[r] = "commit" /\ processed' = processed \cup {E(r)} /\ E(r)' = E(r)
      BY <1>5, MarkFrame DEF E
    <2> QED
      BY <2>1 DEF HandSettled, AttemptLabels
  <1>6. CASE CountFailure(r) \/ MarkTerminal(r)
    <2>1. /\ pc'[r] \in {"terminal", "summary", "quarantine"}
          /\ pc'[r] = "quarantine" => Quarantined(E(r))'
      BY <1>6, CountingFrame
    <2> QED
      BY <2>1 DEF HandSettled, AttemptLabels
  <1> QED
    BY <1>1, <1>2, <1>3, <1>4, <1>5, <1>6, RunnerSteps

LEMMA SettledStep ==
  OneProcess /\ ~SwallowReads /\ TypeInv /\ SettledInv /\ [Next]_vars => SettledInv'
  <1> SUFFICES ASSUME OneProcess, ~SwallowReads, TypeInv, SettledInv, [Next]_vars,
                      NEW s \in Runner
               PROVE  HandSettled(s)'
    BY DEF SettledInv
  <1>1. HandSettled(s)
    BY DEF SettledInv
  <1>2. ASSUME NEW r \in Runner, Cycle(r) \/ Fault(r) \/ Restart(r) PROVE HandSettled(s)'
    BY <1>1, <1>2, HandSettledStep DEF OneProcess
  <1>3. CASE Tick \/ Users \/ UNCHANGED vars
    BY <1>1, <1>3 DEF Tick, Users, vars, storeVars, runVars, HandSettled, Quarantined, E
  <1>4. ASSUME NEW e \in Event, MarkerExpires(e) PROVE HandSettled(s)'
    <2>1. MarkersExpire /\ processed' \subseteq processed /\ UNCHANGED <<pc, cur, failures>>
      BY <1>4 DEF MarkerExpires, ExpireMarker, runVars
    <2> QED
      BY <1>1, <2>1 DEF HandSettled, Quarantined, E
  <1> QED
    BY <1>2, <1>3, <1>4 DEF Next

LEMMA SettledInvariant == OneProcess /\ ~SwallowReads => (Spec => []SettledInv)
  <1> SUFFICES ASSUME OneProcess, ~SwallowReads PROVE Spec => []SettledInv
    OBVIOUS
  <1>1. TypeInv /\ SettledInv /\ [Next]_vars => SettledInv'
    BY SettledStep
  <1> QED
    BY <1>1, SettledInit, TypeInvariant, PTL DEF Spec

\* A comment is posted by an attempt at a mention, and is about that mention.
LEMMA PostsAnswerHand ==
  ASSUME TypeInv, Next
  PROVE  \/ UNCHANGED <<comments, reposted>>
         \/ \E r \in Runner, c \in Comment :
              /\ pc[r] \in AttemptLabels \ {"commit"}
              /\ c.event = E(r)
              /\ PostComment(c)
              /\ UNCHANGED <<watermark, processed, failures, visible, occurredAt, opening>>
  <1>1. ASSUME NEW r \in Runner, Cycle(r) \/ Fault(r) \/ Restart(r)
        PROVE  \/ UNCHANGED <<comments, reposted>>
               \/ \E c \in Comment : /\ pc[r] \in AttemptLabels \ {"commit"}
                                     /\ c.event = E(r)
                                     /\ PostComment(c)
                                     /\ UNCHANGED <<watermark, processed, failures, visible, occurredAt, opening>>
    <2>1. CASE PostClarification(r)
      <3>1. pc[r] \in AttemptLabels \ {"commit"} /\ pc[r] \in Holding
        BY <2>1 DEF PostClarification, AttemptLabels, Holding
      <3>2. ClarificationComment(E(r)) \in Comment /\ ClarificationComment(E(r)).event = E(r)
        BY <3>1, HandType, ClarificationType DEF ClarificationComment
      <3>3. UNCHANGED <<watermark, processed, failures, visible, occurredAt, opening>>
        BY <2>1 DEF PostClarification, storeVars
      <3> QED
        BY <2>1, <3>1, <3>2, <3>3 DEF PostClarification
    <2>2. CASE PostNoChange(r) \/ PostPart(r)
      <3>1. pc[r] \in AttemptLabels \ {"commit"} /\ pc[r] \in Assessing
        BY <2>2 DEF PostNoChange, PostPart, AttemptLabels, Assessing
      <3>2. ver[r] \in Nat /\ text[r] \in Nat /\ part[r] \in Nat /\ E(r) \in Event
            /\ F(r) \in Framework
        BY <3>1, AttemptTypes
      <3>3. PICK c \in Comment : c.event = E(r) /\ PostComment(c)
        <4>1. NoChangeComment(E(r), F(r), ver[r]) \in Comment
              /\ AssessmentComment(E(r), F(r), ver[r], text[r], part[r]) \in Comment
          BY <3>2, CommentTypes
        <4>2. /\ NoChangeComment(E(r), F(r), ver[r]).event = E(r)
              /\ AssessmentComment(E(r), F(r), ver[r], text[r], part[r]).event = E(r)
          BY DEF NoChangeComment, AssessmentComment
        <4> QED
          BY <2>2, <4>1, <4>2 DEF PostNoChange, PostPart
      <3>4. UNCHANGED <<watermark, processed, failures, visible, occurredAt, opening>>
        BY <2>2 DEF PostNoChange, PostPart, storeVars
      <3> QED
        BY <3>1, <3>3, <3>4
    <2>3. CASE Quiet(r)
      BY <2>3, QuietFrame
    <2>4. CASE SaveSnapshot(r)
      BY <2>4 DEF SaveSnapshot, siteVars
    <2> QED
      BY <1>1, <2>1, <2>2, <2>3, <2>4 DEF Cycle, Ending, Quiet
  <1>2. CASE Tick \/ Users \/ \E e \in Event : MarkerExpires(e)
    BY <1>2 DEF Tick, Users, MarkerExpires, siteVars, Publish, EditMention, EditPage
  <1> QED
    BY <1>1, <1>2 DEF Next

\* Nothing more is posted for a mention while it is marked as processed: by
\* one process whose store reports its failed reads, on whatever page
\* versions, retries, restarts and edits follow, and even when markers expire.
THEOREM ProcessedStaysFinal == OneProcess /\ ~SwallowReads => (Spec => ProcessedIsFinal)
  <1> SUFFICES ASSUME OneProcess, ~SwallowReads PROVE Spec => ProcessedIsFinal
    OBVIOUS
  <1> DEFINE Final == \A e \in processed :
               /\ {c \in comments' : c.event = e} = {c \in comments : c.event = e}
               /\ {c \in reposted' : c.event = e} = {c \in reposted : c.event = e}
  <1>1. TypeInv /\ SettledInv /\ [Next]_vars => [Final]_<<comments, reposted>>
    <2> SUFFICES ASSUME TypeInv, SettledInv, Next, ~UNCHANGED <<comments, reposted>>,
                        NEW e \in processed
                 PROVE  /\ {c \in comments' : c.event = e} = {c \in comments : c.event = e}
                        /\ {c \in reposted' : c.event = e} = {c \in reposted : c.event = e}
      BY DEF vars, siteVars
    <2>1. PICK r \in Runner, d \in Comment :
            pc[r] \in AttemptLabels \ {"commit"} /\ d.event = E(r) /\ PostComment(d)
      BY PostsAnswerHand
    <2>2. d.event # e
      BY <2>1 DEF SettledInv, HandSettled
    <2> QED
      BY <2>1, <2>2 DEF PostComment
  <1> QED
    BY <1>1, SettledInvariant, TypeInvariant, PTL DEF Spec, ProcessedIsFinal

-----------------------------------------------------------------------------
(* Nothing is skipped.                                                     *)

LEMMA MinuteMonotone ==
  ASSUME NEW a \in Nat, NEW b \in Nat, a <= b
  PROVE  Minute(a) \in Nat /\ Minute(b) \in Nat /\ Minute(a) <= Minute(b)
  <1>1. MinuteLen \in Nat \ {0}
    BY SiteAssumption
  <1> QED
    BY <1>1 DEF Minute

LEMMA TimeTypes ==
  ASSUME TypeInv
  PROVE  /\ \A e \in Event : CreatedAt[e] \in Nat /\ occurredAt[e] \in Nat
         /\ watermark \in Nat
         /\ \A r \in Runner : batch[r] \subseteq MentionInHand
         /\ \A r \in Runner : pc[r] \in Holding => cur[r] \in MentionInHand
  <1>1. \A e \in Event : CreatedAt[e] \in Nat /\ occurredAt[e] \in Nat
    BY SiteAssumption DEF TypeInv, TypeOK, SiteTypeOK
  <1>2. watermark \in Nat
    BY DEF TypeInv, TypeOK, StoreTypeOK
  <1>3. \A r \in Runner : batch[r] \subseteq MentionInHand
    BY DEF TypeInv, TypeOK, RunnerTypeOK, MentionInHand
  <1> QED
    BY <1>1, <1>2, <1>3, HandType

\* What the search returns is in order with what it leaves out.
LEMMA SearchInOrder ==
  ASSUME TypeInv, OneSearchSuffices, TimesGrow,
         \A e \in Event : EditedAt[e] <= CreatedAt[e] => occurredAt[e] = CreatedAt[e],
         NEW since \in Nat, NEW B \in SearchResults(since),
         NEW x \in Matching(since) \ B, NEW b \in B
  PROVE  CreatedAt[x] >= occurredAt[b]
  <1> DEFINE M == Matching(since)
  <1>1. M \subseteq Event /\ B \subseteq M /\ CreatedAt[b] <= CreatedAt[x]
    BY DEF SearchResults, Matching, TypeInv, TypeOK, SiteTypeOK
  <1>2. CASE \A e \in Event : EditedAt[e] <= CreatedAt[e]
    BY <1>1, <1>2
  <1>3. CASE IsFiniteSet(Event) /\ Cardinality(Event) <= BatchLimit
    <2>1. IsFiniteSet(M) /\ Cardinality(M) <= Cardinality(Event) /\ Cardinality(Event) \in Nat
      BY <1>1, <1>3, FS_Subset, FS_CardinalityType
    <2>2. Cardinality(M) \in Nat
      BY <2>1, FS_CardinalityType
    <2>5. Cardinality(M) <= BatchLimit
      BY <1>3, <2>1, <2>2, SiteAssumption
    <2>3. Cardinality(B) = Cardinality(M)
      BY <2>5 DEF SearchResults
    <2>4. B = M
      BY <1>1, <2>1, <2>3, FS_Subset
    <2> QED
      BY <2>4
  <1> QED
    BY <1>2, <1>3 DEF OneSearchSuffices

\* Without edits after its creation the event time of a mention is its
\* creation time.
EditsMove == \A e \in Event : EditedAt[e] <= CreatedAt[e] => occurredAt[e] = CreatedAt[e]

\* The mentions the search can return and their times only grow.
SiteGrows ==
  /\ visible \subseteq visible'
  /\ \A e \in visible : occurredAt[e] <= occurredAt'[e]

LEMMA TurnInit == Init => TurnInv /\ EditsMove
  <1> SUFFICES ASSUME Init PROVE TurnInv /\ EditsMove
    OBVIOUS
  <1>1. TimesGrow /\ EditsMove /\ ~(\E e \in Event : Due(e))
    <2>1. visible = {} /\ occurredAt = CreatedAt /\ watermark = 0
      BY DEF Init, StoreInit, SiteInit
    <2>2. ASSUME NEW e \in Event PROVE CreatedAt[e] <= CreatedAt[e]
      <3>1. CreatedAt[e] \in Nat
        BY SiteAssumption
      <3> QED
        BY <3>1
    <2> QED
      BY <2>1, <2>2 DEF TimesGrow, EditsMove, Due
  <1>2. \A r \in Runner : pc[r] \notin InBatch
    BY DEF Init, InBatch, Holding, AttemptLabels
  <1> QED
    BY <1>1, <1>2 DEF TurnInv, NothingSkipped, BatchInOrder, NoneLeftBehind, InBatch

\* A report stays one while the site grows and the watermark stays.
LEMMA ReportedStays ==
  ASSUME TypeInv, TypeInv', SiteGrows, watermark' = watermark,
         NEW m \in MentionInHand, Reported(m)
  PROVE  Reported(m)'
  <1>1. /\ m.id \in Event /\ m.at \in Nat /\ m.id \in visible
        /\ occurredAt[m.id] \in Nat /\ occurredAt'[m.id] \in Nat
    BY TimeTypes DEF MentionInHand, Reported, TypeInv, TypeOK, SiteTypeOK
  <1>2. m.at <= occurredAt[m.id] /\ occurredAt[m.id] <= occurredAt'[m.id]
    BY <1>1 DEF Reported, SiteGrows
  <1> QED
    BY <1>1, <1>2 DEF Reported, SiteGrows, Minute

\* What a step of the runner leaves of its place in the batch.
LEMMA PlaceStays ==
  ASSUME TypeInv, TypeInv', TurnInv, NEW r \in Runner, UNCHANGED <<batch, cur, watermark>>,
         SiteGrows, pc'[r] \in InBatch => pc[r] \in InBatch,
         pc'[r] \in Holding => pc[r] \in Holding
  PROVE  BatchInOrder(r)'
  <1>1. BatchInOrder(r)
    BY DEF TurnInv
  <1>2. ASSUME NEW m \in batch[r], pc[r] \in InBatch PROVE Reported(m)'
    BY <1>1, <1>2, TimeTypes, ReportedStays DEF BatchInOrder
  <1>3. ASSUME pc[r] \in Holding PROVE Reported(cur[r])'
    BY <1>1, <1>3, TimeTypes, ReportedStays DEF BatchInOrder
  <1>4. \A m : Reported(m)' <=> /\ m.id \in visible' /\ CreatedAt[m.id] <= m.at
                                /\ m.at <= occurredAt'[m.id] /\ Minute(m.at) >= Minute(watermark')
    BY DEF Reported, Minute
  <1> QED
    BY <1>1, <1>2, <1>3, <1>4 DEF BatchInOrder, Reported, Minute

\* Two mentions: x is not before m when m was reported before x was published.
LEMMA PublishedLater ==
  ASSUME TypeInv, ~IndexLag, NEW x \in Event, Publish(x), NEW m \in MentionInHand, Reported(m)
  PROVE  NotBefore(x, m)
  <1>1. occurredAt[m.id] <= CreatedAt[x] /\ m.id \in Event
    BY DEF Publish, NotPast, Reported, MentionInHand
  <1>2. m.at \in Nat /\ occurredAt[m.id] \in Nat /\ CreatedAt[x] \in Nat
    BY <1>1, TimeTypes DEF MentionInHand
  <1> QED
    BY <1>1, <1>2 DEF Reported, NotBefore

\* The initial lookback only moves on, and only until something is committed.
LEMMA OpeningMovesOn ==
  ASSUME TypeInv, TypeInv', NEW r \in Runner, Fetch(r)
  PROVE  \A x \in Event : /\ Minute(CreatedAt[x]) \in Nat
                          /\ Minute(opening) \in Nat /\ Minute(opening') \in Nat
                          /\ Minute(opening) <= Minute(opening')
                          /\ Lapsed(x) => Lapsed(x)'
  <1>1. opening \in Nat /\ opening' \in Nat
    BY SiteAssumption DEF TypeInv, TypeOK, SiteTypeOK
  <1>2. opening <= opening'
    <2>1. PICK o \in Openings : (o = opening \/ o >= opening) /\ opening' = o
      BY DEF Fetch
    <2> QED
      BY <1>1, <2>1
  <1>3. /\ Minute(opening) \in Nat /\ Minute(opening') \in Nat
        /\ Minute(opening) <= Minute(opening')
    BY <1>1, <1>2, MinuteMonotone
  <1>4. ASSUME NEW x \in Event PROVE Minute(CreatedAt[x]) \in Nat
    <2>1. CreatedAt[x] \in Nat /\ CreatedAt[x] <= CreatedAt[x]
      BY TimeTypes
    <2> QED
      BY <2>1, MinuteMonotone
  <1> QED
    BY <1>3, <1>4 DEF Lapsed, Minute

\* A runner touches neither the mentions nor their times, and makes no mention
\* due but the one in hand, by counting a failure of a quarantined one.
LEMMA RunnerDue ==
  ASSUME TypeInv, TypeInv', NEW r \in Runner, Cycle(r) \/ Fault(r) \/ Restart(r)
  PROVE  /\ UNCHANGED <<visible, occurredAt>>
         /\ \A x \in Event : Due(x)' =>
              Due(x) \/ (x = E(r) /\ (CountFailure(r) \/ MarkTerminal(r)))
  <1>1. CASE Attempting(r) \/ Leaving(r) \/ Committing(r)
    <2>1. UNCHANGED <<visible, occurredAt, opening, processed, failures>>
      BY <1>1, AttemptingFrame, LeavingFrame, CommittingFrame
    <2>2. \A x \in Event : Due(x)' => Due(x)
      BY <2>1 DEF Due, Lapsed, Minute, Settled, Quarantined
    <2> QED
      BY <2>1, <2>2
  <1>2. CASE Fetch(r)
    <2>1. UNCHANGED <<visible, occurredAt, processed, failures>>
      BY <1>2 DEF Fetch
    <2>2. \A x \in Event : Lapsed(x) => Lapsed(x)'
      BY <1>2, OpeningMovesOn
    <2>3. \A x \in Event : Due(x)' => Due(x)
      BY <2>1, <2>2 DEF Due, Settled, Quarantined
    <2> QED
      BY <2>1, <2>3
  <1>3. CASE TakeNext(r)
    <2>1. UNCHANGED <<visible, occurredAt, opening, processed, failures>>
      BY <1>3 DEF TakeNext, NothingOutside, siteVars
    <2>2. \A x \in Event : Due(x)' => Due(x)
      BY <2>1 DEF Due, Lapsed, Minute, Settled, Quarantined
    <2> QED
      BY <2>1, <2>2
  <1>4. CASE MarkProcessed(r)
    <2>1. UNCHANGED <<visible, occurredAt, opening, failures>> /\ processed \subseteq processed'
      BY <1>4, MarkFrame
    <2>2. \A x \in Event : Due(x)' => Due(x)
      BY <2>1 DEF Due, Lapsed, Minute, Settled, Quarantined
    <2> QED
      BY <2>1, <2>2
  <1>5. CASE CountFailure(r) \/ MarkTerminal(r)
    <2>1. /\ UNCHANGED <<visible, occurredAt, opening, processed>>
          /\ \A x \in Event \ {E(r)} : failures'[x] = failures[x]
      BY <1>5, CountingFrame
    <2> QED
      BY <1>5, <2>1 DEF Due, Lapsed, Minute, Settled, Quarantined
  <1> QED
    BY <1>1, <1>2, <1>3, <1>4, <1>5, RunnerSteps

\* A mention that is due was reported at the time it was created.
LEMMA DueReported ==
  ASSUME TypeInv, NEW x \in Event, occurredAt[x] = CreatedAt[x], NEW m \in MentionInHand,
         Reported(m), m.id = x
  PROVE  m.at = CreatedAt[x]
  <1>1. m.at \in Nat /\ CreatedAt[x] \in Nat
    BY TimeTypes DEF MentionInHand
  <1> QED
    BY <1>1 DEF Reported

LEMMA AttemptTurn ==
  ASSUME TypeInv, TypeInv', TurnInv, NEW r \in Runner,
         Attempting(r) \/ MarkProcessed(r) \/ Leaving(r) \/ CountFailure(r) \/ MarkTerminal(r)
  PROVE  TimesGrow' /\ NothingSkipped' /\ BatchInOrder(r)' /\ NoneLeftBehind(r)'
  <1>1. UNCHANGED <<watermark, visible, occurredAt>> /\ SiteGrows
    <2>1. UNCHANGED <<watermark, visible, occurredAt>>
      BY AttemptingFrame, MarkFrame, LeavingFrame, CountingFrame
    <2>2. \A e \in visible : occurredAt[e] \in Nat
      BY TimeTypes DEF TypeInv, TypeOK, SiteTypeOK
    <2> QED
      BY <2>1, <2>2 DEF SiteGrows
  <1>2. /\ pc'[r] \in InBatch => pc[r] \in Holding /\ pc'[r] \in Holding
        /\ pc'[r] \in InBatch => UNCHANGED <<batch, cur>>
    BY AttemptingFrame, MarkFrame, LeavingFrame, CountingFrame DEF InBatch, Holding,
       AttemptLabels
  <1>3. \A x \in Event : Due(x)' => Due(x) \/ (x = E(r) /\ (CountFailure(r) \/ MarkTerminal(r)))
    BY RunnerDue DEF Attempting, Leaving, Cycle, Fault, Ending
  <1>4. BatchInOrder(r)'
    BY <1>1, <1>2, PlaceStays DEF BatchInOrder, InBatch
  <1>5. NothingSkipped'
    <2> SUFFICES ASSUME NEW x \in Event, Due(x)'
                 PROVE  Minute(CreatedAt[x]) >= Minute(watermark)
      BY <1>1 DEF NothingSkipped, Minute
    <2>1. CASE Due(x)
      BY <2>1 DEF TurnInv, NothingSkipped
    <2>2. CASE (x = E(r) /\ (CountFailure(r) \/ MarkTerminal(r)))
      <3>1. pc[r] \in Holding
        BY <2>2 DEF CountFailure, MarkTerminal, Holding
      <3>2. cur[r] \in MentionInHand /\ Reported(cur[r])
        BY <3>1, HandType DEF TurnInv, BatchInOrder
      <3>3. occurredAt[x] = CreatedAt[x]
        BY <1>1 DEF Due
      <3>4. cur[r].at = CreatedAt[x]
        BY <2>2, <3>2, <3>3, DueReported DEF E
      <3> QED
        BY <3>2, <3>4 DEF Reported
    <2> QED
      BY <1>3, <2>1, <2>2
  <1>6. NoneLeftBehind(r)'
    <2> SUFFICES ASSUME pc'[r] \in InBatch, NEW x \in Event, Due(x)'
                 PROVE  InBatchOrLater(r, x)'
      BY DEF NoneLeftBehind
    <2>1. pc[r] \in Holding /\ pc'[r] \in Holding /\ E(r)' = E(r) /\ UNCHANGED <<batch, cur>>
      BY <1>2 DEF E
    <2>2. InBatchOrLater(r, x) \/ x = E(r)
      BY <1>3, <2>1 DEF TurnInv, NoneLeftBehind, InBatch
    <2> QED
      BY <2>1, <2>2 DEF InBatchOrLater, NotBefore
  <1>7. TimesGrow'
    BY <1>1 DEF TurnInv, TimesGrow
  <1> QED
    BY <1>4, <1>5, <1>6, <1>7

LEMMA CommitTurn ==
  ASSUME TypeInv, TypeInv', ~MarkersExpire, TurnInv, NEW r \in Runner, HandSettled(r),
         Committing(r)
  PROVE  TimesGrow' /\ NothingSkipped' /\ BatchInOrder(r)' /\ NoneLeftBehind(r)'
  <1>1. /\ pc[r] \in {"skip", "commit", "quarantine"} /\ pc'[r] = "next"
        /\ watermark' = cur[r].at
        /\ UNCHANGED <<batch, cur, visible, occurredAt>>
    BY CommittingFrame
  <1>2. pc[r] \in Holding /\ pc[r] \in InBatch /\ pc'[r] \notin Holding
    BY <1>1 DEF Holding, AttemptLabels, InBatch
  <1>3. /\ cur[r] \in MentionInHand /\ E(r) \in Event
        /\ cur[r].at \in Nat /\ batch[r] \subseteq MentionInHand
    BY <1>2, HandType, TimeTypes
  <1>4. /\ Reported(cur[r])
        /\ \A m \in batch[r] : Reported(m) /\ cur[r].at <= m.at
    BY <1>2 DEF TurnInv, BatchInOrder
  <1>5. ~Due(E(r))
    BY <1>1 DEF HandSettled, Due, Settled
  <1>6. ASSUME NEW x \in Event, Due(x)'
        PROVE  /\ CreatedAt[x] >= cur[r].at
               /\ (\E m \in batch[r] : m.id = x) \/ \A m \in batch[r] : NotBefore(x, m)
    <2>1. Due(x) /\ x # E(r)
      <3>1. UNCHANGED <<visible, occurredAt, opening, processed, failures>>
        BY CommittingFrame
      <3>2. Due(x)
        BY <1>6, <3>1 DEF Due, Lapsed, Minute, Settled, Quarantined
      <3> QED
        BY <1>5, <3>2
    <2>2. InBatchOrLater(r, x)
      BY <1>2, <2>1 DEF TurnInv, NoneLeftBehind
    <2>3. CASE \E m \in batch[r] : m.id = x
      <3>1. PICK m \in batch[r] : m.id = x
        BY <2>3
      <3>2. m.at = CreatedAt[x]
        BY <1>3, <1>4, <2>1, <3>1, DueReported DEF Due
      <3> QED
        BY <1>4, <3>1, <3>2
    <2>4. CASE NotBefore(x, cur[r]) /\ \A m \in batch[r] : NotBefore(x, m)
      BY <2>4 DEF NotBefore
    <2> QED
      BY <1>2, <2>1, <2>2, <2>3, <2>4 DEF InBatchOrLater
  <1>7. TimesGrow'
    BY <1>1, <1>4 DEF TurnInv, TimesGrow, Reported
  <1>8. NothingSkipped'
    <2> SUFFICES ASSUME NEW x \in Event, Due(x)'
                 PROVE  Minute(CreatedAt[x]) >= Minute(cur[r].at)
      BY <1>1 DEF NothingSkipped, Minute
    <2>1. CreatedAt[x] \in Nat /\ CreatedAt[x] >= cur[r].at
      BY <1>6, TimeTypes
    <2> QED
      BY <1>3, <2>1, MinuteMonotone
  <1>9. BatchInOrder(r)'
    <2> SUFFICES ASSUME NEW m \in batch[r] PROVE Reported(m)'
      BY <1>1, <1>2 DEF BatchInOrder
    <2>1. m.at \in Nat /\ cur[r].at <= m.at /\ Reported(m)
      BY <1>3, <1>4 DEF MentionInHand
    <2>2. Minute(m.at) >= Minute(cur[r].at)
      BY <1>3, <2>1, MinuteMonotone
    <2> QED
      BY <1>1, <2>1, <2>2 DEF Reported, Minute
  <1>10. NoneLeftBehind(r)'
    BY <1>1, <1>2, <1>6 DEF NoneLeftBehind, InBatchOrLater, NotBefore
  <1> QED
    BY <1>7, <1>8, <1>9, <1>10

LEMMA FetchTurn ==
  ASSUME TypeInv, TypeInv', ~SwallowReads, OneSearchSuffices, TurnInv, EditsMove,
         NEW r \in Runner, Fetch(r)
  PROVE  TimesGrow' /\ NothingSkipped' /\ BatchInOrder(r)' /\ NoneLeftBehind(r)'
  <1> DEFINE since == IF watermark # 0 THEN watermark ELSE opening'
  <1>1. PICK B \in SearchResults(since) : batch' = [batch EXCEPT ![r] = {Mention(e) : e \in B}]
    <2>1. PICK lost \in BOOLEAN, o \in Openings :
            LET mark == LoadWatermark(lost)
            IN  /\ ReadAnswers(lost)
                /\ IF mark # 0 THEN o = opening ELSE o >= opening
                /\ opening' = o
                /\ \E B \in SearchResults(IF mark # 0 THEN mark ELSE o) :
                     batch' = [batch EXCEPT ![r] = {Mention(e) : e \in B}]
      BY DEF Fetch
    <2>2. lost = FALSE /\ LoadWatermark(lost) = watermark
      BY <2>1 DEF ReadAnswers, LoadWatermark
    <2> QED
      BY <2>1, <2>2
  <1>2. since \in Nat /\ watermark \in Nat
    BY TimeTypes, SiteAssumption DEF TypeInv, TypeOK, SiteTypeOK
  <1>3. UNCHANGED <<watermark, visible, occurredAt, processed, failures>>
    BY DEF Fetch
  <1>4. pc'[r] = "next" /\ pc'[r] \notin Holding /\ batch'[r] = {Mention(e) : e \in B}
    BY <1>1 DEF Fetch, Goto, Holding, AttemptLabels, TypeInv, TypeOK, RunnerTypeOK
  <1>5. B \subseteq Matching(since) /\ Matching(since) \subseteq visible
    BY <1>2 DEF SearchResults, Matching
  <1> HIDE DEF since
  <1>6. \A x \in Event : Due(x)' => Due(x)
    <2>1. \A x \in Event : Lapsed(x) => Lapsed(x)'
      BY OpeningMovesOn
    <2> QED
      BY <1>3, <2>1 DEF Due, Settled, Quarantined
  <1>7. TimesGrow' /\ NothingSkipped'
    BY <1>3, <1>6 DEF TurnInv, TimesGrow, NothingSkipped, Minute
  <1>8. BatchInOrder(r)'
    <2> SUFFICES ASSUME NEW e \in B PROVE Reported(Mention(e))
      BY <1>3, <1>4 DEF BatchInOrder, Reported, Minute
    <2>1. e \in visible /\ e \in Event /\ Minute(CreatedAt[e]) >= Minute(since)
      BY <1>5 DEF Matching, TypeInv, TypeOK, SiteTypeOK
    <2>2. /\ CreatedAt[e] \in Nat /\ occurredAt[e] \in Nat /\ CreatedAt[e] <= occurredAt[e]
      BY <2>1, TimeTypes DEF TurnInv, TimesGrow
    <2>3. Minute(CreatedAt[e]) <= Minute(occurredAt[e]) /\ Minute(CreatedAt[e]) \in Nat
          /\ Minute(occurredAt[e]) \in Nat
      BY <2>2, MinuteMonotone
    <2>4. Minute(watermark) \in Nat /\ Minute(since) \in Nat /\ Minute(watermark) <= Minute(since)
      <3>1. watermark <= since
        BY <1>2 DEF since
      <3> QED
        BY <1>2, <3>1, MinuteMonotone
    <2>5. Minute(occurredAt[e]) >= Minute(watermark)
      BY <2>1, <2>3, <2>4
    <2> QED
      BY <2>1, <2>2, <2>5 DEF Reported, Mention
  <1>9. NoneLeftBehind(r)'
    <2> SUFFICES ASSUME NEW x \in Event, Due(x)'
                 PROVE  InBatchOrLater(r, x)'
      BY DEF NoneLeftBehind
    <2>1. x \in Matching(since)
      <3>1. x \in visible /\ Due(x) /\ ~(Minute(CreatedAt[x]) < Minute(opening'))
        BY <1>3, <1>6 DEF Due, Lapsed, Minute
      <3>2. Minute(CreatedAt[x]) >= Minute(opening')
        BY <3>1, OpeningMovesOn
      <3>3. Minute(CreatedAt[x]) >= Minute(watermark)
        BY <3>1 DEF TurnInv, NothingSkipped
      <3>4. since = watermark \/ since = opening'
        BY DEF since
      <3> QED
        BY <3>1, <3>2, <3>3, <3>4 DEF Matching
    <2>2. CASE x \in B
      <3>1. Mention(x) \in batch'[r] /\ Mention(x).id = x
        BY <1>4, <2>2 DEF Mention
      <3> QED
        BY <3>1 DEF InBatchOrLater
    <2>3. CASE x \notin B
      <3>1. ASSUME NEW b \in B PROVE CreatedAt[x] >= occurredAt[b]
        BY <1>2, <2>1, <2>3, <3>1, TimeTypes, SearchInOrder DEF TurnInv, EditsMove
      <3> QED
        BY <1>4, <3>1 DEF InBatchOrLater, NotBefore, Mention
    <2> QED
      BY <2>2, <2>3
  <1> QED
    BY <1>7, <1>8, <1>9

LEMMA TakeTurn ==
  ASSUME TypeInv, TypeInv', ~SwallowReads, TurnInv, NEW r \in Runner, TakeNext(r)
  PROVE  TimesGrow' /\ NothingSkipped' /\ BatchInOrder(r)' /\ NoneLeftBehind(r)'
  <1>1. /\ pc[r] = "next" /\ cur'[r] \in batch[r] /\ batch'[r] = batch[r] \ {cur'[r]}
        /\ \A n \in batch'[r] : cur'[r].at <= n.at
        /\ pc'[r] \in {"skip", "content"}
        /\ UNCHANGED <<watermark, processed, failures, visible, occurredAt, opening>>
    BY TakeFrame
  <1>2. pc[r] \in InBatch /\ pc[r] \notin Holding /\ pc'[r] \in Holding
    BY <1>1 DEF InBatch, Holding, AttemptLabels
  <1>3. \A m \in batch[r] : Reported(m)
    BY <1>2 DEF TurnInv, BatchInOrder
  <1>4. \A x \in Event : Due(x)' => Due(x)
    BY <1>1 DEF Due, Lapsed, Minute, Settled, Quarantined
  <1>5. TimesGrow' /\ NothingSkipped'
    BY <1>1, <1>4 DEF TurnInv, TimesGrow, NothingSkipped, Minute
  <1>6. BatchInOrder(r)'
    BY <1>1, <1>3 DEF BatchInOrder, Reported, Minute
  <1>7. NoneLeftBehind(r)'
    <2> SUFFICES ASSUME NEW x \in Event, Due(x)
                 PROVE  InBatchOrLater(r, x)'
      BY <1>4 DEF NoneLeftBehind
    <2>1. (\E m \in batch[r] : m.id = x) \/ \A m \in batch[r] : NotBefore(x, m)
      BY <1>2 DEF TurnInv, NoneLeftBehind, InBatchOrLater
    <2>2. CASE \E m \in batch[r] : m.id = x
      BY <1>1, <1>2, <2>2 DEF InBatchOrLater, E
    <2>3. CASE \A m \in batch[r] : NotBefore(x, m)
      BY <1>1, <2>3 DEF InBatchOrLater, NotBefore
    <2> QED
      BY <2>1, <2>2, <2>3
  <1> QED
    BY <1>5, <1>6, <1>7

\* What users do: an edited mention is due no longer, a published one is later
\* than everything that was reported.
LEMMA UsersTurn ==
  ASSUME TypeInv, TypeInv', ~IndexLag, TurnInv, Users
  PROVE  TurnInv'
  <1>1. UNCHANGED <<watermark, processed, failures, pc, batch, cur, opening>>
    BY DEF Users, storeVars, runVars, Publish, EditMention, EditPage
  <1>2. SiteGrows /\ \A e \in Event : occurredAt[e] <= occurredAt'[e]
    <2>1. visible \subseteq Event /\ \A e \in Event : occurredAt[e] \in Nat
      BY TimeTypes DEF TypeInv, TypeOK, SiteTypeOK
    <2>2. ASSUME NEW e \in Event, EditMention(e)
          PROVE  visible' = visible /\ \A x \in Event : occurredAt[x] <= occurredAt'[x]
      BY <2>1, <2>2, SiteAssumption DEF EditMention, TypeInv, TypeOK, SiteTypeOK
    <2>3. ASSUME ~(\E e \in Event : EditMention(e))
          PROVE  visible \subseteq visible' /\ \A x \in Event : occurredAt[x] <= occurredAt'[x]
      <3>1. visible \subseteq visible' /\ occurredAt' = occurredAt
        BY <2>3 DEF Users, Publish, EditPage
      <3> QED
        BY <2>1, <3>1
    <2> QED
      BY <2>1, <2>2, <2>3 DEF SiteGrows
  <1>3. ASSUME NEW x \in Event, Due(x)'
        PROVE  Due(x) \/ (Publish(x) /\ occurredAt[x] = CreatedAt[x])
    <2>1. CASE \E p \in Page : EditPage(p)
      BY <1>1, <1>3, <2>1 DEF EditPage, Due, Lapsed, Minute, Settled, Quarantined
    <2>2. ASSUME NEW e \in Event, Publish(e) PROVE Due(x) \/ (Publish(x) /\ occurredAt[x] = CreatedAt[x])
      BY <1>1, <1>3, <2>2 DEF Publish, Due, Lapsed, Minute, Settled, Quarantined
    <2>3. ASSUME NEW e \in Event, EditMention(e) PROVE Due(x)
      <3>1. occurredAt'[x] = CreatedAt[x] /\ visible' = visible
        BY <1>3, <2>3 DEF Due, EditMention
      <3>2. CreatedAt[x] <= occurredAt[x] /\ occurredAt[x] <= occurredAt'[x]
        BY <1>2 DEF TurnInv, TimesGrow
      <3>3. occurredAt[x] = CreatedAt[x]
        BY <3>1, <3>2, TimeTypes
      <3> QED
        BY <1>1, <1>3, <3>1, <3>3 DEF Due, Lapsed, Minute, Settled, Quarantined
    <2> QED
      BY <2>1, <2>2, <2>3 DEF Users
  <1>4. TimesGrow'
    <2>1. ASSUME NEW e \in Event PROVE CreatedAt[e] <= occurredAt'[e]
      <3>1. CreatedAt[e] \in Nat /\ occurredAt[e] \in Nat /\ occurredAt'[e] \in Nat
        BY TimeTypes DEF TypeInv, TypeOK, SiteTypeOK
      <3> QED
        BY <1>2, <3>1 DEF TurnInv, TimesGrow
    <2>2. ASSUME NEW e \in visible, watermark <= occurredAt[e]
          PROVE  e \in visible' /\ watermark' <= occurredAt'[e]
      <3>1. e \in Event /\ watermark \in Nat /\ occurredAt[e] \in Nat /\ occurredAt'[e] \in Nat
        BY TimeTypes DEF TypeInv, TypeOK, SiteTypeOK
      <3> QED
        BY <1>1, <1>2, <2>2, <3>1 DEF SiteGrows
    <2> QED
      BY <1>1, <2>1, <2>2 DEF TurnInv, TimesGrow
  <1>5. NothingSkipped'
    <2> SUFFICES ASSUME NEW x \in Event, Due(x)'
                 PROVE  Minute(CreatedAt[x]) >= Minute(watermark)
      BY <1>1 DEF NothingSkipped, Minute
    <2>1. CASE Due(x)
      BY <2>1 DEF TurnInv, NothingSkipped
    <2>2. CASE Publish(x)
      <3>1. watermark <= CreatedAt[x]
        <4>1. CreatedAt[x] \in Nat /\ watermark \in Nat
              /\ \A e \in visible : occurredAt[e] \in Nat
          BY TimeTypes DEF TypeInv, TypeOK, SiteTypeOK
        <4>2. \A e \in visible : occurredAt[e] <= CreatedAt[x]
          BY <2>2 DEF Publish, NotPast
        <4> QED
          BY <4>1, <4>2 DEF TurnInv, TimesGrow
      <3> QED
        BY <3>1, TimeTypes, MinuteMonotone
    <2> QED
      BY <1>3, <2>1, <2>2
  <1>6. ASSUME NEW r \in Runner PROVE BatchInOrder(r)'
    BY <1>1, <1>2, PlaceStays
  <1>7. ASSUME NEW r \in Runner PROVE NoneLeftBehind(r)'
    <2> SUFFICES ASSUME pc[r] \in InBatch, NEW x \in Event, Due(x)'
                 PROVE  InBatchOrLater(r, x)
      BY <1>1 DEF NoneLeftBehind, InBatchOrLater, NotBefore, E
    <2>1. CASE Due(x)
      BY <2>1 DEF TurnInv, NoneLeftBehind
    <2>2. CASE Publish(x)
      <3>1. \A m \in batch[r] : m \in MentionInHand /\ Reported(m)
        BY TimeTypes DEF TurnInv, BatchInOrder
      <3>2. pc[r] \in Holding => cur[r] \in MentionInHand /\ Reported(cur[r])
        BY TimeTypes DEF TurnInv, BatchInOrder
      <3> QED
        BY <2>2, <3>1, <3>2, PublishedLater DEF InBatchOrLater
    <2> QED
      BY <1>3, <2>1, <2>2
  <1> QED
    BY <1>4, <1>5, <1>6, <1>7 DEF TurnInv

LEMMA EditsMoveStep == TypeInv /\ TypeInv' /\ TurnInv /\ EditsMove /\ [Next]_vars => EditsMove'
  <1> SUFFICES ASSUME TypeInv, TypeInv', TurnInv, EditsMove, [Next]_vars, NEW x \in Event,
                      EditedAt[x] <= CreatedAt[x]
               PROVE  occurredAt'[x] = CreatedAt[x]
    BY DEF EditsMove
  <1>1. occurredAt[x] = CreatedAt[x]
    BY DEF EditsMove
  <1>2. ASSUME NEW e \in Event, EditMention(e) PROVE occurredAt'[x] = CreatedAt[x]
    <2>1. e # x
      <3>1. occurredAt[e] < EditedAt[e] /\ EditedAt[x] \in Nat /\ CreatedAt[x] \in Nat
        BY <1>2, SiteAssumption DEF EditMention
      <3> QED
        BY <1>1, <3>1
    <2> QED
      BY <1>1, <1>2, <2>1 DEF EditMention, TypeInv, TypeOK, SiteTypeOK
  <1>3. CASE ~(\E e \in Event : EditMention(e)) /\ Users
    BY <1>1, <1>3 DEF Users, Publish, EditPage
  <1>4. ASSUME NEW r \in Runner, Cycle(r) \/ Fault(r) \/ Restart(r)
        PROVE  occurredAt'[x] = CreatedAt[x]
    BY <1>1, <1>4, RunnerDue
  <1>5. CASE Tick \/ (\E e \in Event : MarkerExpires(e)) \/ UNCHANGED vars
    BY <1>1, <1>5 DEF Tick, MarkerExpires, vars, siteVars
  <1> QED
    BY <1>2, <1>3, <1>4, <1>5 DEF Next, Users

LEMMA TurnStep ==
  InOrder /\ TypeInv /\ TypeInv' /\ SettledInv /\ EditsMove /\ TurnInv /\ [Next]_vars => TurnInv'
  <1> SUFFICES ASSUME InOrder, TypeInv, TypeInv', SettledInv, EditsMove, TurnInv, [Next]_vars
               PROVE  TurnInv'
    OBVIOUS
  <1> USE DEF InOrder
  <1>1. ASSUME NEW r \in Runner, Cycle(r) \/ Fault(r) \/ Restart(r) PROVE TurnInv'
    <2>1. TimesGrow' /\ NothingSkipped' /\ BatchInOrder(r)' /\ NoneLeftBehind(r)'
      <3>1. CASE Fetch(r)
        BY <3>1, FetchTurn
      <3>2. CASE TakeNext(r)
        BY <3>2, TakeTurn
      <3>3. CASE Committing(r)
        BY <3>3, CommitTurn DEF SettledInv
      <3> QED
        BY <1>1, <3>1, <3>2, <3>3, RunnerSteps, AttemptTurn
    <2>2. \A s \in Runner : s = r
      BY DEF OneProcess
    <2> QED
      BY <2>1, <2>2 DEF TurnInv
  <1>2. CASE Users
    BY <1>2, UsersTurn
  <1>3. CASE Tick \/ UNCHANGED vars
    <2>1. UNCHANGED <<watermark, processed, failures, pc, batch, cur, visible, occurredAt, opening>>
      BY <1>3 DEF Tick, vars, storeVars, siteVars, runVars
    <2>2. \A x \in Event : Due(x)' <=> Due(x)
      BY <2>1 DEF Due, Lapsed, Minute, Settled, Quarantined
    <2>3. TimesGrow' /\ NothingSkipped'
      BY <2>1, <2>2 DEF TurnInv, TimesGrow, NothingSkipped, Minute
    <2>4. ASSUME NEW r \in Runner PROVE BatchInOrder(r)'
      BY <2>1 DEF TurnInv, BatchInOrder, Reported, Minute
    <2>5. ASSUME NEW r \in Runner PROVE NoneLeftBehind(r)'
      BY <2>1, <2>2 DEF TurnInv, NoneLeftBehind, InBatchOrLater, NotBefore, E
    <2> QED
      BY <2>3, <2>4, <2>5 DEF TurnInv
  <1>4. ~(\E e \in Event : MarkerExpires(e))
    BY DEF MarkerExpires
  <1> QED
    BY <1>1, <1>2, <1>3, <1>4 DEF Next

LEMMA TurnInvariant == InOrder => (Spec => [](TurnInv /\ SettledInv))
  <1> SUFFICES ASSUME InOrder PROVE Spec => [](TurnInv /\ SettledInv)
    OBVIOUS
  <1>1. Init => TurnInv /\ EditsMove
    BY TurnInit
  <1>2. TypeInv /\ TypeInv' /\ SettledInv /\ EditsMove /\ TurnInv /\ [Next]_vars => TurnInv'
    BY TurnStep
  <1>3. Spec => []SettledInv
    BY SettledInvariant DEF InOrder
  <1> QED
    BY <1>1, <1>2, <1>3, EditsMoveStep, TypeInvariant, PTL DEF Spec

\* The watermark never passes a mention the poller is not through with, unless
\* the mention was edited, or left behind by the initial lookback before
\* anything was committed: with one process whose store reports its failed
\* reads, within the life of the markers, when one search returns all there is
\* or nothing is edited, whatever fails, crashes and restarts.
THEOREM WatermarkPassesNothing == InOrder => (Spec => []NothingSkipped)
  <1> SUFFICES ASSUME InOrder PROVE Spec => []NothingSkipped
    OBVIOUS
  <1>1. TurnInv => NothingSkipped
    BY DEF TurnInv
  <1> QED
    BY <1>1, TurnInvariant, PTL

-----------------------------------------------------------------------------
(* The mention desk.                                                       *)

AnsweredSet == {e \in Event : Answered(e)}
QuarantinedSet == {e \in Event : Quarantined(e)}
LapsedSet == {e \in Event : Lapsed(e)}

\* The mention a runner is at is in its turn.
LEMMA HandInTurn ==
  ASSUME TypeInv, TurnInv, NEW r \in Runner, pc[r] \in Holding
  PROVE  E(r) \in Event /\ Desk!InTurn(E(r))
  <1>1. /\ cur[r] \in MentionInHand /\ E(r) \in Event /\ cur[r].at \in Nat
        /\ batch[r] \subseteq MentionInHand
    BY HandType, TimeTypes
  <1>2. Reported(cur[r]) /\ \A m \in batch[r] : cur[r].at <= m.at /\ Reported(m)
    BY DEF TurnInv, BatchInOrder, InBatch
  <1>3. E(r) \in visible /\ CreatedAt[E(r)] <= cur[r].at
    BY <1>2 DEF Reported, E
  <1>4. ASSUME NEW x \in visible, x \notin LapsedSet, occurredAt[x] = CreatedAt[x],
               CreatedAt[x] < CreatedAt[E(r)]
        PROVE  Settled(x)
    <2> SUFFICES ASSUME ~Settled(x) PROVE FALSE
      OBVIOUS
    <2>1. x \in Event /\ Due(x)
      BY <1>4 DEF Due, LapsedSet, TypeInv, TypeOK, SiteTypeOK
    <2>2. CreatedAt[x] \in Nat /\ CreatedAt[E(r)] \in Nat
      BY <1>1, <2>1, TimeTypes
    <2>3. InBatchOrLater(r, x)
      BY <2>1 DEF TurnInv, NoneLeftBehind, InBatch
    <2>4. CASE NotBefore(x, cur[r])
      BY <1>1, <1>3, <1>4, <2>2, <2>4 DEF NotBefore
    <2>5. CASE E(r) = x
      BY <1>4, <2>2, <2>5
    <2>6. CASE \E m \in batch[r] : m.id = x
      <3>1. PICK m \in batch[r] : m.id = x
        BY <2>6
      <3>2. m.at = CreatedAt[x] /\ cur[r].at <= m.at
        BY <1>1, <1>2, <1>4, <2>1, <3>1, DueReported
      <3> QED
        BY <1>1, <1>3, <1>4, <2>2, <3>2
    <2> QED
      BY <2>3, <2>4, <2>5, <2>6 DEF InBatchOrLater
  <1>5. ASSUME NEW x \in visible, Settled(x) PROVE x \in processed \cup {e \in Event : Quarantined(e)}
    BY <1>5 DEF Settled, TypeInv, TypeOK, SiteTypeOK
  <1> QED
    BY <1>1, <1>3, <1>4, <1>5 DEF Desk!InTurn, LapsedSet

LEMMA DeskStarts == Init => Desk!DeskInit
  <1> SUFFICES ASSUME Init PROVE Desk!DeskInit
    OBVIOUS
  <1>1. /\ visible = {} /\ occurredAt = CreatedAt /\ processed = {} /\ comments = {}
        /\ opening = 0 /\ watermark = 0
    BY DEF Init, StoreInit, SiteInit
  <1>2. ASSUME NEW e \in Event PROVE ~Quarantined(e)
    BY DEF Init, StoreInit, Quarantined
  <1>3. ASSUME NEW e \in Event PROVE ~Answered(e)
    <2>1. ASSUME NEW f PROVE ~Delivered(e, f)
      BY <1>1, SiteAssumption DEF Delivered
    <2>2. CASE Requested[e] = << >>
      BY <1>1, <2>2 DEF Answered
    <2>3. CASE Requested[e] # << >>
      <3>1. 1 \in 1 .. Len(Requested[e])
        BY <2>3, RequestedType
      <3> QED
        BY <2>1, <2>3, <3>1 DEF Answered
    <2> QED
      BY <2>2, <2>3
  <1>4. ASSUME NEW e \in Event PROVE ~Lapsed(e)
    <2>1. CreatedAt[e] \in Nat /\ 0 <= CreatedAt[e]
      BY SiteAssumption
    <2>2. Minute(0) <= Minute(CreatedAt[e]) /\ Minute(0) \in Nat /\ Minute(CreatedAt[e]) \in Nat
      BY <2>1, MinuteMonotone
    <2> QED
      BY <1>1, <2>2 DEF Lapsed
  <1> QED
    BY <1>1, <1>2, <1>3, <1>4 DEF Desk!DeskInit

\* Posting a comment for a mention may complete its answer and no other's.
LEMMA PostAnswers ==
  ASSUME NEW e \in Event, NEW c \in Comment, c.event = e, PostComment(c)
  PROVE  AnsweredSet' = AnsweredSet \/ AnsweredSet' = AnsweredSet \cup {e}
  <1>1. comments' = comments \cup {c}
    BY DEF PostComment
  <1>2. ASSUME NEW x \in Event, x # e PROVE Answered(x)' <=> Answered(x)
    <2>1. ASSUME NEW f PROVE Delivered(x, f)' <=> Delivered(x, f)
      BY <1>1, <1>2 DEF Delivered
    <2> QED
      BY <1>1, <1>2, <2>1 DEF Answered
  <1>3. Answered(e) => Answered(e)'
    BY <1>1, AnsweredStays
  <1> QED
    BY <1>2, <1>3 DEF AnsweredSet

\* The first commit starts the desk: what the runner commits is settled.
LEMMA CommitStarts ==
  ASSUME InOrder, TypeInv, SettledInv, AnsweredSet' = AnsweredSet, NEW r \in Runner,
         Committing(r)
  PROVE  Desk!Start \/ UNCHANGED Desk!deskVars
  <1>1. /\ pc[r] \in {"skip", "commit", "quarantine"} /\ pc[r] \in Holding
        /\ watermark' = cur[r].at
        /\ UNCHANGED <<processed, failures, visible, occurredAt, opening>>
    BY CommittingFrame DEF Holding, AttemptLabels
  <1>2. E(r) \in Event /\ (watermark' # 0) = TRUE
    BY <1>1, HandType DEF MentionInHand
  <1>3. E(r) \in processed \cup QuarantinedSet
    BY <1>1, <1>2 DEF SettledInv, HandSettled, InOrder, QuarantinedSet
  <1>4. QuarantinedSet' = QuarantinedSet /\ LapsedSet' = LapsedSet
    BY <1>1 DEF QuarantinedSet, Quarantined, LapsedSet, Lapsed, Minute
  <1> QED
    BY <1>1, <1>2, <1>3, <1>4 DEF Desk!Start, AnsweredSet, QuarantinedSet, LapsedSet

\* A search without a watermark lets the mentions before its window lapse.
LEMMA FetchLapses ==
  ASSUME InOrder, TypeInv, TypeInv', AnsweredSet' = AnsweredSet, NEW r \in Runner, Fetch(r)
  PROVE  Desk!Lapse \/ UNCHANGED Desk!deskVars
  <1>1. UNCHANGED <<watermark, visible, occurredAt, processed, failures>>
    BY DEF Fetch
  <1>2. QuarantinedSet' = QuarantinedSet
    BY <1>1 DEF QuarantinedSet, Quarantined
  <1>3. CASE watermark # 0
    <2>1. PICK lost \in BOOLEAN, o \in Openings :
            /\ ReadAnswers(lost)
            /\ IF LoadWatermark(lost) # 0 THEN o = opening ELSE o >= opening
            /\ opening' = o
      BY DEF Fetch
    <2>2. opening' = opening
      BY <1>3, <2>1 DEF ReadAnswers, LoadWatermark, InOrder
    <2>3. LapsedSet' = LapsedSet
      BY <2>2 DEF LapsedSet, Lapsed, Minute
    <2> QED
      BY <1>1, <1>2, <2>3 DEF Desk!deskVars, AnsweredSet, QuarantinedSet, LapsedSet
  <1>4. CASE watermark = 0
    <2>1. LapsedSet \subseteq LapsedSet'
      BY OpeningMovesOn DEF LapsedSet
    <2>2. ASSUME NEW x \in LapsedSet', NEW y \in Event, CreatedAt[y] <= CreatedAt[x]
          PROVE  y \in LapsedSet'
      <3>1. x \in Event /\ Minute(CreatedAt[x]) < Minute(opening')
        BY <2>2 DEF LapsedSet, Lapsed, Minute
      <3>2. /\ Minute(CreatedAt[y]) <= Minute(CreatedAt[x])
            /\ Minute(CreatedAt[y]) \in Nat /\ Minute(CreatedAt[x]) \in Nat
        BY <2>2, <3>1, TimeTypes, MinuteMonotone
      <3>3. Minute(opening') \in Nat
        BY OpeningMovesOn
      <3> QED
        BY <3>1, <3>2, <3>3 DEF LapsedSet, Lapsed, Minute
    <2> QED
      BY <1>1, <1>2, <1>4, <2>1, <2>2 DEF Desk!Lapse, AnsweredSet, QuarantinedSet, LapsedSet
  <1> QED
    BY <1>3, <1>4

LEMMA RunnerAtDesk ==
  ASSUME InOrder, ~DryRun, TypeInv, TypeInv', AnswerInv, SettledInv, TurnInv, NEW r \in Runner,
         Cycle(r) \/ Fault(r) \/ Restart(r), UNCHANGED comments
  PROVE  Desk!DeskNext \/ UNCHANGED Desk!deskVars
  <1>1. AnsweredSet' = AnsweredSet
    BY DEF AnsweredSet, Answered, Delivered
  <1>2. UNCHANGED <<visible, occurredAt>>
    BY RunnerDue
  <1>3. CASE MarkProcessed(r)
    <2>1. /\ pc[r] = "mark" /\ pc[r] \in Holding /\ processed' = processed \cup {E(r)}
          /\ UNCHANGED <<failures, watermark, opening>>
      BY <1>3, MarkFrame
    <2>2. E(r) \in Event /\ Desk!InTurn(E(r)) /\ Answered(E(r))
      BY <2>1, HandInTurn DEF AnswerInv, HandAnswered
    <2>3. QuarantinedSet' = QuarantinedSet /\ LapsedSet' = LapsedSet
      BY <2>1 DEF QuarantinedSet, Quarantined, LapsedSet, Lapsed, Minute
    <2>4. Desk!Close(E(r))
      BY <1>1, <1>2, <2>1, <2>2, <2>3 DEF Desk!Close, AnsweredSet, QuarantinedSet, LapsedSet
    <2> QED
      BY <2>2, <2>4 DEF Desk!DeskNext
  <1>4. CASE CountFailure(r)
    <2>1. pc[r] \in Holding /\ UNCHANGED <<processed, watermark, opening>>
      BY <1>4, CountingFrame DEF CountFailure, Holding
    <2>2. E(r) \in Event
      BY <2>1, HandType
    <2>3. /\ failures'[E(r)].status = "failed_retryable"
          /\ \A x \in Event \ {E(r)} : failures'[x] = failures[x]
      BY <1>4, <2>2, CountingFrame DEF CountFailure, IncrementFailureCount, TypeInv, TypeOK, StoreTypeOK
    <2>4. QuarantinedSet' = QuarantinedSet \ {E(r)} /\ LapsedSet' = LapsedSet
      BY <2>1, <2>2, <2>3 DEF QuarantinedSet, Quarantined, LapsedSet, Lapsed, Minute
    <2>5. Desk!Reopen(E(r))
      BY <1>1, <1>2, <2>1, <2>4 DEF Desk!Reopen, AnsweredSet, QuarantinedSet, LapsedSet
    <2> QED
      BY <2>2, <2>5 DEF Desk!DeskNext
  <1>5. CASE MarkTerminal(r)
    <2>1. pc[r] \in Holding /\ UNCHANGED <<processed, watermark, opening>>
      BY <1>5, CountingFrame DEF MarkTerminal, Holding
    <2>2. E(r) \in Event /\ Desk!InTurn(E(r))
      BY <2>1, HandInTurn
    <2>3. /\ failures'[E(r)].status = "failed_terminal"
          /\ \A x \in Event \ {E(r)} : failures'[x] = failures[x]
      BY <1>5, <2>2, CountingFrame DEF MarkTerminal, MarkTerminalFailure, TypeInv, TypeOK, StoreTypeOK
    <2>4. QuarantinedSet' = QuarantinedSet \cup {E(r)} /\ LapsedSet' = LapsedSet
      BY <2>1, <2>2, <2>3 DEF QuarantinedSet, Quarantined, LapsedSet, Lapsed, Minute
    <2>5. Desk!Quarantine(E(r))
      BY <1>1, <1>2, <2>1, <2>2, <2>4 DEF Desk!Quarantine, AnsweredSet, QuarantinedSet, LapsedSet
    <2> QED
      BY <2>2, <2>5 DEF Desk!DeskNext
  <1>6. CASE UNCHANGED <<watermark, processed, failures, opening>>
    <2>1. QuarantinedSet' = QuarantinedSet /\ LapsedSet' = LapsedSet
      BY <1>6 DEF QuarantinedSet, Quarantined, LapsedSet, Lapsed, Minute
    <2> QED
      BY <1>1, <1>2, <1>6, <2>1 DEF Desk!deskVars, AnsweredSet, QuarantinedSet, LapsedSet
  <1>7. Attempting(r) \/ Leaving(r) => UNCHANGED <<watermark, processed, failures, opening>>
    BY AttemptingFrame, LeavingFrame
  <1>8. TakeNext(r) => UNCHANGED <<watermark, processed, failures, opening>>
    BY DEF TakeNext, NothingOutside, siteVars
  <1>9. CASE Committing(r) \/ Fetch(r)
    BY <1>1, <1>9, CommitStarts, FetchLapses DEF Desk!DeskNext
  <1> QED
    BY <1>3, <1>4, <1>5, <1>6, <1>7, <1>8, <1>9, RunnerSteps

LEMMA UsersAtDesk ==
  ASSUME InOrder, TypeInv, Users
  PROVE  Desk!DeskNext \/ UNCHANGED Desk!deskVars
  <1>1. UNCHANGED <<comments, watermark, processed, failures, opening>>
    BY DEF Users, storeVars, Publish, EditMention, EditPage
  <1>2. /\ AnsweredSet' = AnsweredSet /\ QuarantinedSet' = QuarantinedSet
        /\ LapsedSet' = LapsedSet
    BY <1>1 DEF AnsweredSet, Answered, Delivered, QuarantinedSet, Quarantined, LapsedSet,
       Lapsed, Minute
  <1>3. ASSUME NEW e \in Event, Publish(e) PROVE Desk!DeskPublish(e)
    <2>1. opening <= CreatedAt[e] /\ opening \in Nat /\ CreatedAt[e] \in Nat
      BY <1>3, TimeTypes, SiteAssumption DEF Publish, NotPast, InOrder, TypeInv, TypeOK, SiteTypeOK
    <2>2. Minute(opening) <= Minute(CreatedAt[e]) /\ Minute(opening) \in Nat
          /\ Minute(CreatedAt[e]) \in Nat
      BY <2>1, MinuteMonotone
    <2>3. e \notin LapsedSet
      BY <2>2 DEF LapsedSet, Lapsed
    <2> QED
      BY <1>1, <1>2, <1>3, <2>3 DEF Publish, Desk!DeskPublish, AnsweredSet, QuarantinedSet, LapsedSet
  <1>4. ASSUME NEW e \in Event, EditMention(e) PROVE Desk!DeskEdit(e)
    <2>1. /\ occurredAt[e] < EditedAt[e] /\ visible' = visible
          /\ occurredAt' = [occurredAt EXCEPT ![e] = EditedAt[e]]
          /\ occurredAt'[e] = EditedAt[e]
      BY <1>4 DEF EditMention, TypeInv, TypeOK, SiteTypeOK
    <2> QED
      BY <1>1, <1>2, <2>1 DEF Desk!DeskEdit, AnsweredSet, QuarantinedSet, LapsedSet
  <1>5. ASSUME NEW p \in Page, EditPage(p) PROVE UNCHANGED Desk!deskVars
    BY <1>1, <1>2, <1>5 DEF EditPage, Desk!deskVars, AnsweredSet, QuarantinedSet, LapsedSet
  <1> QED
    BY <1>3, <1>4, <1>5 DEF Users, Desk!DeskNext

LEMMA DeskStep ==
  ASSUME InOrder, ~DryRun, TypeInv, TypeInv', AnswerInv, SettledInv, TurnInv, [Next]_vars
  PROVE  [Desk!DeskNext]_(Desk!deskVars)
  <1>1. ASSUME NEW r \in Runner, Cycle(r) \/ Fault(r) \/ Restart(r)
        PROVE  Desk!DeskNext \/ UNCHANGED Desk!deskVars
    <2>1. CASE UNCHANGED comments
      BY <1>1, <2>1, RunnerAtDesk
    <2>2. CASE comments' # comments
      <3>1. PICK s \in Runner, c \in Comment :
              /\ pc[s] \in AttemptLabels \ {"commit"}
              /\ c.event = E(s)
              /\ PostComment(c)
              /\ UNCHANGED <<watermark, processed, failures, visible, occurredAt, opening>>
        BY <1>1, <2>2, PostsAnswerHand DEF Next
      <3>2. E(s) \in Event /\ Desk!InTurn(E(s))
        BY <3>1, HandInTurn DEF Holding
      <3>3. QuarantinedSet' = QuarantinedSet /\ LapsedSet' = LapsedSet
        BY <3>1 DEF QuarantinedSet, Quarantined, LapsedSet, Lapsed, Minute
      <3>4. AnsweredSet' = AnsweredSet \/ AnsweredSet' = AnsweredSet \cup {E(s)}
        BY <3>1, <3>2, PostAnswers
      <3>5. Desk!Answer(E(s)) \/ UNCHANGED Desk!deskVars
        BY <3>1, <3>2, <3>3, <3>4 DEF Desk!Answer, Desk!deskVars, AnsweredSet, QuarantinedSet,
           LapsedSet
      <3> QED
        BY <3>2, <3>5 DEF Desk!DeskNext
    <2> QED
      BY <2>1, <2>2
  <1>2. CASE Tick \/ UNCHANGED vars
    <2>1. UNCHANGED <<watermark, visible, occurredAt, comments, processed, failures, opening>>
      BY <1>2 DEF Tick, vars, storeVars, siteVars
    <2>2. /\ AnsweredSet' = AnsweredSet /\ QuarantinedSet' = QuarantinedSet
          /\ LapsedSet' = LapsedSet
      BY <2>1 DEF AnsweredSet, Answered, Delivered, QuarantinedSet, Quarantined, LapsedSet,
         Lapsed, Minute
    <2> QED
      BY <2>1, <2>2 DEF Desk!deskVars, AnsweredSet, QuarantinedSet, LapsedSet
  <1>3. ~(\E e \in Event : MarkerExpires(e))
    BY DEF MarkerExpires, InOrder
  <1> QED
    BY <1>1, <1>2, <1>3, UsersAtDesk DEF Next

\* The worker implements the mention desk: a mention is closed after it has
\* been answered, or quarantined, and in its turn, across crashes, restarts,
\* failed attempts, edits and any number of pages, frameworks and parts.  The
\* mentions the initial lookback leaves behind lapse, and none does after the
\* first commit.
THEOREM WorkerImplementsDesk == InOrder /\ ~DryRun => (Spec => DeskSpec)
  <1> SUFFICES ASSUME InOrder, ~DryRun PROVE Spec => DeskSpec
    OBVIOUS
  <1>1. Spec => []AnswerInv
    <2>1. TypeInv /\ AnswerInv /\ [Next]_vars => AnswerInv'
      BY AnswerStep
    <2> QED
      BY <2>1, AnswerInit, TypeInvariant, PTL DEF Spec
  <1>2. Init => Desk!DeskInit
    BY DeskStarts
  <1>3. TypeInv /\ TypeInv' /\ AnswerInv /\ SettledInv /\ TurnInv /\ [Next]_vars
        => [Desk!DeskNext]_(Desk!deskVars)
    BY DeskStep
  <1> QED
    BY <1>1, <1>2, <1>3, TypeInvariant, TurnInvariant, PTL DEF Spec, DeskSpec, Desk!DeskSpec
=============================================================================
