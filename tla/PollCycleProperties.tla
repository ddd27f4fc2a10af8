------------------------ MODULE PollCycleProperties ------------------------
(***************************************************************************)
(* What is asked of the polling worker.  The properties of the first part  *)
(* hold; those of the second are what the repository's documents say and   *)
(* the code does not do.                                                   *)
(***************************************************************************)
EXTENDS PollCycle

\* The comments that answer mention e for framework f are all there: a
\* no-change note, or every part of one assessment.
Delivered(e, f) ==
  \/ \E c \in comments : c.kind = "no_change" /\ c.event = e /\ c.framework = f
  \/ \E v, w \in 1 .. MaxVersion : \A i \in 1 .. Parts :
       \E c \in comments : /\ c.kind = "assessment" /\ c.event = e /\ c.framework = f
                           /\ c.version = v /\ c.content = w /\ c.part = i

\* Mention e has been answered for every framework it asked for, or has been
\* asked which one it wants.
Answered(e) ==
  IF Requested[e] = << >>
  THEN \E c \in comments : c.kind = "clarification" /\ c.event = e
  ELSE \A i \in 1 .. Len(Requested[e]) : Delivered(e, Requested[e][i])

Quarantined(e) == failures[e].status = "failed_terminal"

\* The poller is through with e: run_poll_cycle would not hold later mentions
\* back for it.
Settled(e) == e \in processed \/ Quarantined(e)

-----------------------------------------------------------------------------
(* Properties of the code.                                                 *)

\* A processed marker, which keeps the poller from ever looking at a mention
\* again, is written only after every comment that answers it is posted,
\* whatever crashes, raises or overlaps (polling_worker.py: handler(event)
\* before mark_processed_event).
ProcessedImpliesAnswered == ~DryRun => \A e \in processed : Answered(e)

\* The page was edited between the read that stamps the assessment c with a
\* version (polling_worker.py) and the one it is made from (interfaces.py).
EditedMeanwhile(c) == c.version < c.content

\* No part of an assessment of a page against one framework is posted twice
\* under one version, be it for one mention or for two: the snapshot is saved
\* before the first part is posted, and a retry compares with it.  The stamp
\* is never newer than the text, so the same text is assessed twice, under two
\* versions, only where the page was edited between the two reads.
AssessedOnce ==
  \A c \in comments : c.kind = "assessment" =>
    /\ c \notin reposted
    /\ c.version <= c.content
    /\ \A d \in comments \ {c} :
         /\ d.kind = "assessment" /\ d.framework = c.framework
         /\ PageOf[d.event] = PageOf[c.event] /\ d.part = c.part
         => /\ d.version # c.version
            /\ d.content = c.content => EditedMeanwhile(c) \/ EditedMeanwhile(d)

\* Nothing more is posted for a mention while it is marked as processed, on
\* whatever page versions, retries and restarts follow.
ProcessedIsFinal ==
  [][\A e \in processed :
       /\ {c \in comments' : c.event = e} = {c \in comments : c.event = e}
       /\ {c \in reposted' : c.event = e} = {c \in reposted : c.event = e}]_<<comments, reposted>>

\* Mention e was written before the window of an initial lookback: as long as
\* nothing is committed, the window moves on with the clock.
Lapsed(e) == Minute(CreatedAt[e]) < Minute(opening)

\* A visible mention that no edit has moved, that was not left behind by the
\* initial lookback, and that the poller is not through with.
Due(e) == e \in visible /\ occurredAt[e] = CreatedAt[e] /\ ~Lapsed(e) /\ ~Settled(e)

\* The search never again returns a mention created in an earlier minute than
\* the watermark's; unless it was edited, or older than the initial lookback
\* of the search that preceded the first commit, such a mention must have been
\* settled.
NothingSkipped == \A e \in Event : Due(e) => Minute(CreatedAt[e]) >= Minute(watermark)

\* The worker implements the mention desk: answers before markers, mentions
\* in their turn, across crashes and failed attempts.
Desk == INSTANCE MentionDesk WITH
          answered <- {e \in Event : Answered(e)},
          quarantined <- {e \in Event : Quarantined(e)},
          lapsed <- {e \in Event : Lapsed(e)},
          started <- watermark # 0

DeskSpec == Desk!DeskSpec

\* Two cycles are never under way together while both are younger than the
\* lease's time to live (try_acquire_lease, release_lease's owner check).
SingleFlight ==
  \A r, s \in Runner : InCycle(r) /\ InCycle(s) /\ age[r] < LeaseTTL /\ age[s] < LeaseTTL => r = s

\* Cycles that outlive their lease, crash or release late never bring two
\* young cycles about by themselves: that takes a run which writes or deletes
\* the lock document after another has written it since it was read, or a
\* failed read taken for a missing document.
OverlapNeedsRace == ~raced => SingleFlight

\* Every mention the search can return is answered or quarantined in the end,
\* with processes that die, calls that fail, and mentions that always fail;
\* unless the initial lookback moved past it before anything was committed.
EveryMentionSettled == \A e \in Event : (e \in visible) ~> (Settled(e) \/ Lapsed(e))

\* A dry run posts nothing and leaves no snapshot or dashboard row behind,
\* so the later live run compares with none of its assessments.
DryRunLeavesNoTrace == [][DryRun => UNCHANGED <<comments, reposted, snapshot, pageRow>>]_vars

-----------------------------------------------------------------------------
(* What the documents say.                                                 *)

\* docs/implementation-plan.md:157: markers and watermark are kept "so
\* restart/retry paths do not miss or duplicate responses".  Not missing: a
\* processed mention got an assessment of each framework, or an earlier
\* mention of the page did.
AssessmentReaches(e, f) ==
  \E c \in comments : /\ c.kind = "assessment" /\ c.framework = f
                      /\ PageOf[c.event] = PageOf[e] /\ c.part = Parts

NoMissedAssessment ==
  \A e \in processed : \A i \in 1 .. Len(Requested[e]) : AssessmentReaches(e, Requested[e][i])

\* docs/agent-assessment-orchestration.md:225: the failure status moves
\* "pending -> failed_retryable -> failed_terminal", never back.
QuarantineIsFinal == [][\A e \in Event : Quarantined(e) => Quarantined(e)']_failures
=============================================================================
