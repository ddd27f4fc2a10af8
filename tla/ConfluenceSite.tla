--------------------------- MODULE ConfluenceSite ---------------------------
(***************************************************************************)
(* The Confluence site as the poller sees it: the mentions its search can  *)
(* return, the pages, and the comments posted to them; and the two client  *)
(* calls of runtime/assessment_orchestration/mcp/confluence.py the poller  *)
(* depends on, get_recent_mentions and post_comment.                       *)
(*                                                                         *)
(* A time is a position on one clock.  CQL compares creation times at the  *)
(* granularity of a minute, MinuteLen positions long.                      *)
(***************************************************************************)
EXTENDS Naturals, FiniteSets, MentionEvents

CONSTANTS
  CreatedAt,     \* when the mentioning content was created
  EditedAt,      \* when its author edits it (0: never)
  Rank,          \* position by (title, event_id), the tie-break of the sort
  MinuteLen,     \* clock positions in a minute
  BatchLimit,    \* results one search returns (search_cql's limit, 25)
  IndexLag,      \* TRUE: content may become searchable after later content
  Openings,      \* when the initial lookback (PT1H before now) may begin; 0 is
                 \* before all there is to see
  MaxVersion,    \* bound on page edits
  Parts          \* comments one assessment is split into

ASSUME SiteAssumption ==
  /\ CreatedAt \in [Event -> Nat \ {0}]
  /\ EditedAt \in [Event -> Nat]
  /\ Rank \in [Event -> Nat]
  /\ \A e, x \in Event : Rank[e] = Rank[x] => e = x
  /\ MinuteLen \in Nat \ {0}
  /\ BatchLimit \in Nat \ {0}
  /\ IndexLag \in BOOLEAN
  /\ Openings \subseteq Nat
  /\ 0 \in Openings
  /\ MaxVersion \in Nat \ {0}
  /\ Parts \in Nat \ {0}

VARIABLES
  visible,      \* mentions the search can return
  occurredAt,   \* the event time the API reports for each mention
  pageVersion,  \* current version of each page
  comments,     \* comments posted so far: records of Comment
  reposted,     \* those posted more than once
  opening       \* where the last search without a watermark began

siteVars == <<visible, occurredAt, pageVersion, comments, reposted, opening>>

\* A comment is told apart by what it answers, the page version it is stamped
\* with, and the version of the page whose text it was made from.
Comment == [kind : {"assessment", "no_change", "clarification"}, event : Event,
            framework : Scope, version : Nat, content : Nat, part : Nat]

SiteTypeOK ==
  /\ visible \in SUBSET Event
  /\ occurredAt \in [Event -> Nat \ {0}]
  /\ pageVersion \in [Page -> 1 .. MaxVersion]
  /\ comments \in SUBSET Comment
  /\ reposted \in SUBSET comments
  /\ opening \in Openings

SiteInit ==
  /\ visible = {}
  /\ occurredAt = CreatedAt
  /\ pageVersion = [p \in Page |-> 1]
  /\ comments = {}
  /\ reposted = {}
  /\ opening = 0

-----------------------------------------------------------------------------
(* What users do. *)

\* It is not later than t yet: nothing seen so far happened after t, and what
\* happens after a search does not happen before the hour it looked back on.
NotPast(t) == opening <= t /\ \A x \in visible : occurredAt[x] <= t

Publish(e) ==
  /\ e \notin visible
  /\ IndexLag \/ NotPast(CreatedAt[e])
  /\ visible' = visible \cup {e}
  /\ UNCHANGED <<occurredAt, pageVersion, comments, reposted, opening>>

\* Editing the content moves the event time: version.when is preferred to the
\* creation date.
EditMention(e) ==
  /\ e \in visible
  /\ occurredAt[e] < EditedAt[e]
  /\ NotPast(EditedAt[e])
  /\ occurredAt' = [occurredAt EXCEPT ![e] = EditedAt[e]]
  /\ UNCHANGED <<visible, pageVersion, comments, reposted, opening>>

EditPage(p) ==
  /\ pageVersion[p] < MaxVersion
  /\ pageVersion' = [pageVersion EXCEPT ![p] = @ + 1]
  /\ UNCHANGED <<visible, occurredAt, comments, reposted, opening>>

-----------------------------------------------------------------------------
(* What the client calls do. *)

Minute(t) == t \div MinuteLen

\* created >= "<since, cut to the minute>".
Matching(since) == {e \in visible : Minute(CreatedAt[e]) >= Minute(since)}

\* ORDER BY created ASC, one page of BatchLimit results; the order of results
\* created at the same time is Confluence's choice.
SearchResults(since) ==
  LET M == Matching(since)
  IN  {B \in SUBSET M :
         /\ Cardinality(B) = IF Cardinality(M) <= BatchLimit THEN Cardinality(M)
                                                             ELSE BatchLimit
         /\ \A b \in B, m \in M \ B : CreatedAt[b] <= CreatedAt[m]}

\* A mention as the normalised search result carries it: the event time is
\* the one reported when the search ran.
Mention(e) == [id |-> e, at |-> occurredAt[e]]

\* Bug: the title outranks the event time.
SortsByTitle(m, n) == Rank[m.id] < Rank[n.id]

SortsBefore(m, n) ==
  \/ m.at < n.at
  \/ m.at = n.at /\ Rank[m.id] < Rank[n.id]

\* The idempotency key travels inside the comment's text and is compared with
\* nothing: a comment posted twice is there twice.
PostComment(c) ==
  /\ comments' = comments \cup {c}
  /\ reposted' = IF c \in comments THEN reposted \cup {c} ELSE reposted

AssessmentComment(e, f, v, w, i) ==
  [kind |-> "assessment", event |-> e, framework |-> f, version |-> v, content |-> w,
   part |-> i]

NoChangeComment(e, f, v) ==
  [kind |-> "no_change", event |-> e, framework |-> f, version |-> v, content |-> v,
   part |-> 1]

ClarificationComment(e) ==
  [kind |-> "clarification", event |-> e, framework |-> AnyFramework, version |-> 0,
   content |-> 0, part |-> 1]
=============================================================================
