--------------------------- MODULE MentionEvents ---------------------------
(***************************************************************************)
(* What the poller's parts all speak of: the mentions of the assessment    *)
(* agent, the pages they target and the frameworks they ask for.           *)
(***************************************************************************)
EXTENDS Sequences

CONSTANTS
  Event,       \* mentions, named by their event_id
  Page,        \* Confluence pages a mention can target
  Framework,   \* framework scopes an assessment can be asked for
  PageOf,      \* the page a mention targets
  Requested,   \* frameworks a mention asks for, in the order they are assessed;
               \* empty when neither it nor the discussion names one
  Poison       \* mentions whose handling raises every time (no target, page
               \* gone, a job the adapter always rejects)

ASSUME MentionAssumption ==
  /\ PageOf \in [Event -> Page]
  /\ Requested \in [Event -> Seq(Framework)]
  /\ Poison \subseteq Event

\* A comment or a dashboard row is about one framework or, when the requester
\* is asked to name one, about none in particular.
AnyFramework == "clarification"
Scope == Framework \cup {AnyFramework}
=============================================================================
