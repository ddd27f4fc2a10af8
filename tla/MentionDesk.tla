---------------------------- MODULE MentionDesk ----------------------------
(***************************************************************************)
(* What the polling worker promises, with no store, lease or crash in it:  *)
(* a mention is closed after it has been answered in full, or quarantined; *)
(* and it is dealt with in its turn, after every mention that was written  *)
(* before it and not edited since.  A quarantined mention may be reopened. *)
(* Until the first mention is settled, the oldest ones may lapse: nobody    *)
(* waits for them any more.                                                *)
(***************************************************************************)
EXTENDS Naturals

CONSTANTS Event, CreatedAt

VARIABLES visible, occurredAt, answered, processed, quarantined, lapsed, started

deskVars == <<visible, occurredAt, answered, processed, quarantined, lapsed, started>>

DeskInit ==
  /\ visible = {}
  /\ occurredAt = CreatedAt
  /\ answered = {}
  /\ processed = {}
  /\ quarantined = {}
  /\ lapsed = {}
  /\ started = FALSE

InTurn(e) ==
  /\ e \in visible
  /\ \A x \in visible \ lapsed :
       occurredAt[x] = CreatedAt[x] /\ CreatedAt[x] < CreatedAt[e]
         => x \in processed \cup quarantined

DeskPublish(e) ==
  /\ e \notin lapsed
  /\ visible' = visible \cup {e}
  /\ UNCHANGED <<occurredAt, answered, processed, quarantined, lapsed, started>>

DeskEdit(e) ==
  /\ occurredAt[e] < occurredAt'[e]
  /\ occurredAt' = [occurredAt EXCEPT ![e] = occurredAt'[e]]
  /\ UNCHANGED <<visible, answered, processed, quarantined, lapsed, started>>

\* The last of the comments that answer a mention is posted.
Answer(e) ==
  /\ InTurn(e)
  /\ answered' = answered \cup {e}
  /\ UNCHANGED <<visible, occurredAt, processed, quarantined, lapsed, started>>

Close(e) ==
  /\ InTurn(e)
  /\ e \in answered
  /\ processed' = processed \cup {e}
  /\ UNCHANGED <<visible, occurredAt, answered, quarantined, lapsed, started>>

Quarantine(e) ==
  /\ InTurn(e)
  /\ quarantined' = quarantined \cup {e}
  /\ UNCHANGED <<visible, occurredAt, answered, processed, lapsed, started>>

Reopen(e) ==
  /\ quarantined' = quarantined \ {e}
  /\ UNCHANGED <<visible, occurredAt, answered, processed, lapsed, started>>

\* The mentions written before some time lapse.
Lapse ==
  /\ ~started
  /\ lapsed \subseteq lapsed'
  /\ \A x \in lapsed', y \in Event : CreatedAt[y] <= CreatedAt[x] => y \in lapsed'
  /\ UNCHANGED <<visible, occurredAt, answered, processed, quarantined, started>>

\* From the first mention that is settled on, none lapses.
Start ==
  /\ processed \cup quarantined # {}
  /\ started' = TRUE
  /\ UNCHANGED <<visible, occurredAt, answered, processed, quarantined, lapsed>>

DeskNext ==
  \/ \E e \in Event :
       \/ DeskPublish(e)
       \/ DeskEdit(e)
       \/ Answer(e) \/ Close(e) \/ Quarantine(e) \/ Reopen(e)
  \/ Lapse
  \/ Start

DeskSpec == DeskInit /\ [][DeskNext]_deskVars
=============================================================================
