---------------------------- MODULE CosmosStore ----------------------------
(***************************************************************************)
(* CosmosPollingStateStore (state_store.py): the documents of one source   *)
(* in a container that removes markers at their end.                       *)
(*                                                                         *)
(* A read that fails is taken for a missing document (lost); a write that  *)
(* fails raises out of the method.                                         *)
(***************************************************************************)
EXTENDS StoreDocuments

ReadItem(id, lost) == IF lost THEN NoDoc ELSE table[id]

\* What a call may lose, and what it costs.
Losing(lost) == IF lost THEN readFaults < MaxReadFaults /\ readFaults' = readFaults + 1 ELSE UNCHANGED readFaults
Unwritten == UNCHANGED <<storeKind, table, disk, stamp>>
Written == stamp < MaxStamp /\ stamp' = stamp + 1 /\ UNCHANGED <<storeKind, disk>>

UpsertItem(id, doc) == PutDocument(id, doc)

LoadState(lost) ==
  /\ Return([watermark |-> Field(ReadItem(<<"state">>, lost), "watermark", 0)])
  /\ Losing(lost) /\ Unwritten

\* A document that was not read begins anew, with the watermark it is given.
CommitState(lost) ==
  /\ UpsertItem(<<"state">>, [watermark |-> stamp + 1]) /\ Return([watermark |-> stamp + 1])
  /\ Losing(lost) /\ Written

TryAcquireLease(run, lost) ==
  LET ok == Granted(ReadItem(<<"lock">>, lost), run)
  IN  /\ IF ok THEN UpsertItem(<<"lock">>, [owner |-> run, left |-> LeaseTime]) ELSE UNCHANGED table
      /\ Return([granted |-> ok]) /\ Losing(lost) /\ Written

RenewLease(run, lost) ==
  LET mine == Field(ReadItem(<<"lock">>, lost), "owner", NoDoc) = run
  IN  /\ IF mine THEN UpsertItem(<<"lock">>, [owner |-> run, left |-> LeaseTime]) ELSE UNCHANGED table
      /\ Return([renewed |-> mine]) /\ Losing(lost) /\ Written

\* Deleting may fail as well: the lease then stays until it runs out.
ReleaseLease(run, lost) ==
  /\ table' = IF Field(ReadItem(<<"lock">>, lost), "owner", NoDoc) = run THEN Without(table, {<<"lock">>}) ELSE table
  /\ Return([released |-> TRUE]) /\ Losing(lost) /\ Written

IsEventProcessed(e, lost) ==
  /\ Return([processed |-> ReadItem(<<"processed", e>>, lost) # NoDoc])
  /\ Losing(lost) /\ Unwritten

MarkProcessedEvent(e) ==
  /\ UpsertItem(<<"processed", e>>, [left |-> MarkerTime]) /\ Return([marked |-> e])
  /\ Losing(FALSE) /\ Written

IncrementFailureCount(e, lost) ==
  LET n == Counted(ReadItem(<<"failure", e>>, lost))
  IN  /\ UpsertItem(<<"failure", e>>, [count |-> n, status |-> "failed_retryable", at |-> stamp + 1])
      /\ Return([attempts |-> n]) /\ Losing(lost) /\ Written

MarkTerminalFailure(e, lost) ==
  /\ UpsertItem(<<"failure", e>>, [count |-> Field(ReadItem(<<"failure", e>>, lost), "count", 0),
                                   status |-> "failed_terminal", at |-> stamp + 1])
  /\ Return([terminal |-> e]) /\ Losing(lost) /\ Written

GetAssessmentSnapshot(p, lost) ==
  /\ Return([version |-> Field(ReadItem(<<"assessment", p>>, lost), "version", 0)])
  /\ Losing(lost) /\ Unwritten

UpsertAssessmentSnapshot(p) ==
  /\ UpsertItem(<<"assessment", p>>, [version |-> stamp + 1]) /\ Return([saved |-> stamp + 1])
  /\ Losing(FALSE) /\ Written

GetLatestPollRunSummary(lost) ==
  /\ Return([summary |-> Field(ReadItem(<<"poll_run_summary">>, lost), "of", 0)])
  /\ Losing(lost) /\ Unwritten

UpsertPollRunSummary ==
  /\ UpsertItem(<<"poll_run_summary">>, [of |-> stamp + 1]) /\ Return([summary |-> stamp + 1])
  /\ Losing(FALSE) /\ Written

UpsertPageAssessment(p, status) ==
  /\ UpsertItem(<<"page_assessment", p>>, [status |-> status, at |-> stamp + 1]) /\ Return([row |-> status])
  /\ Losing(FALSE) /\ Written

\* A query that fails is asked again without its conditions, which the code
\* applies itself; when that fails too, the list is empty.
Recent(type, since, lost) ==
  IF lost THEN <<>> ELSE Newest(type, {x \in Stored(type) : WrittenAt(type, x) >= since})

ListRecentPageAssessments(since, lost) ==
  /\ Return([pages |-> Recent("page_assessment", since, lost), since |-> since])
  /\ Losing(lost) /\ Unwritten

ListRecentFailures(since, lost) ==
  /\ Return([events |-> Recent("failure", since, lost), since |-> since])
  /\ Losing(lost) /\ Unwritten

\* The container removes markers at their end by itself.
TimePasses ==
  /\ table' = Without(Older(table), Expired(Older(table)))
  /\ UNCHANGED <<storeKind, disk, reply, stamp, readFaults>>

\* The documents of different types have nothing to do with each other: what
\* is about each type can be looked at by itself.
Methods(type) ==
  \E lost \in BOOLEAN :
    \/ type = "state" /\ \/ LoadState(lost) \/ CommitState(lost)
                         \/ GetLatestPollRunSummary(lost) \/ (~lost /\ UpsertPollRunSummary)
    \/ type = "lock" /\ \E run \in Runs : TryAcquireLease(run, lost) \/ RenewLease(run, lost) \/ ReleaseLease(run, lost)
    \/ type = "processed" /\ \E e \in StoreEvents : IsEventProcessed(e, lost) \/ (~lost /\ MarkProcessedEvent(e))
    \/ type = "failure" /\ \/ \E e \in StoreEvents : IncrementFailureCount(e, lost) \/ MarkTerminalFailure(e, lost)
                           \/ \E since \in 1..MaxStamp : ListRecentFailures(since, lost)
    \/ type = "assessment" /\ \E p \in StorePages : GetAssessmentSnapshot(p, lost) \/ (~lost /\ UpsertAssessmentSnapshot(p))
    \/ type = "page_assessment" /\ \/ \E p \in StorePages, status \in {"assessed", "no_change"} : ~lost /\ UpsertPageAssessment(p, status)
                                   \/ \E since \in 1..MaxStamp : ListRecentPageAssessments(since, lost)
Changes == TimePasses
=============================================================================
