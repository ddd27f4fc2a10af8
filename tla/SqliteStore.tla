---------------------------- MODULE SqliteStore ----------------------------
(***************************************************************************)
(* SqlitePollingStateStore (sqlite_state_store.py): one table of documents *)
(* in a file or, by default, in memory.  A document that is written again  *)
(* keeps its row, and lists are made from the rows that are newest.        *)
(*                                                                         *)
(* A statement that fails raises out of the method and changes nothing.    *)
(***************************************************************************)
EXTENDS StoreDocuments, FiniteSetsExt

\* A document that has expired is deleted when it is read.
Read(id) == IF id \in Expired(table) THEN NoDoc ELSE table[id]

Rows == {id \in Ids : id[1] \in {"failure", "page_assessment"} /\ table[id] # NoDoc}
RowOf(id) == IF table[id] = NoDoc THEN 1 + Max({0} \cup {table[i].row : i \in Rows}) ELSE table[id].row

Upsert(id, doc) == PutDocument(id, doc)
\* First as many rows as may be needed, then the ones that are recent.
ListDocs(type, since) ==
  LET rows == Stored(type)
      fetched == {x \in rows : Cardinality({y \in rows : table[<<type, y>>].row > table[<<type, x>>].row})
                                  < OverFetched * ShownRows}
  IN  Newest(type, {x \in fetched : WrittenAt(type, x) >= since})

LoadState ==
  /\ Return([watermark |-> Field(Read(<<"state">>), "watermark", 0)])
  /\ Reads /\ UNCHANGED disk

CommitState ==
  /\ Upsert(<<"state">>, [watermark |-> stamp + 1]) /\ Return([watermark |-> stamp + 1])
  /\ Writes /\ UNCHANGED disk

TryAcquireLease(run) ==
  LET ok == Granted(Read(<<"lock">>), run)
  IN  /\ IF ok THEN Upsert(<<"lock">>, [owner |-> run, left |-> LeaseTime]) ELSE UNCHANGED table
      /\ Return([granted |-> ok]) /\ Writes /\ UNCHANGED disk

RenewLease(run) ==
  LET mine == Field(Read(<<"lock">>), "owner", NoDoc) = run
  IN  /\ IF mine THEN Upsert(<<"lock">>, [owner |-> run, left |-> LeaseTime]) ELSE UNCHANGED table
      /\ Return([renewed |-> mine]) /\ Writes /\ UNCHANGED disk

ReleaseLease(run) ==
  /\ table' = IF Field(Read(<<"lock">>), "owner", NoDoc) = run THEN Without(table, {<<"lock">>}) ELSE table
  /\ Return([released |-> TRUE]) /\ Writes /\ UNCHANGED disk

IsEventProcessed(e) ==
  /\ Return([processed |-> Read(<<"processed", e>>) # NoDoc])
  /\ table' = Without(table, Expired(table) \cap {<<"processed", e>>})
  /\ UNCHANGED <<storeKind, disk, stamp, readFaults>>

MarkProcessedEvent(e) ==
  /\ Upsert(<<"processed", e>>, [left |-> MarkerTime]) /\ Return([marked |-> e])
  /\ Writes /\ UNCHANGED disk

IncrementFailureCount(e) ==
  LET n == Counted(Read(<<"failure", e>>))
  IN  /\ Upsert(<<"failure", e>>, [count |-> n, status |-> "failed_retryable", at |-> stamp + 1, row |-> RowOf(<<"failure", e>>)])
      /\ Return([attempts |-> n]) /\ Writes /\ UNCHANGED disk

MarkTerminalFailure(e) ==
  /\ Upsert(<<"failure", e>>, [count |-> Field(Read(<<"failure", e>>), "count", 0), status |-> "failed_terminal",
                               at |-> stamp + 1, row |-> RowOf(<<"failure", e>>)])
  /\ Return([terminal |-> e]) /\ Writes /\ UNCHANGED disk

GetAssessmentSnapshot(p) ==
  /\ Return([version |-> Field(Read(<<"assessment", p>>), "version", 0)])
  /\ Reads /\ UNCHANGED disk

UpsertAssessmentSnapshot(p) ==
  /\ Upsert(<<"assessment", p>>, [version |-> stamp + 1]) /\ Return([saved |-> stamp + 1])
  /\ Writes /\ UNCHANGED disk

GetLatestPollRunSummary ==
  /\ Return([summary |-> Field(Read(<<"poll_run_summary">>), "of", 0)])
  /\ Reads /\ UNCHANGED disk

UpsertPollRunSummary ==
  /\ Upsert(<<"poll_run_summary">>, [of |-> stamp + 1]) /\ Return([summary |-> stamp + 1])
  /\ Writes /\ UNCHANGED disk

UpsertPageAssessment(p, status) ==
  /\ Upsert(<<"page_assessment", p>>, [status |-> status, at |-> stamp + 1, row |-> RowOf(<<"page_assessment", p>>)])
  /\ Return([row |-> status])
  /\ Writes /\ UNCHANGED disk

ListRecentPageAssessments(since) ==
  /\ Return([pages |-> ListDocs("page_assessment", since), since |-> since])
  /\ Reads /\ UNCHANGED disk

ListRecentFailures(since) ==
  /\ Return([events |-> ListDocs("failure", since), since |-> since])
  /\ Reads /\ UNCHANGED disk

\* A process opens the database; one in memory is new.
Reopen ==
  /\ table' = IF storeKind = "sqlite" THEN table ELSE Empty
  /\ UNCHANGED <<storeKind, disk, reply, stamp, readFaults>>

TimePasses == table' = Older(table) /\ UNCHANGED <<storeKind, disk, reply, stamp, readFaults>>

\* The documents of different types have nothing to do with each other: what
\* is about each type can be looked at by itself.
Methods(type) ==
  \/ type = "state" /\ (LoadState \/ CommitState \/ GetLatestPollRunSummary \/ UpsertPollRunSummary)
  \/ type = "lock" /\ \E run \in Runs : TryAcquireLease(run) \/ RenewLease(run) \/ ReleaseLease(run)
  \/ type = "processed" /\ \E e \in StoreEvents : IsEventProcessed(e) \/ MarkProcessedEvent(e)
  \/ type = "failure" /\ \/ \E e \in StoreEvents : IncrementFailureCount(e) \/ MarkTerminalFailure(e)
                         \/ \E since \in 1..MaxStamp : ListRecentFailures(since)
  \/ type = "assessment" /\ \E p \in StorePages : GetAssessmentSnapshot(p) \/ UpsertAssessmentSnapshot(p)
  \/ type = "page_assessment" /\ \/ \E p \in StorePages, status \in {"assessed", "no_change"} : UpsertPageAssessment(p, status)
                                 \/ \E since \in 1..MaxStamp : ListRecentPageAssessments(since)
Changes == Reopen \/ TimePasses
=============================================================================
