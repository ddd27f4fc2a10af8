---------------------------- MODULE MemoryStore ----------------------------
(***************************************************************************)
(* InMemoryPollingStateStore and LocalFilePollingStateStore                *)
(* (state_store.py): dictionaries of the process; the second writes all of *)
(* them to a file after every call that may have changed one.              *)
(***************************************************************************)
EXTENDS StoreDocuments

Flush == disk' = IF storeKind = "file" THEN table' ELSE disk

LoadState ==
  /\ Return([watermark |-> Field(table[<<"state">>], "watermark", 0)])
  /\ Reads /\ UNCHANGED disk

CommitState ==
  /\ PutDocument(<<"state">>, [watermark |-> stamp + 1]) /\ Return([watermark |-> stamp + 1])
  /\ Writes /\ Flush

TryAcquireLease(run) ==
  LET ok == Granted(table[<<"lock">>], run)
  IN  /\ IF ok THEN PutDocument(<<"lock">>, [owner |-> run, left |-> LeaseTime]) ELSE UNCHANGED table
      /\ Return([granted |-> ok]) /\ Writes /\ Flush

RenewLease(run) ==
  LET mine == Field(table[<<"lock">>], "owner", NoDoc) = run
  IN  /\ IF mine THEN PutDocument(<<"lock">>, [owner |-> run, left |-> LeaseTime]) ELSE UNCHANGED table
      /\ Return([renewed |-> mine]) /\ Writes /\ Flush

ReleaseLease(run) ==
  /\ IF Field(table[<<"lock">>], "owner", NoDoc) = run THEN PutDocument(<<"lock">>, NoDoc) ELSE UNCHANGED table
  /\ Return([released |-> TRUE]) /\ Writes /\ Flush

\* A marker that has expired is removed, but not from the file.
IsEventProcessed(e) ==
  /\ table' = Without(table, Expired(table) \cap {<<"processed", e>>})
  /\ Return([processed |-> table'[<<"processed", e>>] # NoDoc])
  /\ UNCHANGED <<storeKind, disk, stamp, readFaults>>

MarkProcessedEvent(e) ==
  /\ PutDocument(<<"processed", e>>, [left |-> MarkerTime]) /\ Return([marked |-> e])
  /\ Writes /\ Flush

IncrementFailureCount(e) ==
  LET n == Counted(table[<<"failure", e>>])
  IN  /\ PutDocument(<<"failure", e>>, [count |-> n, status |-> "failed_retryable", at |-> stamp + 1])
      /\ Return([attempts |-> n]) /\ Writes /\ Flush

MarkTerminalFailure(e) ==
  /\ PutDocument(<<"failure", e>>, [count |-> Field(table[<<"failure", e>>], "count", 0), status |-> "failed_terminal", at |-> stamp + 1])
  /\ Return([terminal |-> e]) /\ Writes /\ Flush

GetAssessmentSnapshot(p) ==
  /\ Return([version |-> Field(table[<<"assessment", p>>], "version", 0)])
  /\ Reads /\ UNCHANGED disk

UpsertAssessmentSnapshot(p) ==
  /\ PutDocument(<<"assessment", p>>, [version |-> stamp + 1]) /\ Return([saved |-> stamp + 1])
  /\ Writes /\ Flush

GetLatestPollRunSummary ==
  /\ Return([summary |-> Field(table[<<"poll_run_summary">>], "of", 0)])
  /\ Reads /\ UNCHANGED disk

UpsertPollRunSummary ==
  /\ PutDocument(<<"poll_run_summary">>, [of |-> stamp + 1]) /\ Return([summary |-> stamp + 1])
  /\ Writes /\ Flush

UpsertPageAssessment(p, status) ==
  /\ PutDocument(<<"page_assessment", p>>, [status |-> status, at |-> stamp + 1]) /\ Return([row |-> status])
  /\ Writes /\ Flush

Since(type, since) == {x \in Stored(type) : WrittenAt(type, x) >= since}

ListRecentPageAssessments(since) ==
  /\ Return([pages |-> Newest("page_assessment", Since("page_assessment", since)), since |-> since])
  /\ Reads /\ UNCHANGED disk

ListRecentFailures(since) ==
  /\ Return([events |-> Newest("failure", Since("failure", since)), since |-> since])
  /\ Reads /\ UNCHANGED disk

\* The process ends, between calls or while the file is written: what is cut
\* off cannot be parsed, and the next process begins with nothing.
Load(file) == IF file = Torn THEN Empty ELSE file

Restart ==
  /\ disk' \in IF storeKind = "file" THEN {disk, Torn} ELSE {disk}
  /\ table' = Load(disk')
  /\ UNCHANGED <<storeKind, reply, stamp, readFaults>>

TimePasses ==
  /\ table' = Older(table) /\ disk' = IF disk = Torn THEN disk ELSE Older(disk)
  /\ UNCHANGED <<storeKind, reply, stamp, readFaults>>

\* The documents of different types have nothing to do with each other: what
\* is about each type can be looked at by itself.
Methods(type) ==
  \/ type = "state" /\ (LoadState \/ CommitState \/ GetLatestPollRunSummary \/ UpsertPollRunSummary)
  \/ type = "lock" /\ \E run \in Runs : TryAcquireLease(run) \/ RenewLease(run) \/ ReleaseLease(run)
  \/ type = "processed" /\ \E e \in StoreEvents : IsEventProcessed(e) \/ MarkProcessedEvent(e)
  \/ type = "failure" /\ \/ \E e \in StoreEvents : IncrementFailureCount(e) \/ MarkTerminalFailure(e)
                         \/ \E since \in 1..MaxStamp : ListRecentFailures(since)
  \/ type = "assessment" /\ \E p \in StorePages : GetAssessmentSnapshot(p) \/ UpsertAssessmentSnapshot(p)
  \/ type = "page_assessment" /\ \/ \E p \in StorePages, status \in {"assessed", "no_change"} : UpsertPageAssessment(p, status)
                                 \/ \E since \in 1..MaxStamp : ListRecentPageAssessments(since)
Changes == Restart \/ TimePasses
=============================================================================
