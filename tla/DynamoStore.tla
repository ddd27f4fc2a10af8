---------------------------- MODULE DynamoStore ----------------------------
(***************************************************************************)
(* DynamoDBPollingStateStore (dynamo_state_store.py): the items of one     *)
(* source in a table that removes items some time after their end.         *)
(*                                                                         *)
(* A request that fails raises out of the method, except from a list.      *)
(***************************************************************************)
EXTENDS StoreDocuments

\* Bug: an item is taken for live until the table removes it.
AliveWhileThere(id) == table[id] # NoDoc

Alive(id) == table[id] # NoDoc /\ table[id].left > 0

Get(id) == table[id]
PutItem(id, item) == PutDocument(id, item)

\* The items are read in the order of their keys, a limited number of them,
\* before they are filtered.
Query(type, since) ==
  LET items == Stored(type)
      read == {x \in items : Cardinality({y \in items : y < x}) < OverFetched * ShownRows}
  IN  Newest(type, {x \in read : WrittenAt(type, x) >= since})

LoadState ==
  /\ Return([watermark |-> Field(Get(<<"state">>), "watermark", 0)])
  /\ Reads /\ UNCHANGED disk

\* Only this store looks at the version a caller expects, and none gives one.
CommitState(expected) ==
  /\ expected # 0 => Field(Get(<<"state">>), "version", 0) = expected
  /\ PutItem(<<"state">>, [watermark |-> stamp + 1, version |-> Field(Get(<<"state">>), "version", 0) + 1])
  /\ Return([watermark |-> stamp + 1])
  /\ Writes /\ UNCHANGED disk

TryAcquireLease(run) ==
  LET ok == Granted(Get(<<"lock">>), run)
  IN  /\ IF ok THEN PutItem(<<"lock">>, [owner |-> run, left |-> LeaseTime]) ELSE UNCHANGED table
      /\ Return([granted |-> ok]) /\ Writes /\ UNCHANGED disk

RenewLease(run) ==
  LET mine == Field(Get(<<"lock">>), "owner", NoDoc) = run
  IN  /\ table' = IF mine THEN [table EXCEPT ![<<"lock">>].left = LeaseTime] ELSE table
      /\ Return([renewed |-> mine]) /\ Writes /\ UNCHANGED disk

ReleaseLease(run) ==
  /\ table' = IF Field(Get(<<"lock">>), "owner", NoDoc) = run THEN Without(table, {<<"lock">>}) ELSE table
  /\ Return([released |-> TRUE]) /\ Writes /\ UNCHANGED disk

IsEventProcessed(e) ==
  /\ Return([processed |-> Alive(<<"processed", e>>)])
  /\ Reads /\ UNCHANGED disk

MarkProcessedEvent(e) ==
  /\ PutItem(<<"processed", e>>, [left |-> MarkerTime]) /\ Return([marked |-> e])
  /\ Writes /\ UNCHANGED disk

IncrementFailureCount(e) ==
  LET n == Counted(Get(<<"failure", e>>))
  IN  /\ PutItem(<<"failure", e>>, [count |-> n, status |-> "failed_retryable", at |-> stamp + 1])
      /\ Return([attempts |-> n]) /\ Writes /\ UNCHANGED disk

MarkTerminalFailure(e) ==
  /\ PutItem(<<"failure", e>>, [count |-> Field(Get(<<"failure", e>>), "count", 0), status |-> "failed_terminal", at |-> stamp + 1])
  /\ Return([terminal |-> e]) /\ Writes /\ UNCHANGED disk

GetAssessmentSnapshot(p) ==
  /\ Return([version |-> Field(Get(<<"assessment", p>>), "version", 0)])
  /\ Reads /\ UNCHANGED disk

UpsertAssessmentSnapshot(p) ==
  /\ PutItem(<<"assessment", p>>, [version |-> stamp + 1]) /\ Return([saved |-> stamp + 1])
  /\ Writes /\ UNCHANGED disk

GetLatestPollRunSummary ==
  /\ Return([summary |-> Field(Get(<<"poll_run_summary">>), "of", 0)])
  /\ Reads /\ UNCHANGED disk

UpsertPollRunSummary ==
  /\ PutItem(<<"poll_run_summary">>, [of |-> stamp + 1]) /\ Return([summary |-> stamp + 1])
  /\ Writes /\ UNCHANGED disk

UpsertPageAssessment(p, status) ==
  /\ PutItem(<<"page_assessment", p>>, [status |-> status, at |-> stamp + 1]) /\ Return([row |-> status])
  /\ Writes /\ UNCHANGED disk

ListRecentPageAssessments(since) ==
  /\ Return([pages |-> Query("page_assessment", since), since |-> since])
  /\ Reads /\ UNCHANGED disk

ListRecentFailures(since) ==
  /\ Return([events |-> Query("failure", since), since |-> since])
  /\ Reads /\ UNCHANGED disk

\* A query that fails is a warning and an empty list.
QueryFails(kind, since) ==
  /\ readFaults < MaxReadFaults /\ readFaults' = readFaults + 1
  /\ Return(IF kind = "pages" THEN [pages |-> <<>>, since |-> since] ELSE [events |-> <<>>, since |-> since])
  /\ UNCHANGED <<storeKind, table, disk, stamp>>

TimePasses == table' = Older(table) /\ UNCHANGED <<storeKind, disk, reply, stamp, readFaults>>

\* The table removes items after their ttl_epoch, leases too.
RemoveItem ==
  /\ \E id \in Ids : /\ id[1] \in {"lock", "processed"} /\ table[id] # NoDoc /\ table[id].left = 0
                     /\ table' = Without(table, {id})
  /\ UNCHANGED <<storeKind, disk, reply, stamp, readFaults>>

\* The documents of different types have nothing to do with each other: what
\* is about each type can be looked at by itself.
Methods(type) ==
  \/ type = "state" /\ (LoadState \/ (\E expected \in 0..MaxStamp : CommitState(expected)) \/ GetLatestPollRunSummary \/ UpsertPollRunSummary)
  \/ type = "lock" /\ \E run \in Runs : TryAcquireLease(run) \/ RenewLease(run) \/ ReleaseLease(run)
  \/ type = "processed" /\ \E e \in StoreEvents : IsEventProcessed(e) \/ MarkProcessedEvent(e)
  \/ type = "failure" /\ \/ \E e \in StoreEvents : IncrementFailureCount(e) \/ MarkTerminalFailure(e)
                         \/ \E since \in 1..MaxStamp : ListRecentFailures(since) \/ QueryFails("events", since)
  \/ type = "assessment" /\ \E p \in StorePages : GetAssessmentSnapshot(p) \/ UpsertAssessmentSnapshot(p)
  \/ type = "page_assessment" /\ \/ \E p \in StorePages, status \in {"assessed", "no_change"} : UpsertPageAssessment(p, status)
                                 \/ \E since \in 1..MaxStamp : ListRecentPageAssessments(since) \/ QueryFails("pages", since)
Changes == TimePasses \/ RemoveItem
=============================================================================
