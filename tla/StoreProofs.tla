---------------------------- MODULE StoreProofs ----------------------------
(***************************************************************************)
(* The polling state stores implement the contract that the polling worker *)
(* is modelled with.                                                       *)
(*                                                                         *)
(* First, for the documents of any store: which of the contract's          *)
(* variables a document is seen as, what a step of the contract each kind  *)
(* of access is, and that a list is sorted and shows the newest.  Then the *)
(* invariant: documents have the fields that are read back, no two rows of *)
(* a list were written at once, and a file holds what memory does.  Then,  *)
(* store by store, that each method and each change is such an access.     *)
(***************************************************************************)
EXTENDS PollingStores, Sequences, FiniteSetTheorems, TLAPS

LEMMA IdsAre ==
  /\ <<"state">> \in Ids /\ <<"lock">> \in Ids /\ <<"poll_run_summary">> \in Ids
  /\ \A e \in StoreEvents : <<"processed", e>> \in Ids /\ <<"failure", e>> \in Ids
  /\ \A p \in StorePages : <<"assessment", p>> \in Ids /\ <<"page_assessment", p>> \in Ids
BY DEF Ids

LEMMA IdsDiffer ==
  /\ <<"state">> # <<"lock">> /\ <<"state">> # <<"poll_run_summary">> /\ <<"lock">> # <<"poll_run_summary">>
  /\ \A x \in Nat, k \in {"processed", "failure", "assessment", "page_assessment"} :
       /\ <<k, x>> \notin {<<"state">>, <<"lock">>, <<"poll_run_summary">>}
       /\ \A y \in Nat, l \in {"processed", "failure", "assessment", "page_assessment"} :
            <<k, x>> = <<l, y>> => k = l /\ x = y
OBVIOUS

\* Documents outside ids stay as they are.
Other(ids) == \A id \in Ids \ ids : table'[id] = table[id]

LEMMA KeptOutside ==
  ASSUME NEW ids, Other(ids)
  PROVE  /\ <<"state">> \notin ids => UNCHANGED StoredWatermark
         /\ <<"lock">> \notin ids => UNCHANGED StoredLease
         /\ <<"poll_run_summary">> \notin ids => UNCHANGED StoredSummary
         /\ (\A e \in StoreEvents : <<"processed", e>> \notin ids) => UNCHANGED LiveMarkers
         /\ (\A e \in StoreEvents : <<"failure", e>> \notin ids) => UNCHANGED <<StoredFailures, FailedAt>>
         /\ (\A p \in StorePages : <<"assessment", p>> \notin ids) => UNCHANGED StoredVersions
         /\ (\A p \in StorePages : <<"page_assessment", p>> \notin ids) => UNCHANGED <<StoredRows, AssessedAt>>
<1>1. <<"state">> \notin ids => UNCHANGED StoredWatermark
  BY IdsAre DEF Other, StoredWatermark
<1>2. <<"lock">> \notin ids => UNCHANGED StoredLease
  BY IdsAre DEF Other, StoredLease
<1>3. <<"poll_run_summary">> \notin ids => UNCHANGED StoredSummary
  BY IdsAre DEF Other, StoredSummary
<1>4. (\A e \in StoreEvents : <<"processed", e>> \notin ids) => UNCHANGED LiveMarkers
  <2> SUFFICES ASSUME \A e \in StoreEvents : <<"processed", e>> \notin ids
               PROVE  LiveMarkers' = LiveMarkers
    OBVIOUS
  <2>1. \A e \in StoreEvents : Field(table[<<"processed", e>>], "left", 0)' = Field(table[<<"processed", e>>], "left", 0)
    BY IdsAre DEF Other
  <2> QED
    BY <2>1 DEF LiveMarkers
<1>5. (\A e \in StoreEvents : <<"failure", e>> \notin ids) => UNCHANGED <<StoredFailures, FailedAt>>
  BY IdsAre DEF Other, StoredFailures, FailedAt
<1>6. (\A p \in StorePages : <<"assessment", p>> \notin ids) => UNCHANGED StoredVersions
  <2>1. \A k \in StorePages \X {"f"} : k[1] \in StorePages
    OBVIOUS
  <2> QED
    BY <2>1, IdsAre DEF Other, StoredVersions
<1>7. (\A p \in StorePages : <<"page_assessment", p>> \notin ids) => UNCHANGED <<StoredRows, AssessedAt>>
  <2>1. \A k \in StorePages \X {"f", "clarification"} : k[1] \in StorePages
    OBVIOUS
  <2> QED
    BY <2>1, IdsAre DEF Other, StoredRows, AssessedAt
<1> QED
  BY <1>1, <1>2, <1>3, <1>4, <1>5, <1>6, <1>7

\* One document is written, and the others are as before.
LEMMA PutIs ==
  ASSUME NEW id \in Ids, NEW d, table = [i \in Ids |-> table[i]], table' = [table EXCEPT ![id] = d]
  PROVE  Other({id}) /\ table'[id] = d
BY DEF Other

\* A read of Cosmos DB may fail, and then finds no document.
Fault(lost) ==
  IF lost THEN storeKind = "cosmos" /\ readFaults < MaxReadFaults /\ readFaults' = readFaults + 1
          ELSE readFaults' = readFaults
Doc(id, lost) == IF lost THEN NoDoc ELSE table[id]

LEMMA FaultIsAnswer ==
  ASSUME NEW lost, Fault(lost)
  PROVE  Contract!Answers(lost)
BY DEF Fault, Contract!Answers, Contract!ReadAnswers, Contract!SpendFault

LEMMA Rest ==
  ASSUME UNCHANGED table
  PROVE  UNCHANGED <<StoredWatermark, StoredLease, StoredSummary, LiveMarkers, StoredFailures, FailedAt, StoredVersions, StoredRows, AssessedAt>>
BY DEF StoredWatermark, StoredLease, StoredSummary, LiveMarkers, StoredFailures, FailedAt, StoredVersions, StoredRows, AssessedAt

LEMMA StateIsLoaded ==
  ASSUME NEW lost \in BOOLEAN, Fault(lost), UNCHANGED table,
         reply' = [watermark |-> Field(Doc(<<"state">>, lost), "watermark", 0)]
  PROVE  Contract!State
<1>1. reply' = [watermark |-> Contract!LoadWatermark(lost)]
  BY DEF Contract!LoadWatermark, Doc, Field, StoredWatermark
<1> QED
  BY <1>1, FaultIsAnswer, Rest DEF Contract!State, Contract!dashboardVars

LEMMA StateIsCommitted ==
  ASSUME NEW lost \in BOOLEAN, Fault(lost), table = [i \in Ids |-> table[i]],
         NEW d \in StateDoc, table' = [table EXCEPT ![<<"state">>] = d], reply' = [watermark |-> d.watermark]
  PROVE  Contract!State
<1>1. Other({<<"state">>}) /\ table'[<<"state">>] = d
  BY PutIs, IdsAre
<1>2. StoredWatermark' = d.watermark
  BY <1>1, StoreDocumentsAssumption DEF StoredWatermark, Field
<1>3. UNCHANGED <<StoredLease, LiveMarkers, StoredFailures, StoredVersions, StoredRows, StoredSummary, AssessedAt, FailedAt>>
  BY <1>1, KeptOutside, IdsDiffer, StoreDocumentsAssumption
<1> QED
  BY <1>2, <1>3, FaultIsAnswer DEF Contract!State, Contract!dashboardVars, Contract!CommitState

LEMMA SummaryIsRead ==
  ASSUME NEW lost \in BOOLEAN, Fault(lost), UNCHANGED table,
         reply' = [summary |-> Field(Doc(<<"poll_run_summary">>, lost), "of", 0)]
  PROVE  Contract!Summary
<1>1. reply' = [summary |-> IF lost THEN 0 ELSE StoredSummary]
  BY DEF Doc, Field, StoredSummary
<1> QED
  BY <1>1, FaultIsAnswer, Rest DEF Contract!Summary

LEMMA SummaryIsWritten ==
  ASSUME Fault(FALSE), table = [i \in Ids |-> table[i]],
         NEW d \in SummaryDoc, table' = [table EXCEPT ![<<"poll_run_summary">>] = d], reply' = [summary |-> d.of]
  PROVE  Contract!Summary
<1>1. Other({<<"poll_run_summary">>}) /\ table'[<<"poll_run_summary">>] = d
  BY PutIs, IdsAre
<1>2. StoredSummary' = d.of
  BY <1>1, StoreDocumentsAssumption DEF StoredSummary, Field
<1>3. UNCHANGED <<StoredWatermark, StoredLease, LiveMarkers, StoredFailures, StoredVersions, StoredRows, AssessedAt, FailedAt>>
  BY <1>1, KeptOutside, IdsDiffer, StoreDocumentsAssumption
<1> QED
  BY <1>2, <1>3, FaultIsAnswer DEF Contract!Summary

LEMMA WithoutIs ==
  ASSUME NEW ids \in SUBSET Ids, table = [i \in Ids |-> table[i]], table' = Without(table, ids)
  PROVE  Other(ids) /\ \A id \in ids : table'[id] = NoDoc
BY DEF Other, Without

\* Only the lock document may have changed.
LockMoves == Other({<<"lock">>})

LEMMA LockAlone ==
  ASSUME LockMoves
  PROVE  UNCHANGED <<StoredWatermark, LiveMarkers, StoredFailures, StoredVersions, StoredRows, StoredSummary, AssessedAt, FailedAt>>
BY KeptOutside, IdsDiffer, StoreDocumentsAssumption DEF LockMoves

LEMMA LeaseIsAskedFor ==
  ASSUME NEW lost \in BOOLEAN, Fault(lost), LockMoves, NEW run \in Runs,
         table[<<"lock">>] \in LockDoc \cup {NoDoc},
         reply' = [granted |-> Granted(Doc(<<"lock">>, lost), run)],
         table'[<<"lock">>] = IF Granted(Doc(<<"lock">>, lost), run) THEN [owner |-> run, left |-> LeaseTime] ELSE table[<<"lock">>]
  PROVE  Contract!Lease
<1> DEFINE free == Contract!LeaseIsFree(lost) \/ StoredLease.owner = run
<1>1. Granted(Doc(<<"lock">>, lost), run) <=> free
  <2>1. CASE lost
    BY <2>1 DEF Granted, Doc, Contract!LeaseIsFree
  <2>2. CASE ~lost /\ table[<<"lock">>] = NoDoc
    BY <2>2 DEF Granted, Doc, Contract!LeaseIsFree, StoredLease, Field
  <2>3. CASE ~lost /\ table[<<"lock">>] # NoDoc
    BY <2>3 DEF Granted, Doc, Contract!LeaseIsFree, StoredLease, Field, LockDoc
  <2> QED
    BY <2>1, <2>2, <2>3
<1>2. StoredLease' = IF free THEN [owner |-> run, left |-> LeaseTime] ELSE StoredLease
  <2>1. CASE free
    <3>1. [owner |-> run, left |-> LeaseTime] # NoDoc
      BY StoreDocumentsAssumption DEF LockDoc
    <3> QED
      BY <1>1, <2>1, <3>1 DEF StoredLease, Field
  <2>2. CASE ~free
    BY <1>1, <2>2 DEF StoredLease, Field
  <2> QED
    BY <2>1, <2>2
<1>3. Contract!Answers(lost)
  BY FaultIsAnswer
<1>4. reply' = [granted |-> free]
  <2>1. Granted(Doc(<<"lock">>, lost), run) \in BOOLEAN /\ free \in BOOLEAN
    BY DEF Granted, Contract!LeaseIsFree
  <2> QED
    BY <1>1, <2>1
<1>5. IF free THEN Contract!TakeLease(run) ELSE UNCHANGED StoredLease
  BY <1>2 DEF Contract!TakeLease
<1> QED
  BY <1>3, <1>4, <1>5, LockAlone DEF Contract!Lease, Contract!dashboardVars

LEMMA LeaseIsRenewed ==
  ASSUME NEW lost \in BOOLEAN, Fault(lost), LockMoves, NEW run \in Runs,
         reply' = [renewed |-> Field(Doc(<<"lock">>, lost), "owner", NoDoc) = run],
         table'[<<"lock">>] = IF Field(Doc(<<"lock">>, lost), "owner", NoDoc) = run
                              THEN [owner |-> run, left |-> LeaseTime] ELSE table[<<"lock">>]
  PROVE  Contract!Lease
<1> DEFINE mine == ~lost /\ StoredLease.owner = run
           owns == Field(Doc(<<"lock">>, lost), "owner", NoDoc) = run
<1>1. owns <=> mine
  BY StoreDocumentsAssumption DEF Field, Doc, StoredLease
<1>2. StoredLease' = IF mine THEN [owner |-> run, left |-> LeaseTime] ELSE StoredLease
  <2>1. CASE mine
    <3>1. [owner |-> run, left |-> LeaseTime] # NoDoc
      BY StoreDocumentsAssumption DEF LockDoc
    <3> QED
      BY <1>1, <2>1, <3>1 DEF StoredLease, Field
  <2>2. CASE ~mine
    BY <1>1, <2>2 DEF StoredLease, Field
  <2> QED
    BY <2>1, <2>2
<1>3. Contract!Answers(lost)
  BY FaultIsAnswer
<1>4. reply' = [renewed |-> mine]
  BY <1>1
<1>5. IF mine THEN Contract!TakeLease(run) ELSE UNCHANGED StoredLease
  BY <1>2 DEF Contract!TakeLease
<1> QED
  BY <1>3, <1>4, <1>5, LockAlone DEF Contract!Lease, Contract!dashboardVars

LEMMA LeaseIsReleased ==
  ASSUME NEW lost \in BOOLEAN, Fault(lost), LockMoves, NEW run \in Runs, reply' = [released |-> TRUE],
         table'[<<"lock">>] = IF Field(Doc(<<"lock">>, lost), "owner", NoDoc) = run THEN NoDoc ELSE table[<<"lock">>]
  PROVE  Contract!Lease
<1>1. (Field(Doc(<<"lock">>, lost), "owner", NoDoc) = run) <=> ~lost /\ StoredLease.owner = run
  BY StoreDocumentsAssumption DEF Field, Doc, StoredLease
<1>2. Contract!ReleaseLease(run, lost)
  BY <1>1 DEF Contract!ReleaseLease, Contract!LeaseIsMine, Contract!DeleteLease, StoredLease, Field
<1>3. Contract!Answers(lost)
  BY FaultIsAnswer
<1> QED
  BY <1>2, <1>3, LockAlone DEF Contract!Lease, Contract!dashboardVars

\* Only markers may have changed.
MarkersMove == Other({<<"processed", e>> : e \in StoreEvents})

LEMMA MarkersAlone ==
  ASSUME MarkersMove
  PROVE  UNCHANGED <<StoredWatermark, StoredLease, StoredFailures, StoredVersions, StoredRows, StoredSummary, AssessedAt, FailedAt>>
<1> DEFINE ids == {<<"processed", e>> : e \in StoreEvents}
<1>1. \A id \in {<<"state">>, <<"lock">>, <<"poll_run_summary">>} : id \notin ids
  BY IdsDiffer, StoreDocumentsAssumption
<1>2. \A e \in StoreEvents : <<"failure", e>> \notin ids
  BY IdsDiffer, StoreDocumentsAssumption
<1>3. \A p \in StorePages : <<"assessment", p>> \notin ids /\ <<"page_assessment", p>> \notin ids
  BY IdsDiffer, StoreDocumentsAssumption
<1> QED
  BY <1>1, <1>2, <1>3, KeptOutside DEF MarkersMove

LEMMA MarkerIsLookedUp ==
  ASSUME NEW lost \in BOOLEAN, Fault(lost), MarkersMove, UNCHANGED LiveMarkers, NEW e \in StoreEvents,
         reply' = [processed |-> ~lost /\ e \in LiveMarkers]
  PROVE  Contract!Marker
<1>1. Contract!Answers(lost)
  BY FaultIsAnswer
<1>2. reply' = [processed |-> Contract!IsEventProcessed(e, lost)]
  BY DEF Contract!IsEventProcessed
<1> QED
  BY <1>1, <1>2, MarkersAlone DEF Contract!Marker, Contract!dashboardVars

LEMMA MarkerIsSet ==
  ASSUME Fault(FALSE), table = [i \in Ids |-> table[i]], NEW e \in StoreEvents, reply' = [marked |-> e],
         table' = [table EXCEPT ![<<"processed", e>>] = [left |-> MarkerTime]]
  PROVE  Contract!Marker
<1>1. Other({<<"processed", e>>}) /\ table'[<<"processed", e>>] = [left |-> MarkerTime]
  BY PutIs, IdsAre
<1>2. MarkersMove
  BY <1>1 DEF MarkersMove, Other
<1>3. \A x \in StoreEvents \ {e} : table'[<<"processed", x>>] = table[<<"processed", x>>]
  BY <1>1, IdsAre, IdsDiffer, StoreDocumentsAssumption DEF Other
<1>4. [left |-> MarkerTime] # NoDoc
  BY StoreDocumentsAssumption DEF MarkerDoc
<1>5. LiveMarkers' = LiveMarkers \cup {e}
  <2> DEFINE live(x) == Field(table[<<"processed", x>>], "left", 0) > 0
  <2>1. \A x \in StoreEvents \ {e} : live(x)' <=> live(x)
    BY <1>3 DEF Field
  <2>2. live(e)'
    BY <1>1, <1>4, StoreDocumentsAssumption DEF Field
  <2>3. LiveMarkers = {x \in StoreEvents : live(x)} /\ LiveMarkers' = {x \in StoreEvents : live(x)'}
    BY DEF LiveMarkers
  <2> HIDE DEF live
  <2> QED
    BY <2>1, <2>2, <2>3
<1>6. Contract!Answers(FALSE)
  BY FaultIsAnswer
<1> QED
  BY <1>2, <1>5, <1>6, MarkersAlone DEF Contract!Marker, Contract!dashboardVars, Contract!MarkProcessedEvent

\* Only the failure document of e is written.
LEMMA FailureAlone ==
  ASSUME NEW e \in StoreEvents, Other({<<"failure", e>>}), table'[<<"failure", e>>] # NoDoc
  PROVE  /\ UNCHANGED <<StoredWatermark, StoredLease, LiveMarkers, StoredVersions, StoredRows, StoredSummary, AssessedAt>>
         /\ StoredFailures' = [StoredFailures EXCEPT ![e] = [count |-> table'[<<"failure", e>>].count,
                                                             status |-> table'[<<"failure", e>>].status]]
         /\ FailedAt' = [FailedAt EXCEPT ![e] = FailedAt'[e]]
<1>1. UNCHANGED <<StoredWatermark, StoredLease, LiveMarkers, StoredVersions, StoredRows, StoredSummary, AssessedAt>>
  BY KeptOutside, IdsDiffer, StoreDocumentsAssumption
<1>2. \A x \in StoreEvents \ {e} : table'[<<"failure", x>>] = table[<<"failure", x>>]
  BY IdsAre, IdsDiffer, StoreDocumentsAssumption DEF Other
<1>3. StoredFailures' = [StoredFailures EXCEPT ![e] = [count |-> table'[<<"failure", e>>].count,
                                                       status |-> table'[<<"failure", e>>].status]]
  BY <1>2 DEF StoredFailures, Field
<1>4. FailedAt' = [FailedAt EXCEPT ![e] = FailedAt'[e]]
  BY <1>2 DEF FailedAt, Field
<1> QED
  BY <1>1, <1>3, <1>4

LEMMA FailureIsCounted ==
  ASSUME NEW lost \in BOOLEAN, Fault(lost), table = [i \in Ids |-> table[i]], NEW e \in StoreEvents,
         NEW d \in FailureDoc, table' = [table EXCEPT ![<<"failure", e>>] = d],
         d.count = Counted(Doc(<<"failure", e>>, lost)), d.status = "failed_retryable", reply' = [attempts |-> d.count]
  PROVE  Contract!Failure
<1>1. Other({<<"failure", e>>}) /\ table'[<<"failure", e>>] = d /\ d # NoDoc
  BY PutIs, IdsAre, StoreDocumentsAssumption
<1>2. d.count = Contract!Attempts(e, lost)
  BY DEF Contract!Attempts, Counted, Doc, Field, StoredFailures
<1>3. Contract!IncrementFailureCount(e, lost)
  BY <1>1, <1>2, FailureAlone DEF Contract!IncrementFailureCount
<1>4. Contract!Answers(lost)
  BY FaultIsAnswer
<1> QED
  BY <1>1, <1>2, <1>3, <1>4, FailureAlone DEF Contract!Failure

LEMMA FailureIsFinal ==
  ASSUME NEW lost \in BOOLEAN, Fault(lost), table = [i \in Ids |-> table[i]], NEW e \in StoreEvents,
         NEW d \in FailureDoc, table' = [table EXCEPT ![<<"failure", e>>] = d],
         d.count = Field(Doc(<<"failure", e>>, lost), "count", 0), d.status = "failed_terminal", reply' = [terminal |-> e]
  PROVE  Contract!Failure
<1>1. Other({<<"failure", e>>}) /\ table'[<<"failure", e>>] = d /\ d # NoDoc
  BY PutIs, IdsAre, StoreDocumentsAssumption
<1>2. d.count = IF lost THEN 0 ELSE StoredFailures[e].count
  BY DEF Doc, Field, StoredFailures
<1>3. Contract!MarkTerminalFailure(e, lost)
  <2>1. StoredFailures' = [StoredFailures EXCEPT ![e] = [count |-> d.count, status |-> "failed_terminal"]]
    BY <1>1, FailureAlone
  <2> QED
    BY <1>2, <2>1 DEF Contract!MarkTerminalFailure, StoredFailures
<1>4. Contract!Answers(lost)
  BY FaultIsAnswer
<1> QED
  BY <1>1, <1>3, <1>4, FailureAlone DEF Contract!Failure

LEMMA SnapshotIsRead ==
  ASSUME NEW lost \in BOOLEAN, Fault(lost), UNCHANGED table, NEW p \in StorePages,
         reply' = [version |-> Field(Doc(<<"assessment", p>>, lost), "version", 0)]
  PROVE  Contract!Snapshot
<1>1. StoredVersions[<<p, "f">>] = Field(table[<<"assessment", p>>], "version", 0)
  BY DEF StoredVersions
<1>2. reply' = [version |-> Contract!LastSnapshot(p, "f", lost)]
  BY <1>1 DEF Contract!LastSnapshot, Doc, Field
<1> QED
  BY <1>2, FaultIsAnswer, Rest DEF Contract!Snapshot, Contract!dashboardVars

LEMMA SnapshotIsSaved ==
  ASSUME Fault(FALSE), table = [i \in Ids |-> table[i]], NEW p \in StorePages,
         NEW d \in SnapshotDoc, table' = [table EXCEPT ![<<"assessment", p>>] = d], reply' = [saved |-> d.version]
  PROVE  Contract!Snapshot
<1>1. Other({<<"assessment", p>>}) /\ table'[<<"assessment", p>>] = d /\ d # NoDoc
  BY PutIs, IdsAre, StoreDocumentsAssumption
<1>2. UNCHANGED <<StoredWatermark, StoredLease, LiveMarkers, StoredFailures, StoredRows, StoredSummary, AssessedAt, FailedAt>>
  BY <1>1, KeptOutside, IdsDiffer, StoreDocumentsAssumption
<1>3. \A x \in StorePages \ {p} : table'[<<"assessment", x>>] = table[<<"assessment", x>>]
  BY <1>1, IdsAre, IdsDiffer, StoreDocumentsAssumption DEF Other
<1>4. \A k \in StorePages \X {"f"} : k[1] \in StorePages /\ (k[1] = p <=> k = <<p, "f">>)
  OBVIOUS
<1>5. StoredVersions'[<<p, "f">>] = d.version
  BY <1>1 DEF StoredVersions, Field
<1>6. StoredVersions' = [StoredVersions EXCEPT ![<<p, "f">>] = StoredVersions'[<<p, "f">>]]
  <2> DEFINE D == StorePages \X {"f"}
             v(k) == Field(table[<<"assessment", k[1]>>], "version", 0)
  <2>1. \A k \in D : k # <<p, "f">> => v(k)' = v(k)
    BY <1>3, <1>4
  <2>2. StoredVersions = [k \in D |-> v(k)] /\ StoredVersions' = [k \in D |-> v(k)']
    BY DEF StoredVersions
  <2> HIDE DEF v, D
  <2> QED
    BY <2>1, <2>2
<1> QED
  BY <1>2, <1>5, <1>6, FaultIsAnswer DEF Contract!Snapshot, Contract!UpsertSnapshot, Contract!dashboardVars

LEMMA RowIsWritten ==
  ASSUME Fault(FALSE), table = [i \in Ids |-> table[i]], NEW p \in StorePages,
         NEW d \in AssessmentDoc, table' = [table EXCEPT ![<<"page_assessment", p>>] = d], reply' = [row |-> d.status]
  PROVE  Contract!Row
<1>1. Other({<<"page_assessment", p>>}) /\ table'[<<"page_assessment", p>>] = d /\ d # NoDoc
  BY PutIs, IdsAre, StoreDocumentsAssumption
<1>2. UNCHANGED <<StoredWatermark, StoredLease, LiveMarkers, StoredFailures, StoredVersions, StoredSummary, FailedAt>>
  BY <1>1, KeptOutside, IdsDiffer, StoreDocumentsAssumption
<1>3. \A x \in StorePages \ {p} : table'[<<"page_assessment", x>>] = table[<<"page_assessment", x>>]
  BY <1>1, IdsAre, IdsDiffer, StoreDocumentsAssumption DEF Other
<1>4. \A k \in StorePages \X {"f", "clarification"} :
        /\ k[1] \in StorePages /\ (k[1] = p /\ k[2] = "f" <=> k = <<p, "f">>)
  OBVIOUS
<1>5. StoredRows'[<<p, "f">>] = d.status
  BY <1>1 DEF StoredRows, Field
<1>6. StoredRows' = [StoredRows EXCEPT ![<<p, "f">>] = StoredRows'[<<p, "f">>]]
  <2> DEFINE D == StorePages \X {"f", "clarification"}
             v(k) == IF k[2] = "f" THEN Field(table[<<"page_assessment", k[1]>>], "status", "none") ELSE "none"
  <2>1. \A k \in D : k # <<p, "f">> => v(k)' = v(k)
    BY <1>3, <1>4
  <2>2. StoredRows = [k \in D |-> v(k)] /\ StoredRows' = [k \in D |-> v(k)']
    BY DEF StoredRows
  <2> HIDE DEF v, D
  <2> QED
    BY <2>1, <2>2
<1>7. AssessedAt' = [AssessedAt EXCEPT ![p] = AssessedAt'[p]]
  <2> DEFINE v(k) == Field(table[<<"page_assessment", k>>], "at", 0)
  <2>1. \A k \in StorePages : k # p => v(k)' = v(k)
    BY <1>3
  <2>2. AssessedAt = [k \in StorePages |-> v(k)] /\ AssessedAt' = [k \in StorePages |-> v(k)']
    BY DEF AssessedAt
  <2> HIDE DEF v
  <2> QED
    BY <2>1, <2>2
<1>8. UNCHANGED readFaults
  BY DEF Fault
<1> QED
  BY <1>2, <1>5, <1>6, <1>7, <1>8 DEF Contract!Row, Contract!UpsertPageAssessment, Contract!Scope

\* Lists.  Of a finite set without ties, ranks are the numbers below its size,
\* and they fall as keys rise.
LEMMA SmallerSets ==
  ASSUME NEW S, IsFiniteSet(S)
  PROVE  /\ Cardinality(S) \in Nat
         /\ \A U \in SUBSET S : IsFiniteSet(U) /\ Cardinality(U) \in Nat /\ Cardinality(U) <= Cardinality(S)
         /\ \A U, V \in SUBSET S : U \subseteq V /\ U # V => Cardinality(U) < Cardinality(V)
<1>1. \A U \in SUBSET S : IsFiniteSet(U) /\ Cardinality(U) \in Nat /\ Cardinality(U) <= Cardinality(S)
  BY FS_Subset, FS_CardinalityType
<1>2. ASSUME NEW U \in SUBSET S, NEW V \in SUBSET S, U \subseteq V, U # V
      PROVE  Cardinality(U) < Cardinality(V)
  <2>1. Cardinality(U) <= Cardinality(V) /\ Cardinality(U) # Cardinality(V)
    BY <1>1, <1>2, FS_Subset
  <2> QED
    BY <1>1, <2>1
<1> QED
  BY <1>1, <1>2, FS_CardinalityType

LEMMA RanksFall ==
  ASSUME NEW S, IsFiniteSet(S), NEW k \in [S -> Nat],
         NEW x \in S, NEW y \in S, k[x] < k[y]
  PROVE  Cardinality({z \in S : k[z] > k[y]}) < Cardinality({z \in S : k[z] > k[x]})
<1> DEFINE U == {z \in S : k[z] > k[y]}
           V == {z \in S : k[z] > k[x]}
<1>1. U \in SUBSET S /\ V \in SUBSET S
  OBVIOUS
<1>2. \A z \in U : z \in V
  OBVIOUS
<1>3. y \in V /\ y \notin U
  OBVIOUS
<1> HIDE DEF U, V
<1>4. U \subseteq V /\ U # V
  BY <1>2, <1>3
<1>5. Cardinality(U) < Cardinality(V)
  BY <1>1, <1>4, SmallerSets
<1> QED
  BY <1>5 DEF U, V

LEMMA EveryRank ==
  ASSUME NEW S, IsFiniteSet(S), NEW k \in [S -> Nat], \A x, y \in S : k[x] = k[y] => x = y,
         NEW r, r = [x \in S |-> Cardinality({z \in S : k[z] > k[x]})]
  PROVE  /\ \A x \in S : r[x] \in 0 .. (Cardinality(S) - 1)
         /\ \A i \in 0 .. (Cardinality(S) - 1) : \E x \in S : r[x] = i
<1> DEFINE rank(x) == Cardinality({z \in S : k[z] > k[x]})
           n == Cardinality(S)
           R == 0 .. (n - 1)
<1>1. n \in Nat
  BY SmallerSets
<1>2. ASSUME NEW x \in S
      PROVE  rank(x) \in R
  <2> DEFINE U == {z \in S : k[z] > k[x]}
  <2>1. U \in SUBSET S /\ U # S
    OBVIOUS
  <2> HIDE DEF U
  <2>2. Cardinality(U) \in Nat /\ Cardinality(U) < Cardinality(S)
    BY <2>1, SmallerSets
  <2> QED
    BY <1>1, <2>2 DEF U
<1>3. ASSUME NEW x \in S, NEW y \in S, rank(x) = rank(y)
      PROVE  x = y
  <2>1. CASE k[x] < k[y]
    <3>1. rank(y) < rank(x)
      BY <2>1, RanksFall
    <3> QED
      BY <1>1, <1>2, <1>3, <3>1
  <2>2. CASE k[y] < k[x]
    <3>1. rank(x) < rank(y)
      BY <2>2, RanksFall
    <3> QED
      BY <1>1, <1>2, <1>3, <3>1
  <2>3. k[x] \in Nat /\ k[y] \in Nat
    OBVIOUS
  <2> QED
    BY <2>1, <2>2, <2>3
<1> HIDE DEF rank
<1>4. r \in Injection(S, R)
  <2>1. r \in [S -> R] /\ \A x \in S : r[x] = rank(x)
    BY <1>2 DEF rank
  <2> HIDE DEF R
  <2>2. \A x, y \in S : r[x] = r[y] => x = y
    BY <1>3, <2>1
  <2> QED
    BY <2>1, <2>2 DEF Injection, IsInjective
<1>5. IsFiniteSet(R) /\ Cardinality(R) = n
  <2> HIDE DEF n
  <2>1. 0 \in Int /\ n - 1 \in Int
    BY <1>1
  <2>2. IsFiniteSet(R) /\ Cardinality(R) = IF 0 > n - 1 THEN 0 ELSE (n - 1) - 0 + 1
    BY <2>1, FS_Interval
  <2> QED
    BY <1>1, <2>2
<1>6. r \in Surjection(S, R)
  BY <1>4, <1>5, FS_Injection
<1>7. \A i \in R : \E x \in S : r[x] = i
  BY <1>6 DEF Surjection
<1>8. \A x \in S : r[x] \in R
  BY <1>2 DEF rank
<1> QED
  BY <1>7, <1>8

\* The rows of a type have stamps, and no two the same.
Things(type) == IF type = "failure" THEN StoreEvents ELSE StorePages
Stamped(type) ==
  /\ \A x \in Stored(type) : WrittenAt(type, x) \in 1 .. stamp
  /\ \A x, y \in Stored(type) : WrittenAt(type, x) = WrittenAt(type, y) => x = y

LEMMA StoredIsFinite ==
  ASSUME NEW type
  PROVE  Stored(type) \subseteq Things(type) /\ IsFiniteSet(Stored(type))
<1>1. Stored(type) \in SUBSET Things(type)
  BY DEF Stored, Things
<1>2. IsFiniteSet(Things(type))
  BY StoreDocumentsAssumption DEF Things
<1> QED
  BY <1>1, <1>2, FS_Subset

\* What a list that is made from the set s of rows shows: of s, the newest.
LEMMA NewestIs ==
  ASSUME NEW type, Stamped(type), stamp \in Nat, NEW s \in SUBSET Stored(type)
  PROVE  LET listed == Newest(type, s)
         IN  /\ listed \in Seq(s) /\ Len(listed) <= ShownRows
             /\ \A i, j \in 1 .. Len(listed) : i < j => WrittenAt(type, listed[i]) > WrittenAt(type, listed[j])
             /\ \A x \in s : \/ \E i \in 1 .. Len(listed) : listed[i] = x
                             \/ /\ Len(listed) = ShownRows
                                /\ \A i \in 1 .. Len(listed) : WrittenAt(type, listed[i]) > WrittenAt(type, x)
<1> DEFINE listed == Newest(type, s)
           k == [x \in s |-> WrittenAt(type, x)]
           n == Cardinality(s)
           m == IF n < ShownRows THEN n ELSE ShownRows
           rank(x) == Cardinality({z \in s : k[z] > k[x]})
<1>1. IsFiniteSet(s) /\ n \in Nat
  BY StoredIsFinite, FS_Subset, FS_CardinalityType
<1>2. m \in Nat /\ m <= n /\ m <= ShownRows
  BY <1>1, StoreDocumentsAssumption
<1>3. k \in [s -> Nat] /\ \A x, y \in s : k[x] = k[y] => x = y
  BY DEF Stamped
<1>4. \A x \in s : rank(x) = Newer(type, x, s)
  <2> SUFFICES ASSUME NEW x \in s PROVE rank(x) = Newer(type, x, s)
    OBVIOUS
  <2>1. {z \in s : k[z] > k[x]} = {y \in s : WrittenAt(type, y) > WrittenAt(type, x)}
    OBVIOUS
  <2> QED
    BY <2>1 DEF Newer
<1> HIDE DEF k
<1>5. /\ \A x \in s : rank(x) \in 0 .. (n - 1)
      /\ \A i \in 0 .. (n - 1) : \E x \in s : rank(x) = i
  <2> DEFINE r == [x \in s |-> Cardinality({z \in s : k[z] > k[x]})]
  <2>1. \A x \in s : r[x] = rank(x)
    OBVIOUS
  <2>2. r = [x \in s |-> Cardinality({z \in s : k[z] > k[x]})]
    OBVIOUS
  <2> HIDE DEF r
  <2>3. /\ \A x \in s : r[x] \in 0 .. (n - 1)
        /\ \A i \in 0 .. (n - 1) : \E x \in s : r[x] = i
    BY <1>1, <1>3, <2>2, EveryRank
  <2> QED
    BY <2>1, <2>3
<1>6. \A x, y \in s : k[x] < k[y] => rank(y) < rank(x)
  BY <1>1, <1>3, RanksFall
<1>7. listed = [i \in 1 .. m |-> CHOOSE x \in s : Newer(type, x, s) = i - 1]
  BY DEF Newest
<1> HIDE DEF listed, rank, n
<1>8. \A i \in 1 .. m : listed[i] \in s /\ rank(listed[i]) = i - 1
  <2> SUFFICES ASSUME NEW i \in 1 .. m PROVE listed[i] \in s /\ rank(listed[i]) = i - 1
    OBVIOUS
  <2>1. i - 1 \in 0 .. (n - 1)
    BY <1>1, <1>2
  <2>2. \E x \in s : Newer(type, x, s) = i - 1
    BY <1>4, <1>5, <2>1
  <2>3. listed[i] = CHOOSE x \in s : Newer(type, x, s) = i - 1
    BY <1>7
  <2> QED
    BY <1>4, <2>2, <2>3
<1>9. listed \in Seq(s) /\ Len(listed) = m
  <2>1. listed \in [1 .. m -> s]
    BY <1>7, <1>8
  <2> QED
    BY <1>2, <2>1
<1>10. \A x, y \in s : rank(x) < rank(y) => k[x] > k[y]
  <2> SUFFICES ASSUME NEW x \in s, NEW y \in s, rank(x) < rank(y) PROVE k[x] > k[y]
    OBVIOUS
  <2>1. k[x] # k[y]
    BY <1>1, <1>3, <1>5
  <2>2. ~(k[x] < k[y])
    BY <1>1, <1>5, <1>6
  <2> QED
    BY <1>3, <2>1, <2>2
<1>11. \A x \in s : k[x] = WrittenAt(type, x)
  BY DEF k
<1>12. \A i, j \in 1 .. m : i < j => WrittenAt(type, listed[i]) > WrittenAt(type, listed[j])
  BY <1>2, <1>8, <1>10, <1>11
<1>13. ASSUME NEW x \in s, \A i \in 1 .. m : listed[i] # x
       PROVE  m = ShownRows /\ \A i \in 1 .. m : WrittenAt(type, listed[i]) > WrittenAt(type, x)
  <2>1. rank(x) \in 0 .. (n - 1)
    BY <1>5
  <2>2. \A i \in 1 .. m : rank(x) # i - 1
    <3> SUFFICES ASSUME NEW i \in 1 .. m, rank(x) = i - 1 PROVE FALSE
      OBVIOUS
    <3>1. rank(listed[i]) = rank(x) /\ listed[i] \in s /\ listed[i] # x
      BY <1>8, <1>13
    <3>2. k[listed[i]] # k[x] /\ k[listed[i]] \in Nat /\ k[x] \in Nat
      BY <1>3, <3>1
    <3>3. rank(x) < rank(listed[i]) \/ rank(listed[i]) < rank(x)
      BY <1>6, <3>1, <3>2
    <3> QED
      BY <1>1, <2>1, <3>1, <3>3
  <2>3. rank(x) >= m
    <3>1. rank(x) \in Nat /\ rank(x) < n
      BY <1>1, <2>1
    <3>2. ~(rank(x) < m)
      <4> SUFFICES ASSUME rank(x) < m PROVE FALSE
        OBVIOUS
      <4>1. rank(x) + 1 \in 1 .. m
        BY <1>2, <3>1
      <4> QED
        BY <2>2, <3>1, <4>1
    <3> QED
      BY <1>2, <3>1, <3>2
  <2>4. m = ShownRows
    BY <1>1, <1>2, <2>1, <2>3, StoreDocumentsAssumption
  <2>5. \A i \in 1 .. m : rank(listed[i]) < rank(x)
    BY <1>1, <1>2, <1>8, <2>1, <2>3
  <2> QED
    BY <1>8, <1>10, <1>11, <2>4, <2>5
<1> QED
  BY <1>2, <1>9, <1>12, <1>13 DEF listed

\* When the contract asks for the newest of all.
AllNeeded(type) ==
  \/ storeKind \notin {"sqlite", "sqlite_memory", "dynamo"}
  \/ Cardinality(Stored(type)) <= OverFetched * ShownRows

\* A list is what the contract says, if it is made from the rows that are recent
\* of those that were fetched, and all were fetched when it has to be whole.
LEMMA ListIsNewest ==
  ASSUME NEW type, Stamped(type), stamp \in Nat, NEW since \in Nat,
         NEW at, at = [x \in Things(type) |-> Field(table[<<type, x>>], "at", 0)],
         NEW fetched \in SUBSET Stored(type),
         AllNeeded(type) => fetched = Stored(type)
  PROVE  Contract!Shows(Newest(type, {x \in fetched : WrittenAt(type, x) >= since}), at, since)
<1> DEFINE s == {x \in fetched : WrittenAt(type, x) >= since}
           listed == Newest(type, s)
           recent == {x \in DOMAIN at : at[x] # 0 /\ at[x] >= since}
           there == {x \in DOMAIN at : at[x] # 0}
           all == storeKind \notin {"sqlite", "sqlite_memory", "dynamo"} \/ Cardinality(there) <= OverFetched * ShownRows
<1>1. \A x \in Stored(type) : x \in Things(type) /\ at[x] = WrittenAt(type, x) /\ at[x] \in Nat /\ at[x] # 0
  <2>1. \A x \in Stored(type) : x \in Things(type) /\ table[<<type, x>>] # NoDoc
    BY DEF Stored, Things
  <2>2. \A x \in Stored(type) : at[x] = WrittenAt(type, x)
    BY <2>1 DEF Field, WrittenAt
  <2>3. \A x \in Stored(type) : WrittenAt(type, x) \in 1 .. stamp
    BY DEF Stamped
  <2> SUFFICES ASSUME NEW x \in Stored(type)
               PROVE  x \in Things(type) /\ at[x] = WrittenAt(type, x) /\ at[x] \in Nat /\ at[x] # 0
    OBVIOUS
  <2>4. WrittenAt(type, x) \in Nat /\ WrittenAt(type, x) # 0
    BY <2>3
  <2> QED
    BY <2>1, <2>2, <2>4
<1>2. DOMAIN at = Things(type) /\ \A x \in Things(type) \ Stored(type) : at[x] = 0
  BY DEF Field, Stored, Things
<1>3. there = Stored(type)
  BY <1>1, <1>2
<1>4. s \in SUBSET Stored(type)
  OBVIOUS
<1>5. s \in SUBSET recent
  BY <1>1, <1>2
<1>6. all => s = recent
  <2> SUFFICES ASSUME all PROVE s = recent
    OBVIOUS
  <2>1. fetched = Stored(type)
    BY <1>3 DEF AllNeeded
  <2> QED
    BY <1>1, <1>2, <2>1
<1>7. /\ listed \in Seq(s) /\ Len(listed) <= ShownRows
      /\ \A i, j \in 1 .. Len(listed) : i < j => WrittenAt(type, listed[i]) > WrittenAt(type, listed[j])
      /\ \A x \in s : \/ \E i \in 1 .. Len(listed) : listed[i] = x
                      \/ /\ Len(listed) = ShownRows
                         /\ \A i \in 1 .. Len(listed) : WrittenAt(type, listed[i]) > WrittenAt(type, x)
  <2> HIDE DEF s
  <2> QED
    BY <1>4, NewestIs
<1> HIDE DEF s, listed, recent, all
<1>8. \A i \in 1 .. Len(listed) : listed[i] \in s /\ at[listed[i]] = WrittenAt(type, listed[i])
  <2>1. \A i \in 1 .. Len(listed) : listed[i] \in s
    BY <1>7
  <2> QED
    BY <1>1, <1>4, <2>1
<1>9. \A x \in s : at[x] = WrittenAt(type, x)
  BY <1>1, <1>4
<1>10. listed \in Seq(recent)
  <2>1. \A i \in 1 .. Len(listed) : listed[i] \in recent
    BY <1>5, <1>8
  <2>2. listed = [i \in 1 .. Len(listed) |-> listed[i]] /\ Len(listed) \in Nat
    BY <1>7
  <2> QED
    BY <2>1, <2>2
<1>11. \A i, j \in 1 .. Len(listed) : i < j => at[listed[i]] > at[listed[j]]
  BY <1>7, <1>8
<1>12. all => \A x \in recent : \/ \E i \in 1 .. Len(listed) : listed[i] = x
                                \/ Len(listed) = ShownRows /\ \A i \in 1 .. Len(listed) : at[listed[i]] > at[x]
  <2> SUFFICES ASSUME all, NEW x \in recent, \A i \in 1 .. Len(listed) : listed[i] # x
               PROVE  Len(listed) = ShownRows /\ \A i \in 1 .. Len(listed) : at[listed[i]] > at[x]
    OBVIOUS
  <2>1. x \in s
    BY <1>6
  <2>2. Len(listed) = ShownRows /\ \A i \in 1 .. Len(listed) : WrittenAt(type, listed[i]) > WrittenAt(type, x)
    BY <1>7, <2>1
  <2> QED
    BY <1>8, <1>9, <2>1, <2>2
<1>13. Contract!Shows(listed, at, since)
  <2>1. /\ listed \in Seq(recent) /\ Len(listed) <= ShownRows
        /\ \A i, j \in 1 .. Len(listed) : i < j => at[listed[i]] > at[listed[j]]
        /\ all => \A x \in recent : \/ \E i \in 1 .. Len(listed) : listed[i] = x
                                    \/ Len(listed) = ShownRows /\ \A i \in 1 .. Len(listed) : at[listed[i]] > at[x]
    BY <1>7, <1>10, <1>11, <1>12
  <2> QED
    BY ONLY <2>1 DEF Contract!Shows, Contract!Cardinality, Cardinality, recent, all, there
<1> QED
  BY <1>13 DEF listed, s

\* The rows a store fetches first are all there are, when they are few.
LEMMA FetchedIsAll ==
  ASSUME NEW type, NEW ahead \in [Stored(type) -> SUBSET Stored(type)], \A x \in Stored(type) : x \notin ahead[x],
         Cardinality(Stored(type)) <= OverFetched * ShownRows
  PROVE  \A x \in Stored(type) : Cardinality(ahead[x]) < OverFetched * ShownRows
<1> SUFFICES ASSUME NEW x \in Stored(type)
             PROVE  Cardinality(ahead[x]) < OverFetched * ShownRows
  OBVIOUS
<1>1. ahead[x] \in SUBSET Stored(type) /\ ahead[x] # Stored(type)
  OBVIOUS
<1>2. Cardinality(ahead[x]) < Cardinality(Stored(type)) /\ Cardinality(ahead[x]) \in Nat /\ Cardinality(Stored(type)) \in Nat
  BY <1>1, StoredIsFinite, SmallerSets
<1>3. OverFetched * ShownRows \in Nat
  BY StoreDocumentsAssumption
<1> QED
  BY <1>2, <1>3

LEMMA FailuresAreListed ==
  ASSUME UNCHANGED <<table, readFaults>>, Stamped("failure"), stamp \in Nat, NEW since \in Nat,
         NEW fetched \in SUBSET Stored("failure"),
         AllNeeded("failure") => fetched = Stored("failure"),
         reply' = [events |-> Newest("failure", {x \in fetched : WrittenAt("failure", x) >= since}), since |-> since]
  PROVE  Contract!List
<1>1. FailedAt = [x \in Things("failure") |-> Field(table[<<"failure", x>>], "at", 0)]
  BY DEF FailedAt, Things
<1>2. Contract!Shows(reply'.events, FailedAt, reply'.since)
  BY <1>1, ListIsNewest
<1>3. "since" \in DOMAIN reply' /\ "events" \in DOMAIN reply'
  OBVIOUS
<1>4. Contract!Answers(FALSE)
  BY DEF Contract!Answers, Contract!ReadAnswers
<1> QED
  BY <1>2, <1>3, <1>4, Rest DEF Contract!List, Contract!dashboardVars

LEMMA AssessmentsAreListed ==
  ASSUME UNCHANGED <<table, readFaults>>, Stamped("page_assessment"), stamp \in Nat, NEW since \in Nat,
         NEW fetched \in SUBSET Stored("page_assessment"),
         AllNeeded("page_assessment") => fetched = Stored("page_assessment"),
         reply' = [pages |-> Newest("page_assessment", {x \in fetched : WrittenAt("page_assessment", x) >= since}), since |-> since]
  PROVE  Contract!List
<1>1. AssessedAt = [x \in Things("page_assessment") |-> Field(table[<<"page_assessment", x>>], "at", 0)]
  BY DEF AssessedAt, Things
<1>2. Contract!Shows(reply'.pages, AssessedAt, reply'.since)
  BY <1>1, ListIsNewest
<1>3. "since" \in DOMAIN reply' /\ "pages" \in DOMAIN reply'
  OBVIOUS
<1>4. Contract!Answers(FALSE)
  BY DEF Contract!Answers, Contract!ReadAnswers
<1> QED
  BY <1>2, <1>3, <1>4, Rest DEF Contract!List, Contract!dashboardVars

LEMMA ListFails ==
  ASSUME UNCHANGED table, NEW since, readFaults < MaxReadFaults, readFaults' = readFaults + 1,
         reply' = [pages |-> <<>>, since |-> since] \/ reply' = [events |-> <<>>, since |-> since]
  PROVE  Contract!List
<1>1. "since" \in DOMAIN reply' /\ reply'.since = since
  OBVIOUS
<1> QED
  BY <1>1, Rest DEF Contract!List, Contract!SpendFault, Contract!dashboardVars

(***************************************************************************)
(* The invariant.                                                          *)
(***************************************************************************)

\* The documents of an id.
DocsOf(id) ==
  CASE id[1] = "state" -> StateDoc
    [] id[1] = "lock" -> LockDoc
    [] id[1] = "poll_run_summary" -> SummaryDoc
    [] id[1] = "processed" -> MarkerDoc
    [] id[1] = "failure" -> FailureDoc
    [] id[1] = "assessment" -> SnapshotDoc
    [] id[1] = "page_assessment" -> AssessmentDoc

TableOK(t) ==
  /\ t = [id \in Ids |-> t[id]]
  /\ \A id \in Ids : t[id] \in DocsOf(id) \cup {NoDoc}

\* A file holds what memory does, but for markers that expired and were removed
\* from memory only; after one that was torn there was nothing to begin with.
FileHolds ==
  \/ disk = Torn /\ table = Empty
  \/ /\ disk # Torn /\ TableOK(disk)
     /\ \A id \in Ids : \/ disk[id] = table[id]
                        \/ id[1] = "processed" /\ table[id] = NoDoc /\ disk[id] # NoDoc /\ disk[id].left = 0

StoreInv ==
  /\ storeKind \in StoreKinds /\ stamp \in Nat
  /\ TableOK(table)
  /\ Stamped("failure") /\ Stamped("page_assessment")
  /\ IF storeKind = "file" THEN FileHolds ELSE disk = Empty

\* A file is written with every write.
Flushes == disk' = IF storeKind = "file" THEN table' ELSE disk

LEMMA IdTypes ==
  /\ \A id \in Ids : \/ id = <<"state">> /\ id[1] = "state"
                     \/ id = <<"lock">> /\ id[1] = "lock"
                     \/ id = <<"poll_run_summary">> /\ id[1] = "poll_run_summary"
                     \/ id[1] \in {"processed", "failure"} /\ \E e \in StoreEvents : id = <<id[1], e>>
                     \/ id[1] \in {"assessment", "page_assessment"} /\ \E p \in StorePages : id = <<id[1], p>>
BY DEF Ids

LEMMA DocsAre ==
  /\ DocsOf(<<"state">>) = StateDoc /\ DocsOf(<<"lock">>) = LockDoc /\ DocsOf(<<"poll_run_summary">>) = SummaryDoc
  /\ \A x : /\ DocsOf(<<"processed", x>>) = MarkerDoc /\ DocsOf(<<"failure", x>>) = FailureDoc
            /\ DocsOf(<<"assessment", x>>) = SnapshotDoc /\ DocsOf(<<"page_assessment", x>>) = AssessmentDoc
<1>1. /\ <<"state">>[1] = "state" /\ <<"lock">>[1] = "lock" /\ <<"poll_run_summary">>[1] = "poll_run_summary"
      /\ \A x, t : <<t, x>>[1] = t
  OBVIOUS
<1> QED
  BY <1>1 DEF DocsOf

LEMMA NoDocIsNone ==
  \A id \in Ids : NoDoc \notin DocsOf(id)
<1> SUFFICES ASSUME NEW id \in Ids PROVE NoDoc \notin DocsOf(id)
  OBVIOUS
<1> QED
  BY IdTypes, StoreDocumentsAssumption DEF DocsOf

LEMMA TableIsNotTorn ==
  ASSUME NEW t, TableOK(t)
  PROVE  t # Torn
<1>1. DOMAIN t = Ids /\ DOMAIN Torn = {}
  BY DEF TableOK, Torn
<1> QED
  BY <1>1, IdsAre

LEMMA PutIsOK ==
  ASSUME TableOK(table), NEW id \in Ids, NEW d \in DocsOf(id) \cup {NoDoc}, table' = [table EXCEPT ![id] = d]
  PROVE  TableOK(table')
BY DEF TableOK

LEMMA FlushKeeps ==
  ASSUME TableOK(table'), disk' = table'
  PROVE  FileHolds'
BY TableIsNotTorn DEF FileHolds

\* The rows of a type that is not written stay as they are.
LEMMA StampedKeeps ==
  ASSUME stamp \in Nat, stamp' \in Nat, stamp <= stamp', NEW type, Stamped(type),
         \A x \in Things(type) : table'[<<type, x>>] = table[<<type, x>>]
  PROVE  Stamped(type)'
<1>1. Stored(type)' = Stored(type)
  BY DEF Stored, Things
<1>2. \A x \in Stored(type) : WrittenAt(type, x)' = WrittenAt(type, x)
  BY DEF Stored, Things, WrittenAt
<1> QED
  BY <1>1, <1>2 DEF Stamped

LEMMA StampedPut ==
  ASSUME stamp \in Nat, stamp' = stamp + 1, NEW type, Stamped(type), NEW x \in Things(type),
         table'[<<type, x>>] # NoDoc, table'[<<type, x>>].at = stamp + 1,
         \A y \in Things(type) \ {x} : table'[<<type, y>>] = table[<<type, y>>]
  PROVE  Stamped(type)'
<1>1. \A y \in Stored(type)' : y = x \/ (y \in Stored(type) /\ y \in Things(type))
  BY DEF Stored, Things
<1>2. WrittenAt(type, x)' = stamp + 1
  BY DEF WrittenAt
<1>3. \A y \in Stored(type) \ {x} : WrittenAt(type, y)' = WrittenAt(type, y)
  BY DEF Stored, Things, WrittenAt
<1>4. \A y \in Stored(type) \ {x} : WrittenAt(type, y)' \in 1 .. stamp
  BY <1>3 DEF Stamped
<1>5. \A y \in Stored(type)' : WrittenAt(type, y)' \in 1 .. stamp'
  BY <1>1, <1>2, <1>4
<1>6. \A y, z \in Stored(type)' : WrittenAt(type, y)' = WrittenAt(type, z)' => y = z
  <2> SUFFICES ASSUME NEW y \in Stored(type)', NEW z \in Stored(type)', WrittenAt(type, y)' = WrittenAt(type, z)'
               PROVE  y = z
    OBVIOUS
  <2>1. CASE y = x \/ z = x
    BY <1>1, <1>2, <1>4, <2>1
  <2>2. CASE y # x /\ z # x
    BY <1>1, <1>3, <2>2 DEF Stamped
  <2> QED
    BY <2>1, <2>2
<1> QED
  BY <1>5, <1>6 DEF Stamped

LEMMA IdsOfRows ==
  ASSUME NEW type \in {"failure", "page_assessment"}
  PROVE  /\ \A x \in Things(type) : <<type, x>> \in Ids /\ <<type, x>>[1] = type
         /\ \A x, y \in Things(type) : <<type, x>> = <<type, y>> => x = y
BY DEF Things, Ids

LEMMA PutKeeps ==
  ASSUME StoreInv, UNCHANGED storeKind, stamp' = stamp + 1, Flushes,
         NEW id \in Ids, NEW d \in DocsOf(id) \cup {NoDoc}, table' = [table EXCEPT ![id] = d],
         id[1] \in {"failure", "page_assessment"} => d # NoDoc /\ d.at = stamp + 1
  PROVE  StoreInv'
<1>1. stamp \in Nat /\ stamp' \in Nat /\ stamp <= stamp' /\ TableOK(table)
  BY DEF StoreInv
<1>2. TableOK(table')
  BY <1>1, PutIsOK
<1>3. table'[id] = d /\ \A i \in Ids \ {id} : table'[i] = table[i]
  BY <1>1 DEF TableOK
<1>4. ASSUME NEW type \in {"failure", "page_assessment"}, Stamped(type)
      PROVE  Stamped(type)'
  <2>1. CASE \E x \in Things(type) : id = <<type, x>>
    <3>1. PICK x \in Things(type) : id = <<type, x>>
      BY <2>1
    <3>2. d # NoDoc /\ d.at = stamp + 1
      BY <3>1, IdsOfRows
    <3>3. \A y \in Things(type) \ {x} : table'[<<type, y>>] = table[<<type, y>>]
      BY <1>3, <3>1, IdsOfRows
    <3> QED
      BY <1>1, <1>3, <1>4, <3>1, <3>2, <3>3, StampedPut
  <2>2. CASE \A x \in Things(type) : id # <<type, x>>
    <3>1. \A x \in Things(type) : table'[<<type, x>>] = table[<<type, x>>]
      BY <1>3, <2>2, IdsOfRows
    <3> QED
      BY <1>1, <1>4, <3>1, StampedKeeps
  <2> QED
    BY <2>1, <2>2
<1>5. IF storeKind' = "file" THEN FileHolds' ELSE disk' = Empty'
  BY <1>2, FlushKeeps DEF Flushes, StoreInv, Empty
<1> QED
  BY <1>1, <1>2, <1>4, <1>5 DEF StoreInv

LEMMA RestKeeps ==
  ASSUME StoreInv, UNCHANGED <<storeKind, table>>, stamp' \in {stamp, stamp + 1}, UNCHANGED disk \/ Flushes
  PROVE  StoreInv'
<1>1. stamp \in Nat /\ stamp' \in Nat /\ stamp <= stamp' /\ TableOK(table')
  BY DEF StoreInv
<1>2. Stamped("failure")' /\ Stamped("page_assessment")'
  BY <1>1, StampedKeeps DEF StoreInv
<1>3. IF storeKind' = "file" THEN FileHolds' ELSE disk' = Empty'
  <2>1. CASE disk' = table'
    BY <1>1, <2>1, FlushKeeps DEF Flushes, StoreInv, Empty
  <2>2. CASE disk' = disk
    BY <2>2 DEF StoreInv, FileHolds, Empty
  <2> QED
    BY <2>1, <2>2 DEF Flushes
<1> QED
  BY <1>1, <1>2, <1>3 DEF StoreInv

\* A step that changes no row, and leaves every other document alone or takes it
\* away or writes one of the same kind.
LEMMA OthersKeep ==
  ASSUME StoreInv, UNCHANGED storeKind, stamp' \in {stamp, stamp + 1}, TableOK(table'),
         \A id \in Ids : id[1] \in {"failure", "page_assessment"} => table'[id] = table[id],
         IF storeKind = "file" THEN FileHolds' ELSE disk' = Empty
  PROVE  StoreInv'
<1>1. stamp \in Nat /\ stamp' \in Nat /\ stamp <= stamp'
  BY DEF StoreInv
<1>2. ASSUME NEW type \in {"failure", "page_assessment"}, Stamped(type)
      PROVE  Stamped(type)'
  <2>1. \A x \in Things(type) : table'[<<type, x>>] = table[<<type, x>>]
    BY IdsOfRows
  <2> QED
    BY <1>1, <1>2, <2>1, StampedKeeps
<1> QED
  BY <1>1, <1>2 DEF StoreInv, Empty

LEMMA WithoutIsOK ==
  ASSUME NEW t, TableOK(t), NEW ids
  PROVE  TableOK(Without(t, ids))
BY DEF TableOK, Without

LEMMA OlderIs ==
  ASSUME NEW t, TableOK(t)
  PROVE  /\ TableOK(Older(t))
         /\ \A id \in Ids : id[1] \notin {"lock", "processed"} => Older(t)[id] = t[id]
         /\ \A id \in Ids : t[id] = NoDoc => Older(t)[id] = NoDoc
         /\ \A id \in Ids : id[1] \in {"lock", "processed"} /\ t[id] # NoDoc =>
              /\ Older(t)[id] # NoDoc
              /\ Older(t)[id].left = IF t[id].left > 0 THEN t[id].left - 1 ELSE t[id].left
              /\ t[id].left \in Nat
              /\ id = <<"lock">> => Older(t)[id].owner = t[id].owner
<1>1. ASSUME NEW id \in Ids, id[1] \in {"lock", "processed"}, t[id] # NoDoc
      PROVE  /\ Older(t)[id] # NoDoc /\ Older(t)[id] \in DocsOf(id)
             /\ Older(t)[id].left = IF t[id].left > 0 THEN t[id].left - 1 ELSE t[id].left
             /\ t[id].left \in Nat
             /\ id = <<"lock">> => Older(t)[id].owner = t[id].owner
  <2>1. t[id] \in DocsOf(id)
    BY <1>1 DEF TableOK
  <2>2. CASE id[1] = "lock"
    <3>1. id = <<"lock">> /\ DocsOf(id) = LockDoc
      BY <2>2, IdTypes, DocsAre
    <3>2. t[id].left \in Nat /\ t[id].owner \in Runs /\ t[id] = [owner |-> t[id].owner, left |-> t[id].left]
      <4>1. \A r \in LockDoc : r.left \in Nat /\ r.owner \in Runs /\ r = [owner |-> r.owner, left |-> r.left]
        BY DEF LockDoc
      <4> QED
        BY <2>1, <3>1, <4>1
    <3>3. Older(t)[id] = IF t[id].left > 0 THEN [t[id] EXCEPT !.left = @ - 1] ELSE t[id]
      BY <1>1, <2>2 DEF Older
    <3>4. Older(t)[id] = [owner |-> t[id].owner, left |-> IF t[id].left > 0 THEN t[id].left - 1 ELSE t[id].left]
      BY <3>2, <3>3
    <3>5. Older(t)[id] \in LockDoc
      BY <3>2, <3>4 DEF LockDoc
    <3> QED
      BY <3>1, <3>2, <3>4, <3>5, NoDocIsNone
  <2>3. CASE id[1] = "processed"
    <3>1. id # <<"lock">> /\ DocsOf(id) = MarkerDoc
      BY <2>3, IdTypes, DocsAre
    <3>2. t[id].left \in Nat /\ t[id] = [left |-> t[id].left]
      BY <2>1, <3>1 DEF MarkerDoc
    <3>3. Older(t)[id] = IF t[id].left > 0 THEN [t[id] EXCEPT !.left = @ - 1] ELSE t[id]
      BY <1>1, <2>3 DEF Older
    <3>4. Older(t)[id] = [left |-> IF t[id].left > 0 THEN t[id].left - 1 ELSE t[id].left]
      BY <3>2, <3>3
    <3>5. Older(t)[id] \in MarkerDoc
      BY <3>2, <3>4 DEF MarkerDoc
    <3> QED
      BY <3>1, <3>2, <3>4, <3>5, NoDocIsNone
  <2> QED
    BY <1>1, <2>2, <2>3
<1>2. \A id \in Ids : id[1] \notin {"lock", "processed"} => Older(t)[id] = t[id]
  BY DEF Older
<1>3. \A id \in Ids : t[id] = NoDoc => Older(t)[id] = NoDoc
  BY DEF Older
<1>4. Older(t) = [id \in Ids |-> Older(t)[id]]
  BY DEF Older
<1>5. \A id \in Ids : Older(t)[id] \in DocsOf(id) \cup {NoDoc}
  BY <1>1, <1>2, <1>3 DEF TableOK
<1>6. TableOK(Older(t))
  BY <1>4, <1>5 DEF TableOK
<1> QED
  BY <1>1, <1>2, <1>3, <1>6

LEMMA MarkersAre ==
  ASSUME TableOK(table), NEW e \in StoreEvents
  PROVE  /\ table[<<"processed", e>>] # NoDoc => table[<<"processed", e>>].left \in Nat
         /\ e \in LiveMarkers <=> table[<<"processed", e>>] # NoDoc /\ table[<<"processed", e>>].left > 0
<1>1. table[<<"processed", e>>] \in MarkerDoc \cup {NoDoc}
  BY IdsAre, DocsAre DEF TableOK
<1> QED
  BY <1>1 DEF LiveMarkers, Field, MarkerDoc

\* Markers that had come to their end may go.
LEMMA MarkersGo ==
  ASSUME TableOK(table), \A id \in Ids : id[1] = "processed" => table'[id] \in {table[id], NoDoc},
         \A e \in StoreEvents : table[<<"processed", e>>] # NoDoc /\ table'[<<"processed", e>>] = NoDoc
                                => table[<<"processed", e>>].left = 0
  PROVE  UNCHANGED LiveMarkers
<1>1. \A e \in StoreEvents : table'[<<"processed", e>>] \in {table[<<"processed", e>>], NoDoc}
  <2>1. \A e \in StoreEvents : <<"processed", e>>[1] = "processed"
    OBVIOUS
  <2> QED
    BY <2>1, IdsAre
<1>2. ASSUME NEW e \in StoreEvents
      PROVE  Field(table'[<<"processed", e>>], "left", 0) > 0 <=> Field(table[<<"processed", e>>], "left", 0) > 0
  <2>1. CASE table'[<<"processed", e>>] = table[<<"processed", e>>]
    BY <2>1
  <2>2. CASE table'[<<"processed", e>>] = NoDoc /\ table[<<"processed", e>>] # NoDoc
    <3>1. Field(table'[<<"processed", e>>], "left", 0) = 0 /\ Field(table[<<"processed", e>>], "left", 0) = 0
      BY <2>2 DEF Field
    <3> QED
      BY <3>1
  <2> QED
    BY <1>1, <2>1, <2>2
<1> QED
  BY <1>2 DEF LiveMarkers

LEMMA TimeIs ==
  ASSUME UNCHANGED <<reply, readFaults>>, \A id \in Ids : id[1] \notin {"lock", "processed"} => table'[id] = table[id],
         LiveMarkers' \subseteq LiveMarkers,
         \/ StoredLease' = StoredLease
         \/ StoredLease' = [owner |-> StoredLease.owner, left |-> IF StoredLease.left = 0 THEN 0 ELSE StoredLease.left - 1]
         \/ StoredLease.left = 0 /\ StoredLease' = [owner |-> NoDoc, left |-> 0]
  PROVE  Contract!Time
<1> DEFINE ids == {id \in Ids : id[1] \in {"lock", "processed"}}
<1>1. Other(ids)
  BY DEF Other
<1>2. /\ <<"state">>[1] = "state" /\ <<"poll_run_summary">>[1] = "poll_run_summary"
      /\ \A x, t : <<t, x>>[1] = t
  OBVIOUS
<1>3. /\ <<"state">> \notin ids /\ <<"poll_run_summary">> \notin ids
      /\ \A e \in StoreEvents : <<"failure", e>> \notin ids
      /\ \A p \in StorePages : <<"assessment", p>> \notin ids /\ <<"page_assessment", p>> \notin ids
  BY <1>2
<1> HIDE DEF ids
<1>4. UNCHANGED <<StoredWatermark, StoredSummary, StoredFailures, FailedAt, StoredVersions, StoredRows, AssessedAt>>
  BY <1>1, <1>3, KeptOutside
<1> QED
  BY <1>4 DEF Contract!Time, Contract!LeaseAges, Contract!dashboardVars

LEMMA LockIs ==
  ASSUME TableOK(table)
  PROVE  /\ table[<<"lock">>] = NoDoc => StoredLease = [owner |-> NoDoc, left |-> 0]
         /\ table[<<"lock">>] # NoDoc => /\ table[<<"lock">>] \in LockDoc
                                         /\ StoredLease = [owner |-> table[<<"lock">>].owner, left |-> table[<<"lock">>].left]
<1>1. table[<<"lock">>] \in LockDoc \cup {NoDoc}
  BY IdsAre, DocsAre DEF TableOK
<1> QED
  BY <1>1 DEF StoredLease, Field

\* Documents come nearer to their end, and the markers that reach it may go.
LEMMA TimePasses ==
  ASSUME TableOK(table), UNCHANGED <<reply, readFaults>>,
         table' = Older(table) \/ table' = Without(Older(table), Expired(Older(table)))
  PROVE  /\ Contract!Time /\ TableOK(table')
         /\ \A id \in Ids : id[1] \in {"failure", "page_assessment"} => table'[id] = table[id]
<1> DEFINE o == Older(table)
<1>1. TableOK(o)
  BY OlderIs
<1>2. TableOK(table')
  BY <1>1, WithoutIsOK
<1>3. \A id \in Ids : table'[id] = o[id] \/ (table'[id] = NoDoc /\ id[1] = "processed" /\ o[id].left = 0)
  BY DEF Without, Expired
<1>4. \A id \in Ids : id[1] \notin {"lock", "processed"} => table'[id] = table[id]
  BY <1>3, OlderIs
<1>5. \A e \in StoreEvents : e \in LiveMarkers' => e \in LiveMarkers
  <2> SUFFICES ASSUME NEW e \in StoreEvents, Field(table'[<<"processed", e>>], "left", 0) > 0
               PROVE  e \in LiveMarkers
    BY DEF LiveMarkers
  <2> DEFINE id == <<"processed", e>>
  <2>1. id \in Ids /\ id[1] = "processed"
    BY IdsAre
  <2> HIDE DEF id
  <2>2. table'[id] # NoDoc /\ table'[id].left > 0
    BY DEF Field, id
  <2>3. table'[id] = o[id]
    BY <1>3, <2>1, <2>2
  <2>4. table[id] # NoDoc
    BY <2>1, <2>2, <2>3, OlderIs
  <2>5. o[id].left = (IF table[id].left > 0 THEN table[id].left - 1 ELSE table[id].left) /\ table[id].left \in Nat
    BY <2>1, <2>4, OlderIs
  <2>6. table[id].left > 0
    BY <2>2, <2>3, <2>5
  <2> QED
    BY <2>4, <2>6, MarkersAre DEF id
<1>6. StoredLease' = [owner |-> StoredLease.owner, left |-> IF StoredLease.left = 0 THEN 0 ELSE StoredLease.left - 1]
  <2> DEFINE id == <<"lock">>
  <2>1. id \in Ids /\ id[1] = "lock"
    BY IdsAre
  <2>2. table'[id] = o[id]
    BY <1>3, <2>1
  <2>3. CASE table[id] = NoDoc
    <3>1. table'[id] = NoDoc
      BY <2>1, <2>2, <2>3, OlderIs
    <3>2. StoredLease' = [owner |-> NoDoc, left |-> 0]
      BY <3>1 DEF StoredLease, Field
    <3> QED
      BY <2>3, <3>2, LockIs
  <2>4. CASE table[id] # NoDoc
    <3>1. /\ o[id] # NoDoc /\ o[id].owner = table[id].owner /\ table[id].left \in Nat
          /\ o[id].left = IF table[id].left > 0 THEN table[id].left - 1 ELSE table[id].left
      BY <2>1, <2>4, OlderIs
    <3>2. StoredLease' = [owner |-> o[id].owner, left |-> o[id].left]
      BY <2>2, <3>1 DEF StoredLease, Field
    <3>3. StoredLease = [owner |-> table[id].owner, left |-> table[id].left]
      BY <2>4, LockIs
    <3> QED
      BY <3>1, <3>2, <3>3
  <2> QED
    BY <2>3, <2>4
<1> QED
  BY <1>2, <1>4, <1>5, <1>6, TimeIs DEF LiveMarkers

\* Nothing is there any more.
LEMMA ForgottenIs ==
  ASSUME table' = Empty, ~Lasts', UNCHANGED <<reply, readFaults>>
  PROVE  Contract!Forget
<1>1. \A id \in Ids : table'[id] = NoDoc
  BY DEF Empty
<1>2. StoredWatermark' = 0 /\ StoredLease' = [owner |-> NoDoc, left |-> 0] /\ StoredSummary' = 0 /\ LiveMarkers' = {}
  <2>1. StoredWatermark' = 0 /\ StoredLease' = [owner |-> NoDoc, left |-> 0] /\ StoredSummary' = 0
    BY <1>1, IdsAre DEF StoredWatermark, StoredLease, StoredSummary, Field
  <2>2. \A e \in StoreEvents : ~(Field(table'[<<"processed", e>>], "left", 0) > 0)
    <3>1. \A e \in StoreEvents : table'[<<"processed", e>>] = NoDoc
      BY <1>1, IdsAre
    <3>2. \A e \in StoreEvents : Field(table'[<<"processed", e>>], "left", 0) = 0
      BY <3>1 DEF Field
    <3> SUFFICES ASSUME NEW e \in StoreEvents PROVE ~(Field(table'[<<"processed", e>>], "left", 0) > 0)
      OBVIOUS
    <3>3. Field(table'[<<"processed", e>>], "left", 0) = 0
      BY <3>2
    <3> HIDE DEF Field
    <3> QED
      BY <3>3
  <2> QED
    BY <2>1, <2>2 DEF LiveMarkers
<1>3. /\ StoredFailures' = [e \in StoreEvents |-> [count |-> 0, status |-> "none"]]
      /\ FailedAt' = [e \in StoreEvents |-> 0] /\ AssessedAt' = [p \in StorePages |-> 0]
  BY <1>1, IdsAre DEF StoredFailures, FailedAt, AssessedAt, Field
<1>4. StoredVersions' = [k \in StorePages \X {"f"} |-> 0]
  <2>1. \A k \in StorePages \X {"f"} : k[1] \in StorePages
    OBVIOUS
  <2> QED
    BY <1>1, <2>1, IdsAre DEF StoredVersions, Field
<1>5. StoredRows' = [k \in StorePages \X ({"f"} \cup {"clarification"}) |-> "none"]
  <2>1. \A k \in StorePages \X {"f", "clarification"} : k[1] \in StorePages
    OBVIOUS
  <2>2. {"f"} \cup {"clarification"} = {"f", "clarification"}
    OBVIOUS
  <2> QED
    BY <1>1, <2>1, <2>2, IdsAre DEF StoredRows, Field
<1> QED
  BY <1>2, <1>3, <1>4, <1>5 DEF Contract!Forget, Contract!Scope, Contract!AnyFramework

(***************************************************************************)
(* The in-memory and the local-file store.                                 *)
(***************************************************************************)

\* A step is one of the contract, and keeps the invariant.
Fits == Contract!ContractNext /\ StoreInv' /\ UNCHANGED storeKind

LEMMA FitsBy ==
  ASSUME StoreInv', UNCHANGED storeKind,
         \/ Contract!State \/ Contract!Lease \/ Contract!Marker \/ Contract!Failure \/ Contract!Snapshot
         \/ Contract!Summary \/ Contract!Row \/ Contract!List \/ Contract!Time \/ Contract!Forget
  PROVE  Fits
BY DEF Fits, Contract!ContractNext

\* What a call of one of the stores does to the documents.
Reading == UNCHANGED <<storeKind, table, disk, stamp>>
Writing == stamp' = stamp + 1 /\ UNCHANGED storeKind /\ Flushes

LEMMA TypedDocs ==
  ASSUME stamp \in Nat
  PROVE  /\ [watermark |-> stamp + 1] \in StateDoc /\ [of |-> stamp + 1] \in SummaryDoc
         /\ [version |-> stamp + 1] \in SnapshotDoc /\ [left |-> MarkerTime] \in MarkerDoc
         /\ \A run \in Runs : [owner |-> run, left |-> LeaseTime] \in LockDoc
         /\ \A c \in Nat, st \in {"failed_retryable", "failed_terminal"} :
              /\ [count |-> c, status |-> st, at |-> stamp + 1] \in FailureDoc
              /\ \A row \in Nat : [count |-> c, status |-> st, at |-> stamp + 1, row |-> row] \in FailureDoc
         /\ \A st \in {"assessed", "no_change"} :
              /\ [status |-> st, at |-> stamp + 1] \in AssessmentDoc
              /\ \A row \in Nat : [status |-> st, at |-> stamp + 1, row |-> row] \in AssessmentDoc
BY StoreDocumentsAssumption DEF StateDoc, SummaryDoc, SnapshotDoc, MarkerDoc, LockDoc, FailureDoc, AssessmentDoc

LEMMA CountsAre ==
  ASSUME TableOK(table), NEW e \in StoreEvents, NEW lost \in BOOLEAN
  PROVE  /\ Field(Doc(<<"failure", e>>, lost), "count", 0) \in Nat
         /\ Counted(Doc(<<"failure", e>>, lost)) \in Nat
<1>1. table[<<"failure", e>>] \in FailureDoc \cup {NoDoc}
  BY IdsAre, DocsAre DEF TableOK
<1>2. \A d \in FailureDoc : d.count \in Nat
  BY DEF FailureDoc
<1>3. Field(Doc(<<"failure", e>>, lost), "count", 0) \in Nat
  BY <1>1, <1>2 DEF Field, Doc
<1> QED
  BY <1>3, StoreDocumentsAssumption DEF Counted

\* The effects of the methods.  A document is read as Doc says, written with
\* the time of the call, and the reply is what was read or written.
LEMMA StateFits ==
  ASSUME StoreInv, NEW lost \in BOOLEAN, Fault(lost),
         \/ Reading /\ reply' = [watermark |-> Field(Doc(<<"state">>, lost), "watermark", 0)]
         \/ Reading /\ reply' = [summary |-> Field(Doc(<<"poll_run_summary">>, lost), "of", 0)]
         \/ /\ Writing /\ reply' = [watermark |-> stamp + 1]
            /\ \E d \in StateDoc : d.watermark = stamp + 1 /\ table' = [table EXCEPT ![<<"state">>] = d]
         \/ /\ ~lost /\ Writing /\ reply' = [summary |-> stamp + 1]
            /\ table' = [table EXCEPT ![<<"poll_run_summary">>] = [of |-> stamp + 1]]
  PROVE  Fits
<1>1. table = [i \in Ids |-> table[i]] /\ stamp \in Nat
  BY DEF StoreInv, TableOK
<1>2. CASE Reading
  <2>1. StoreInv' /\ UNCHANGED <<storeKind, table>>
    BY <1>2, RestKeeps DEF Reading
  <2>2. Contract!State \/ Contract!Summary
    <3>1. ~Writing
      BY <1>1, <1>2 DEF Reading, Writing
    <3> QED
      BY <2>1, <3>1, StateIsLoaded, SummaryIsRead
  <2> QED
    BY <2>1, <2>2, FitsBy
<1>3. ASSUME Writing, reply' = [watermark |-> stamp + 1], NEW d \in StateDoc, d.watermark = stamp + 1,
             table' = [table EXCEPT ![<<"state">>] = d]
      PROVE  Fits
  <2>1. StoreInv'
    <3>1. <<"state">> \in Ids /\ d \in DocsOf(<<"state">>) /\ <<"state">>[1] \notin {"failure", "page_assessment"}
      BY IdsAre, DocsAre
    <3> QED
      BY <1>3, <3>1, PutKeeps DEF Writing
  <2>2. Contract!State
    BY <1>1, <1>3, StateIsCommitted
  <2> QED
    BY <1>3, <2>1, <2>2, FitsBy DEF Writing
<1>4. ASSUME ~lost, Writing, reply' = [summary |-> stamp + 1],
             table' = [table EXCEPT ![<<"poll_run_summary">>] = [of |-> stamp + 1]]
      PROVE  Fits
  <2>1. StoreInv'
    <3>1. /\ <<"poll_run_summary">> \in Ids /\ [of |-> stamp + 1] \in DocsOf(<<"poll_run_summary">>)
          /\ <<"poll_run_summary">>[1] \notin {"failure", "page_assessment"}
      BY <1>1, IdsAre, DocsAre, TypedDocs
    <3> QED
      BY <1>4, <3>1, PutKeeps DEF Writing
  <2>2. Contract!Summary
    <3>1. [of |-> stamp + 1] \in SummaryDoc /\ [of |-> stamp + 1].of = stamp + 1 /\ Fault(FALSE)
      BY <1>1, <1>4, TypedDocs
    <3> QED
      BY <1>1, <1>4, <3>1, SummaryIsWritten
  <2> QED
    BY <1>4, <2>1, <2>2, FitsBy DEF Writing
<1> QED
  BY <1>2, <1>3, <1>4

LEMMA WithoutOne ==
  ASSUME TableOK(table), NEW id \in Ids
  PROVE  Without(table, {id}) = [table EXCEPT ![id] = NoDoc]
BY DEF Without, TableOK

\* A write of the lock document, or none.
LEMMA LockKeeps ==
  ASSUME StoreInv, Writing, NEW c \in BOOLEAN, NEW d \in LockDoc \cup {NoDoc},
         table' = IF c THEN [table EXCEPT ![<<"lock">>] = d] ELSE table
  PROVE  /\ StoreInv' /\ LockMoves
         /\ table'[<<"lock">>] = IF c THEN d ELSE table[<<"lock">>]
<1>1. table = [i \in Ids |-> table[i]] /\ <<"lock">> \in Ids /\ DocsOf(<<"lock">>) = LockDoc
  BY IdsAre, DocsAre DEF StoreInv, TableOK
<1>2. StoreInv'
  <2>1. CASE c
    <3>1. <<"lock">>[1] \notin {"failure", "page_assessment"}
      OBVIOUS
    <3> QED
      BY <1>1, <2>1, <3>1, PutKeeps DEF Writing
  <2>2. CASE ~c
    BY <2>2, RestKeeps DEF Writing
  <2> QED
    BY <2>1, <2>2
<1>3. LockMoves
  BY <1>1 DEF LockMoves, Other
<1> QED
  BY <1>1, <1>2, <1>3

LEMMA LeaseFits ==
  ASSUME StoreInv, NEW lost \in BOOLEAN, Fault(lost), Writing, NEW run \in Runs,
         \/ LET ok == Granted(Doc(<<"lock">>, lost), run)
            IN  /\ reply' = [granted |-> ok]
                /\ table' = IF ok THEN [table EXCEPT ![<<"lock">>] = [owner |-> run, left |-> LeaseTime]] ELSE table
         \/ LET mine == Field(Doc(<<"lock">>, lost), "owner", NoDoc) = run
            IN  /\ reply' = [renewed |-> mine]
                /\ table' = IF mine THEN [table EXCEPT ![<<"lock">>] = [owner |-> run, left |-> LeaseTime]] ELSE table
         \/ LET mine == Field(Doc(<<"lock">>, lost), "owner", NoDoc) = run
            IN  /\ reply' = [released |-> TRUE]
                /\ table' = IF mine THEN [table EXCEPT ![<<"lock">>] = NoDoc] ELSE table
  PROVE  Fits
<1>1. stamp \in Nat /\ TableOK(table)
  BY DEF StoreInv
<1>2. [owner |-> run, left |-> LeaseTime] \in LockDoc \cup {NoDoc}
  BY <1>1, TypedDocs
<1> DEFINE ok == Granted(Doc(<<"lock">>, lost), run)
           mine == Field(Doc(<<"lock">>, lost), "owner", NoDoc) = run
<1>3. ok \in BOOLEAN /\ mine \in BOOLEAN
  BY DEF Granted
<1>4. table[<<"lock">>] \in LockDoc \cup {NoDoc}
  BY <1>1, IdsAre, DocsAre DEF TableOK
<1>5. CASE /\ reply' = [granted |-> ok]
           /\ table' = IF ok THEN [table EXCEPT ![<<"lock">>] = [owner |-> run, left |-> LeaseTime]] ELSE table
  <2> HIDE DEF ok
  <2>1. StoreInv' /\ LockMoves /\ table'[<<"lock">>] = IF ok THEN [owner |-> run, left |-> LeaseTime] ELSE table[<<"lock">>]
    BY <1>2, <1>3, <1>5, LockKeeps
  <2>2. Contract!Lease
    BY <1>4, <1>5, <2>1, LeaseIsAskedFor DEF ok
  <2> QED
    BY <2>1, <2>2, FitsBy DEF Writing
<1>6. CASE /\ reply' = [renewed |-> mine]
           /\ table' = IF mine THEN [table EXCEPT ![<<"lock">>] = [owner |-> run, left |-> LeaseTime]] ELSE table
  <2> HIDE DEF mine
  <2>1. StoreInv' /\ LockMoves /\ table'[<<"lock">>] = IF mine THEN [owner |-> run, left |-> LeaseTime] ELSE table[<<"lock">>]
    BY <1>2, <1>3, <1>6, LockKeeps
  <2>2. Contract!Lease
    BY <1>6, <2>1, LeaseIsRenewed DEF mine
  <2> QED
    BY <2>1, <2>2, FitsBy DEF Writing
<1>7. CASE /\ reply' = [released |-> TRUE]
           /\ table' = IF mine THEN [table EXCEPT ![<<"lock">>] = NoDoc] ELSE table
  <2> HIDE DEF mine
  <2>1. StoreInv' /\ LockMoves /\ table'[<<"lock">>] = IF mine THEN NoDoc ELSE table[<<"lock">>]
    <3>1. NoDoc \in LockDoc \cup {NoDoc}
      OBVIOUS
    <3> QED
      BY <1>3, <1>7, <3>1, LockKeeps
  <2>2. Contract!Lease
    BY <1>7, <2>1, LeaseIsReleased DEF mine
  <2> QED
    BY <2>1, <2>2, FitsBy DEF Writing
<1> QED
  BY <1>5, <1>6, <1>7

LEMMA MarkerIsLive ==
  ASSUME TableOK(table), NEW e \in StoreEvents
  PROVE  e \in LiveMarkers <=> table[<<"processed", e>>] # NoDoc /\ <<"processed", e>> \notin Expired(table)
<1>1. <<"processed", e>> \in Expired(table) <=> table[<<"processed", e>>] # NoDoc /\ table[<<"processed", e>>].left = 0
  <2>1. <<"processed", e>> \in Ids /\ <<"processed", e>>[1] = "processed"
    BY IdsAre
  <2> QED
    BY <2>1 DEF Expired
<1> QED
  BY <1>1, MarkersAre

\* A marker that is looked for may be removed when it is over.
LEMMA MarkerFits ==
  ASSUME StoreInv, NEW lost \in BOOLEAN, Fault(lost), NEW e \in StoreEvents,
         \/ Reading /\ reply' = [processed |-> ~lost /\ e \in LiveMarkers]
         \/ /\ ~lost /\ reply' = [processed |-> e \in LiveMarkers] /\ UNCHANGED <<storeKind, disk, stamp>>
            /\ table' = Without(table, Expired(table) \cap {<<"processed", e>>})
         \/ /\ ~lost /\ Writing /\ reply' = [marked |-> e]
            /\ table' = [table EXCEPT ![<<"processed", e>>] = [left |-> MarkerTime]]
  PROVE  Fits
<1>1. stamp \in Nat /\ TableOK(table) /\ table = [i \in Ids |-> table[i]]
  BY DEF StoreInv, TableOK
<1> DEFINE id == <<"processed", e>>
<1>2. id \in Ids /\ id[1] = "processed" /\ DocsOf(id) = MarkerDoc
  BY IdsAre, DocsAre
<1>3. CASE Reading /\ reply' = [processed |-> ~lost /\ e \in LiveMarkers]
  <2>1. StoreInv' /\ UNCHANGED <<storeKind, table>>
    BY <1>3, RestKeeps DEF Reading
  <2>2. MarkersMove /\ UNCHANGED LiveMarkers
    BY <2>1, Rest DEF MarkersMove, Other
  <2>3. Contract!Marker
    BY <1>3, <2>2, MarkerIsLookedUp
  <2> QED
    BY <2>1, <2>3, FitsBy
<1>4. CASE /\ ~lost /\ reply' = [processed |-> e \in LiveMarkers] /\ UNCHANGED <<storeKind, disk, stamp>>
           /\ table' = Without(table, Expired(table) \cap {id})
  <2> HIDE DEF id
  <2>1. TableOK(table')
    BY <1>1, <1>4, WithoutIsOK
  <2>2. \A i \in Ids : \/ table'[i] = table[i]
                       \/ i = id /\ table'[i] = NoDoc /\ table[i] # NoDoc /\ table[i].left = 0
    BY <1>4 DEF Without, Expired
  <2>3. MarkersMove
    BY <2>2 DEF MarkersMove, Other, id
  <2>4. UNCHANGED LiveMarkers
    <3>1. \A x \in StoreEvents : <<"processed", x>> \in Ids
      BY IdsAre
    <3> QED
      BY <1>1, <2>2, <3>1, MarkersGo
  <2>5. storeKind = "file" => FileHolds'
    <3> SUFFICES ASSUME FileHolds PROVE FileHolds'
      BY DEF StoreInv
    <3>1. CASE disk = Torn /\ table = Empty
      <4>1. \A i \in Ids : table'[i] = NoDoc
        BY <2>2, <3>1 DEF Empty
      <4>2. table' = Empty
        BY <2>1, <4>1 DEF TableOK, Empty
      <4> QED
        BY <1>4, <3>1, <4>2 DEF FileHolds, Torn
    <3>2. CASE disk # Torn /\ TableOK(disk) /\
               \A i \in Ids : \/ disk[i] = table[i]
                              \/ i[1] = "processed" /\ table[i] = NoDoc /\ disk[i] # NoDoc /\ disk[i].left = 0
      <4>1. disk' # Torn' /\ TableOK(disk')
        BY <1>4, <3>2 DEF Torn
      <4>2. \A i \in Ids : \/ disk'[i] = table'[i]
                           \/ i[1] = "processed" /\ table'[i] = NoDoc /\ disk'[i] # NoDoc /\ disk'[i].left = 0
        BY <1>2, <1>4, <2>2, <3>2
      <4> QED
        BY <4>1, <4>2 DEF FileHolds
    <3> QED
      BY <3>1, <3>2 DEF FileHolds
  <2>6. \A i \in Ids : i[1] \in {"failure", "page_assessment"} => table'[i] = table[i]
    BY <1>2, <2>2
  <2>7. StoreInv'
    <3>1. IF storeKind = "file" THEN FileHolds' ELSE disk' = Empty
      BY <1>4, <2>5 DEF StoreInv
    <3> QED
      BY <1>4, <2>1, <2>6, <3>1, OthersKeep
  <2>8. Contract!Marker
    BY <1>4, <2>3, <2>4, MarkerIsLookedUp
  <2> QED
    BY <1>4, <2>7, <2>8, FitsBy
<1>5. CASE /\ ~lost /\ Writing /\ reply' = [marked |-> e]
           /\ table' = [table EXCEPT ![id] = [left |-> MarkerTime]]
  <2>1. [left |-> MarkerTime] \in DocsOf(id)
    BY <1>1, <1>2, TypedDocs
  <2>2. StoreInv'
    BY <1>2, <1>5, <2>1, PutKeeps DEF Writing
  <2>3. Contract!Marker
    BY <1>1, <1>5, MarkerIsSet
  <2> QED
    BY <1>5, <2>2, <2>3, FitsBy DEF Writing
<1> QED
  BY <1>3, <1>4, <1>5

LEMMA FailureFits ==
  ASSUME StoreInv, NEW lost \in BOOLEAN, Fault(lost), Writing, NEW e \in StoreEvents,
         NEW d \in FailureDoc, d.at = stamp + 1, table' = [table EXCEPT ![<<"failure", e>>] = d],
         \/ /\ reply' = [attempts |-> Counted(Doc(<<"failure", e>>, lost))]
            /\ d.count = Counted(Doc(<<"failure", e>>, lost)) /\ d.status = "failed_retryable"
         \/ /\ reply' = [terminal |-> e]
            /\ d.count = Field(Doc(<<"failure", e>>, lost), "count", 0) /\ d.status = "failed_terminal"
  PROVE  Fits
<1>1. table = [i \in Ids |-> table[i]]
  BY DEF StoreInv, TableOK
<1>2. StoreInv'
  <2>1. <<"failure", e>> \in Ids /\ d \in DocsOf(<<"failure", e>>)
    BY IdsAre, DocsAre
  <2>2. d # NoDoc
    BY <2>1, NoDocIsNone
  <2> QED
    BY <2>1, <2>2, PutKeeps DEF Writing
<1>3. Contract!Failure
  BY <1>1, FailureIsCounted, FailureIsFinal
<1> QED
  BY <1>2, <1>3, FitsBy DEF Writing

LEMMA SnapshotFits ==
  ASSUME StoreInv, NEW lost \in BOOLEAN, Fault(lost), NEW p \in StorePages,
         \/ Reading /\ reply' = [version |-> Field(Doc(<<"assessment", p>>, lost), "version", 0)]
         \/ /\ ~lost /\ Writing /\ reply' = [saved |-> stamp + 1]
            /\ table' = [table EXCEPT ![<<"assessment", p>>] = [version |-> stamp + 1]]
  PROVE  Fits
<1>1. table = [i \in Ids |-> table[i]] /\ stamp \in Nat
  BY DEF StoreInv, TableOK
<1>2. CASE Reading /\ reply' = [version |-> Field(Doc(<<"assessment", p>>, lost), "version", 0)]
  <2>1. StoreInv' /\ UNCHANGED <<storeKind, table>>
    BY <1>2, RestKeeps DEF Reading
  <2>2. Contract!Snapshot
    BY <1>2, <2>1, SnapshotIsRead
  <2> QED
    BY <2>1, <2>2, FitsBy
<1>3. CASE /\ ~lost /\ Writing /\ reply' = [saved |-> stamp + 1]
           /\ table' = [table EXCEPT ![<<"assessment", p>>] = [version |-> stamp + 1]]
  <2> DEFINE d == [version |-> stamp + 1]
  <2>1. /\ <<"assessment", p>> \in Ids /\ d \in DocsOf(<<"assessment", p>>) /\ d \in SnapshotDoc
        /\ <<"assessment", p>>[1] \notin {"failure", "page_assessment"} /\ d.version = stamp + 1
    BY <1>1, IdsAre, DocsAre, TypedDocs
  <2> HIDE DEF d
  <2>2. StoreInv'
    BY <1>3, <2>1, PutKeeps DEF Writing, d
  <2>3. Contract!Snapshot
    BY <1>1, <1>3, <2>1, SnapshotIsSaved DEF d
  <2> QED
    BY <1>3, <2>2, <2>3, FitsBy DEF Writing
<1> QED
  BY <1>2, <1>3

LEMMA RowFits ==
  ASSUME StoreInv, Fault(FALSE), Writing, NEW p \in StorePages, NEW d \in AssessmentDoc, d.at = stamp + 1,
         table' = [table EXCEPT ![<<"page_assessment", p>>] = d], reply' = [row |-> d.status]
  PROVE  Fits
<1>1. table = [i \in Ids |-> table[i]]
  BY DEF StoreInv, TableOK
<1>2. StoreInv'
  <2>1. <<"page_assessment", p>> \in Ids /\ d \in DocsOf(<<"page_assessment", p>>)
    BY IdsAre, DocsAre
  <2>2. d # NoDoc
    BY <2>1, NoDocIsNone
  <2> QED
    BY <2>1, <2>2, PutKeeps DEF Writing
<1>3. Contract!Row
  BY <1>1, RowIsWritten
<1> QED
  BY <1>2, <1>3, FitsBy DEF Writing

LEMMA ListFits ==
  ASSUME StoreInv, Reading, NEW since \in Nat,
         \/ /\ UNCHANGED readFaults
            /\ \E fetched \in SUBSET Stored("failure") :
                 /\ AllNeeded("failure") => fetched = Stored("failure")
                 /\ reply' = [events |-> Newest("failure", {x \in fetched : WrittenAt("failure", x) >= since}), since |-> since]
         \/ /\ UNCHANGED readFaults
            /\ \E fetched \in SUBSET Stored("page_assessment") :
                 /\ AllNeeded("page_assessment") => fetched = Stored("page_assessment")
                 /\ reply' = [pages |-> Newest("page_assessment", {x \in fetched : WrittenAt("page_assessment", x) >= since}),
                              since |-> since]
         \/ /\ readFaults < MaxReadFaults /\ readFaults' = readFaults + 1
            /\ reply' = [pages |-> <<>>, since |-> since] \/ reply' = [events |-> <<>>, since |-> since]
  PROVE  Fits
<1>1. StoreInv' /\ UNCHANGED <<storeKind, table>>
  BY RestKeeps DEF Reading
<1>2. stamp \in Nat /\ Stamped("failure") /\ Stamped("page_assessment")
  BY DEF StoreInv
<1>3. Contract!List
  BY <1>1, <1>2, FailuresAreListed, AssessmentsAreListed, ListFails
<1> QED
  BY <1>1, <1>3, FitsBy

LEMMA EmptyIsOK ==
  TableOK(Empty) /\ Older(Empty) = Empty
<1>1. TableOK(Empty)
  BY DEF TableOK, Empty
<1>2. \A id \in Ids : Older(Empty)[id] = NoDoc
  BY <1>1, OlderIs DEF Empty
<1>3. Older(Empty) = [id \in Ids |-> Older(Empty)[id]]
  BY DEF Older
<1> QED
  BY <1>1, <1>2, <1>3 DEF Empty

\* What is lost with a process.
LEMMA EmptyFits ==
  ASSUME StoreInv, UNCHANGED <<storeKind, reply, stamp, readFaults>>, table' = Empty, ~Lasts',
         IF storeKind = "file" THEN disk' = Torn ELSE disk' = Empty
  PROVE  Fits
<1>1. ASSUME NEW type \in {"failure", "page_assessment"} PROVE Stamped(type)'
  <2>1. \A x \in Things(type) : table'[<<type, x>>] = NoDoc
    BY IdsOfRows DEF Empty
  <2>2. Stored(type)' = {}
    BY <2>1 DEF Stored, Things
  <2> QED
    BY <2>2 DEF Stamped
<1>2. StoreInv'
  BY <1>1, EmptyIsOK DEF StoreInv, FileHolds, Empty, Torn
<1> QED
  BY <1>2, ForgottenIs, FitsBy

LEMMA TimeFits ==
  ASSUME StoreInv, UNCHANGED <<storeKind, reply, stamp, readFaults>>,
         \/ table' = Older(table) /\ disk' = IF disk = Torn THEN disk ELSE Older(disk)
         \/ /\ storeKind # "file" /\ UNCHANGED disk
            /\ table' = Older(table) \/ table' = Without(Older(table), Expired(Older(table)))
  PROVE  Fits
<1>1. TableOK(table)
  BY DEF StoreInv
<1>2. /\ Contract!Time /\ TableOK(table')
      /\ \A id \in Ids : id[1] \in {"failure", "page_assessment"} => table'[id] = table[id]
  BY <1>1, TimePasses
<1>3. CASE storeKind # "file"
  <2>1. disk' = Empty
    BY <1>3, EmptyIsOK DEF StoreInv
  <2> QED
    BY <1>2, <1>3, <2>1, OthersKeep, FitsBy
<1>4. CASE storeKind = "file"
  <2>1. table' = Older(table) /\ disk' = IF disk = Torn THEN disk ELSE Older(disk)
    BY <1>4
  <2>2. FileHolds'
    <3>1. CASE disk = Torn /\ table = Empty
      BY <2>1, <3>1, EmptyIsOK DEF FileHolds, Empty, Torn
    <3>2. CASE /\ disk # Torn /\ TableOK(disk)
               /\ \A id \in Ids : \/ disk[id] = table[id]
                                  \/ id[1] = "processed" /\ table[id] = NoDoc /\ disk[id] # NoDoc /\ disk[id].left = 0
      <4>1. TableOK(disk') /\ disk' # Torn
        BY <2>1, <3>2, OlderIs, TableIsNotTorn
      <4>2. ASSUME NEW id \in Ids
            PROVE  \/ disk'[id] = table'[id]
                   \/ id[1] = "processed" /\ table'[id] = NoDoc /\ disk'[id] # NoDoc /\ disk'[id].left = 0
        <5>1. CASE disk[id] = table[id]
          <6>1. Older(disk)[id] = Older(table)[id]
            BY <5>1 DEF Older
          <6> QED
            BY <2>1, <3>2, <6>1
        <5>2. CASE id[1] = "processed" /\ table[id] = NoDoc /\ disk[id] # NoDoc /\ disk[id].left = 0
          <6>1. Older(table)[id] = NoDoc
            BY <1>1, <5>2, OlderIs
          <6>2. Older(disk)[id] # NoDoc /\ Older(disk)[id].left = 0
            <7>1. TableOK(disk) /\ id[1] \in {"lock", "processed"} /\ disk[id] # NoDoc /\ disk[id].left = 0
              BY <3>2, <5>2
            <7> QED
              BY <7>1, OlderIs
          <6> QED
            BY <2>1, <3>2, <5>2, <6>1, <6>2
        <5> QED
          BY <3>2, <5>1, <5>2
      <4>3. Torn' = Torn
        BY DEF Torn
      <4> QED
        BY <4>1, <4>2, <4>3 DEF FileHolds
    <3> QED
      BY <1>4, <3>1, <3>2 DEF StoreInv, FileHolds
  <2> QED
    BY <1>2, <1>4, <2>2, OthersKeep, FitsBy
<1> QED
  BY <1>3, <1>4

\* The next process reads the file that was written last.
LEMMA LoadFits ==
  ASSUME StoreInv, storeKind = "file", disk # Torn, UNCHANGED <<storeKind, disk, reply, stamp, readFaults>>, table' = disk
  PROVE  Fits
<1>1. /\ TableOK(disk) /\ TableOK(table)
      /\ \A id \in Ids : \/ disk[id] = table[id]
                         \/ id[1] = "processed" /\ table[id] = NoDoc /\ disk[id] # NoDoc /\ disk[id].left = 0
  BY DEF StoreInv, FileHolds
<1>2. \A id \in Ids : id[1] # "processed" => table'[id] = table[id]
  BY <1>1
<1>3. StoredLease' = StoredLease
  BY <1>2, IdsAre DEF StoredLease
<1>4. \A e \in StoreEvents : e \in LiveMarkers' => e \in LiveMarkers
  <2> SUFFICES ASSUME NEW e \in StoreEvents, Field(table'[<<"processed", e>>], "left", 0) > 0
               PROVE  e \in LiveMarkers
    BY DEF LiveMarkers
  <2> DEFINE id == <<"processed", e>>
  <2>1. id \in Ids
    BY IdsAre
  <2>2. disk[id] # NoDoc /\ disk[id].left > 0
    BY DEF Field
  <2>3. table[id] = disk[id]
    BY <1>1, <2>1, <2>2
  <2> QED
    BY <1>1, <2>2, <2>3, MarkersAre
<1>5. Contract!Time
  BY <1>2, <1>3, <1>4, TimeIs DEF LiveMarkers
<1>6. FileHolds'
  BY <1>1, TableIsNotTorn, FlushKeeps
<1> QED
  BY <1>1, <1>2, <1>5, <1>6, OthersKeep, FitsBy

\* A table may remove a lease or a marker that is over.
LEMMA RemovalFits ==
  ASSUME StoreInv, storeKind # "file", UNCHANGED <<storeKind, disk, reply, stamp, readFaults>>, NEW id \in Ids,
         id[1] \in {"lock", "processed"}, table[id] # NoDoc, table[id].left = 0, table' = Without(table, {id})
  PROVE  Fits
<1>1. TableOK(table) /\ TableOK(table')
  BY WithoutIsOK DEF StoreInv
<1>2. table'[id] = NoDoc /\ \A i \in Ids \ {id} : table'[i] = table[i]
  BY DEF Without
<1>3. UNCHANGED LiveMarkers
  <2>1. \A e \in StoreEvents : <<"processed", e>> \in Ids
    BY IdsAre
  <2> QED
    BY <1>1, <1>2, <2>1, MarkersGo
<1>4. \/ StoredLease' = StoredLease
      \/ StoredLease.left = 0 /\ StoredLease' = [owner |-> NoDoc, left |-> 0]
  <2>1. CASE id = <<"lock">>
    <3>1. StoredLease.left = 0
      BY <2>1 DEF StoredLease, Field
    <3>2. StoredLease' = [owner |-> NoDoc, left |-> 0]
      BY <1>2, <2>1 DEF StoredLease, Field
    <3> QED
      BY <3>1, <3>2
  <2>2. CASE id # <<"lock">>
    BY <1>2, <2>2, IdsAre DEF StoredLease
  <2> QED
    BY <2>1, <2>2
<1>5. \A i \in Ids : i[1] \notin {"lock", "processed"} => table'[i] = table[i]
  BY <1>2
<1>6. Contract!Time
  BY <1>3, <1>4, <1>5, TimeIs
<1>7. disk' = Empty
  BY DEF StoreInv
<1> QED
  BY <1>1, <1>5, <1>6, <1>7, OthersKeep, FitsBy

\* The module's own copy of what the stores have in common is the same.
LEMMA MemorySame ==
  /\ Memory!Ids = Ids /\ Memory!Empty = Empty /\ Memory!Torn = Torn
  /\ \A d, n, o : Memory!Field(d, n, o) = Field(d, n, o)
  /\ \A t, s : Memory!Without(t, s) = Without(t, s)
  /\ \A t : Memory!Older(t) = Older(t) /\ Memory!Expired(t) = Expired(t)
  /\ \A d, r : Memory!Granted(d, r) = Granted(d, r)
  /\ \A d : Memory!Counted(d) = Counted(d)
  /\ \A type : Memory!Stored(type) = Stored(type)
  /\ \A type, x : Memory!WrittenAt(type, x) = WrittenAt(type, x)
  /\ \A type, s : Memory!Newest(type, s) = Newest(type, s)
<1>1. Memory!Ids = Ids /\ Memory!Empty = Empty /\ Memory!Torn = Torn
  BY DEF Memory!Ids, Ids, Memory!Empty, Empty, Memory!Torn, Torn
<1>2. \A d, n, o : Memory!Field(d, n, o) = Field(d, n, o)
  BY DEF Memory!Field, Field
<1>3. \A t, s : Memory!Without(t, s) = Without(t, s)
  BY DEF Memory!Without, Without, Memory!Ids, Ids
<1>4. \A t : Memory!Older(t) = Older(t) /\ Memory!Expired(t) = Expired(t)
  BY DEF Memory!Older, Older, Memory!Expired, Expired, Memory!Ids, Ids
<1>5. \A d, r : Memory!Granted(d, r) = Granted(d, r)
  BY DEF Memory!Granted, Granted
<1>6. \A d : Memory!Counted(d) = Counted(d)
  BY DEF Memory!Counted, Counted, Memory!Field, Field
<1>7. \A type : Memory!Stored(type) = Stored(type)
  BY DEF Memory!Stored, Stored
<1>8. \A type, x : Memory!WrittenAt(type, x) = WrittenAt(type, x)
  BY DEF Memory!WrittenAt, WrittenAt
<1>9. \A type, s : Memory!Newest(type, s) = Newest(type, s)
  BY DEF Memory!Newest, Newest, Memory!Newer, Newer, Memory!WrittenAt, WrittenAt, Memory!Cardinality, Cardinality
<1> QED
  BY <1>1, <1>2, <1>3, <1>4, <1>5, <1>6, <1>7, <1>8, <1>9

LEMMA MemoryWrites ==
  ASSUME StoreInv, Memory!Writes, Memory!Flush
  PROVE  Writing /\ Fault(FALSE)
BY DEF Memory!Writes, Memory!Flush, Writing, Flushes, Fault

LEMMA MemoryReads ==
  ASSUME Memory!Reads, UNCHANGED disk
  PROVE  Reading /\ Fault(FALSE)
BY DEF Memory!Reads, Reading, Fault

LEMMA MemoryFits ==
  ASSUME StoreInv, storeKind \in {"memory", "file"}, NEW type, Memory!Methods(type)
  PROVE  Fits
<1> USE MemorySame
<1>1. stamp \in Nat /\ TableOK(table)
  BY DEF StoreInv
<1>2. CASE Memory!LoadState \/ Memory!GetLatestPollRunSummary
  <2>1. Reading /\ Fault(FALSE)
    BY <1>2, MemoryReads DEF Memory!LoadState, Memory!GetLatestPollRunSummary
  <2>2. \/ reply' = [watermark |-> Field(Doc(<<"state">>, FALSE), "watermark", 0)]
        \/ reply' = [summary |-> Field(Doc(<<"poll_run_summary">>, FALSE), "of", 0)]
    BY <1>2 DEF Memory!LoadState, Memory!GetLatestPollRunSummary, Memory!Return, Doc
  <2> QED
    BY <2>1, <2>2, StateFits
<1>3. CASE Memory!CommitState
  <2>1. Writing /\ Fault(FALSE)
    BY <1>3, MemoryWrites DEF Memory!CommitState
  <2>2. /\ reply' = [watermark |-> stamp + 1]
        /\ table' = [table EXCEPT ![<<"state">>] = [watermark |-> stamp + 1]]
    BY <1>3 DEF Memory!CommitState, Memory!Return, Memory!PutDocument
  <2>3. [watermark |-> stamp + 1] \in StateDoc /\ [watermark |-> stamp + 1].watermark = stamp + 1
    BY <1>1, TypedDocs
  <2> QED
    BY <2>1, <2>2, <2>3, StateFits
<1>4. CASE Memory!UpsertPollRunSummary
  <2>1. Writing /\ Fault(FALSE)
    BY <1>4, MemoryWrites DEF Memory!UpsertPollRunSummary
  <2>2. /\ reply' = [summary |-> stamp + 1]
        /\ table' = [table EXCEPT ![<<"poll_run_summary">>] = [of |-> stamp + 1]]
    BY <1>4 DEF Memory!UpsertPollRunSummary, Memory!Return, Memory!PutDocument
  <2> QED
    BY <2>1, <2>2, StateFits
<1>5. ASSUME NEW run \in Runs, Memory!TryAcquireLease(run) \/ Memory!RenewLease(run) \/ Memory!ReleaseLease(run)
      PROVE  Fits
  <2>1. Writing /\ Fault(FALSE)
    BY <1>5, MemoryWrites DEF Memory!TryAcquireLease, Memory!RenewLease, Memory!ReleaseLease
  <2>2. CASE Memory!TryAcquireLease(run)
    <3>1. LET ok == Granted(Doc(<<"lock">>, FALSE), run)
          IN  /\ reply' = [granted |-> ok]
              /\ table' = IF ok THEN [table EXCEPT ![<<"lock">>] = [owner |-> run, left |-> LeaseTime]] ELSE table
      BY <2>2 DEF Memory!TryAcquireLease, Memory!Return, Memory!PutDocument, Doc
    <3> QED
      BY <2>1, <3>1, LeaseFits
  <2>3. CASE Memory!RenewLease(run)
    <3>1. LET mine == Field(Doc(<<"lock">>, FALSE), "owner", NoDoc) = run
          IN  /\ reply' = [renewed |-> mine]
              /\ table' = IF mine THEN [table EXCEPT ![<<"lock">>] = [owner |-> run, left |-> LeaseTime]] ELSE table
      BY <2>3 DEF Memory!RenewLease, Memory!Return, Memory!PutDocument, Doc
    <3> QED
      BY <2>1, <3>1, LeaseFits
  <2>4. CASE Memory!ReleaseLease(run)
    <3>1. LET mine == Field(Doc(<<"lock">>, FALSE), "owner", NoDoc) = run
          IN  /\ reply' = [released |-> TRUE]
              /\ table' = IF mine THEN [table EXCEPT ![<<"lock">>] = NoDoc] ELSE table
      BY <2>4 DEF Memory!ReleaseLease, Memory!Return, Memory!PutDocument, Doc
    <3> QED
      BY <2>1, <3>1, LeaseFits
  <2> QED
    BY <1>5, <2>2, <2>3, <2>4
<1>6. ASSUME NEW e \in StoreEvents, Memory!IsEventProcessed(e)
      PROVE  Fits
  <2>1. table' = Without(table, Expired(table) \cap {<<"processed", e>>}) /\ UNCHANGED <<storeKind, disk, stamp, readFaults>>
    BY <1>6 DEF Memory!IsEventProcessed
  <2>2. table'[<<"processed", e>>] # NoDoc <=> e \in LiveMarkers
    BY <1>1, <2>1, MarkerIsLive, IdsAre DEF Without
  <2>3. reply' = [processed |-> e \in LiveMarkers]
    BY <1>6, <2>2 DEF Memory!IsEventProcessed, Memory!Return, LiveMarkers
  <2>4. Fault(FALSE)
    BY <2>1 DEF Fault
  <2> QED
    BY <2>1, <2>3, <2>4, MarkerFits
<1>7. ASSUME NEW e \in StoreEvents, Memory!MarkProcessedEvent(e)
      PROVE  Fits
  <2>1. Writing /\ Fault(FALSE)
    BY <1>7, MemoryWrites DEF Memory!MarkProcessedEvent
  <2>2. reply' = [marked |-> e] /\ table' = [table EXCEPT ![<<"processed", e>>] = [left |-> MarkerTime]]
    BY <1>7 DEF Memory!MarkProcessedEvent, Memory!Return, Memory!PutDocument
  <2> QED
    BY <2>1, <2>2, MarkerFits
<1>8. ASSUME NEW e \in StoreEvents, Memory!IncrementFailureCount(e)
      PROVE  Fits
  <2> DEFINE n == Counted(Doc(<<"failure", e>>, FALSE))
             d == [count |-> n, status |-> "failed_retryable", at |-> stamp + 1]
  <2>1. Writing /\ Fault(FALSE)
    BY <1>8, MemoryWrites DEF Memory!IncrementFailureCount
  <2>2. reply' = [attempts |-> n] /\ table' = [table EXCEPT ![<<"failure", e>>] = d]
    BY <1>8 DEF Memory!IncrementFailureCount, Memory!Return, Memory!PutDocument, Doc
  <2>3. n \in Nat
    BY <1>1, CountsAre
  <2>4. d \in FailureDoc /\ d.at = stamp + 1 /\ d.count = n /\ d.status = "failed_retryable"
    BY <1>1, <2>3, TypedDocs
  <2> HIDE DEF d
  <2> QED
    BY <2>1, <2>2, <2>4, FailureFits
<1>9. ASSUME NEW e \in StoreEvents, Memory!MarkTerminalFailure(e)
      PROVE  Fits
  <2> DEFINE n == Field(Doc(<<"failure", e>>, FALSE), "count", 0)
             d == [count |-> n, status |-> "failed_terminal", at |-> stamp + 1]
  <2>1. Writing /\ Fault(FALSE)
    BY <1>9, MemoryWrites DEF Memory!MarkTerminalFailure
  <2>2. reply' = [terminal |-> e] /\ table' = [table EXCEPT ![<<"failure", e>>] = d]
    BY <1>9 DEF Memory!MarkTerminalFailure, Memory!Return, Memory!PutDocument, Doc
  <2>3. n \in Nat
    BY <1>1, CountsAre
  <2>4. d \in FailureDoc /\ d.at = stamp + 1 /\ d.count = n /\ d.status = "failed_terminal"
    BY <1>1, <2>3, TypedDocs
  <2> HIDE DEF d
  <2> QED
    BY <2>1, <2>2, <2>4, FailureFits
<1>10. ASSUME NEW p \in StorePages, Memory!GetAssessmentSnapshot(p)
       PROVE  Fits
  <2>1. Reading /\ Fault(FALSE)
    BY <1>10, MemoryReads DEF Memory!GetAssessmentSnapshot
  <2>2. reply' = [version |-> Field(Doc(<<"assessment", p>>, FALSE), "version", 0)]
    BY <1>10 DEF Memory!GetAssessmentSnapshot, Memory!Return, Doc
  <2> QED
    BY <2>1, <2>2, SnapshotFits
<1>11. ASSUME NEW p \in StorePages, Memory!UpsertAssessmentSnapshot(p)
       PROVE  Fits
  <2>1. Writing /\ Fault(FALSE)
    BY <1>11, MemoryWrites DEF Memory!UpsertAssessmentSnapshot
  <2>2. reply' = [saved |-> stamp + 1] /\ table' = [table EXCEPT ![<<"assessment", p>>] = [version |-> stamp + 1]]
    BY <1>11 DEF Memory!UpsertAssessmentSnapshot, Memory!Return, Memory!PutDocument
  <2> QED
    BY <2>1, <2>2, SnapshotFits
<1>12. ASSUME NEW p \in StorePages, NEW status \in {"assessed", "no_change"}, Memory!UpsertPageAssessment(p, status)
       PROVE  Fits
  <2> DEFINE d == [status |-> status, at |-> stamp + 1]
  <2>1. Writing /\ Fault(FALSE)
    BY <1>12, MemoryWrites DEF Memory!UpsertPageAssessment
  <2>2. reply' = [row |-> status] /\ table' = [table EXCEPT ![<<"page_assessment", p>>] = d]
    BY <1>12 DEF Memory!UpsertPageAssessment, Memory!Return, Memory!PutDocument
  <2>3. d \in AssessmentDoc /\ d.at = stamp + 1 /\ d.status = status
    BY <1>1, TypedDocs
  <2> HIDE DEF d
  <2> QED
    BY <2>1, <2>2, <2>3, RowFits
<1>13. ASSUME NEW since \in Nat, Memory!ListRecentFailures(since)
       PROVE  Fits
  <2>1. Reading /\ UNCHANGED readFaults
    BY <1>13 DEF Memory!ListRecentFailures, Memory!Reads, Reading
  <2>2. Memory!Since("failure", since) = {x \in Stored("failure") : WrittenAt("failure", x) >= since}
    BY DEF Memory!Since, Memory!Stored, Stored, Memory!WrittenAt, WrittenAt
  <2>3. reply' = [events |-> Newest("failure", {x \in Stored("failure") : WrittenAt("failure", x) >= since}), since |-> since]
    BY <1>13, <2>2 DEF Memory!ListRecentFailures, Memory!Return
  <2> QED
    BY <2>1, <2>3, ListFits
<1>14. ASSUME NEW since \in Nat, Memory!ListRecentPageAssessments(since)
       PROVE  Fits
  <2>1. Reading /\ UNCHANGED readFaults
    BY <1>14 DEF Memory!ListRecentPageAssessments, Memory!Reads, Reading
  <2>2. Memory!Since("page_assessment", since) = {x \in Stored("page_assessment") : WrittenAt("page_assessment", x) >= since}
    BY DEF Memory!Since, Memory!Stored, Stored, Memory!WrittenAt, WrittenAt
  <2>3. reply' = [pages |-> Newest("page_assessment", {x \in Stored("page_assessment") : WrittenAt("page_assessment", x) >= since}),
                  since |-> since]
    BY <1>14, <2>2 DEF Memory!ListRecentPageAssessments, Memory!Return
  <2> QED
    BY <2>1, <2>3, ListFits
<1>15. 1 .. MaxStamp \subseteq Nat
  OBVIOUS
<1> QED
  BY <1>2, <1>3, <1>4, <1>5, <1>6, <1>7, <1>8, <1>9, <1>10, <1>11, <1>12, <1>13, <1>14, <1>15 DEF Memory!Methods

LEMMA MemoryChangesFit ==
  ASSUME StoreInv, storeKind \in {"memory", "file"}, Memory!Changes
  PROVE  Fits
<1>1. CASE Memory!TimePasses
  BY <1>1, MemorySame, TimeFits DEF Memory!TimePasses
<1>2. CASE Memory!Restart
  <2>1. /\ disk' \in (IF storeKind = "file" THEN {disk, Torn} ELSE {disk})
        /\ table' = IF disk' = Torn THEN Empty ELSE disk'
        /\ UNCHANGED <<storeKind, reply, stamp, readFaults>>
    BY <1>2, MemorySame DEF Memory!Restart, Memory!Load
  <2>2. CASE storeKind = "memory"
    <3>1. disk' = Empty /\ table' = Empty
      BY <2>1, <2>2 DEF StoreInv
    <3>2. ~Lasts'
      BY <2>1, <2>2 DEF Lasts
    <3> QED
      BY <2>1, <2>2, <3>1, <3>2, EmptyFits
  <2>3. CASE storeKind = "file" /\ disk' = Torn
    <3>1. table' = Empty
      BY <2>1, <2>3
    <3>2. ~Lasts'
      BY <2>1, <2>3 DEF Lasts, Torn
    <3> QED
      BY <2>1, <2>3, <3>1, <3>2, EmptyFits
  <2>4. CASE storeKind = "file" /\ disk' # Torn
    BY <2>1, <2>4, LoadFits
  <2> QED
    BY <2>2, <2>3, <2>4
<1> QED
  BY <1>1, <1>2 DEF Memory!Changes

(***************************************************************************)
(* SQLite, DynamoDB and Cosmos DB.                                         *)
(***************************************************************************)

LEMMA SqliteSame ==
  /\ Sqlite!Ids = Ids /\ Sqlite!Empty = Empty /\ Sqlite!Torn = Torn
  /\ \A d, n, o : Sqlite!Field(d, n, o) = Field(d, n, o)
  /\ \A t, s : Sqlite!Without(t, s) = Without(t, s)
  /\ \A t : Sqlite!Older(t) = Older(t) /\ Sqlite!Expired(t) = Expired(t)
  /\ \A d, r : Sqlite!Granted(d, r) = Granted(d, r)
  /\ \A d : Sqlite!Counted(d) = Counted(d)
  /\ \A type : Sqlite!Stored(type) = Stored(type)
  /\ \A type, x : Sqlite!WrittenAt(type, x) = WrittenAt(type, x)
  /\ \A type, s : Sqlite!Newest(type, s) = Newest(type, s)
<1>1. Sqlite!Ids = Ids /\ Sqlite!Empty = Empty /\ Sqlite!Torn = Torn
  BY DEF Sqlite!Ids, Ids, Sqlite!Empty, Empty, Sqlite!Torn, Torn
<1>2. \A d, n, o : Sqlite!Field(d, n, o) = Field(d, n, o)
  BY DEF Sqlite!Field, Field
<1>3. \A t, s : Sqlite!Without(t, s) = Without(t, s)
  BY DEF Sqlite!Without, Without, Sqlite!Ids, Ids
<1>4. \A t : Sqlite!Older(t) = Older(t) /\ Sqlite!Expired(t) = Expired(t)
  BY DEF Sqlite!Older, Older, Sqlite!Expired, Expired, Sqlite!Ids, Ids
<1>5. \A d, r : Sqlite!Granted(d, r) = Granted(d, r)
  BY DEF Sqlite!Granted, Granted
<1>6. \A d : Sqlite!Counted(d) = Counted(d)
  BY DEF Sqlite!Counted, Counted, Sqlite!Field, Field
<1>7. \A type : Sqlite!Stored(type) = Stored(type)
  BY DEF Sqlite!Stored, Stored
<1>8. \A type, x : Sqlite!WrittenAt(type, x) = WrittenAt(type, x)
  BY DEF Sqlite!WrittenAt, WrittenAt
<1>9. \A type, s : Sqlite!Newest(type, s) = Newest(type, s)
  BY DEF Sqlite!Newest, Newest, Sqlite!Newer, Newer, Sqlite!WrittenAt, WrittenAt, Sqlite!Cardinality, Cardinality
<1> QED
  BY <1>1, <1>2, <1>3, <1>4, <1>5, <1>6, <1>7, <1>8, <1>9

LEMMA DynamoSame ==
  /\ Dynamo!Ids = Ids /\ Dynamo!Empty = Empty /\ Dynamo!Torn = Torn
  /\ \A d, n, o : Dynamo!Field(d, n, o) = Field(d, n, o)
  /\ \A t, s : Dynamo!Without(t, s) = Without(t, s)
  /\ \A t : Dynamo!Older(t) = Older(t) /\ Dynamo!Expired(t) = Expired(t)
  /\ \A d, r : Dynamo!Granted(d, r) = Granted(d, r)
  /\ \A d : Dynamo!Counted(d) = Counted(d)
  /\ \A type : Dynamo!Stored(type) = Stored(type)
  /\ \A type, x : Dynamo!WrittenAt(type, x) = WrittenAt(type, x)
  /\ \A type, s : Dynamo!Newest(type, s) = Newest(type, s)
<1>1. Dynamo!Ids = Ids /\ Dynamo!Empty = Empty /\ Dynamo!Torn = Torn
  BY DEF Dynamo!Ids, Ids, Dynamo!Empty, Empty, Dynamo!Torn, Torn
<1>2. \A d, n, o : Dynamo!Field(d, n, o) = Field(d, n, o)
  BY DEF Dynamo!Field, Field
<1>3. \A t, s : Dynamo!Without(t, s) = Without(t, s)
  BY DEF Dynamo!Without, Without, Dynamo!Ids, Ids
<1>4. \A t : Dynamo!Older(t) = Older(t) /\ Dynamo!Expired(t) = Expired(t)
  BY DEF Dynamo!Older, Older, Dynamo!Expired, Expired, Dynamo!Ids, Ids
<1>5. \A d, r : Dynamo!Granted(d, r) = Granted(d, r)
  BY DEF Dynamo!Granted, Granted
<1>6. \A d : Dynamo!Counted(d) = Counted(d)
  BY DEF Dynamo!Counted, Counted, Dynamo!Field, Field
<1>7. \A type : Dynamo!Stored(type) = Stored(type)
  BY DEF Dynamo!Stored, Stored
<1>8. \A type, x : Dynamo!WrittenAt(type, x) = WrittenAt(type, x)
  BY DEF Dynamo!WrittenAt, WrittenAt
<1>9. \A type, s : Dynamo!Newest(type, s) = Newest(type, s)
  BY DEF Dynamo!Newest, Newest, Dynamo!Newer, Newer, Dynamo!WrittenAt, WrittenAt, Dynamo!Cardinality, Cardinality
<1> QED
  BY <1>1, <1>2, <1>3, <1>4, <1>5, <1>6, <1>7, <1>8, <1>9

LEMMA CosmosSame ==
  /\ Cosmos!Ids = Ids /\ Cosmos!Empty = Empty /\ Cosmos!Torn = Torn
  /\ \A d, n, o : Cosmos!Field(d, n, o) = Field(d, n, o)
  /\ \A t, s : Cosmos!Without(t, s) = Without(t, s)
  /\ \A t : Cosmos!Older(t) = Older(t) /\ Cosmos!Expired(t) = Expired(t)
  /\ \A d, r : Cosmos!Granted(d, r) = Granted(d, r)
  /\ \A d : Cosmos!Counted(d) = Counted(d)
  /\ \A type : Cosmos!Stored(type) = Stored(type)
  /\ \A type, x : Cosmos!WrittenAt(type, x) = WrittenAt(type, x)
  /\ \A type, s : Cosmos!Newest(type, s) = Newest(type, s)
<1>1. Cosmos!Ids = Ids /\ Cosmos!Empty = Empty /\ Cosmos!Torn = Torn
  BY DEF Cosmos!Ids, Ids, Cosmos!Empty, Empty, Cosmos!Torn, Torn
<1>2. \A d, n, o : Cosmos!Field(d, n, o) = Field(d, n, o)
  BY DEF Cosmos!Field, Field
<1>3. \A t, s : Cosmos!Without(t, s) = Without(t, s)
  BY DEF Cosmos!Without, Without, Cosmos!Ids, Ids
<1>4. \A t : Cosmos!Older(t) = Older(t) /\ Cosmos!Expired(t) = Expired(t)
  BY DEF Cosmos!Older, Older, Cosmos!Expired, Expired, Cosmos!Ids, Ids
<1>5. \A d, r : Cosmos!Granted(d, r) = Granted(d, r)
  BY DEF Cosmos!Granted, Granted
<1>6. \A d : Cosmos!Counted(d) = Counted(d)
  BY DEF Cosmos!Counted, Counted, Cosmos!Field, Field
<1>7. \A type : Cosmos!Stored(type) = Stored(type)
  BY DEF Cosmos!Stored, Stored
<1>8. \A type, x : Cosmos!WrittenAt(type, x) = WrittenAt(type, x)
  BY DEF Cosmos!WrittenAt, WrittenAt
<1>9. \A type, s : Cosmos!Newest(type, s) = Newest(type, s)
  BY DEF Cosmos!Newest, Newest, Cosmos!Newer, Newer, Cosmos!WrittenAt, WrittenAt, Cosmos!Cardinality, Cardinality
<1> QED
  BY <1>1, <1>2, <1>3, <1>4, <1>5, <1>6, <1>7, <1>8, <1>9


\* What the methods of one kind of store rely on: rows have numbers, the state
\* has a version, and a container keeps no marker that is over.
Numbered ==
  \A id \in Ids : id[1] \in {"failure", "page_assessment"} /\ table[id] # NoDoc => table[id].row \in Nat
Live == \A e \in StoreEvents : table[<<"processed", e>>] # NoDoc => e \in LiveMarkers
Versioned == table[<<"state">>] # NoDoc => table[<<"state">>].version \in Nat

KindInv ==
  /\ storeKind = "dynamo" => Versioned
  /\ storeKind \in {"sqlite", "sqlite_memory"} => Numbered
  /\ storeKind = "cosmos" => Live

LEMMA IdsAreFinite == IsFiniteSet(Ids)
<1>1. \A S \in {StoreEvents, StorePages}, T \in {{"processed", "failure"}, {"assessment", "page_assessment"}} :
        IsFiniteSet(T \X S)
  <2>1. \A x, y : IsFiniteSet({x, y})
    <3> SUFFICES ASSUME NEW x, NEW y PROVE IsFiniteSet({x, y})
      OBVIOUS
    <3>1. IsFiniteSet({x}) /\ {x, y} = {x} \cup {y}
      BY FS_Singleton
    <3> QED
      BY <3>1, FS_AddElement
  <2> QED
    BY <2>1, FS_Product, StoreDocumentsAssumption
<1>2. IsFiniteSet({<<"state">>, <<"lock">>, <<"poll_run_summary">>})
  <2>1. IsFiniteSet({<<"state">>})
    BY FS_Singleton
  <2>2. IsFiniteSet({<<"state">>} \cup {<<"lock">>})
    BY <2>1, FS_AddElement
  <2>3. IsFiniteSet(({<<"state">>} \cup {<<"lock">>}) \cup {<<"poll_run_summary">>})
    BY <2>2, FS_AddElement
  <2>4. {<<"state">>, <<"lock">>, <<"poll_run_summary">>} = ({<<"state">>} \cup {<<"lock">>}) \cup {<<"poll_run_summary">>}
    OBVIOUS
  <2> QED
    BY <2>3, <2>4
<1> QED
  BY <1>1, <1>2, FS_Union DEF Ids

\* EveryRank for ranks that are written out.
LEMMA FirstRank ==
  ASSUME NEW S, IsFiniteSet(S), NEW k \in [S -> Nat], \A x, y \in S : k[x] = k[y] => x = y
  PROVE  \A i \in 0 .. (Cardinality(S) - 1) : \E x \in S : Cardinality({z \in S : k[z] > k[x]}) = i
<1> DEFINE r == [x \in S |-> Cardinality({z \in S : k[z] > k[x]})]
           R == 0 .. (Cardinality(S) - 1)
<1>1. r = [x \in S |-> Cardinality({z \in S : k[z] > k[x]})]
  OBVIOUS
<1>2. \A x \in S : r[x] = Cardinality({z \in S : k[z] > k[x]})
  OBVIOUS
<1> HIDE DEF r
<1>3. /\ \A x \in S : r[x] \in 0 .. (Cardinality(S) - 1)
      /\ \A i \in 0 .. (Cardinality(S) - 1) : \E x \in S : r[x] = i
  BY <1>1, EveryRank
<1> HIDE DEF R
<1>4. \A i \in R : \E x \in S : r[x] = i
  BY <1>3 DEF R
<1>5. \A i \in R : \E x \in S : Cardinality({z \in S : k[z] > k[x]}) = i
  <2> TAKE i \in R
  <2>1. PICK x \in S : r[x] = i
    BY <1>4
  <2>2. Cardinality({z \in S : k[z] > k[x]}) = i
    BY <1>2, <2>1
  <2> QED
    BY <2>2
<1> QED
  BY <1>5 DEF R

\* A finite set of numbers has a greatest.
LEMMA GreatestIs ==
  ASSUME NEW S \in SUBSET Nat, IsFiniteSet(S), S # {}
  PROVE  \E x \in S : \A y \in S : x >= y
<1> DEFINE k == [x \in S |-> x]
           r == [x \in S |-> Cardinality({z \in S : k[z] > k[x]})]
<1>1. k \in [S -> Nat] /\ \A x \in S : k[x] = x
  OBVIOUS
<1>2. \A x, y \in S : k[x] = k[y] => x = y
  BY <1>1
<1>3. r = [x \in S |-> Cardinality({z \in S : k[z] > k[x]})]
  OBVIOUS
<1>4. 0 \in 0 .. (Cardinality(S) - 1)
  <2>1. Cardinality(S) \in Nat /\ Cardinality(S) # 0
    BY FS_CardinalityType, FS_EmptySet
  <2> QED
    BY <2>1
<1> HIDE DEF k, r
<1>5. \A i \in 0 .. (Cardinality(S) - 1) : \E x \in S : r[x] = i
  <2> DEFINE T == S
  <2>1. k \in [T -> Nat] /\ IsFiniteSet(T)
    BY <1>1
  <2>2. \A x, y \in T : k[x] = k[y] => x = y
    BY <1>2
  <2>3. \A x \in T : r[x] = Cardinality({z \in T : k[z] > k[x]})
    BY <1>3
  <2> HIDE DEF T
  <2>4. \A i \in 0 .. (Cardinality(T) - 1) : \E x \in T : Cardinality({z \in T : k[z] > k[x]}) = i
    BY <2>1, <2>2, FirstRank
  <2>5. \A i \in 0 .. (Cardinality(T) - 1) : \E x \in T : r[x] = i
    BY <2>3, <2>4
  <2> QED
    BY <2>5 DEF T
<1>6. PICK x \in S : r[x] = 0
  BY <1>4, <1>5
<1> DEFINE U == {z \in S : k[z] > k[x]}
<1>7. U \in SUBSET S /\ Cardinality(U) = 0
  BY <1>3, <1>6
<1>8. U = {}
  <2> HIDE DEF U
  <2>1. IsFiniteSet(U)
    BY <1>7, FS_Subset
  <2> QED
    BY <1>7, <2>1, FS_EmptySet
<1>9. \A y \in S : ~(y > x)
  BY <1>1, <1>8
<1> QED
  BY <1>9

LEMMA SqliteRead ==
  /\ \A id \in Ids : id[1] # "processed" => Sqlite!Read(id) = table[id]
  /\ \A e \in StoreEvents : TableOK(table) => (Sqlite!Read(<<"processed", e>>) # NoDoc <=> e \in LiveMarkers)
<1>1. \A id \in Ids : id[1] # "processed" => Sqlite!Read(id) = table[id]
  BY SqliteSame DEF Sqlite!Read, Expired
<1>2. ASSUME NEW e \in StoreEvents, TableOK(table)
      PROVE  Sqlite!Read(<<"processed", e>>) # NoDoc <=> e \in LiveMarkers
  BY <1>2, SqliteSame, MarkerIsLive DEF Sqlite!Read
<1> QED
  BY <1>1, <1>2

LEMMA SqliteReads ==
  /\ Sqlite!Read(<<"state">>) = Doc(<<"state">>, FALSE)
  /\ Sqlite!Read(<<"poll_run_summary">>) = Doc(<<"poll_run_summary">>, FALSE)
  /\ Sqlite!Read(<<"lock">>) = Doc(<<"lock">>, FALSE)
  /\ \A e \in StoreEvents : Sqlite!Read(<<"failure", e>>) = Doc(<<"failure", e>>, FALSE)
  /\ \A p \in StorePages : Sqlite!Read(<<"assessment", p>>) = Doc(<<"assessment", p>>, FALSE)
<1>1. /\ <<"state">>[1] # "processed" /\ <<"lock">>[1] # "processed" /\ <<"poll_run_summary">>[1] # "processed"
      /\ \A x : <<"failure", x>>[1] # "processed" /\ <<"assessment", x>>[1] # "processed"
  OBVIOUS
<1> QED
  BY <1>1, IdsAre, SqliteRead DEF Doc

\* A document keeps its row, and a new one gets one after all others.
LEMMA SqliteRow ==
  ASSUME Numbered, NEW id \in Ids, id[1] \in {"failure", "page_assessment"}
  PROVE  Sqlite!RowOf(id) \in Nat
<1>1. CASE table[id] # NoDoc
  BY <1>1 DEF Numbered, Sqlite!RowOf
<1>2. CASE table[id] = NoDoc
  <2> DEFINE S == {0} \cup {table[i].row : i \in Sqlite!Rows}
             f == [i \in Sqlite!Rows |-> table[i].row]
             m == CHOOSE x \in S : \A y \in S : x >= y
  <2>1. Sqlite!Rows \in SUBSET Ids /\ \A i \in Sqlite!Rows : table[i].row \in Nat
    BY SqliteSame DEF Sqlite!Rows, Numbered
  <2>2. IsFiniteSet({table[i].row : i \in Sqlite!Rows})
    <3>1. IsFiniteSet(Sqlite!Rows)
      BY <2>1, IdsAreFinite, FS_Subset
    <3> DEFINE T == {table[i].row : i \in Sqlite!Rows}
    <3>2. f \in Surjection(Sqlite!Rows, T)
      BY DEF Surjection
    <3> QED
      BY <3>1, <3>2, FS_Surjection
  <2>3. S \in SUBSET Nat /\ IsFiniteSet(S) /\ S # {}
    <3> DEFINE T == {table[i].row : i \in Sqlite!Rows}
    <3>1. S = T \cup {0} /\ T \in SUBSET Nat
      BY <2>1
    <3> HIDE DEF S, T
    <3>2. IsFiniteSet(T)
      BY <2>2 DEF T
    <3> QED
      BY <3>1, <3>2, FS_AddElement
  <2> HIDE DEF S
  <2>4. m \in S
    BY <2>3, GreatestIs
  <2>5. Sqlite!RowOf(id) = 1 + m
    BY <1>2 DEF Sqlite!RowOf, Sqlite!Max, S
  <2> HIDE DEF m
  <2> QED
    BY <2>3, <2>4, <2>5
<1> QED
  BY <1>1, <1>2

LEMMA SqliteWrites ==
  ASSUME StoreInv, storeKind # "file", Sqlite!Writes, UNCHANGED disk
  PROVE  Writing /\ Fault(FALSE)
BY DEF Sqlite!Writes, Writing, Flushes, Fault

LEMMA SqliteReadsOnly ==
  ASSUME Sqlite!Reads, UNCHANGED disk
  PROVE  Reading /\ Fault(FALSE)
BY DEF Sqlite!Reads, Reading, Fault

\* The rows that are newest are all of them, where the contract asks for that.
LEMMA SqliteLists ==
  ASSUME Numbered, storeKind \in {"sqlite", "sqlite_memory"}, NEW type \in {"failure", "page_assessment"}, NEW since
  PROVE  \E fetched \in SUBSET Stored(type) :
           /\ AllNeeded(type) => fetched = Stored(type)
           /\ Sqlite!ListDocs(type, since) = Newest(type, {x \in fetched : WrittenAt(type, x) >= since})
<1> DEFINE rows == Stored(type)
           ahead == [x \in rows |-> {y \in rows : table[<<type, y>>].row > table[<<type, x>>].row}]
           fetched == {x \in rows : Cardinality({y \in rows : table[<<type, y>>].row > table[<<type, x>>].row}) < OverFetched * ShownRows}
<1>1. \A x \in rows : table[<<type, x>>].row \in Nat
  BY IdsOfRows DEF Numbered, Stored, Things
<1>2. ASSUME AllNeeded(type) PROVE fetched = rows
  <2>1. Cardinality(Stored(type)) <= OverFetched * ShownRows
    BY <1>2 DEF AllNeeded
  <2>2. ahead \in [rows -> SUBSET rows] /\ \A x \in rows : x \notin ahead[x]
    <3>1. ahead \in [rows -> SUBSET rows]
      OBVIOUS
    <3>2. \A n \in Nat : ~(n > n)
      OBVIOUS
    <3>3. \A x \in rows : x \notin ahead[x]
      BY <1>1, <3>2
    <3> QED
      BY <3>1, <3>3
  <2>3. \A x \in rows : ahead[x] = {y \in rows : table[<<type, y>>].row > table[<<type, x>>].row}
    OBVIOUS
  <2> HIDE DEF ahead
  <2>4. \A x \in rows : Cardinality(ahead[x]) < OverFetched * ShownRows
    BY <2>1, <2>2, FetchedIsAll
  <2> QED
    BY <2>3, <2>4
<1>3. Sqlite!ListDocs(type, since) = Newest(type, {x \in fetched : WrittenAt(type, x) >= since})
  <2>1. \A s : Sqlite!Newest(type, s) = Newest(type, s)
    BY SqliteSame
  <2>2. Sqlite!ListDocs(type, since) = Sqlite!Newest(type, {x \in fetched : WrittenAt(type, x) >= since})
    BY DEF Sqlite!ListDocs, Sqlite!Stored, Stored, Sqlite!WrittenAt, WrittenAt, Sqlite!Cardinality, Cardinality
  <2> QED
    BY <2>1, <2>2
<1>4. fetched \in SUBSET rows
  OBVIOUS
<1> HIDE DEF fetched
<1> QED
  BY <1>2, <1>3, <1>4

LEMMA SqliteFits ==
  ASSUME StoreInv, Numbered, storeKind \in {"sqlite", "sqlite_memory"}, NEW type, Sqlite!Methods(type)
  PROVE  Fits
<1> USE SqliteSame, SqliteReads
<1>1. stamp \in Nat /\ TableOK(table)
  BY DEF StoreInv
<1>2. CASE Sqlite!LoadState \/ Sqlite!GetLatestPollRunSummary
  <2>1. Reading /\ Fault(FALSE)
    BY <1>2, SqliteReadsOnly DEF Sqlite!LoadState, Sqlite!GetLatestPollRunSummary
  <2>2. \/ reply' = [watermark |-> Field(Doc(<<"state">>, FALSE), "watermark", 0)]
        \/ reply' = [summary |-> Field(Doc(<<"poll_run_summary">>, FALSE), "of", 0)]
    BY <1>2 DEF Sqlite!LoadState, Sqlite!GetLatestPollRunSummary, Sqlite!Return
  <2> QED
    BY <2>1, <2>2, StateFits
<1>3. CASE Sqlite!CommitState
  <2>1. Writing /\ Fault(FALSE)
    BY <1>3, SqliteWrites DEF Sqlite!CommitState
  <2>2. /\ reply' = [watermark |-> stamp + 1]
        /\ table' = [table EXCEPT ![<<"state">>] = [watermark |-> stamp + 1]]
    BY <1>3 DEF Sqlite!CommitState, Sqlite!Return, Sqlite!Upsert, Sqlite!PutDocument
  <2>3. [watermark |-> stamp + 1] \in StateDoc /\ [watermark |-> stamp + 1].watermark = stamp + 1
    BY <1>1, TypedDocs
  <2> QED
    BY <2>1, <2>2, <2>3, StateFits
<1>4. CASE Sqlite!UpsertPollRunSummary
  <2>1. Writing /\ Fault(FALSE)
    BY <1>4, SqliteWrites DEF Sqlite!UpsertPollRunSummary
  <2>2. /\ reply' = [summary |-> stamp + 1]
        /\ table' = [table EXCEPT ![<<"poll_run_summary">>] = [of |-> stamp + 1]]
    BY <1>4 DEF Sqlite!UpsertPollRunSummary, Sqlite!Return, Sqlite!Upsert, Sqlite!PutDocument
  <2> QED
    BY <2>1, <2>2, StateFits
<1>5. ASSUME NEW run \in Runs, Sqlite!TryAcquireLease(run) \/ Sqlite!RenewLease(run) \/ Sqlite!ReleaseLease(run)
      PROVE  Fits
  <2>1. Writing /\ Fault(FALSE)
    BY <1>5, SqliteWrites DEF Sqlite!TryAcquireLease, Sqlite!RenewLease, Sqlite!ReleaseLease
  <2>2. CASE Sqlite!TryAcquireLease(run)
    <3>1. LET ok == Granted(Doc(<<"lock">>, FALSE), run)
          IN  /\ reply' = [granted |-> ok]
              /\ table' = IF ok THEN [table EXCEPT ![<<"lock">>] = [owner |-> run, left |-> LeaseTime]] ELSE table
      BY <2>2 DEF Sqlite!TryAcquireLease, Sqlite!Return, Sqlite!Upsert, Sqlite!PutDocument
    <3> QED
      BY <2>1, <3>1, LeaseFits
  <2>3. CASE Sqlite!RenewLease(run)
    <3>1. LET mine == Field(Doc(<<"lock">>, FALSE), "owner", NoDoc) = run
          IN  /\ reply' = [renewed |-> mine]
              /\ table' = IF mine THEN [table EXCEPT ![<<"lock">>] = [owner |-> run, left |-> LeaseTime]] ELSE table
      BY <2>3 DEF Sqlite!RenewLease, Sqlite!Return, Sqlite!Upsert, Sqlite!PutDocument
    <3> QED
      BY <2>1, <3>1, LeaseFits
  <2>4. CASE Sqlite!ReleaseLease(run)
    <3>1. LET mine == Field(Doc(<<"lock">>, FALSE), "owner", NoDoc) = run
          IN  /\ reply' = [released |-> TRUE]
              /\ table' = IF mine THEN [table EXCEPT ![<<"lock">>] = NoDoc] ELSE table
      BY <1>1, <2>4, WithoutOne, IdsAre DEF Sqlite!ReleaseLease, Sqlite!Return
    <3> QED
      BY <2>1, <3>1, LeaseFits
  <2> QED
    BY <1>5, <2>2, <2>3, <2>4
<1>6. ASSUME NEW e \in StoreEvents, Sqlite!IsEventProcessed(e)
      PROVE  Fits
  <2>1. table' = Without(table, Expired(table) \cap {<<"processed", e>>}) /\ UNCHANGED <<storeKind, disk, stamp, readFaults>>
    BY <1>6 DEF Sqlite!IsEventProcessed
  <2>2. Sqlite!Read(<<"processed", e>>) # NoDoc <=> e \in LiveMarkers
    BY <1>1, SqliteRead
  <2>3. reply' = [processed |-> e \in LiveMarkers]
    <3> DEFINE there == Sqlite!Read(<<"processed", e>>) # NoDoc
    <3>1. reply' = [processed |-> there]
      BY <1>6 DEF Sqlite!IsEventProcessed, Sqlite!Return
    <3>2. there = (e \in LiveMarkers)
      BY <2>2 DEF LiveMarkers
    <3> QED
      BY <3>1, <3>2
  <2>4. Fault(FALSE)
    BY <2>1 DEF Fault
  <2> QED
    BY <2>1, <2>3, <2>4, MarkerFits
<1>7. ASSUME NEW e \in StoreEvents, Sqlite!MarkProcessedEvent(e)
      PROVE  Fits
  <2>1. Writing /\ Fault(FALSE)
    BY <1>7, SqliteWrites DEF Sqlite!MarkProcessedEvent
  <2>2. reply' = [marked |-> e] /\ table' = [table EXCEPT ![<<"processed", e>>] = [left |-> MarkerTime]]
    BY <1>7 DEF Sqlite!MarkProcessedEvent, Sqlite!Return, Sqlite!Upsert, Sqlite!PutDocument
  <2> QED
    BY <2>1, <2>2, MarkerFits
<1>8. ASSUME NEW e \in StoreEvents, Sqlite!IncrementFailureCount(e)
      PROVE  Fits
  <2> DEFINE n == Counted(Doc(<<"failure", e>>, FALSE))
             d == [count |-> n, status |-> "failed_retryable", at |-> stamp + 1, row |-> Sqlite!RowOf(<<"failure", e>>)]
  <2>1. Writing /\ Fault(FALSE)
    BY <1>8, SqliteWrites DEF Sqlite!IncrementFailureCount
  <2>2. reply' = [attempts |-> n] /\ table' = [table EXCEPT ![<<"failure", e>>] = d]
    BY <1>8 DEF Sqlite!IncrementFailureCount, Sqlite!Return, Sqlite!Upsert, Sqlite!PutDocument
  <2>3. n \in Nat /\ Sqlite!RowOf(<<"failure", e>>) \in Nat
    <3>1. <<"failure", e>> \in Ids /\ <<"failure", e>>[1] = "failure"
      BY IdsAre
    <3> QED
      BY <1>1, <3>1, CountsAre, SqliteRow
  <2>4. d \in FailureDoc /\ d.at = stamp + 1 /\ d.count = n /\ d.status = "failed_retryable"
    BY <1>1, <2>3, TypedDocs
  <2> HIDE DEF d
  <2> QED
    BY <2>1, <2>2, <2>4, FailureFits
<1>9. ASSUME NEW e \in StoreEvents, Sqlite!MarkTerminalFailure(e)
      PROVE  Fits
  <2> DEFINE n == Field(Doc(<<"failure", e>>, FALSE), "count", 0)
             d == [count |-> n, status |-> "failed_terminal", at |-> stamp + 1, row |-> Sqlite!RowOf(<<"failure", e>>)]
  <2>1. Writing /\ Fault(FALSE)
    BY <1>9, SqliteWrites DEF Sqlite!MarkTerminalFailure
  <2>2. reply' = [terminal |-> e] /\ table' = [table EXCEPT ![<<"failure", e>>] = d]
    BY <1>9 DEF Sqlite!MarkTerminalFailure, Sqlite!Return, Sqlite!Upsert, Sqlite!PutDocument
  <2>3. n \in Nat /\ Sqlite!RowOf(<<"failure", e>>) \in Nat
    <3>1. <<"failure", e>> \in Ids /\ <<"failure", e>>[1] = "failure"
      BY IdsAre
    <3> QED
      BY <1>1, <3>1, CountsAre, SqliteRow
  <2>4. d \in FailureDoc /\ d.at = stamp + 1 /\ d.count = n /\ d.status = "failed_terminal"
    BY <1>1, <2>3, TypedDocs
  <2> HIDE DEF d
  <2> QED
    BY <2>1, <2>2, <2>4, FailureFits
<1>10. ASSUME NEW p \in StorePages, Sqlite!GetAssessmentSnapshot(p)
       PROVE  Fits
  <2>1. Reading /\ Fault(FALSE)
    BY <1>10, SqliteReadsOnly DEF Sqlite!GetAssessmentSnapshot
  <2>2. reply' = [version |-> Field(Doc(<<"assessment", p>>, FALSE), "version", 0)]
    BY <1>10 DEF Sqlite!GetAssessmentSnapshot, Sqlite!Return
  <2> QED
    BY <2>1, <2>2, SnapshotFits
<1>11. ASSUME NEW p \in StorePages, Sqlite!UpsertAssessmentSnapshot(p)
       PROVE  Fits
  <2>1. Writing /\ Fault(FALSE)
    BY <1>11, SqliteWrites DEF Sqlite!UpsertAssessmentSnapshot
  <2>2. reply' = [saved |-> stamp + 1] /\ table' = [table EXCEPT ![<<"assessment", p>>] = [version |-> stamp + 1]]
    BY <1>11 DEF Sqlite!UpsertAssessmentSnapshot, Sqlite!Return, Sqlite!Upsert, Sqlite!PutDocument
  <2> QED
    BY <2>1, <2>2, SnapshotFits
<1>12. ASSUME NEW p \in StorePages, NEW status \in {"assessed", "no_change"}, Sqlite!UpsertPageAssessment(p, status)
       PROVE  Fits
  <2> DEFINE d == [status |-> status, at |-> stamp + 1, row |-> Sqlite!RowOf(<<"page_assessment", p>>)]
  <2>1. Writing /\ Fault(FALSE)
    BY <1>12, SqliteWrites DEF Sqlite!UpsertPageAssessment
  <2>2. reply' = [row |-> status] /\ table' = [table EXCEPT ![<<"page_assessment", p>>] = d]
    BY <1>12 DEF Sqlite!UpsertPageAssessment, Sqlite!Return, Sqlite!Upsert, Sqlite!PutDocument
  <2>3. Sqlite!RowOf(<<"page_assessment", p>>) \in Nat
    <3>1. <<"page_assessment", p>> \in Ids /\ <<"page_assessment", p>>[1] = "page_assessment"
      BY IdsAre
    <3> QED
      BY <3>1, SqliteRow
  <2>4. d \in AssessmentDoc /\ d.at = stamp + 1 /\ d.status = status
    BY <1>1, <2>3, TypedDocs
  <2> HIDE DEF d
  <2> QED
    BY <2>1, <2>2, <2>4, RowFits
<1>13. ASSUME NEW since \in Nat, Sqlite!ListRecentFailures(since)
       PROVE  Fits
  <2>1. Reading /\ UNCHANGED readFaults
    BY <1>13 DEF Sqlite!ListRecentFailures, Sqlite!Reads, Reading
  <2>2. PICK fetched \in SUBSET Stored("failure") :
          /\ AllNeeded("failure") => fetched = Stored("failure")
          /\ Sqlite!ListDocs("failure", since) = Newest("failure", {x \in fetched : WrittenAt("failure", x) >= since})
    BY SqliteLists
  <2>3. reply' = [events |-> Newest("failure", {x \in fetched : WrittenAt("failure", x) >= since}), since |-> since]
    BY <1>13, <2>2 DEF Sqlite!ListRecentFailures, Sqlite!Return
  <2> QED
    BY <2>1, <2>2, <2>3, ListFits
<1>14. ASSUME NEW since \in Nat, Sqlite!ListRecentPageAssessments(since)
       PROVE  Fits
  <2>1. Reading /\ UNCHANGED readFaults
    BY <1>14 DEF Sqlite!ListRecentPageAssessments, Sqlite!Reads, Reading
  <2>2. PICK fetched \in SUBSET Stored("page_assessment") :
          /\ AllNeeded("page_assessment") => fetched = Stored("page_assessment")
          /\ Sqlite!ListDocs("page_assessment", since) = Newest("page_assessment", {x \in fetched : WrittenAt("page_assessment", x) >= since})
    BY SqliteLists
  <2>3. reply' = [pages |-> Newest("page_assessment", {x \in fetched : WrittenAt("page_assessment", x) >= since}), since |-> since]
    BY <1>14, <2>2 DEF Sqlite!ListRecentPageAssessments, Sqlite!Return
  <2> QED
    BY <2>1, <2>2, <2>3, ListFits
<1>15. 1 .. MaxStamp \subseteq Nat
  BY ONLY StoreDocumentsAssumption
<1> QED
  BY <1>2, <1>3, <1>4, <1>5, <1>6, <1>7, <1>8, <1>9, <1>10, <1>11, <1>12, <1>13, <1>14, <1>15 DEF Sqlite!Methods

LEMMA SqliteChangesFit ==
  ASSUME StoreInv, storeKind \in {"sqlite", "sqlite_memory"}, Sqlite!Changes
  PROVE  Fits
<1>1. CASE Sqlite!TimePasses
  BY <1>1, SqliteSame, TimeFits DEF Sqlite!TimePasses
<1>2. CASE Sqlite!Reopen
  <2>1. UNCHANGED <<storeKind, disk, reply, stamp, readFaults>> /\ table' = IF storeKind = "sqlite" THEN table ELSE Empty
    BY <1>2, SqliteSame DEF Sqlite!Reopen
  <2>2. CASE storeKind = "sqlite"
    <3>1. StoreInv'
      BY <2>1, <2>2, RestKeeps
    <3>2. Contract!Time
      BY <2>1, <2>2, Rest, TimeIs
    <3> QED
      BY <2>1, <3>1, <3>2, FitsBy
  <2>3. CASE storeKind = "sqlite_memory"
    <3>1. disk' = Empty /\ table' = Empty /\ ~Lasts'
      BY <2>1, <2>3 DEF StoreInv, Lasts
    <3> QED
      BY <2>1, <2>3, <3>1, EmptyFits
  <2> QED
    BY <2>2, <2>3
<1> QED
  BY <1>1, <1>2 DEF Sqlite!Changes

LEMMA DynamoWrites ==
  ASSUME StoreInv, storeKind # "file", Dynamo!Writes, UNCHANGED disk
  PROVE  Writing /\ Fault(FALSE)
BY DEF Dynamo!Writes, Writing, Flushes, Fault

LEMMA DynamoReads ==
  ASSUME Dynamo!Reads, UNCHANGED disk
  PROVE  Reading /\ Fault(FALSE)
BY DEF Dynamo!Reads, Reading, Fault

\* The items that are read first are all of them, where the contract asks for that.
LEMMA DynamoLists ==
  ASSUME storeKind = "dynamo", NEW type \in {"failure", "page_assessment"}, NEW since
  PROVE  \E fetched \in SUBSET Stored(type) :
           /\ AllNeeded(type) => fetched = Stored(type)
           /\ Dynamo!Query(type, since) = Newest(type, {x \in fetched : WrittenAt(type, x) >= since})
<1> DEFINE items == Stored(type)
           ahead == [x \in items |-> {y \in items : y < x}]
           fetched == {x \in items : Cardinality({y \in items : y < x}) < OverFetched * ShownRows}
<1>1. items \subseteq Nat
  BY StoredIsFinite, StoreDocumentsAssumption DEF Things
<1>2. ASSUME AllNeeded(type) PROVE fetched = items
  <2>1. Cardinality(Stored(type)) <= OverFetched * ShownRows
    BY <1>2 DEF AllNeeded
  <2>2. ahead \in [items -> SUBSET items] /\ \A x \in items : x \notin ahead[x]
    <3>1. ahead \in [items -> SUBSET items]
      OBVIOUS
    <3>2. \A n \in Nat : ~(n < n)
      OBVIOUS
    <3>3. \A x \in items : x \notin ahead[x]
      BY <1>1, <3>2
    <3> QED
      BY <3>1, <3>3
  <2>3. \A x \in items : ahead[x] = {y \in items : y < x}
    OBVIOUS
  <2> HIDE DEF ahead
  <2>4. \A x \in items : Cardinality(ahead[x]) < OverFetched * ShownRows
    BY <2>1, <2>2, FetchedIsAll
  <2> QED
    BY <2>3, <2>4
<1>3. Dynamo!Query(type, since) = Newest(type, {x \in fetched : WrittenAt(type, x) >= since})
  <2>1. \A s : Dynamo!Newest(type, s) = Newest(type, s)
    BY DynamoSame
  <2>2. Dynamo!Query(type, since) = Dynamo!Newest(type, {x \in fetched : WrittenAt(type, x) >= since})
    BY DEF Dynamo!Query, Dynamo!Stored, Stored, Dynamo!WrittenAt, WrittenAt, Dynamo!Cardinality, Cardinality
  <2> QED
    BY <2>1, <2>2
<1>4. fetched \in SUBSET items
  OBVIOUS
<1> HIDE DEF fetched
<1> QED
  BY <1>2, <1>3, <1>4

LEMMA DynamoFits ==
  ASSUME StoreInv, Versioned, storeKind = "dynamo", NEW type, Dynamo!Methods(type)
  PROVE  Fits
<1> USE DynamoSame
<1>1. stamp \in Nat /\ TableOK(table)
  BY DEF StoreInv
<1>2. CASE Dynamo!LoadState \/ Dynamo!GetLatestPollRunSummary
  <2>1. Reading /\ Fault(FALSE)
    BY <1>2, DynamoReads DEF Dynamo!LoadState, Dynamo!GetLatestPollRunSummary
  <2>2. \/ reply' = [watermark |-> Field(Doc(<<"state">>, FALSE), "watermark", 0)]
        \/ reply' = [summary |-> Field(Doc(<<"poll_run_summary">>, FALSE), "of", 0)]
    BY <1>2 DEF Dynamo!LoadState, Dynamo!GetLatestPollRunSummary, Dynamo!Return, Dynamo!Get, Doc
  <2> QED
    BY <2>1, <2>2, StateFits
<1>3. ASSUME NEW expected, Dynamo!CommitState(expected)
      PROVE  Fits
  <2> DEFINE version == Field(table[<<"state">>], "version", 0) + 1
             d == [watermark |-> stamp + 1, version |-> version]
  <2>1. Writing /\ Fault(FALSE)
    BY <1>3, DynamoWrites DEF Dynamo!CommitState
  <2>2. reply' = [watermark |-> stamp + 1] /\ table' = [table EXCEPT ![<<"state">>] = d]
    BY <1>3 DEF Dynamo!CommitState, Dynamo!Return, Dynamo!PutItem, Dynamo!PutDocument, Dynamo!Get
  <2>3. version \in Nat
    <3>1. table[<<"state">>] = NoDoc \/ table[<<"state">>].version \in Nat
      BY IdsAre DEF Versioned
    <3> QED
      BY <3>1 DEF Field
  <2>4. d \in StateDoc /\ d.watermark = stamp + 1
    BY <1>1, <2>3 DEF StateDoc
  <2> HIDE DEF d
  <2> QED
    BY <2>1, <2>2, <2>4, StateFits
<1>4. CASE Dynamo!UpsertPollRunSummary
  <2>1. Writing /\ Fault(FALSE)
    BY <1>4, DynamoWrites DEF Dynamo!UpsertPollRunSummary
  <2>2. /\ reply' = [summary |-> stamp + 1]
        /\ table' = [table EXCEPT ![<<"poll_run_summary">>] = [of |-> stamp + 1]]
    BY <1>4 DEF Dynamo!UpsertPollRunSummary, Dynamo!Return, Dynamo!PutItem, Dynamo!PutDocument
  <2> QED
    BY <2>1, <2>2, StateFits
<1>5. ASSUME NEW run \in Runs, Dynamo!TryAcquireLease(run) \/ Dynamo!RenewLease(run) \/ Dynamo!ReleaseLease(run)
      PROVE  Fits
  <2>1. Writing /\ Fault(FALSE)
    BY <1>5, DynamoWrites DEF Dynamo!TryAcquireLease, Dynamo!RenewLease, Dynamo!ReleaseLease
  <2>2. CASE Dynamo!TryAcquireLease(run)
    <3>1. LET ok == Granted(Doc(<<"lock">>, FALSE), run)
          IN  /\ reply' = [granted |-> ok]
              /\ table' = IF ok THEN [table EXCEPT ![<<"lock">>] = [owner |-> run, left |-> LeaseTime]] ELSE table
      BY <2>2 DEF Dynamo!TryAcquireLease, Dynamo!Return, Dynamo!PutItem, Dynamo!PutDocument, Dynamo!Get, Doc
    <3> QED
      BY <2>1, <3>1, LeaseFits
  <2>3. CASE Dynamo!RenewLease(run)
    <3>1. LET mine == Field(Doc(<<"lock">>, FALSE), "owner", NoDoc) = run
          IN  /\ reply' = [renewed |-> mine]
              /\ table' = IF mine THEN [table EXCEPT ![<<"lock">>] = [owner |-> run, left |-> LeaseTime]] ELSE table
      <4> DEFINE mine == Field(table[<<"lock">>], "owner", NoDoc) = run
                 d == table[<<"lock">>]
      <4>1. /\ reply' = [renewed |-> mine]
            /\ table' = IF mine THEN [table EXCEPT ![<<"lock">>].left = LeaseTime] ELSE table
        BY <2>3 DEF Dynamo!RenewLease, Dynamo!Return, Dynamo!Get
      <4>2. ASSUME mine PROVE [d EXCEPT !.left = LeaseTime] = [owner |-> run, left |-> LeaseTime]
        <5>1. d \in LockDoc /\ d.owner = run
          BY <1>1, <4>2, LockIs, StoreDocumentsAssumption DEF Field
        <5> QED
          BY <5>1 DEF LockDoc
      <4>3. [table EXCEPT ![<<"lock">>].left = LeaseTime] = [table EXCEPT ![<<"lock">>] = [d EXCEPT !.left = LeaseTime]]
        BY <1>1 DEF TableOK
      <4> HIDE DEF mine
      <4>4. table' = IF mine THEN [table EXCEPT ![<<"lock">>] = [owner |-> run, left |-> LeaseTime]] ELSE table
        BY <4>1, <4>2, <4>3
      <4> QED
        BY <4>1, <4>4 DEF mine, Doc
    <3> QED
      BY <2>1, <3>1, LeaseFits
  <2>4. CASE Dynamo!ReleaseLease(run)
    <3>1. LET mine == Field(Doc(<<"lock">>, FALSE), "owner", NoDoc) = run
          IN  /\ reply' = [released |-> TRUE]
              /\ table' = IF mine THEN [table EXCEPT ![<<"lock">>] = NoDoc] ELSE table
      BY <1>1, <2>4, WithoutOne, IdsAre DEF Dynamo!ReleaseLease, Dynamo!Return, Dynamo!Get, Doc
    <3> QED
      BY <2>1, <3>1, LeaseFits
  <2> QED
    BY <1>5, <2>2, <2>3, <2>4
<1>6. ASSUME NEW e \in StoreEvents, Dynamo!IsEventProcessed(e)
      PROVE  Fits
  <2>1. Reading /\ Fault(FALSE)
    BY <1>6, DynamoReads DEF Dynamo!IsEventProcessed
  <2>2. Dynamo!Alive(<<"processed", e>>) <=> e \in LiveMarkers
    BY <1>1, MarkersAre DEF Dynamo!Alive
  <2>3. reply' = [processed |-> ~FALSE /\ e \in LiveMarkers]
    <3> DEFINE there == table[<<"processed", e>>] # NoDoc /\ table[<<"processed", e>>].left > 0
    <3>1. reply' = [processed |-> there]
      BY <1>6 DEF Dynamo!IsEventProcessed, Dynamo!Return, Dynamo!Alive
    <3>2. there = (~FALSE /\ e \in LiveMarkers)
      BY <2>2 DEF LiveMarkers, Dynamo!Alive
    <3> QED
      BY <3>1, <3>2
  <2> QED
    BY <2>1, <2>3, MarkerFits
<1>7. ASSUME NEW e \in StoreEvents, Dynamo!MarkProcessedEvent(e)
      PROVE  Fits
  <2>1. Writing /\ Fault(FALSE)
    BY <1>7, DynamoWrites DEF Dynamo!MarkProcessedEvent
  <2>2. reply' = [marked |-> e] /\ table' = [table EXCEPT ![<<"processed", e>>] = [left |-> MarkerTime]]
    BY <1>7 DEF Dynamo!MarkProcessedEvent, Dynamo!Return, Dynamo!PutItem, Dynamo!PutDocument
  <2> QED
    BY <2>1, <2>2, MarkerFits
<1>8. ASSUME NEW e \in StoreEvents, Dynamo!IncrementFailureCount(e)
      PROVE  Fits
  <2> DEFINE n == Counted(Doc(<<"failure", e>>, FALSE))
             d == [count |-> n, status |-> "failed_retryable", at |-> stamp + 1]
  <2>1. Writing /\ Fault(FALSE)
    BY <1>8, DynamoWrites DEF Dynamo!IncrementFailureCount
  <2>2. reply' = [attempts |-> n] /\ table' = [table EXCEPT ![<<"failure", e>>] = d]
    BY <1>8 DEF Dynamo!IncrementFailureCount, Dynamo!Return, Dynamo!PutItem, Dynamo!PutDocument, Dynamo!Get, Doc
  <2>3. n \in Nat
    BY <1>1, CountsAre
  <2>4. d \in FailureDoc /\ d.at = stamp + 1 /\ d.count = n /\ d.status = "failed_retryable"
    BY <1>1, <2>3, TypedDocs
  <2> HIDE DEF d
  <2> QED
    BY <2>1, <2>2, <2>4, FailureFits
<1>9. ASSUME NEW e \in StoreEvents, Dynamo!MarkTerminalFailure(e)
      PROVE  Fits
  <2> DEFINE n == Field(Doc(<<"failure", e>>, FALSE), "count", 0)
             d == [count |-> n, status |-> "failed_terminal", at |-> stamp + 1]
  <2>1. Writing /\ Fault(FALSE)
    BY <1>9, DynamoWrites DEF Dynamo!MarkTerminalFailure
  <2>2. reply' = [terminal |-> e] /\ table' = [table EXCEPT ![<<"failure", e>>] = d]
    BY <1>9 DEF Dynamo!MarkTerminalFailure, Dynamo!Return, Dynamo!PutItem, Dynamo!PutDocument, Dynamo!Get, Doc
  <2>3. n \in Nat
    BY <1>1, CountsAre
  <2>4. d \in FailureDoc /\ d.at = stamp + 1 /\ d.count = n /\ d.status = "failed_terminal"
    BY <1>1, <2>3, TypedDocs
  <2> HIDE DEF d
  <2> QED
    BY <2>1, <2>2, <2>4, FailureFits
<1>10. ASSUME NEW p \in StorePages, Dynamo!GetAssessmentSnapshot(p)
       PROVE  Fits
  <2>1. Reading /\ Fault(FALSE)
    BY <1>10, DynamoReads DEF Dynamo!GetAssessmentSnapshot
  <2>2. reply' = [version |-> Field(Doc(<<"assessment", p>>, FALSE), "version", 0)]
    BY <1>10 DEF Dynamo!GetAssessmentSnapshot, Dynamo!Return, Dynamo!Get, Doc
  <2> QED
    BY <2>1, <2>2, SnapshotFits
<1>11. ASSUME NEW p \in StorePages, Dynamo!UpsertAssessmentSnapshot(p)
       PROVE  Fits
  <2>1. Writing /\ Fault(FALSE)
    BY <1>11, DynamoWrites DEF Dynamo!UpsertAssessmentSnapshot
  <2>2. reply' = [saved |-> stamp + 1] /\ table' = [table EXCEPT ![<<"assessment", p>>] = [version |-> stamp + 1]]
    BY <1>11 DEF Dynamo!UpsertAssessmentSnapshot, Dynamo!Return, Dynamo!PutItem, Dynamo!PutDocument
  <2> QED
    BY <2>1, <2>2, SnapshotFits
<1>12. ASSUME NEW p \in StorePages, NEW status \in {"assessed", "no_change"}, Dynamo!UpsertPageAssessment(p, status)
       PROVE  Fits
  <2> DEFINE d == [status |-> status, at |-> stamp + 1]
  <2>1. Writing /\ Fault(FALSE)
    BY <1>12, DynamoWrites DEF Dynamo!UpsertPageAssessment
  <2>2. reply' = [row |-> status] /\ table' = [table EXCEPT ![<<"page_assessment", p>>] = d]
    BY <1>12 DEF Dynamo!UpsertPageAssessment, Dynamo!Return, Dynamo!PutItem, Dynamo!PutDocument
  <2>3. d \in AssessmentDoc /\ d.at = stamp + 1 /\ d.status = status
    BY <1>1, TypedDocs
  <2> HIDE DEF d
  <2> QED
    BY <2>1, <2>2, <2>3, RowFits
<1>13. ASSUME NEW since \in Nat, Dynamo!ListRecentFailures(since)
       PROVE  Fits
  <2>1. Reading /\ UNCHANGED readFaults
    BY <1>13 DEF Dynamo!ListRecentFailures, Dynamo!Reads, Reading
  <2>2. PICK fetched \in SUBSET Stored("failure") :
          /\ AllNeeded("failure") => fetched = Stored("failure")
          /\ Dynamo!Query("failure", since) = Newest("failure", {x \in fetched : WrittenAt("failure", x) >= since})
    BY DynamoLists
  <2>3. reply' = [events |-> Newest("failure", {x \in fetched : WrittenAt("failure", x) >= since}), since |-> since]
    BY <1>13, <2>2 DEF Dynamo!ListRecentFailures, Dynamo!Return
  <2> QED
    BY <2>1, <2>2, <2>3, ListFits
<1>14. ASSUME NEW since \in Nat, Dynamo!ListRecentPageAssessments(since)
       PROVE  Fits
  <2>1. Reading /\ UNCHANGED readFaults
    BY <1>14 DEF Dynamo!ListRecentPageAssessments, Dynamo!Reads, Reading
  <2>2. PICK fetched \in SUBSET Stored("page_assessment") :
          /\ AllNeeded("page_assessment") => fetched = Stored("page_assessment")
          /\ Dynamo!Query("page_assessment", since) = Newest("page_assessment", {x \in fetched : WrittenAt("page_assessment", x) >= since})
    BY DynamoLists
  <2>3. reply' = [pages |-> Newest("page_assessment", {x \in fetched : WrittenAt("page_assessment", x) >= since}), since |-> since]
    BY <1>14, <2>2 DEF Dynamo!ListRecentPageAssessments, Dynamo!Return
  <2> QED
    BY <2>1, <2>2, <2>3, ListFits
<1>15. 1 .. MaxStamp \subseteq Nat
  BY ONLY StoreDocumentsAssumption
<1>16. ASSUME NEW since \in Nat, Dynamo!QueryFails("events", since) \/ Dynamo!QueryFails("pages", since)
       PROVE  Fits
  <2>1. Reading /\ readFaults < MaxReadFaults /\ readFaults' = readFaults + 1
    BY <1>16 DEF Dynamo!QueryFails, Reading
  <2>2. reply' = [pages |-> <<>>, since |-> since] \/ reply' = [events |-> <<>>, since |-> since]
    BY <1>16 DEF Dynamo!QueryFails, Dynamo!Return
  <2> QED
    BY <2>1, <2>2, ListFits
<1> QED
  BY <1>2, <1>3, <1>4, <1>5, <1>6, <1>7, <1>8, <1>9, <1>10, <1>11, <1>12, <1>13, <1>14, <1>15, <1>16 DEF Dynamo!Methods

LEMMA DynamoChangesFit ==
  ASSUME StoreInv, storeKind = "dynamo", Dynamo!Changes
  PROVE  Fits
<1>1. CASE Dynamo!TimePasses
  BY <1>1, DynamoSame, TimeFits DEF Dynamo!TimePasses
<1>2. CASE Dynamo!RemoveItem
  <2>1. PICK id \in Ids : /\ id[1] \in {"lock", "processed"} /\ table[id] # NoDoc /\ table[id].left = 0
                          /\ table' = Without(table, {id})
    BY <1>2, DynamoSame DEF Dynamo!RemoveItem
  <2> QED
    BY <1>2, <2>1, RemovalFits DEF Dynamo!RemoveItem
<1> QED
  BY <1>1, <1>2 DEF Dynamo!Changes

LEMMA CosmosReads ==
  ASSUME storeKind = "cosmos", NEW lost \in BOOLEAN, Cosmos!Losing(lost), Cosmos!Unwritten
  PROVE  Reading /\ Fault(lost)
BY DEF Cosmos!Losing, Cosmos!Unwritten, Reading, Fault

LEMMA CosmosWrites ==
  ASSUME storeKind = "cosmos", NEW lost \in BOOLEAN, Cosmos!Losing(lost), Cosmos!Written
  PROVE  Writing /\ Fault(lost)
BY DEF Cosmos!Losing, Cosmos!Written, Writing, Flushes, Fault

LEMMA CosmosDoc ==
  \A id, lost : Cosmos!ReadItem(id, lost) = Doc(id, lost)
BY DEF Cosmos!ReadItem, Doc

LEMMA CosmosFits ==
  ASSUME StoreInv, Live, storeKind = "cosmos", NEW type, Cosmos!Methods(type)
  PROVE  Fits
<1> USE CosmosSame, CosmosDoc
<1>1. stamp \in Nat /\ TableOK(table)
  BY DEF StoreInv
<1>2. ASSUME NEW lost \in BOOLEAN, Cosmos!LoadState(lost) \/ Cosmos!GetLatestPollRunSummary(lost)
      PROVE  Fits
  <2>1. Reading /\ Fault(lost)
    BY <1>2, CosmosReads DEF Cosmos!LoadState, Cosmos!GetLatestPollRunSummary
  <2>2. \/ reply' = [watermark |-> Field(Doc(<<"state">>, lost), "watermark", 0)]
        \/ reply' = [summary |-> Field(Doc(<<"poll_run_summary">>, lost), "of", 0)]
    BY <1>2 DEF Cosmos!LoadState, Cosmos!GetLatestPollRunSummary, Cosmos!Return
  <2> QED
    BY <2>1, <2>2, StateFits
<1>3. ASSUME NEW lost \in BOOLEAN, Cosmos!CommitState(lost)
      PROVE  Fits
  <2>1. Writing /\ Fault(lost)
    BY <1>3, CosmosWrites DEF Cosmos!CommitState
  <2>2. /\ reply' = [watermark |-> stamp + 1]
        /\ table' = [table EXCEPT ![<<"state">>] = [watermark |-> stamp + 1]]
    BY <1>3 DEF Cosmos!CommitState, Cosmos!Return, Cosmos!UpsertItem, Cosmos!PutDocument
  <2>3. [watermark |-> stamp + 1] \in StateDoc /\ [watermark |-> stamp + 1].watermark = stamp + 1
    BY <1>1, TypedDocs
  <2> QED
    BY <2>1, <2>2, <2>3, StateFits
<1>4. CASE Cosmos!UpsertPollRunSummary
  <2>1. Writing /\ Fault(FALSE)
    BY <1>4, CosmosWrites DEF Cosmos!UpsertPollRunSummary
  <2>2. /\ reply' = [summary |-> stamp + 1]
        /\ table' = [table EXCEPT ![<<"poll_run_summary">>] = [of |-> stamp + 1]]
    BY <1>4 DEF Cosmos!UpsertPollRunSummary, Cosmos!Return, Cosmos!UpsertItem, Cosmos!PutDocument
  <2> QED
    BY <2>1, <2>2, StateFits
<1>5. ASSUME NEW lost \in BOOLEAN, NEW run \in Runs,
             Cosmos!TryAcquireLease(run, lost) \/ Cosmos!RenewLease(run, lost) \/ Cosmos!ReleaseLease(run, lost)
      PROVE  Fits
  <2>1. Writing /\ Fault(lost)
    BY <1>5, CosmosWrites DEF Cosmos!TryAcquireLease, Cosmos!RenewLease, Cosmos!ReleaseLease
  <2>2. CASE Cosmos!TryAcquireLease(run, lost)
    <3>1. LET ok == Granted(Doc(<<"lock">>, lost), run)
          IN  /\ reply' = [granted |-> ok]
              /\ table' = IF ok THEN [table EXCEPT ![<<"lock">>] = [owner |-> run, left |-> LeaseTime]] ELSE table
      BY <2>2 DEF Cosmos!TryAcquireLease, Cosmos!Return, Cosmos!UpsertItem, Cosmos!PutDocument
    <3> QED
      BY <2>1, <3>1, LeaseFits
  <2>3. CASE Cosmos!RenewLease(run, lost)
    <3>1. LET mine == Field(Doc(<<"lock">>, lost), "owner", NoDoc) = run
          IN  /\ reply' = [renewed |-> mine]
              /\ table' = IF mine THEN [table EXCEPT ![<<"lock">>] = [owner |-> run, left |-> LeaseTime]] ELSE table
      BY <2>3 DEF Cosmos!RenewLease, Cosmos!Return, Cosmos!UpsertItem, Cosmos!PutDocument
    <3> QED
      BY <2>1, <3>1, LeaseFits
  <2>4. CASE Cosmos!ReleaseLease(run, lost)
    <3>1. LET mine == Field(Doc(<<"lock">>, lost), "owner", NoDoc) = run
          IN  /\ reply' = [released |-> TRUE]
              /\ table' = IF mine THEN [table EXCEPT ![<<"lock">>] = NoDoc] ELSE table
      BY <1>1, <2>4, WithoutOne, IdsAre DEF Cosmos!ReleaseLease, Cosmos!Return
    <3> QED
      BY <2>1, <3>1, LeaseFits
  <2> QED
    BY <1>5, <2>2, <2>3, <2>4
<1>6. ASSUME NEW lost \in BOOLEAN, NEW e \in StoreEvents, Cosmos!IsEventProcessed(e, lost)
      PROVE  Fits
  <2> DEFINE there == Doc(<<"processed", e>>, lost) # NoDoc
             live == ~lost /\ e \in LiveMarkers
  <2>1. Reading /\ Fault(lost)
    BY <1>6, CosmosReads DEF Cosmos!IsEventProcessed
  <2>2. there <=> live
    BY <1>1, MarkersAre DEF Live, Doc
  <2>3. reply' = [processed |-> there]
    BY <1>6 DEF Cosmos!IsEventProcessed, Cosmos!Return
  <2>4. there = live
    BY <2>2 DEF LiveMarkers
  <2> QED
    BY <2>1, <2>3, <2>4, MarkerFits
<1>7. ASSUME NEW e \in StoreEvents, Cosmos!MarkProcessedEvent(e)
      PROVE  Fits
  <2>1. Writing /\ Fault(FALSE)
    BY <1>7, CosmosWrites DEF Cosmos!MarkProcessedEvent
  <2>2. reply' = [marked |-> e] /\ table' = [table EXCEPT ![<<"processed", e>>] = [left |-> MarkerTime]]
    BY <1>7 DEF Cosmos!MarkProcessedEvent, Cosmos!Return, Cosmos!UpsertItem, Cosmos!PutDocument
  <2> QED
    BY <2>1, <2>2, MarkerFits
<1>8. ASSUME NEW lost \in BOOLEAN, NEW e \in StoreEvents, Cosmos!IncrementFailureCount(e, lost)
      PROVE  Fits
  <2> DEFINE n == Counted(Doc(<<"failure", e>>, lost))
             d == [count |-> n, status |-> "failed_retryable", at |-> stamp + 1]
  <2>1. Writing /\ Fault(lost)
    BY <1>8, CosmosWrites DEF Cosmos!IncrementFailureCount
  <2>2. reply' = [attempts |-> n] /\ table' = [table EXCEPT ![<<"failure", e>>] = d]
    BY <1>8 DEF Cosmos!IncrementFailureCount, Cosmos!Return, Cosmos!UpsertItem, Cosmos!PutDocument
  <2>3. n \in Nat
    BY <1>1, CountsAre
  <2>4. d \in FailureDoc /\ d.at = stamp + 1 /\ d.count = n /\ d.status = "failed_retryable"
    BY <1>1, <2>3, TypedDocs
  <2> HIDE DEF d
  <2> QED
    BY <2>1, <2>2, <2>4, FailureFits
<1>9. ASSUME NEW lost \in BOOLEAN, NEW e \in StoreEvents, Cosmos!MarkTerminalFailure(e, lost)
      PROVE  Fits
  <2> DEFINE n == Field(Doc(<<"failure", e>>, lost), "count", 0)
             d == [count |-> n, status |-> "failed_terminal", at |-> stamp + 1]
  <2>1. Writing /\ Fault(lost)
    BY <1>9, CosmosWrites DEF Cosmos!MarkTerminalFailure
  <2>2. reply' = [terminal |-> e] /\ table' = [table EXCEPT ![<<"failure", e>>] = d]
    BY <1>9 DEF Cosmos!MarkTerminalFailure, Cosmos!Return, Cosmos!UpsertItem, Cosmos!PutDocument
  <2>3. n \in Nat
    BY <1>1, CountsAre
  <2>4. d \in FailureDoc /\ d.at = stamp + 1 /\ d.count = n /\ d.status = "failed_terminal"
    BY <1>1, <2>3, TypedDocs
  <2> HIDE DEF d
  <2> QED
    BY <2>1, <2>2, <2>4, FailureFits
<1>10. ASSUME NEW lost \in BOOLEAN, NEW p \in StorePages, Cosmos!GetAssessmentSnapshot(p, lost)
       PROVE  Fits
  <2>1. Reading /\ Fault(lost)
    BY <1>10, CosmosReads DEF Cosmos!GetAssessmentSnapshot
  <2>2. reply' = [version |-> Field(Doc(<<"assessment", p>>, lost), "version", 0)]
    BY <1>10 DEF Cosmos!GetAssessmentSnapshot, Cosmos!Return
  <2> QED
    BY <2>1, <2>2, SnapshotFits
<1>11. ASSUME NEW p \in StorePages, Cosmos!UpsertAssessmentSnapshot(p)
       PROVE  Fits
  <2>1. Writing /\ Fault(FALSE)
    BY <1>11, CosmosWrites DEF Cosmos!UpsertAssessmentSnapshot
  <2>2. reply' = [saved |-> stamp + 1] /\ table' = [table EXCEPT ![<<"assessment", p>>] = [version |-> stamp + 1]]
    BY <1>11 DEF Cosmos!UpsertAssessmentSnapshot, Cosmos!Return, Cosmos!UpsertItem, Cosmos!PutDocument
  <2> QED
    BY <2>1, <2>2, SnapshotFits
<1>12. ASSUME NEW p \in StorePages, NEW status \in {"assessed", "no_change"}, Cosmos!UpsertPageAssessment(p, status)
       PROVE  Fits
  <2> DEFINE d == [status |-> status, at |-> stamp + 1]
  <2>1. Writing /\ Fault(FALSE)
    BY <1>12, CosmosWrites DEF Cosmos!UpsertPageAssessment
  <2>2. reply' = [row |-> status] /\ table' = [table EXCEPT ![<<"page_assessment", p>>] = d]
    BY <1>12 DEF Cosmos!UpsertPageAssessment, Cosmos!Return, Cosmos!UpsertItem, Cosmos!PutDocument
  <2>3. d \in AssessmentDoc /\ d.at = stamp + 1 /\ d.status = status
    BY <1>1, TypedDocs
  <2> HIDE DEF d
  <2> QED
    BY <2>1, <2>2, <2>3, RowFits
<1>13. ASSUME NEW lost \in BOOLEAN, NEW since \in Nat,
              Cosmos!ListRecentFailures(since, lost) \/ Cosmos!ListRecentPageAssessments(since, lost)
       PROVE  Fits
  <2>1. Reading /\ Fault(lost)
    BY <1>13, CosmosReads DEF Cosmos!ListRecentFailures, Cosmos!ListRecentPageAssessments
  <2>2. CASE lost
    <3>1. readFaults < MaxReadFaults /\ readFaults' = readFaults + 1
      BY <2>1, <2>2 DEF Fault
    <3>2. reply' = [pages |-> <<>>, since |-> since] \/ reply' = [events |-> <<>>, since |-> since]
      BY <1>13, <2>2 DEF Cosmos!ListRecentFailures, Cosmos!ListRecentPageAssessments, Cosmos!Return, Cosmos!Recent
    <3> QED
      BY <2>1, <3>1, <3>2, ListFits
  <2>3. CASE ~lost
    <3>1. UNCHANGED readFaults
      BY <2>1, <2>3 DEF Fault
    <3>2. \A t : Cosmos!Recent(t, since, lost) = Newest(t, {x \in Stored(t) : WrittenAt(t, x) >= since})
      <4>1. \A t : Cosmos!Recent(t, since, lost) = Cosmos!Newest(t, {x \in Stored(t) : WrittenAt(t, x) >= since})
        BY <2>3 DEF Cosmos!Recent, Cosmos!Stored, Stored, Cosmos!WrittenAt, WrittenAt
      <4> QED
        BY <4>1
    <3>3. \/ reply' = [events |-> Newest("failure", {x \in Stored("failure") : WrittenAt("failure", x) >= since}), since |-> since]
          \/ reply' = [pages |-> Newest("page_assessment", {x \in Stored("page_assessment") : WrittenAt("page_assessment", x) >= since}),
                       since |-> since]
      BY <1>13, <3>2 DEF Cosmos!ListRecentFailures, Cosmos!ListRecentPageAssessments, Cosmos!Return
    <3> QED
      BY <2>1, <3>1, <3>3, ListFits
  <2> QED
    BY <2>2, <2>3
<1>14. 1 .. MaxStamp \subseteq Nat
  BY ONLY StoreDocumentsAssumption
<1> QED
  BY <1>2, <1>3, <1>4, <1>5, <1>6, <1>7, <1>8, <1>9, <1>10, <1>11, <1>12, <1>13, <1>14 DEF Cosmos!Methods

LEMMA CosmosChangesFit ==
  ASSUME StoreInv, storeKind = "cosmos", Cosmos!Changes
  PROVE  Fits
BY CosmosSame, TimeFits DEF Cosmos!Changes, Cosmos!TimePasses

(***************************************************************************)
(* What the kinds of store rely on holds after every step.                 *)
(***************************************************************************)

\* A step that writes one document, or takes some away.
Puts(id, d) == table' = [table EXCEPT ![id] = d]
TakesAway == \A id \in Ids : table'[id] \in {table[id], NoDoc}

LEMMA PutsIs ==
  ASSUME TableOK(table), NEW id \in Ids, NEW d, Puts(id, d)
  PROVE  table'[id] = d /\ \A i \in Ids \ {id} : table'[i] = table[i]
BY DEF TableOK, Puts

LEMMA TakenAway ==
  /\ UNCHANGED table => TakesAway
  /\ \A ids : table' = Without(table, ids) => TakesAway
  /\ table' = Empty => TakesAway
BY DEF TakesAway, Without, Empty

LEMMA NumberedStays ==
  ASSUME TableOK(table), Numbered,
         \/ TakesAway
         \/ \E id \in Ids : \E d : Puts(id, d) /\ (id[1] \notin {"failure", "page_assessment"} \/ d.row \in Nat)
  PROVE  Numbered'
<1>1. CASE TakesAway
  BY <1>1 DEF TakesAway, Numbered
<1>2. ASSUME NEW id \in Ids, NEW d, Puts(id, d), id[1] \notin {"failure", "page_assessment"} \/ d.row \in Nat
      PROVE  Numbered'
  BY <1>2, PutsIs DEF Numbered
<1> QED
  BY <1>1, <1>2

LEMMA SqliteStays ==
  ASSUME StoreInv, Numbered, storeKind \in {"sqlite", "sqlite_memory"}, NEW type, Sqlite!Methods(type) \/ Sqlite!Changes
  PROVE  Numbered'
<1> USE SqliteSame
<1>1. TableOK(table)
  BY DEF StoreInv
<1>2. /\ <<"state">>[1] \notin {"failure", "page_assessment"} /\ <<"lock">>[1] \notin {"failure", "page_assessment"}
      /\ <<"poll_run_summary">>[1] \notin {"failure", "page_assessment"}
      /\ \A x : <<"processed", x>>[1] \notin {"failure", "page_assessment"} /\ <<"assessment", x>>[1] \notin {"failure", "page_assessment"}
  OBVIOUS
<1>3. CASE Sqlite!LoadState \/ Sqlite!GetLatestPollRunSummary
  BY <1>1, <1>3, TakenAway, NumberedStays DEF Sqlite!LoadState, Sqlite!GetLatestPollRunSummary, Sqlite!Reads
<1>4. CASE Sqlite!CommitState \/ Sqlite!UpsertPollRunSummary
  <2>1. Puts(<<"state">>, [watermark |-> stamp + 1]) \/ Puts(<<"poll_run_summary">>, [of |-> stamp + 1])
    BY <1>4 DEF Sqlite!CommitState, Sqlite!UpsertPollRunSummary, Sqlite!Upsert, Sqlite!PutDocument, Puts
  <2> QED
    BY <1>1, <1>2, <2>1, IdsAre, NumberedStays
<1>5. ASSUME NEW run \in Runs, Sqlite!TryAcquireLease(run) \/ Sqlite!RenewLease(run) \/ Sqlite!ReleaseLease(run)
      PROVE  Numbered'
  <2>1. Puts(<<"lock">>, [owner |-> run, left |-> LeaseTime]) \/ UNCHANGED table \/ table' = Without(table, {<<"lock">>})
    BY <1>5 DEF Sqlite!TryAcquireLease, Sqlite!RenewLease, Sqlite!ReleaseLease, Sqlite!Upsert, Sqlite!PutDocument, Puts
  <2> QED
    BY <1>1, <1>2, <2>1, IdsAre, TakenAway, NumberedStays
<1>6. ASSUME NEW e \in StoreEvents, Sqlite!IsEventProcessed(e) \/ Sqlite!MarkProcessedEvent(e)
      PROVE  Numbered'
  <2>1. Puts(<<"processed", e>>, [left |-> MarkerTime]) \/ table' = Without(table, Expired(table) \cap {<<"processed", e>>})
    BY <1>6 DEF Sqlite!IsEventProcessed, Sqlite!MarkProcessedEvent, Sqlite!Upsert, Sqlite!PutDocument, Puts
  <2> QED
    BY <1>1, <1>2, <2>1, IdsAre, TakenAway, NumberedStays
<1>7. ASSUME NEW e \in StoreEvents, Sqlite!IncrementFailureCount(e) \/ Sqlite!MarkTerminalFailure(e)
      PROVE  Numbered'
  <2> DEFINE id == <<"failure", e>>
  <2>1. \E c, s : Puts(id, [count |-> c, status |-> s, at |-> stamp + 1, row |-> Sqlite!RowOf(id)])
    BY <1>7 DEF Sqlite!IncrementFailureCount, Sqlite!MarkTerminalFailure, Sqlite!Upsert, Sqlite!PutDocument, Puts
  <2>2. id \in Ids /\ id[1] = "failure"
    BY IdsAre
  <2> HIDE DEF id
  <2>3. Sqlite!RowOf(id) \in Nat
    BY <2>2, SqliteRow
  <2> QED
    BY <1>1, <2>1, <2>2, <2>3, NumberedStays
<1>8. ASSUME NEW p \in StorePages, Sqlite!GetAssessmentSnapshot(p) \/ Sqlite!UpsertAssessmentSnapshot(p)
      PROVE  Numbered'
  <2>1. Puts(<<"assessment", p>>, [version |-> stamp + 1]) \/ UNCHANGED table
    BY <1>8 DEF Sqlite!GetAssessmentSnapshot, Sqlite!UpsertAssessmentSnapshot, Sqlite!Upsert, Sqlite!PutDocument, Sqlite!Reads, Puts
  <2> QED
    BY <1>1, <1>2, <2>1, IdsAre, TakenAway, NumberedStays
<1>9. ASSUME NEW p \in StorePages, NEW status, Sqlite!UpsertPageAssessment(p, status)
      PROVE  Numbered'
  <2> DEFINE id == <<"page_assessment", p>>
  <2>1. Puts(id, [status |-> status, at |-> stamp + 1, row |-> Sqlite!RowOf(id)])
    BY <1>9 DEF Sqlite!UpsertPageAssessment, Sqlite!Upsert, Sqlite!PutDocument, Puts
  <2>2. id \in Ids /\ id[1] = "page_assessment"
    BY IdsAre
  <2> HIDE DEF id
  <2>3. Sqlite!RowOf(id) \in Nat
    BY <2>2, SqliteRow
  <2> QED
    BY <1>1, <2>1, <2>2, <2>3, NumberedStays
<1>10. ASSUME NEW since, Sqlite!ListRecentFailures(since) \/ Sqlite!ListRecentPageAssessments(since)
       PROVE  Numbered'
  BY <1>1, <1>10, TakenAway, NumberedStays DEF Sqlite!ListRecentFailures, Sqlite!ListRecentPageAssessments, Sqlite!Reads
<1>11. CASE Sqlite!Changes
  <2>1. CASE Sqlite!Reopen
    BY <1>1, <2>1, TakenAway, NumberedStays DEF Sqlite!Reopen
  <2>2. CASE Sqlite!TimePasses
    <3>1. table' = Older(table)
      BY <2>2 DEF Sqlite!TimePasses
    <3>2. \A id \in Ids : id[1] \in {"failure", "page_assessment"} => table'[id] = table[id]
      BY <1>1, <3>1, OlderIs
    <3> QED
      BY <3>2 DEF Numbered
  <2> QED
    BY <1>11, <2>1, <2>2 DEF Sqlite!Changes
<1> QED
  BY <1>3, <1>4, <1>5, <1>6, <1>7, <1>8, <1>9, <1>10, <1>11 DEF Sqlite!Methods

LEMMA VersionedStays ==
  ASSUME TableOK(table), Versioned,
         \/ TakesAway
         \/ \E id \in Ids : \E d : Puts(id, d) /\ (id # <<"state">> \/ d.version \in Nat)
  PROVE  Versioned'
<1>1. CASE TakesAway
  BY <1>1, IdsAre DEF TakesAway, Versioned
<1>2. ASSUME NEW id \in Ids, NEW d, Puts(id, d), id # <<"state">> \/ d.version \in Nat
      PROVE  Versioned'
  BY <1>2, PutsIs, IdsAre DEF Versioned
<1> QED
  BY <1>1, <1>2

LEMMA DynamoStays ==
  ASSUME StoreInv, Versioned, storeKind = "dynamo", NEW type, Dynamo!Methods(type) \/ Dynamo!Changes
  PROVE  Versioned'
<1> USE DynamoSame
<1>1. TableOK(table)
  BY DEF StoreInv
<1>2. /\ <<"lock">> # <<"state">> /\ <<"poll_run_summary">> # <<"state">>
      /\ \A t, x : <<t, x>> # <<"state">>
  OBVIOUS
<1>3. CASE Dynamo!LoadState \/ Dynamo!GetLatestPollRunSummary
  BY <1>1, <1>3, TakenAway, VersionedStays DEF Dynamo!LoadState, Dynamo!GetLatestPollRunSummary, Dynamo!Reads
<1>4. ASSUME NEW expected, Dynamo!CommitState(expected)
      PROVE  Versioned'
  <2> DEFINE version == Field(table[<<"state">>], "version", 0) + 1
             d == [watermark |-> stamp + 1, version |-> version]
  <2>1. Puts(<<"state">>, d)
    BY <1>4 DEF Dynamo!CommitState, Dynamo!PutItem, Dynamo!PutDocument, Dynamo!Get, Puts
  <2>2. version \in Nat
    BY DEF Versioned, Field
  <2>3. d.version = version
    OBVIOUS
  <2> HIDE DEF d, version
  <2> QED
    BY <1>1, <2>1, <2>2, <2>3, IdsAre, VersionedStays
<1>5. CASE Dynamo!UpsertPollRunSummary
  <2>1. Puts(<<"poll_run_summary">>, [of |-> stamp + 1])
    BY <1>5 DEF Dynamo!UpsertPollRunSummary, Dynamo!PutItem, Dynamo!PutDocument, Puts
  <2> QED
    BY <1>1, <1>2, <2>1, IdsAre, VersionedStays
<1>6. ASSUME NEW run \in Runs, Dynamo!TryAcquireLease(run) \/ Dynamo!RenewLease(run) \/ Dynamo!ReleaseLease(run)
      PROVE  Versioned'
  <2>1. \/ Puts(<<"lock">>, [owner |-> run, left |-> LeaseTime]) \/ UNCHANGED table
        \/ table' = Without(table, {<<"lock">>})
        \/ Puts(<<"lock">>, [table[<<"lock">>] EXCEPT !.left = LeaseTime])
    <3>1. [table EXCEPT ![<<"lock">>].left = LeaseTime] = [table EXCEPT ![<<"lock">>] = [table[<<"lock">>] EXCEPT !.left = LeaseTime]]
      BY <1>1 DEF TableOK
    <3> QED
      BY <1>6, <3>1 DEF Dynamo!TryAcquireLease, Dynamo!RenewLease, Dynamo!ReleaseLease, Dynamo!PutItem, Dynamo!PutDocument, Puts
  <2> QED
    BY <1>1, <1>2, <2>1, IdsAre, TakenAway, VersionedStays
<1>7. ASSUME NEW e \in StoreEvents, Dynamo!IsEventProcessed(e) \/ Dynamo!MarkProcessedEvent(e)
      PROVE  Versioned'
  <2>1. Puts(<<"processed", e>>, [left |-> MarkerTime]) \/ UNCHANGED table
    BY <1>7 DEF Dynamo!IsEventProcessed, Dynamo!MarkProcessedEvent, Dynamo!PutItem, Dynamo!PutDocument, Dynamo!Reads, Puts
  <2> QED
    BY <1>1, <1>2, <2>1, IdsAre, TakenAway, VersionedStays
<1>8. ASSUME NEW e \in StoreEvents, Dynamo!IncrementFailureCount(e) \/ Dynamo!MarkTerminalFailure(e)
      PROVE  Versioned'
  <2>1. \E d : Puts(<<"failure", e>>, d)
    BY <1>8 DEF Dynamo!IncrementFailureCount, Dynamo!MarkTerminalFailure, Dynamo!PutItem, Dynamo!PutDocument, Puts
  <2> QED
    BY <1>1, <1>2, <2>1, IdsAre, VersionedStays
<1>9. ASSUME NEW p \in StorePages, Dynamo!GetAssessmentSnapshot(p) \/ Dynamo!UpsertAssessmentSnapshot(p)
      PROVE  Versioned'
  <2>1. Puts(<<"assessment", p>>, [version |-> stamp + 1]) \/ UNCHANGED table
    BY <1>9 DEF Dynamo!GetAssessmentSnapshot, Dynamo!UpsertAssessmentSnapshot, Dynamo!PutItem, Dynamo!PutDocument, Dynamo!Reads, Puts
  <2> QED
    BY <1>1, <1>2, <2>1, IdsAre, TakenAway, VersionedStays
<1>10. ASSUME NEW p \in StorePages, NEW status, Dynamo!UpsertPageAssessment(p, status)
       PROVE  Versioned'
  <2>1. \E d : Puts(<<"page_assessment", p>>, d)
    BY <1>10 DEF Dynamo!UpsertPageAssessment, Dynamo!PutItem, Dynamo!PutDocument, Puts
  <2> QED
    BY <1>1, <1>2, <2>1, IdsAre, VersionedStays
<1>11. ASSUME NEW since, \/ Dynamo!ListRecentFailures(since) \/ Dynamo!ListRecentPageAssessments(since)
                         \/ Dynamo!QueryFails("events", since) \/ Dynamo!QueryFails("pages", since)
       PROVE  Versioned'
  BY <1>1, <1>11, TakenAway, VersionedStays
     DEF Dynamo!ListRecentFailures, Dynamo!ListRecentPageAssessments, Dynamo!QueryFails, Dynamo!Reads
<1>12. CASE Dynamo!Changes
  <2>1. CASE Dynamo!RemoveItem
    BY <1>1, <2>1, TakenAway, VersionedStays DEF Dynamo!RemoveItem
  <2>2. CASE Dynamo!TimePasses
    <3>1. table' = Older(table)
      BY <2>2 DEF Dynamo!TimePasses
    <3>2. table'[<<"state">>] = table[<<"state">>]
      <4>1. <<"state">> \in Ids /\ <<"state">>[1] \notin {"lock", "processed"}
        BY IdsAre
      <4> QED
        BY <1>1, <3>1, <4>1, OlderIs
    <3> QED
      BY <3>2 DEF Versioned
  <2> QED
    BY <1>12, <2>1, <2>2 DEF Dynamo!Changes
<1> QED
  BY <1>3, <1>4, <1>5, <1>6, <1>7, <1>8, <1>9, <1>10, <1>11, <1>12 DEF Dynamo!Methods

LEMMA LiveStays ==
  ASSUME TableOK(table), Live,
         \/ TakesAway
         \/ \E id \in Ids : \E d : Puts(id, d) /\ (id[1] # "processed" \/ d = [left |-> MarkerTime])
  PROVE  Live'
<1>1. \A e \in StoreEvents : <<"processed", e>> \in Ids /\ <<"processed", e>>[1] = "processed"
  BY IdsAre
<1> SUFFICES ASSUME NEW e \in StoreEvents, table'[<<"processed", e>>] # NoDoc
             PROVE  Field(table'[<<"processed", e>>], "left", 0) > 0
  BY DEF Live, LiveMarkers
<1>2. CASE table'[<<"processed", e>>] = table[<<"processed", e>>]
  BY <1>2 DEF Live, LiveMarkers
<1>3. CASE table'[<<"processed", e>>] = [left |-> MarkerTime]
  BY <1>3, StoreDocumentsAssumption DEF Field
<1>4. CASE TakesAway
  BY <1>1, <1>2, <1>4 DEF TakesAway
<1>5. ASSUME NEW id \in Ids, NEW d, Puts(id, d), id[1] # "processed" \/ d = [left |-> MarkerTime]
      PROVE  table'[<<"processed", e>>] \in {table[<<"processed", e>>], [left |-> MarkerTime]}
  BY <1>1, <1>5, PutsIs
<1> QED
  BY <1>2, <1>3, <1>4, <1>5

LEMMA CosmosStays ==
  ASSUME StoreInv, Live, storeKind = "cosmos", NEW type, Cosmos!Methods(type) \/ Cosmos!Changes
  PROVE  Live'
<1> USE CosmosSame
<1>1. TableOK(table)
  BY DEF StoreInv
<1>2. /\ <<"state">>[1] # "processed" /\ <<"lock">>[1] # "processed" /\ <<"poll_run_summary">>[1] # "processed"
      /\ \A x : <<"failure", x>>[1] # "processed" /\ <<"assessment", x>>[1] # "processed" /\ <<"page_assessment", x>>[1] # "processed"
  OBVIOUS
<1>3. ASSUME NEW lost, Cosmos!LoadState(lost) \/ Cosmos!GetLatestPollRunSummary(lost)
      PROVE  Live'
  BY <1>1, <1>3, TakenAway, LiveStays DEF Cosmos!LoadState, Cosmos!GetLatestPollRunSummary, Cosmos!Unwritten
<1>4. ASSUME NEW lost, Cosmos!CommitState(lost) \/ Cosmos!UpsertPollRunSummary
      PROVE  Live'
  <2>1. Puts(<<"state">>, [watermark |-> stamp + 1]) \/ Puts(<<"poll_run_summary">>, [of |-> stamp + 1])
    BY <1>4 DEF Cosmos!CommitState, Cosmos!UpsertPollRunSummary, Cosmos!UpsertItem, Cosmos!PutDocument, Puts
  <2> QED
    BY <1>1, <1>2, <2>1, IdsAre, LiveStays
<1>5. ASSUME NEW lost, NEW run, Cosmos!TryAcquireLease(run, lost) \/ Cosmos!RenewLease(run, lost) \/ Cosmos!ReleaseLease(run, lost)
      PROVE  Live'
  <2>1. Puts(<<"lock">>, [owner |-> run, left |-> LeaseTime]) \/ UNCHANGED table \/ table' = Without(table, {<<"lock">>})
    BY <1>5 DEF Cosmos!TryAcquireLease, Cosmos!RenewLease, Cosmos!ReleaseLease, Cosmos!UpsertItem, Cosmos!PutDocument, Puts
  <2> QED
    BY <1>1, <1>2, <2>1, IdsAre, TakenAway, LiveStays
<1>6. ASSUME NEW lost, NEW e \in StoreEvents, Cosmos!IsEventProcessed(e, lost) \/ Cosmos!MarkProcessedEvent(e)
      PROVE  Live'
  <2>1. Puts(<<"processed", e>>, [left |-> MarkerTime]) \/ UNCHANGED table
    BY <1>6 DEF Cosmos!IsEventProcessed, Cosmos!MarkProcessedEvent, Cosmos!UpsertItem, Cosmos!PutDocument, Cosmos!Unwritten, Puts
  <2> QED
    BY <1>1, <2>1, IdsAre, TakenAway, LiveStays
<1>7. ASSUME NEW lost, NEW e \in StoreEvents, Cosmos!IncrementFailureCount(e, lost) \/ Cosmos!MarkTerminalFailure(e, lost)
      PROVE  Live'
  <2>1. \E d : Puts(<<"failure", e>>, d)
    BY <1>7 DEF Cosmos!IncrementFailureCount, Cosmos!MarkTerminalFailure, Cosmos!UpsertItem, Cosmos!PutDocument, Puts
  <2> QED
    BY <1>1, <1>2, <2>1, IdsAre, LiveStays
<1>8. ASSUME NEW lost, NEW p \in StorePages, Cosmos!GetAssessmentSnapshot(p, lost) \/ Cosmos!UpsertAssessmentSnapshot(p)
      PROVE  Live'
  <2>1. Puts(<<"assessment", p>>, [version |-> stamp + 1]) \/ UNCHANGED table
    BY <1>8 DEF Cosmos!GetAssessmentSnapshot, Cosmos!UpsertAssessmentSnapshot, Cosmos!UpsertItem, Cosmos!PutDocument, Cosmos!Unwritten, Puts
  <2> QED
    BY <1>1, <1>2, <2>1, IdsAre, TakenAway, LiveStays
<1>9. ASSUME NEW p \in StorePages, NEW status, Cosmos!UpsertPageAssessment(p, status)
      PROVE  Live'
  <2>1. \E d : Puts(<<"page_assessment", p>>, d)
    BY <1>9 DEF Cosmos!UpsertPageAssessment, Cosmos!UpsertItem, Cosmos!PutDocument, Puts
  <2> QED
    BY <1>1, <1>2, <2>1, IdsAre, LiveStays
<1>10. ASSUME NEW lost, NEW since, Cosmos!ListRecentFailures(since, lost) \/ Cosmos!ListRecentPageAssessments(since, lost)
       PROVE  Live'
  BY <1>1, <1>10, TakenAway, LiveStays DEF Cosmos!ListRecentFailures, Cosmos!ListRecentPageAssessments, Cosmos!Unwritten
<1>11. CASE Cosmos!Changes
  <2> DEFINE o == Older(table)
  <2>1. table' = Without(o, Expired(o))
    BY <1>11 DEF Cosmos!Changes, Cosmos!TimePasses
  <2>2. TableOK(o)
    BY <1>1, OlderIs
  <2> HIDE DEF o
  <2> SUFFICES ASSUME NEW e \in StoreEvents, table'[<<"processed", e>>] # NoDoc
               PROVE  Field(table'[<<"processed", e>>], "left", 0) > 0
    BY DEF Live, LiveMarkers
  <2> DEFINE id == <<"processed", e>>
  <2>3. id \in Ids /\ id[1] = "processed" /\ DocsOf(id) = MarkerDoc
    BY IdsAre, DocsAre
  <2> HIDE DEF id
  <2>4. table'[id] = o[id] /\ id \notin Expired(o) /\ o[id] # NoDoc
    BY <2>1, <2>3 DEF Without, id
  <2>5. o[id].left # 0
    BY <2>3, <2>4 DEF Expired
  <2>6. o[id].left \in Nat
    <3>1. o[id] \in MarkerDoc
      BY <2>2, <2>3, <2>4 DEF TableOK
    <3> QED
      BY <3>1 DEF MarkerDoc
  <2> QED
    BY <2>4, <2>5, <2>6 DEF Field, id
<1> QED
  BY <1>3, <1>4, <1>5, <1>6, <1>7, <1>8, <1>9, <1>10, <1>11 DEF Cosmos!Methods

(***************************************************************************)
(* Every store implements the contract.                                    *)
(***************************************************************************)

LEMMA StoresBegin ==
  StoresInit => StoreInv /\ KindInv /\ Contract!ContractInit
<1> SUFFICES ASSUME StoresInit PROVE StoreInv /\ KindInv /\ Contract!ContractInit
  OBVIOUS
<1> USE DEF StoresInit, DocumentsInit
<1>1. \A id \in Ids : table[id] = NoDoc
  BY DEF Empty
<1>2. StoreInv
  <2>1. ASSUME NEW type \in {"failure", "page_assessment"} PROVE Stamped(type)
    <3>1. Stored(type) = {}
      BY <1>1, IdsOfRows DEF Stored, Things
    <3> QED
      BY <3>1 DEF Stamped
  <2>2. IF storeKind = "file" THEN FileHolds ELSE disk = Empty
    BY EmptyIsOK, TableIsNotTorn DEF FileHolds
  <2> QED
    BY <2>1, <2>2, EmptyIsOK DEF StoreInv
<1>3. KindInv
  BY <1>1, IdsAre DEF KindInv, Numbered, Live, Versioned
<1>4. StoredWatermark = 0 /\ StoredLease = [owner |-> NoDoc, left |-> 0] /\ StoredSummary = 0
  BY <1>1, IdsAre DEF StoredWatermark, StoredLease, StoredSummary, Field
<1>5. LiveMarkers = {}
  <2>1. \A e \in StoreEvents : Field(table[<<"processed", e>>], "left", 0) = 0
    BY <1>1, IdsAre DEF Field
  <2>2. \A e \in StoreEvents : ~(Field(table[<<"processed", e>>], "left", 0) > 0)
    <3> TAKE e \in StoreEvents
    <3>1. Field(table[<<"processed", e>>], "left", 0) = 0
      BY <2>1
    <3> HIDE DEF Field
    <3> QED
      BY <3>1
  <2> QED
    BY <2>2 DEF LiveMarkers
<1>6. /\ StoredFailures = [e \in StoreEvents |-> [count |-> 0, status |-> "none"]]
      /\ FailedAt = [e \in StoreEvents |-> 0] /\ AssessedAt = [p \in StorePages |-> 0]
  BY <1>1, IdsAre DEF StoredFailures, FailedAt, AssessedAt, Field
<1>7. StoredVersions = [k \in StorePages \X {"f"} |-> 0]
  <2>1. \A k \in StorePages \X {"f"} : k[1] \in StorePages
    OBVIOUS
  <2> QED
    BY <1>1, <2>1, IdsAre DEF StoredVersions, Field
<1>8. StoredRows = [k \in StorePages \X ({"f"} \cup {"clarification"}) |-> "none"]
  <2>1. \A k \in StorePages \X {"f", "clarification"} : k[1] \in StorePages
    OBVIOUS
  <2>2. {"f"} \cup {"clarification"} = {"f", "clarification"}
    OBVIOUS
  <2> QED
    BY <1>1, <2>1, <2>2, IdsAre DEF StoredRows, Field
<1>9. Contract!ContractInit
  BY <1>4, <1>5, <1>6, <1>7, <1>8 DEF Contract!ContractInit, Contract!StoreInit, Contract!Scope, Contract!AnyFramework
<1> QED
  BY <1>2, <1>3, <1>9

LEMMA StoresStep ==
  StoreInv /\ KindInv /\ StoresNext(DocumentTypes) => Fits /\ KindInv'
<1> SUFFICES ASSUME StoreInv, KindInv, NEW type \in DocumentTypes,
                    \/ storeKind \in {"memory", "file"} /\ (Memory!Methods(type) \/ Memory!Changes)
                    \/ storeKind \in {"sqlite", "sqlite_memory"} /\ (Sqlite!Methods(type) \/ Sqlite!Changes)
                    \/ storeKind = "dynamo" /\ (Dynamo!Methods(type) \/ Dynamo!Changes)
                    \/ storeKind = "cosmos" /\ (Cosmos!Methods(type) \/ Cosmos!Changes)
             PROVE  Fits /\ KindInv'
  BY DEF StoresNext
<1>1. CASE storeKind \in {"memory", "file"} /\ (Memory!Methods(type) \/ Memory!Changes)
  <2>1. Fits
    BY <1>1, MemoryFits, MemoryChangesFit
  <2> QED
    BY <1>1, <2>1 DEF KindInv, Fits
<1>2. CASE storeKind \in {"sqlite", "sqlite_memory"} /\ (Sqlite!Methods(type) \/ Sqlite!Changes)
  <2>1. Numbered
    BY <1>2 DEF KindInv
  <2>2. Fits /\ Numbered'
    BY <1>2, <2>1, SqliteFits, SqliteChangesFit, SqliteStays
  <2> QED
    BY <1>2, <2>2 DEF KindInv, Fits
<1>3. CASE storeKind = "dynamo" /\ (Dynamo!Methods(type) \/ Dynamo!Changes)
  <2>1. Versioned
    BY <1>3 DEF KindInv
  <2>2. Fits /\ Versioned'
    BY <1>3, <2>1, DynamoFits, DynamoChangesFit, DynamoStays
  <2> QED
    BY <1>3, <2>2 DEF KindInv, Fits
<1>4. CASE storeKind = "cosmos" /\ (Cosmos!Methods(type) \/ Cosmos!Changes)
  <2>1. Live
    BY <1>4 DEF KindInv
  <2>2. Fits /\ Live'
    BY <1>4, <2>1, CosmosFits, CosmosChangesFit, CosmosStays
  <2> QED
    BY <1>4, <2>2 DEF KindInv, Fits
<1> QED
  BY <1>1, <1>2, <1>3, <1>4

\* All five polling state stores, and the in-memory kinds of two of them, are the
\* store that the polling worker is modelled with: each method, list, expiry,
\* removal, restart and failed read of state_store.py, sqlite_state_store.py and
\* dynamo_state_store.py is a step the contract allows.
THEOREM StoresImplementContract == StoresSpec => BackendIsStore
<1>1. StoresInit => StoreInv /\ KindInv /\ Contract!ContractInit
  BY StoresBegin
<1>2. StoreInv /\ KindInv /\ [StoresNext(DocumentTypes)]_docVars
        => (StoreInv /\ KindInv)' /\ [Contract!ContractNext]_Contract!contractVars
  <2> SUFFICES ASSUME StoreInv, KindInv, [StoresNext(DocumentTypes)]_docVars
               PROVE  (StoreInv /\ KindInv)' /\ [Contract!ContractNext]_Contract!contractVars
    OBVIOUS
  <2>1. CASE StoresNext(DocumentTypes)
    BY <2>1, StoresStep DEF Fits
  <2>2. CASE UNCHANGED docVars
    <3>1. UNCHANGED <<storeKind, table, disk, reply, stamp, readFaults>>
      BY <2>2 DEF docVars
    <3>2. StoreInv'
      BY <3>1, RestKeeps
    <3>3. KindInv'
      BY <3>1 DEF KindInv, Numbered, Live, Versioned, LiveMarkers
    <3>4. Lasts' = Lasts
      BY <3>1 DEF Lasts, Torn
    <3>5. UNCHANGED Contract!contractVars
      BY <3>1, <3>4, Rest DEF Contract!contractVars, Contract!storeVars
    <3> QED
      BY <3>2, <3>3, <3>5
  <2> QED
    BY <2>1, <2>2
<1> QED
  BY <1>1, <1>2, PTL DEF StoresSpec, BackendIsStore, Contract!ContractSpec
=============================================================================
