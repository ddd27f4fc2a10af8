--------------------------- MODULE PollingStores ---------------------------
(***************************************************************************)
(* The polling state stores side by side, and the contract all of them are *)
(* held to: the documents of a store, seen as the variables the polling    *)
(* worker is modelled with.                                                *)
(***************************************************************************)
EXTENDS StoreDocuments

Memory == INSTANCE MemoryStore
Sqlite == INSTANCE SqliteStore
Dynamo == INSTANCE DynamoStore
Cosmos == INSTANCE CosmosStore

StoreKinds == {"memory", "file", "cosmos", "sqlite", "sqlite_memory", "dynamo"}
DocumentTypes == {"state", "lock", "processed", "failure", "assessment", "page_assessment"}

StoresInit == DocumentsInit(StoreKinds)

\* Some types are enough to look at at a time: they have nothing to do with
\* each other.
StoresNext(types) ==
  \E type \in types :
    \/ storeKind \in {"memory", "file"} /\ (Memory!Methods(type) \/ Memory!Changes)
    \/ storeKind \in {"sqlite", "sqlite_memory"} /\ (Sqlite!Methods(type) \/ Sqlite!Changes)
    \/ storeKind = "dynamo" /\ (Dynamo!Methods(type) \/ Dynamo!Changes)
    \/ storeKind = "cosmos" /\ (Cosmos!Methods(type) \/ Cosmos!Changes)

StoresSpec == StoresInit /\ [][StoresNext(DocumentTypes)]_docVars

-----------------------------------------------------------------------------
(* The contract.  A failed read of Cosmos DB looks like a missing document, *)
(* what is in memory or in a torn file is not there for the next process,   *)
(* and the lists of SQLite and DynamoDB are made from a part of the         *)
(* documents.                                                               *)

StoredWatermark == Field(table[<<"state">>], "watermark", 0)
StoredLease == [owner |-> Field(table[<<"lock">>], "owner", NoDoc), left |-> Field(table[<<"lock">>], "left", 0)]
StoredSummary == Field(table[<<"poll_run_summary">>], "of", 0)
LiveMarkers == {e \in StoreEvents : Field(table[<<"processed", e>>], "left", 0) > 0}
StoredFailures ==
  [e \in StoreEvents |-> [count |-> Field(table[<<"failure", e>>], "count", 0),
                          status |-> Field(table[<<"failure", e>>], "status", "none")]]
FailedAt == [e \in StoreEvents |-> Field(table[<<"failure", e>>], "at", 0)]
StoredVersions == [k \in StorePages \X {"f"} |-> Field(table[<<"assessment", k[1]>>], "version", 0)]
StoredRows ==
  [k \in StorePages \X {"f", "clarification"} |->
     IF k[2] = "f" THEN Field(table[<<"page_assessment", k[1]>>], "status", "none") ELSE "none"]
AssessedAt == [p \in StorePages |-> Field(table[<<"page_assessment", p>>], "at", 0)]

Lasts == storeKind \notin {"memory", "sqlite_memory"} /\ (storeKind = "file" => disk # Torn)

Contract == INSTANCE StoreContract WITH
  Event <- StoreEvents, Page <- StorePages, Framework <- {"f"}, Runner <- Runs, NoOwner <- NoDoc,
  PageOf <- [e \in StoreEvents |-> CHOOSE p \in StorePages : TRUE], Requested <- [e \in StoreEvents |-> <<>>], Poison <- {},
  LeaseTTL <- LeaseTime, MaxAttempts <- AttemptCap, MaxFaults <- MaxReadFaults, Limit <- ShownRows, OverFetch <- OverFetched,
  SwallowReads <- TRUE, AtomicLease <- TRUE, MarkersExpire <- TRUE,
  watermark <- StoredWatermark, lease <- StoredLease, processed <- LiveMarkers, failures <- StoredFailures,
  snapshot <- StoredVersions, pageRow <- StoredRows, faults <- readFaults,
  summary <- StoredSummary, assessed <- AssessedAt, attempted <- FailedAt,
  swallows <- storeKind = "cosmos", listsWhole <- storeKind \notin {"sqlite", "sqlite_memory", "dynamo"}, lasting <- Lasts

\* Every step of a store is one the contract allows it, calls that are cut off,
\* restarts, and documents that end or are removed included: what the polling
\* worker is told is what it, or a run before it, had written.
BackendIsStore == Contract!ContractSpec
=============================================================================
