------------------------- MODULE PollingStateStore -------------------------
(***************************************************************************)
(* The documents a polling state store keeps for one source, and what each *)
(* method of the store does to them.  The Cosmos DB store is the reference *)
(* (runtime/assessment_orchestration/state_store.py); the in-memory,       *)
(* SQLite, local-file and DynamoDB stores have the same methods, and       *)
(* StoreContract says in what more than the two flags below they differ.   *)
(*                                                                         *)
(* Abstractions: a run id is the runner that drew it (ids are fresh uuids, *)
(* so an id is never shared by two live cycles); a lease's and a marker's  *)
(* expiry instants are the time they have left; an attempt count stops     *)
(* growing at MaxAttempts, the only value it is compared with; document    *)
(* fields that nothing reads back (messages, time stamps, poll_count) are  *)
(* left out.                                                               *)
(***************************************************************************)
EXTENDS Naturals, MentionEvents

CONSTANTS
  Runner,         \* poller processes sharing the store
  NoOwner,        \* "no lock document"
  LeaseTTL,       \* lease_ttl_seconds, in units of the model's Tick
  MaxAttempts,    \* max_event_attempts
  AtomicLease,    \* TRUE: the lock document is tested and written in one step
                  \* (in-memory store, which no two processes share)
                  \* FALSE: it is read, then written or deleted whatever it says
                  \* by then (Cosmos, SQLite, DynamoDB)
  SwallowReads,   \* TRUE: a failed read looks like a missing document (Cosmos)
  MarkersExpire,  \* TRUE: the horizon is longer than the 48 h marker TTL
  MaxFaults       \* bound on crashes, raised exceptions and failed reads

ASSUME StoreAssumption ==
  /\ LeaseTTL \in Nat \ {0}
  /\ MaxAttempts \in Nat \ {0}
  /\ MaxFaults \in Nat
  /\ AtomicLease \in BOOLEAN
  /\ SwallowReads \in BOOLEAN
  /\ MarkersExpire \in BOOLEAN
  /\ NoOwner \notin Runner

VARIABLES
  watermark,   \* occurred_at of the last committed event; 0 is ""
  lease,       \* the lock document: its owner and the time it has left
  processed,   \* events with a live processed marker
  failures,    \* the failure document of each event
  snapshot,    \* last assessed page version, per page and framework; 0 is none
  pageRow,     \* status of the page_assessment document, per page and scope
  faults       \* faults spent so far (bounded by MaxFaults)

storeVars == <<watermark, lease, processed, failures, snapshot, pageRow, faults>>

FailureStatus == {"none", "failed_retryable", "failed_terminal"}
RowStatus == {"none", "assessed", "no_change", "clarification_required"}

StoreTypeOK ==
  /\ watermark \in Nat
  /\ lease \in [owner : Runner \cup {NoOwner}, left : 0 .. LeaseTTL]
  /\ processed \in SUBSET Event
  /\ failures \in [Event -> [count : 0 .. MaxAttempts, status : FailureStatus]]
  /\ snapshot \in [Page \X Framework -> Nat]
  /\ pageRow \in [Page \X Scope -> RowStatus]
  /\ faults \in 0 .. MaxFaults

StoreInit ==
  /\ watermark = 0
  /\ lease = [owner |-> NoOwner, left |-> 0]
  /\ processed = {}
  /\ failures = [e \in Event |-> [count |-> 0, status |-> "none"]]
  /\ snapshot = [k \in Page \X Framework |-> 0]
  /\ pageRow = [k \in Page \X Scope |-> "none"]
  /\ faults = 0

-----------------------------------------------------------------------------
(* Reading a document. *)

SpendFault == faults < MaxFaults /\ faults' = faults + 1

\* _read answers None for a document it could not read, as for one that is
\* not there: lost is TRUE when the answer is that of a failed read.
ReadAnswers(lost) == IF lost THEN SwallowReads /\ SpendFault ELSE UNCHANGED faults

LoadWatermark(lost) == IF lost THEN 0 ELSE watermark

\* Bug: the failure document is looked up instead of the marker.
IsEventProcessedByFailure(e, lost) == ~lost /\ failures[e].status = "failed_terminal"

IsEventProcessed(e, lost) == ~lost /\ e \in processed

LastSnapshot(p, f, lost) == IF lost THEN 0 ELSE snapshot[<<p, f>>]

-----------------------------------------------------------------------------
(* The lock document. *)

\* The lock admits a new run: there is none, or it has expired.  A run id is
\* fresh, so the "already mine" branch of the code is never the one taken.
LeaseIsFree(lost) == lost \/ lease.left = 0

TakeLease(r) == lease' = [owner |-> r, left |-> LeaseTTL]

\* Bug: the lock document is deleted whoever owns it.
LeaseIsAnyones(r, lost) == ~lost

LeaseIsMine(r, lost) == ~lost /\ lease.owner = r

DeleteLease == lease' = [owner |-> NoOwner, left |-> 0]

ReleaseLease(r, lost) == IF LeaseIsMine(r, lost) THEN DeleteLease ELSE UNCHANGED lease

LeaseAges ==
  lease' = [owner |-> lease.owner, left |-> IF lease.left = 0 THEN 0 ELSE lease.left - 1]

-----------------------------------------------------------------------------
(* The state, marker, failure, snapshot and dashboard documents. *)

\* The watermark is overwritten, whatever it was: expected_etag is not used.
CommitState(t) == watermark' = t

MarkProcessedEvent(e) == processed' = processed \cup {e}

ExpireMarker(e) == e \in processed /\ processed' = processed \ {e}

Attempts(e, lost) ==
  LET before == IF lost THEN 0 ELSE failures[e].count
  IN  IF before < MaxAttempts THEN before + 1 ELSE MaxAttempts

IncrementFailureCount(e, lost) ==
  failures' = [failures EXCEPT ![e] =
                 [count |-> Attempts(e, lost), status |-> "failed_retryable"]]

MarkTerminalFailure(e, lost) ==
  failures' = [failures EXCEPT ![e] =
                 [count |-> IF lost THEN 0 ELSE @.count, status |-> "failed_terminal"]]

\* Bug: the first snapshot is kept for ever.
InsertSnapshotOnce(p, f, v) ==
  snapshot' = [snapshot EXCEPT ![<<p, f>>] = IF @ = 0 THEN v ELSE @]

UpsertSnapshot(p, f, v) == snapshot' = [snapshot EXCEPT ![<<p, f>>] = v]

UpsertPageAssessment(p, s, status) == pageRow' = [pageRow EXCEPT ![<<p, s>>] = status]
=============================================================================
