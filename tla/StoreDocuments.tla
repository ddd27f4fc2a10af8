--------------------------- MODULE StoreDocuments ---------------------------
(***************************************************************************)
(* What the polling state stores of the orchestration have in common: the  *)
(* documents of one source by their ids, the dataclasses they are read     *)
(* into, and how lists are made from them.                                 *)
(*                                                                         *)
(* One call runs at a time: the worker is one thread, and PollCycle has    *)
(* the calls of two workers fall between each other.  An instant at which  *)
(* something ends is the time it has left; stamp stands for the stamps.    *)
(***************************************************************************)
EXTENDS Naturals, FiniteSets

CONSTANTS
  Runs, StoreEvents, StorePages,   \* runs, mentions and pages; the latter two are numbers
  LeaseTime, MarkerTime,           \* how long a lease and a marker last
  AttemptCap,                      \* the count that makes a failure terminal
  ShownRows, OverFetched,          \* limit of a list, and the factor of documents read for it
  MaxStamp, MaxReadFaults,         \* bounds on calls that write and on failed reads
  NoDoc

\* The documents, by the fields that are read back: a table without a schema, so
\* that some stores add a version or the row.
StateDoc == [watermark : Nat] \cup [watermark : Nat, version : Nat]
LockDoc == [owner : Runs, left : Nat]
SummaryDoc == [of : Nat]
MarkerDoc == [left : Nat]
FailureDoc ==
  LET status == {"failed_retryable", "failed_terminal"}
  IN  [count : Nat, status : status, at : Nat] \cup [count : Nat, status : status, at : Nat, row : Nat]
SnapshotDoc == [version : Nat]
AssessmentDoc ==
  LET status == {"assessed", "no_change"}
  IN  [status : status, at : Nat] \cup [status : status, at : Nat, row : Nat]

ASSUME StoreDocumentsAssumption ==
  /\ StoreEvents \subseteq Nat /\ IsFiniteSet(StoreEvents)
  /\ StorePages \subseteq Nat /\ IsFiniteSet(StorePages)
  /\ LeaseTime \in Nat /\ MarkerTime \in Nat \ {0} /\ AttemptCap \in Nat
  /\ ShownRows \in Nat /\ OverFetched \in Nat \ {0} /\ MaxStamp \in Nat /\ MaxReadFaults \in Nat
  /\ NoDoc \notin Runs
  /\ NoDoc \notin StateDoc \cup LockDoc \cup SummaryDoc \cup MarkerDoc \cup FailureDoc \cup SnapshotDoc \cup AssessmentDoc

VARIABLES
  storeKind,   \* "memory", "file", "cosmos", "sqlite", "sqlite_memory", "dynamo";
               \* "none" where no store is looked at
  table,       \* the documents, by id
  disk,        \* what the file of the local store holds
  reply,       \* what the last call returned
  stamp, readFaults

docVars == <<storeKind, table, disk, reply, stamp, readFaults>>

Ids == {<<"state">>, <<"lock">>, <<"poll_run_summary">>}
       \cup ({"processed", "failure"} \X StoreEvents) \cup ({"assessment", "page_assessment"} \X StorePages)
Empty == [id \in Ids |-> NoDoc]
Torn == [id \in {} |-> NoDoc]   \* a file that was cut off while it was written

DocumentsInit(kinds) ==
  /\ storeKind \in kinds
  /\ table = Empty /\ disk = Empty /\ reply = [none |-> 0] /\ stamp = 0 /\ readFaults = 0

\* A field of a document, or what the code takes instead of one.
Field(doc, name, otherwise) == IF doc = NoDoc THEN otherwise ELSE doc[name]
Without(t, ids) == [id \in Ids |-> IF id \in ids THEN NoDoc ELSE t[id]]

PutDocument(id, doc) == table' = [table EXCEPT ![id] = doc]
Return(r) == reply' = r
Writes == stamp < MaxStamp /\ stamp' = stamp + 1 /\ UNCHANGED <<storeKind, readFaults>>
Reads == UNCHANGED <<storeKind, table, stamp, readFaults>>

\* Time passes for every document that ends.
Older(t) == [id \in Ids |-> IF t[id] # NoDoc /\ id[1] \in {"lock", "processed"} /\ t[id].left > 0
                            THEN [t[id] EXCEPT !.left = @ - 1] ELSE t[id]]
Expired(t) == {id \in Ids : id[1] = "processed" /\ t[id] # NoDoc /\ t[id].left = 0}

Granted(lock, run) == lock = NoDoc \/ lock.left = 0 \/ lock.owner = run
Counted(doc) == LET n == Field(doc, "count", 0) IN IF n < AttemptCap THEN n + 1 ELSE AttemptCap
\* What there is of a type, and of a set of these as many as are shown, the
\* newest first.
Stored(type) == {x \in (IF type = "failure" THEN StoreEvents ELSE StorePages) : table[<<type, x>>] # NoDoc}
WrittenAt(type, x) == table[<<type, x>>].at
Newer(type, x, s) == Cardinality({y \in s : WrittenAt(type, y) > WrittenAt(type, x)})
Newest(type, s) ==
  [i \in 1 .. (IF Cardinality(s) < ShownRows THEN Cardinality(s) ELSE ShownRows) |->
     CHOOSE x \in s : Newer(type, x, s) = i - 1]
=============================================================================
