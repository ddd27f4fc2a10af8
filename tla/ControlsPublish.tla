-------------------------- MODULE ControlsPublish --------------------------
(***************************************************************************)
(* The publication of framework controls (Corpus A) into the search index: *)
(* upload_controls_records of runtime/ingestion/publish_controls.py inside *)
(* the job execution that runs it (run_controls_azure), the request that   *)
(* starts the execution (corpus_a_ingest), the platform's retry of a       *)
(* failed execution, and the request that clears a framework.              *)
(*                                                                         *)
(* One framework: its documents have keys no other framework uses, and no  *)
(* query or deletion names another.  The keys (requirement_id) do not hold *)
(* the version, so two versions share them.  A document is the manifest it *)
(* was uploaded with, which determines its version and its text.           *)
(***************************************************************************)
EXTENDS Naturals, FiniteSets

CONSTANTS
  Req,          \* requirement ids
  Manifest,     \* payloads the parser can yield, told apart by manifest hash
  Records,      \* the requirement ids of each
  VersionOf,    \* its framework_version
  NoDoc,        \* "no document", "no manifest"
  Job,          \* job executions at one time
  Top,          \* documents the state query returns (1500)
  BatchSize,    \* records in one upload (200)
  DeleteSize,   \* ids in one deletion (500)
  PageSize,     \* documents a clear request looks up at a time (500)
  RetryLimit,   \* replica_retry_limit of the job
  MaxFaults     \* bound on failed items and dying executions

ASSUME PublishAssumption ==
  /\ Records \in [Manifest -> SUBSET Req]
  /\ \A m \in Manifest : Records[m] # {}
  /\ NoDoc \notin Manifest
  /\ Top \in Nat \ {0} /\ BatchSize \in Nat \ {0}
  /\ DeleteSize \in Nat \ {0} /\ PageSize \in Nat \ {0}
  /\ RetryLimit \in Nat
  /\ MaxFaults \in Nat

\* The state query returns all the documents of a framework version.
ASSUME TopAssumption == \A S \in SUBSET Req : Cardinality(S) <= Top

VARIABLES
  alone,     \* the operators let one writer finish before the next starts
  source,    \* the manifest the parser yields at present
  index,     \* the document of each requirement id
  pc,        \* where each execution is
  replace,   \* --replace-existing
  man,       \* the manifest it publishes
  doomed,    \* ids still to delete
  todo,      \* ids still to upload
  failed,    \* an item of an upload failed
  tries,     \* retries used
  outcome,   \* what the execution reported
  left,      \* history: ids whose deletion failed, unnoticed, and which are still there
  clearing,  \* where the clear request is
  purge,     \* the page of ids it is about to delete
  faults     \* faults spent

jobVars == <<pc, replace, man, doomed, todo, failed, tries, outcome>>
clearVars == <<clearing, purge>>
vars == <<alone, source, index, left, jobVars, clearVars, faults>>

Outcome == {"none", "skip_duplicate", "skip_conflict", "would_upload", "would_replace",
            "skipped_missing_source", "uploaded", "failed"}

TypeOK ==
  /\ alone \in BOOLEAN
  /\ source \in Manifest
  /\ index \in [Req -> Manifest \cup {NoDoc}]
  /\ pc \in [Job -> {"idle", "examine", "delete", "upload"}]
  /\ replace \in [Job -> BOOLEAN]
  /\ man \in [Job -> Manifest \cup {NoDoc}]
  /\ doomed \in [Job -> SUBSET Req]
  /\ todo \in [Job -> SUBSET Req]
  /\ failed \in [Job -> BOOLEAN]
  /\ tries \in [Job -> 0 .. RetryLimit]
  /\ outcome \in [Job -> Outcome]
  /\ left \in SUBSET Req
  /\ clearing \in {"idle", "search", "delete"}
  /\ purge \in SUBSET Req
  /\ faults \in 0 .. MaxFaults

\* The index after a publication of m, or of nothing, into an empty one.
Published(m) == [q \in Req |-> IF m # NoDoc /\ q \in Records[m] THEN m ELSE NoDoc]

Init ==
  /\ alone \in BOOLEAN
  /\ source \in Manifest
  /\ \E m \in Manifest \cup {NoDoc} : index = Published(m)
  /\ left = {}
  /\ pc = [j \in Job |-> "idle"]
  /\ replace = [j \in Job |-> FALSE]
  /\ man = [j \in Job |-> NoDoc]
  /\ doomed = [j \in Job |-> {}]
  /\ todo = [j \in Job |-> {}]
  /\ failed = [j \in Job |-> FALSE]
  /\ tries = [j \in Job |-> 0]
  /\ outcome = [j \in Job |-> "none"]
  /\ clearing = "idle"
  /\ purge = {}
  /\ faults = 0

\* Up to n members of S: a page of a query, or the next batch of a request.
Pages(S, n) == IF Cardinality(S) <= n THEN {S} ELSE {B \in SUBSET S : Cardinality(B) = n}

Loaded == {q \in Req : index[q] # NoDoc}

\* The documents the query for m's framework and version matches.
SameVersion(m) == {q \in Loaded : VersionOf[index[q]] = VersionOf[m]}

\* No execution and no clear request is at work.
Quiet == clearing = "idle" /\ \A j \in Job : pc[j] = "idle"

\* Faults are looked at with one writer at a time only.
SpendFault == alone /\ faults < MaxFaults /\ faults' = faults + 1

\* The members of B for which an item of a batch request fails.
ItemsFail(bad) == IF bad = {} THEN UNCHANGED faults ELSE SpendFault

Goto(j, label) == pc' = [pc EXCEPT ![j] = label]

-----------------------------------------------------------------------------
(* Starting an execution. *)

\* corpus_a_ingest skips a framework that has a document (already_ingested) unless
\* it is told to replace; an upload of source files and the command line do not.
Start(j) ==
  /\ pc[j] = "idle"
  /\ alone => Quiet
  /\ \E r, unasked \in BOOLEAN :
       /\ r \/ unasked \/ Loaded = {}
       /\ replace' = [replace EXCEPT ![j] = r]
  /\ Goto(j, "examine")
  /\ tries' = [tries EXCEPT ![j] = 0]
  /\ outcome' = [outcome EXCEPT ![j] = "none"]
  /\ UNCHANGED <<alone, source, index, left, man, doomed, todo, failed, clearVars, faults>>

-----------------------------------------------------------------------------
(* upload_controls_records. *)

\* The execution reports what it did and is over.
Report(j, what) ==
  /\ Goto(j, "idle")
  /\ outcome' = [outcome EXCEPT ![j] = what]
  /\ doomed' = [doomed EXCEPT ![j] = {}]
  /\ todo' = [todo EXCEPT ![j] = {}]
  /\ failed' = [failed EXCEPT ![j] = FALSE]

\* Bug: an id that has a document is taken for uploaded.
StartUploadMissing(j, m) ==
  /\ Goto(j, "upload")
  /\ todo' = [todo EXCEPT ![j] = Records[m] \ Loaded]

StartUpload(j, m) ==
  /\ Goto(j, "upload")
  /\ todo' = [todo EXCEPT ![j] = Records[m]]

\* Bug: what is there stays there.
ReplaceOver(j, m, existing) ==
  /\ StartUpload(j, m)
  /\ UNCHANGED <<doomed, failed, outcome>>

Replace(j, m, existing) ==
  /\ Goto(j, "delete")
  /\ doomed' = [doomed EXCEPT ![j] = existing]
  /\ UNCHANGED <<todo, failed, outcome>>

\* The duplicate gate, by the ids and manifest hashes of what the query returns.
Gate(j, m, existing, dry) ==
  LET duplicate == existing # {} /\ \E q \in existing : index[q] = m
  IN  \/ duplicate /\ Report(j, "skip_duplicate")
      \/ ~duplicate /\ existing # {} /\ ~replace[j] /\ Report(j, "skip_conflict")
      \/ ~duplicate /\ existing # {} /\ replace[j] /\ dry /\ Report(j, "would_replace")
      \/ ~duplicate /\ existing # {} /\ replace[j] /\ ~dry /\ Replace(j, m, existing)
      \/ existing = {} /\ dry /\ Report(j, "would_upload")
      \/ existing = {} /\ ~dry /\ StartUpload(j, m) /\ UNCHANGED <<doomed, failed, outcome>>

\* Parse the source and look at the index.  (--dry-run is told per execution;
\* it is drawn here, where it is first looked at.)
Examine(j) ==
  /\ pc[j] = "examine"
  /\ man' = [man EXCEPT ![j] = source]
  /\ \/ Report(j, "skipped_missing_source")
     \/ \E existing \in Pages(SameVersion(source), Top), dry \in BOOLEAN :
          Gate(j, source, existing, dry)
  /\ UNCHANGED <<alone, source, index, left, replace, tries, clearVars, faults>>

\* The index after the deletion of B, of which the items of bad failed.
Delete(B, bad) ==
  /\ index' = [q \in Req |-> IF q \in B \ bad THEN NoDoc ELSE index[q]]
  /\ left' = (left \ B) \cup {q \in bad : index[q] # NoDoc}

\* One delete_documents call; its result is not looked at.
DeleteBatch(j) ==
  /\ pc[j] = "delete"
  /\ \E B \in Pages(doomed[j], DeleteSize) :
       /\ \E bad \in SUBSET B :
            /\ ItemsFail(bad)
            /\ Delete(B, bad)
       /\ doomed' = [doomed EXCEPT ![j] = @ \ B]
       /\ IF doomed[j] \ B = {}
          THEN StartUpload(j, man[j])
          ELSE UNCHANGED <<pc, todo>>
  /\ UNCHANGED <<alone, source, replace, man, failed, tries, outcome, clearVars>>

\* Bug: the retries are not counted.
ExitAndRetry(j) ==
  /\ Goto(j, "examine")
  /\ tries' = [tries EXCEPT ![j] = @ + 1]
  /\ doomed' = [doomed EXCEPT ![j] = {}]
  /\ todo' = [todo EXCEPT ![j] = {}]
  /\ failed' = [failed EXCEPT ![j] = FALSE]
  /\ UNCHANGED outcome

\* An execution that exits with an error is run again with the same arguments.
ExitWithError(j) ==
  IF tries[j] < RetryLimit
  THEN /\ Goto(j, "examine")
       /\ tries' = [tries EXCEPT ![j] = @ + 1]
       /\ doomed' = [doomed EXCEPT ![j] = {}]
       /\ todo' = [todo EXCEPT ![j] = {}]
       /\ failed' = [failed EXCEPT ![j] = FALSE]
       /\ UNCHANGED outcome
  ELSE Report(j, "failed") /\ UNCHANGED tries

\* Bug: failed items are not counted.
EndUploadUncounted(j, someFailed) == Report(j, "uploaded") /\ UNCHANGED tries

\* After the last batch: records_failed > 0 is exit code 1.
EndUpload(j, someFailed) ==
  IF someFailed THEN ExitWithError(j) ELSE Report(j, "uploaded") /\ UNCHANGED tries

\* One merge_or_upload_documents call and the count of its failed items.
UploadBatch(j) ==
  /\ pc[j] = "upload"
  /\ \E B \in Pages(todo[j], BatchSize) : \E bad \in SUBSET B :
       /\ ItemsFail(bad)
       /\ index' = [q \in Req |-> IF q \in B \ bad THEN man[j] ELSE index[q]]
       /\ left' = left \ (B \ bad)
       /\ IF todo[j] \ B = {}
          THEN EndUpload(j, failed[j] \/ bad # {})
          ELSE /\ todo' = [todo EXCEPT ![j] = @ \ B]
               /\ failed' = [failed EXCEPT ![j] = @ \/ bad # {}]
               /\ UNCHANGED <<pc, doomed, tries, outcome>>
  /\ UNCHANGED <<alone, source, replace, man, clearVars>>

\* A call raises, or the execution is killed.
Dies(j) ==
  /\ pc[j] # "idle"
  /\ SpendFault
  /\ ExitWithError(j)
  /\ UNCHANGED <<alone, source, index, left, replace, man, clearVars>>

-----------------------------------------------------------------------------
(* Clearing the framework, and its publisher. *)

StartClear ==
  /\ alone /\ Quiet
  /\ clearing' = "search"
  /\ UNCHANGED <<alone, source, index, left, jobVars, purge, faults>>

ClearSearch ==
  /\ clearing = "search"
  /\ purge' \in Pages(Loaded, PageSize)
  /\ clearing' = IF purge' = {} THEN "idle" ELSE "delete"
  /\ UNCHANGED <<alone, source, index, left, jobVars, faults>>

\* A page that was not full was the last one; failed deletions are not noticed.
ClearDelete ==
  /\ clearing = "delete"
  /\ \E bad \in SUBSET purge : ItemsFail(bad) /\ Delete(purge, bad)
  /\ clearing' = IF Cardinality(purge) < PageSize THEN "idle" ELSE "search"
  /\ purge' = {}
  /\ UNCHANGED <<alone, source, jobVars>>

ClearDies ==
  /\ clearing # "idle"
  /\ SpendFault
  /\ clearing' = "idle"
  /\ purge' = {}
  /\ UNCHANGED <<alone, source, index, left, jobVars>>

\* The publisher of the framework amends it or brings out another version.
\* Concurrent executions are looked at with a source that stays as it is.
SourceChanges ==
  /\ alone
  /\ source' \in Manifest \ {source}
  /\ UNCHANGED <<alone, index, left, jobVars, clearVars, faults>>

Next ==
  \/ \E j \in Job : Start(j) \/ Examine(j) \/ DeleteBatch(j) \/ UploadBatch(j) \/ Dies(j)
  \/ StartClear \/ ClearSearch \/ ClearDelete \/ ClearDies
  \/ SourceChanges

Spec == Init /\ [][Next]_vars

-----------------------------------------------------------------------------
(* Properties. *)

\* The documents of m's version are the records of m, apart from old ones whose
\* deletion failed.
Whole(m) ==
  /\ SameVersion(m) \ left = Records[m]
  /\ \A q \in Records[m] : index[q] = m

\* While one writer works at a time, the documents of a framework version are
\* of one manifest, those whose deletion failed apart: through replacements
\* that fail, die or are retried half way, clearing, other versions that take
\* over requirement ids, and changes of the source between a failure and its
\* retry (upload_controls_records deletes before it uploads).
OneManifest ==
  alone =>
    \A p, q \in Loaded \ left :
      VersionOf[index[p]] = VersionOf[index[q]] => index[p] = index[q]

\* An execution that reports "uploaded" to one writer at a time leaves exactly
\* the records of its manifest in the index for the version.
UploadedIsWhole ==
  [][\A j \in Job :
       alone /\ pc[j] = "upload" /\ pc'[j] = "idle" /\ outcome'[j] = "uploaded"
         => Whole(man[j])']_vars

\* Executions that publish one manifest at the same time, with no fault, leave
\* the version whole once all are over, whoever deletes what another uploaded.
ConcurrentEndsWhole ==
  ~alone /\ Quiet /\ (\E j \in Job : outcome[j] = "uploaded") => Whole(source)

\* "framework_version_manifest_already_loaded" (publish_controls.py:315): what
\* is skipped as a duplicate is in the index.
DuplicateIsLoaded ==
  [][\A j \in Job :
       pc[j] = "examine" /\ outcome'[j] = "skip_duplicate" /\ pc'[j] = "idle"
         => \A q \in Records[source] : index[q] = source]_vars
=============================================================================
