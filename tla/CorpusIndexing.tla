--------------------------- MODULE CorpusIndexing ---------------------------
(***************************************************************************)
(* Documents of Corpus B and Corpus C on Azure, from their upload to the   *)
(* search index: endpoints/ingestion.py and endpoints/corpus.py store      *)
(* files under the hash of their text and start an ingestion job,          *)
(* runtime/ingestion sets up and runs the indexer, and the clear and reset *)
(* operations take documents and files away again.                         *)
(*                                                                         *)
(* Jobs are processes of their own.  They share one data source and one    *)
(* indexer, which the search service runs on its own account.              *)
(***************************************************************************)
EXTENDS Naturals, Sequences, FiniteSets

CONSTANTS
    Uploads,     \* [corpus, files, reindex, trigger]: requests that may be made
    Legacy,      \* sets of blobs that may be there before
    MaxUploads, MaxAttempts,
    MaxUpsets,   \* clears, resets and failures together
    Jobs,        \* executions of the ingestion job, numbers in the order they start
    NoUpload

\* What is there before has been put there by such requests, or without metadata.
ASSUME LegacyAssumption ==
    \A b \in UNION Legacy : b \in [corpus : {"b", "c"}, hash : {b.hash}, ext : {b.ext}, whole : BOOLEAN, at : {1}]

VARIABLES
    blobs,       \* [corpus, hash, ext, whole, at]: whole says its metadata is complete
    docs,        \* [label, corpus, hash, ext]: blobs whose documents are in the index
    clock,       \* time of the last change of a blob
    upload,      \* the upload request being served
    clear,       \* the clear or reset being served: [scope, purge, stage]
    jobs,        \* Jobs -> [stage, scope, promised, alone, attempt, status]
    source,      \* the prefix the data source covers
    indexer,     \* [running, todo, done, mark, last]
    uploads, clears, indexFaults

corpusVars == <<blobs, docs, clock, upload, clear, jobs, source, indexer, uploads, clears, indexFaults>>

Everything == "all"
Name(b) == [corpus |-> b.corpus, hash |-> b.hash, ext |-> b.ext]
InScope(scope) == {b \in blobs : scope = Everything \/ b.corpus = scope}
Same(corpus, hash) == {b \in blobs : b.corpus = corpus /\ b.hash = hash}

\* A blob without metadata gets the label the skillset gives by default.
Label(b) == IF b.whole THEN b.corpus ELSE "legacy"
Document(b) == [label |-> Label(b), corpus |-> b.corpus, hash |-> b.hash, ext |-> b.ext]

IdleIndexer == [running |-> FALSE, todo |-> {}, next |-> 0, mark |-> 0, last |-> "none"]
NoClear == [scope |-> "none", purge |-> FALSE, stage |-> "none"]
NewJob == [stage |-> "off", scope |-> Everything, promised |-> {}, alone |-> TRUE, attempt |-> 1, status |-> "none"]

CorpusInitWith(present) ==
    /\ blobs \in present /\ docs = {} /\ clock = 1
    /\ upload = NoUpload /\ clear = NoClear
    /\ jobs = [j \in Jobs |-> NewJob]
    /\ source = Everything /\ indexer = IdleIndexer
    /\ uploads = 0 /\ clears = 0 /\ indexFaults = 0

CorpusInit == CorpusInitWith(Legacy)

Faulty == indexFaults + clears < MaxUpsets /\ indexFaults' = indexFaults + 1
Sound == UNCHANGED indexFaults

(***************************************************************************)
(* POST /api/corpus-b/ingest and /api/corpus-c/ingest.  The handlers run   *)
(* on the event loop and give it back only at their end, so one runs at a  *)
(* time.                                                                   *)
(***************************************************************************)
StartUpload(corpus) ==
    /\ upload = NoUpload /\ uploads < MaxUploads
    /\ \E u \in Uploads :
           /\ u.corpus = corpus
           /\ upload' = [corpus |-> corpus, todo |-> u.files, reindex |-> u.reindex, trigger |-> u.trigger,
                         stored |-> {}, skipped |-> {}, stage |-> "store", alone |-> (clear = NoClear)]
    /\ uploads' = uploads + 1
    /\ UNCHANGED <<blobs, docs, clock, clear, jobs, source, indexer, clears, indexFaults>>

UploadCorpusB == StartUpload("b")
UploadCorpusC == StartUpload("c")

File == Head(upload.todo)
Existing == Same(upload.corpus, File.hash)
NewBlob == [corpus |-> upload.corpus, hash |-> File.hash, ext |-> File.ext, whole |-> TRUE, at |-> clock + 1]
Put(kept) == blobs' = kept \cup {NewBlob}
Filing == upload # NoUpload /\ upload.stage = "store" /\ upload.todo # <<>>

\* The same text is there already, under the same type and with all metadata.
SkipDuplicate ==
    /\ Filing /\ Existing # {} /\ \A b \in Existing : b.whole /\ b.ext = File.ext
    /\ upload' = [upload EXCEPT !.todo = Tail(@), !.skipped = @ \cup {File.hash}]
    /\ UNCHANGED <<blobs, docs, clock, clear, jobs, source, indexer, uploads, clears, indexFaults>>

\* A new file, or one that replaces what is there under its hash: another
\* type, missing metadata, or metadata that cannot be read.  What it replaces
\* is deleted unless that fails, which is only logged.
StoreFile ==
    /\ Filing
    /\ clock' = clock + 1
    /\ LET others == {b \in Existing : b.ext # File.ext}
           rest == {b \in blobs : Name(b) # Name(NewBlob)}
       IN  \/ (Existing = {} \/ \E b \in Existing : ~b.whole \/ b.ext # File.ext) /\ Put(rest \ others) /\ Sound
           \/ Existing # {} /\ Put(rest \ others) /\ Faulty
           \/ others # {} /\ Put(rest) /\ Faulty
    /\ upload' = [upload EXCEPT !.todo = Tail(@), !.stored = @ \cup {NewBlob}]
    /\ UNCHANGED <<docs, clear, jobs, source, indexer, uploads, clears>>

StoreFails ==
    /\ Filing
    /\ Faulty
    /\ upload' = [upload EXCEPT !.todo = Tail(@)]
    /\ UNCHANGED <<blobs, docs, clock, clear, jobs, source, indexer, uploads, clears>>

Reindexes == upload.reindex /\ upload.stored = {} /\ upload.skipped # {}
Named == {b \in blobs : b.corpus = upload.corpus /\ b.hash \in upload.skipped}

\* Bug: the blobs keep their time, and the indexer passes over them.
MarkNothing ==
    /\ upload # NoUpload /\ upload.stage = "store" /\ upload.todo = <<>>
    /\ IF Reindexes THEN upload' = [upload EXCEPT !.stored = Named, !.stage = "start"]
       ELSE upload' = [upload EXCEPT !.stage = "start"]
    /\ Sound
    /\ UNCHANGED <<blobs, clock, docs, clear, jobs, source, indexer, uploads, clears>>

\* When everything was skipped and the request asks for it, the blobs get new
\* metadata, and with it a new time; one that fails is left out.
MarkForReindex ==
    /\ upload # NoUpload /\ upload.stage = "store" /\ upload.todo = <<>>
    /\ IF Reindexes
       THEN /\ clock' = clock + 1
            /\ \E lost \in {x \in SUBSET Named : Cardinality(x) <= 1} :
                   LET marked == {[b EXCEPT !.at = clock + 1] : b \in Named \ lost}
                   IN
                   /\ blobs' = (blobs \ (Named \ lost)) \cup marked
                   /\ upload' = [upload EXCEPT !.stored = marked, !.stage = "start"]
                   /\ IF lost = {} THEN Sound ELSE Faulty
       ELSE upload' = [upload EXCEPT !.stage = "start"] /\ Sound /\ UNCHANGED <<blobs, clock>>
    /\ UNCHANGED <<docs, clear, jobs, source, indexer, uploads, clears>>

\* Whether a job is to be started: nothing to do for duplicates alone, unless
\* they were to be indexed again.
Starts == upload.trigger /\ (upload.stored # {} \/ (upload.reindex /\ upload.skipped # {}))

Active(j) == jobs[j].stage \notin {"off", "ended"}
Disturbed(f) == [i \in Jobs |-> IF f[i].stage \notin {"off", "ended"} THEN [f[i] EXCEPT !.alone = FALSE] ELSE f[i]]

StartExecution(scope) ==
    \E j \in Jobs :
        /\ jobs[j].stage = "off" /\ \A i \in Jobs : jobs[i].stage = "off" => j <= i
        /\ jobs' = [Disturbed(jobs) EXCEPT ![j] = [NewJob EXCEPT
               !.stage = "index", !.scope = scope, !.promised = upload.stored,
               !.alone = (upload.alone /\ \A i \in Jobs : ~Active(i))]]

\* The start that names the corpus; if it fails one with the arguments of the
\* job's definition; if that fails too the request fails, and what it stored stays.
StartIngestion ==
    /\ upload # NoUpload /\ upload.stage = "start" /\ Starts
    /\ \/ StartExecution(upload.corpus) /\ Sound
       \/ StartExecution(Everything) /\ Faulty
       \/ Faulty /\ UNCHANGED jobs
    /\ upload' = NoUpload
    /\ UNCHANGED <<blobs, docs, clock, clear, source, indexer, uploads, clears>>

EndUpload ==
    /\ upload # NoUpload /\ upload.stage = "start" /\ ~Starts
    /\ upload' = NoUpload
    /\ UNCHANGED <<blobs, docs, clock, clear, jobs, source, indexer, uploads, clears, indexFaults>>

(***************************************************************************)
(* An execution of the job in azure mode.                                  *)
(***************************************************************************)
At(j, stage) == jobs[j].stage = stage
Goes(j, stage) == jobs' = [jobs EXCEPT ![j].stage = stage]
Ends(j, status) == jobs' = [jobs EXCEPT ![j].stage = "ended", ![j].status = status]

\* The index is created or found as it should be; one with another schema is
\* deleted with the indexer and made anew, empty.
EnsureIndex(j) ==
    /\ At(j, "index") /\ Goes(j, "source")
    /\ \/ Sound /\ UNCHANGED <<docs, indexer>>
       \/ Faulty /\ docs' = {} /\ indexer' = IdleIndexer
    /\ UNCHANGED <<blobs, clock, upload, clear, source, uploads, clears>>

\* Data source, skillset and indexer are set; the data source is shared.
EnsureSource(j) ==
    /\ At(j, "source") /\ Goes(j, "run")
    /\ source' = jobs[j].scope
    /\ UNCHANGED <<blobs, docs, clock, upload, clear, indexer, uploads, clears, indexFaults>>

EnsureFails(j) ==
    /\ jobs[j].stage \in {"index", "source"} /\ Ends(j, "raised")
    /\ Faulty
    /\ UNCHANGED <<blobs, docs, clock, upload, clear, source, indexer, uploads, clears>>

\* Starting the indexer, or attaching to a run that another job started.  The
\* status may still be that of the run before.
RunIndexer(j) ==
    /\ At(j, "run")
    /\ IF indexer.running
       THEN jobs' = [jobs EXCEPT ![j].stage = "wait", ![j].alone = FALSE] /\ Sound /\ UNCHANGED indexer
       ELSE LET found == {b \in InScope(source) : b.at > indexer.mark}
                times == {indexer.mark} \cup {b.at : b \in found}
                started(latest) == [indexer EXCEPT !.running = TRUE, !.todo = found, !.next = latest]
            IN  \E latest \in times :
                    /\ \A t \in times : t <= latest
                    /\ \/ Goes(j, "wait") /\ indexer' = [started(latest) EXCEPT !.last = "inProgress"] /\ Sound
                       \/ /\ jobs' = [jobs EXCEPT ![j].stage = "wait", ![j].alone = FALSE]
                          /\ indexer' = started(latest) /\ Faulty
    /\ UNCHANGED <<blobs, docs, clock, upload, clear, source, uploads, clears>>

Limit(j) == jobs[j].attempt < MaxAttempts

\* Bug: any status but an error counts as success.
TakeAnyStatus(j) ==
    /\ At(j, "wait")
    /\ Ends(j, IF indexer.last = "transientFailure" THEN "failed" ELSE "success")
    /\ UNCHANGED <<blobs, docs, clock, upload, clear, source, indexer, uploads, clears, indexFaults>>

\* Success ends the job; a failure for the rate limit is tried again after a
\* pause; any other failure, and waiting too long, end it as failed.
WaitForIndexer(j) ==
    /\ At(j, "wait")
    /\ \/ indexer.last = "success" /\ Ends(j, "success") /\ Sound
       \/ indexer.last = "transientFailure" /\ Ends(j, "failed") /\ Sound
       \/ /\ indexer.last = "transientFailure" /\ Limit(j) /\ Sound
          /\ jobs' = [jobs EXCEPT ![j].stage = "run", ![j].attempt = @ + 1]
       \/ indexer.last # "success" /\ Ends(j, "timeout") /\ Faulty
    /\ UNCHANGED <<blobs, docs, clock, upload, clear, source, indexer, uploads, clears>>

(***************************************************************************)
(* The indexer of the search service (external): it takes the blobs of the *)
(* data source that changed since its mark, one by one.                    *)
(***************************************************************************)
IndexBlob ==
    /\ indexer.running
    /\ \E b \in indexer.todo :
           /\ docs' = {d \in docs : Name(d) # Name(b)} \cup {Document(x) : x \in {y \in blobs : Name(y) = Name(b)}}
           /\ indexer' = [indexer EXCEPT !.todo = @ \ {b}]
    /\ UNCHANGED <<blobs, clock, upload, clear, jobs, source, uploads, clears, indexFaults>>

FinishRun ==
    /\ indexer.running /\ indexer.todo = {}
    /\ indexer' = [indexer EXCEPT !.running = FALSE, !.last = "success", !.mark = indexer.next]
    /\ UNCHANGED <<blobs, docs, clock, upload, clear, jobs, source, uploads, clears, indexFaults>>

\* No item may fail: the run ends there, and what it did not index is still
\* newer than the mark.
RunFails ==
    /\ indexer.running
    /\ indexer' = [indexer EXCEPT !.running = FALSE, !.last = "transientFailure", !.todo = {}]
    /\ Faulty
    /\ UNCHANGED <<blobs, docs, clock, upload, clear, jobs, source, uploads, clears>>

(***************************************************************************)
(* Clearing a corpus, and the reset mode of the job, which takes all.      *)
(***************************************************************************)
StartClear(scope) ==
    /\ clear = NoClear /\ indexFaults + clears < MaxUpsets
    /\ \E purge \in BOOLEAN : clear' = [scope |-> scope, purge |-> purge, stage |-> "docs"]
    /\ clears' = clears + 1
    /\ jobs' = Disturbed(jobs) /\ upload' = IF upload = NoUpload THEN upload ELSE [upload EXCEPT !.alone = FALSE]
    /\ UNCHANGED <<blobs, docs, clock, source, indexer, uploads, indexFaults>>

ClearCorpusB == StartClear("b")
ClearCorpusC == StartClear("c")
Reset == StartClear(Everything)

Then(stage) == clear' = IF stage = "blobs" /\ ~clear.purge THEN NoClear ELSE [clear EXCEPT !.stage = stage]

\* Documents go by their label, page by page.
ClearDocs ==
    /\ clear.stage = "docs"
    /\ docs' = {d \in docs : clear.scope # Everything /\ d.label # clear.scope}
    /\ Then(IF clear.scope = Everything THEN "reset" ELSE "blobs")
    /\ UNCHANGED <<blobs, clock, upload, jobs, source, indexer, uploads, clears, indexFaults>>

\* Only the reset makes the indexer forget its mark, and it ends with an
\* exception when the indexer runs.
ResetIndexer ==
    /\ clear.stage = "reset"
    /\ IF indexer.running THEN clear' = NoClear /\ UNCHANGED indexer
       ELSE Then("blobs") /\ indexer' = [indexer EXCEPT !.mark = 0, !.last = "reset"]
    /\ UNCHANGED <<blobs, docs, clock, upload, jobs, source, uploads, clears, indexFaults>>

\* Blobs go by their prefix, one by one; a failure leaves the rest and is
\* logged.
ClearBlobs ==
    /\ clear.stage = "blobs"
    /\ \/ blobs' = blobs \ InScope(clear.scope) /\ Sound
       \/ \E left \in {{b} : b \in InScope(clear.scope)} : blobs' = (blobs \ InScope(clear.scope)) \cup left /\ Faulty
    /\ clear' = NoClear
    /\ UNCHANGED <<docs, clock, upload, jobs, source, indexer, uploads, clears>>

ClearFails ==
    /\ clear.stage = "docs"
    /\ clear' = NoClear /\ Faulty
    /\ UNCHANGED <<blobs, docs, clock, upload, jobs, source, indexer, uploads, clears>>

CorpusNext ==
    \/ UploadCorpusB \/ UploadCorpusC \/ SkipDuplicate \/ StoreFile \/ StoreFails \/ MarkForReindex \/ StartIngestion \/ EndUpload
    \/ \E j \in Jobs : EnsureIndex(j) \/ EnsureSource(j) \/ EnsureFails(j) \/ RunIndexer(j) \/ WaitForIndexer(j)
    \/ IndexBlob \/ FinishRun \/ RunFails
    \/ ClearCorpusB \/ ClearCorpusC \/ Reset \/ ClearDocs \/ ResetIndexer \/ ClearBlobs \/ ClearFails

CorpusSpec == CorpusInit /\ [][CorpusNext]_corpusVars

(***************************************************************************)
(* Properties.                                                             *)
(***************************************************************************)

\* When an execution of the ingestion job reports success, every file that the
\* request which started it stored or marked, and that is still there, is in
\* the index, whatever the duplicates, repairs, retries and rebuilt indexes on
\* the way: unless another job, a clear or a stale status came in between, since
\* the data source, the indexer and its status belong to all jobs.
SuccessIsIndexed ==
    [][\A j \in Jobs : At(j, "wait") /\ jobs[j].alone /\ jobs'[j].status = "success" =>
           \A b \in blobs \cap jobs[j].promised : Name(b) \in {Name(d) : d \in docs}]_corpusVars
=============================================================================
