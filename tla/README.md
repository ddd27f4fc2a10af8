# A verification project for the compliance assessment service

TLA+ models of the service in this repository, TLC configurations that check
them on small instances, and theorems about them that TLAPS proves. File and
line references are to the repository (`src/` in `PROJECT.json`).

The service answers questions about, and assesses documents against, published
security frameworks. *Corpus A* is the framework controls, *Corpus B* narrative
guidance, *Corpus C* the artefacts to assess. A web application (`query_web/`)
uploads, asks and reports; ingestion jobs (`runtime/ingestion/`) fill search
indexes; a polling worker (`runtime/assessment_orchestration/`) watches
Confluence for mentions of the assessment agent, assesses the page they are on
and posts the result as comments.

## 1. Inventory

| Component | State it keeps | Operations | Talks to | Hard behaviour |
|---|---|---|---|---|
| Polling worker (`polling_worker.py`) | nothing that outlives a cycle | one cycle: lease, fetch, attempt each mention, mark, commit, summary, release | state store, Confluence, adapter | crashes and failing calls between any two steps; retries; quarantine; two processes |
| State stores (`state_store.py`, `sqlite_state_store.py`, `dynamo_state_store.py`) | watermark, lease, processed markers, failure counters, assessment snapshots, dashboard rows, run summaries | one read or write of one document, lists of the newest | a database or a file | non-atomic lease, reads whose failure looks like absence, expiring markers, lists cut short |
| Confluence (`mcp/confluence.py`) | pages, mentions, comments (external) | search by creation minute, access check, read page, post comment | | edits, index delay, result limit, no idempotency for comments |
| Orchestrator adapter and assessment agent (`interfaces.py`, `assessment_runtime.py`, `intake.py`, `queue.py`) | audit records | accept, resolve, check access, read, search, assess | Confluence, SharePoint, Azure, indexes, models | order of check, read and record; a failure on the way |
| Azure scope (`mcp/azure_resource.py`) | none | list or read resources, list policy assignments, read policies | Azure Resource Manager | pages, limits, partial answers |
| Controls publication (`publish_controls*.py`, `controls_*orchestrator.py`, `endpoints/corpus.py`, `local_startup.py`) | controls index, each document with its manifest hash; uploaded framework files; local JSONL files and memory | upload, duplicate gate, replace, batches, clear, job start, restart | search index, object storage, job platform | crash between batches, failed items, concurrent executions, job retry |
| Corpus B and C, grounding ingestion (`endpoints/ingestion.py`, `corpus.py`, `reset.py`, `runtime/ingestion/`) | blobs and their metadata, local evidence file, index documents, one shared indexer | upload with duplicate detection and repair, start job, reindex, clear, reset | object storage, index, job platform | one indexer for all jobs, stale status, partial failure, overlap |
| Relationship graph (`graph_*.py`, `endpoints/graph.py`) | artefact files, published objects, SQLite tables, adapter cache | build, publish, load, refresh, list, query, related, export, communities | files, object storage | torn reads, half-published snapshots, concurrent builds, limits |
| Conversations (`endpoints/conversations.py`, `ask.py`, `conversation_store.py`) | one document per conversation | load, append message, answer or rating, save | database, model | lost updates |
| Question answering (`endpoints/ask.py`, `pipeline/`) | none | select corpora, retrieve, expand, draft, evaluate, amend | indexes, graph, models | scope after expansion, retries within retries, blank answers |
| Report jobs (`endpoints/compliance.py`, `static/index.js`) | a dictionary of jobs in one process | start, progress, finish, poll | worker threads, clients | torn reads, restarts, replicas |
| Framework parsers, service clients, security, shell, observability, infrastructure | | | | not modelled; each has its reason in `PROJECT.json` |

What makes each correct:

* **Polling worker and stores.** A mention is answered before it is marked; a
  failed attempt holds later mentions back and is repeated until the mention is
  answered or quarantined; an assessment is posted once; a processed mention is
  left alone; two cycles do not run together; all stores mean the same by the
  same call; an answer in several comments is the whole report in order.
* **Assessments.** Nothing is read before access is granted and on record,
  nothing is sent on before the reading is; a model that failed is not mistaken
  for compliance.
* **Controls publication.** What is reported as loaded is loaded, whole, and
  made of the files of the request; a framework version has the records of one
  manifest; a failed run can be repeated until it succeeds.
* **Corpus B and C.** A job that reports success has indexed the files of its
  request; local files and memory agree.
* **Relationship graph.** A reader sees the nodes and edges of one build and is
  never behind; a reply cut short says so.
* **Questions.** Only selected corpora are used, the evaluation is of the
  answer that is returned, costs are bounded, controls fit the question.
* **Conversations.** What was saved is not lost. **Report jobs.** A browser
  that asked gets an answer; a failure does not look like compliance.

The places where the code is exposed to these, line by line, are the `hazards`
of `PROJECT.json`, each with the properties that would catch it.

## 2. The modules

```
MentionEvents          mentions, pages, frameworks
  PollingStateStore    the documents of the worker and what each method does to them
  ConfluenceSite       users, search, comments
    PollCycle          the worker: one action per call, composed with both
      PollCycleProperties   what is asked of it
        MCPollCycle         TLC instances (poll_*.cfg)
        PollCycleProofs       types, dry runs, races of the lease
        PollTurnProofs        what is posted and how often, the order of
                              mentions, and the desk
MentionDesk            abstract specification PollCycle implements

ControlsPublish        publication of one framework's controls on Azure
  MCControlsPublish    TLC instances (controls_*.cfg)
  ControlsProofs

GraphSnapshot          building, publishing and reading graphs        - GraphProofs
GraphContent           what a build puts into a graph                 - GraphProofs
  GraphQuery           what graph requests and expansions answer      - GraphProofs
Conversations          one conversation and its overlapping requests  - ConversationProofs
AnswerPipeline         one question, from the request to the reply    - ConversationProofs
ControlsSearch         which controls a question gets                 - ConversationProofs
  MCWeb                TLC instances of the five (web_requests.cfg, graph_seeds.cfg)

ReportJobs             a report, its job thread and the browser       - WorkProofs
CorpusIndexing         Corpus B and C on Azure                        - WorkProofs
GroundingJobAws        Corpus B and C on AWS                          - WorkProofs
LocalCorpus            Corpus B and C of a local installation         - WorkProofs
ControlsSources        uploaded frameworks of Corpus A and AWS        - WorkProofs
LocalControls          Corpus A of a local installation               - WorkProofs
AzureExtract           what is read of an Azure scope                 - AssessmentProofs
  AssessmentStages     one assessment and its audit trail             - AssessmentProofs
CommentParts           a report as several comments                   - AssessmentProofs
StoreContract          abstract specification of a state store (extends PollingStateStore)
StoreDocuments         documents by id, what they hold and how lists are made
  MemoryStore, SqliteStore, DynamoStore, CosmosStore
  PollingStores        the stores, and how they are seen as the contract - StoreProofs
  MCWork               TLC instance of all these (background_work.cfg)
```

### The polling worker

**PollCycle** has one process per `Runner`. `pc[r]` is the store or Confluence
call the process makes next; every such call is an action, so that a crash, an
exception, a user or another process can come between any two. Where the code
makes several calls that change nothing (loading the state and searching), they
are one action.

| Action | Code (`polling_worker.py`) |
|---|---|
| `AcquireLease`, or `ReadLease` then `WriteLease` | `try_acquire_lease`, 859 |
| `Fetch` | `load_state` and the search from the watermark, or from the initial lookback, 879-890 |
| `TakeNext`, `SkipProcessed`, `EndOfBatch` | the loop and the marker test, 905-919 |
| `ReadContent`, `ClarifyRow`, `PostClarification` | the page, for its version and hash, and framework scopes, 654-710 |
| `Compare`, `NoChangeRow`, `PostNoChange` | the comparison with the last snapshot, 714-762 |
| `Assess`, `SaveSnapshot`, `SaveRow`, `PostPart` | assessment, 764-829, with the second read of the page in `collect_grounding` (`interfaces.py:248-296`), and `_post_assessment_comments` |
| `MarkProcessed`, `CommitProcessed` | 923-931 |
| `CountFailure`, `MarkTerminal`, `CommitQuarantined` | 932-955; `AfterFailure` is the choice between them and the `break` |
| `SaveSummary`, `Release` | the `finally` block, 974-985 |
| `AttemptRaises`, `CycleRaises`, `PoisonRaises` | any of these calls raising, inside the attempt or outside it |
| `Crash`, `Restart` | the process ends; the platform starts it again |
| `Tick`, `MarkerExpires`, `Users` | lease time, marker TTL, people writing in Confluence |

A page is its version number. An assessment is its framework, the version it is
stamped with, which `ReadContent` read (`ver`), and the version it is made of,
which `Assess` reads (`text`): the page may be edited between the two. A comment
is what it answers (`Comment`); one that is posted again is in `reposted`. As
long as nothing is committed the search begins `initial_lookback` before now, so
at a time that moves with the clock: `opening`, one of `Openings` and never
earlier than before. Times are positions on one clock, `MinuteLen` to a minute, because
the search compares minutes and the order within a batch compares times.
Store variants differ in two flags: `AtomicLease` (in-memory, so with one
process only: `CycleAssumption`) or read then write (Cosmos, SQLite, DynamoDB),
and `SwallowReads` (Cosmos: a failed read looks like a missing document).
`MarkersExpire` adds the end of a marker's TTL. Two history variables tell what
the lock document does not: `lockRead` has the processes that have read it as it
still is, and `raced` says that one wrote or deleted it without having done so.

**MentionDesk** says what the worker promises without store, lease or crash: a
mention is answered, closed or quarantined after every visible one that was
written before it and not edited since, closed only after it is answered, and a
quarantined one may be reopened. Until the first is settled the oldest may
lapse, and nobody waits for them. `PollCycle` implements it under
`answered <- {e : Answered(e)}`, `quarantined <- {e : Quarantined(e)}`,
`lapsed <- {e : Lapsed(e)}` (written before the window of the initial lookback)
and `started <- watermark # 0`.

**CommentParts** is the answer to one mention: sections of given lengths are
packed into bodies (`PackSection`, one step per section, `FinishPacking`),
bodies are posted until one fails (`PostPart`, `PostFails`), and the next
attempt starts over with a report that may be another (`AnswerAgain`). A body is
the first and last of the sections it has and their length together; `filled` is
the code's own count of that length (`current_len`).

### The state stores

**StoreContract** is a store as the worker sees it, made of the operators of
`PollingStateStore` that `PollCycle` uses: every method takes effect at once and
answers from what was written. What stores may differ in are its variables
`swallows` (a failed read may look like a missing document), `listsWhole` (a list
is made from all documents) and `lasting` (what is stored is there for the next
process). **StoreDocuments** holds what the implementations have in common:
documents by id and the dataclasses they are read into, times to live, and
lists, whose order is given by ranks: the *i*-th row is the one with *i* - 1 newer
ones. **MemoryStore** (with and without a file), **SqliteStore**,
**DynamoStore** and **CosmosStore** each have one operator per method, in the form
the code has: read, compare, put, conditional put, delete. **PollingStores** puts
them side by side, `storeKind` naming the one at work (`"memory"`, `"file"`,
`"sqlite"`, `"sqlite_memory"`, `"dynamo"`, `"cosmos"`), and holds the refinement
mapping. `BackendIsStore` holds each step of each store to the contract: calls cut
off half way, restarts, expiry and failed reads included. Documents of
different types have ids of different prefixes and never meet, so the instance
looks at one type at a time; the theorem has all types together.

### The web application

**GraphSnapshot**: a build is the list of its calls (`BuildPlan`): open and
flush two files all builds share, then publish two objects or replace two
tables; any of them may raise (`BuildRaises`) and the process may `Restart`. A
part of the graph is the number of the build that wrote it; `source[p]` is what
was written to it in turn. A reader looks at the state of both parts, reads both,
and remembers the state it saw.

| Action | Code |
|---|---|
| `StartBuild`, `OpenFile`, `FlushFile` | `POST /api/graph/build`, `_write_jsonl` |
| `PutObject` | publication of the snapshot, one object each |
| `LoadFile`, `Begin`, `Fill`, `Commit` | `load_artifact_files`, `replace_graph` |
| `StartRequest`, `EndRequest` | `create_graph_store` |
| `StartOp`, `SeeNodes`, `SeeEdges`, `ReadNodes`, `ReadEdges` | an operation of the store with `_refresh_from_artifacts_if_needed` |
| `SourceFails` | object storage does not answer |

**GraphContent** and **GraphQuery** are functions of the controls and chunks a
graph is built from: ids are the tuples they are made of, texts are sets of
words, confidences are counts of shared words. The subgraph search goes edge by
edge (`StartSubgraph`, `Expand`, `StopFull`, with a budget per seed for an
expansion), `Related`, `Query`, `List` and `Export` are the replies with the
code's limits in the code's order, and `StartCommunity`, `LabelNext`,
`ShowCommunities` are the label propagation, so that TLC compares it with
connected components. The queues of these searches are sets, with the depth of
each node: nodes of one depth are taken in an arbitrary order, because the
properties do not depend on the one the code has.

**Conversations**: each client loads the whole conversation
(`LoadConversation`), changes its copy (`AddAnswer`, `AddMessage`, `AddRating`,
`RejectRating`) and saves it (`SaveConversation`), or fails (`RequestFails`). A
message is its time stamp. `told` holds what clients were told is done, `exposed`
what was saved while another request held a copy.

**AnswerPipeline**: one question. `AskPage` and `AskApi` take the parameters of
the two routes and, on the page, what the conversation's earlier turns and
feedback tell of (`earlier`); then the guard and its validator (`BlockQuestion`,
`AllowQuestion`), `Retrieve`, `Rebalance`, `SearchControls`,
`ExpandByGraph`, the communities, `SetScope`, drafts (`ModelAnswers`,
`ModelIsBlank`, `RetryAnswers`, and once from the beginning after a `TypeError`,
`BeginAnew`) and evaluations (`Evaluate`, `EvaluateAgain`), `RunRaises` anywhere,
and the reply. Each call of a model or a search has every outcome it may have;
`calls` counts the requests to the models, the validator's included. **ControlsSearch**
is the search for controls of one question:

| Action | Code (`pipeline/controls.py`) |
|---|---|
| `FetchFinds`, `FetchFails` | one search by words and vector, fused, for each wording, with the filter or framework by framework for a comparison |
| `StartPicking`, `Pick`, `FillUp` | ranking and `_select_diverse_controls`: the best candidate left (`BestOf`) is taken, or passed over when its framework or family has half of the places, and places left are filled from those |
| `EndPicking` | whether a preferred framework is missing and is searched by itself |
| `PickAgain`, `BackfillPreferred` | ranking with what that search found, and the last place for its best control |
| `DedupeIds` | of each requirement id the first |

Candidates of equal rank are taken in any order, and the rankings of two searches
need not agree.

### The work in the background

**ReportJobs**: the job's thread sets state, result and error one after another
(`SetState`, `SetRest`), a poll reads them one after another (`ReadField`), and
either comes between two steps of the other. Findings are made control by
control (`AssessControl`, `AssessmentFails`), in one pass (`SinglePass`,
`SinglePassUnreadable`), or for an account (`CollectAzure`, `WrapAwsReport`),
and validated hard or soft. The reply of a single pass is read as the code
reads it (`SinglePass`): findings with missing or unknown fields become
`insufficient_evidence` (`Normal`), items that are no findings are dropped, and
the model's rating is kept; `failed` and `report.lost` remember that this
happened.

| Module | Requests | Jobs | Faults |
|---|---|---|---|
| **CorpusIndexing** | `StartUpload` and for each file `SkipDuplicate`, `StoreFile`; `MarkForReindex`, `StartIngestion`; clears and the reset (`ClearDocs`, `ResetIndexer`, `ClearBlobs`) | `EnsureIndex`, `EnsureSource`, `RunIndexer`, `WaitForIndexer`; the service's `IndexBlob`, `FinishRun` | `StoreFails`, `EnsureFails`, `RunFails`, `ClearFails` |
| **GroundingJobAws** | `PutObjects`, `ClearObjects`, `StartTask` | `ReadObject`, `AskForHashes`, `SendBatch`, `EndTask` | `ReadFails`, `TaskFails` |
| **LocalCorpus** | `StageFiles`, `LoadMerged`, `AppendLines`; `ClearMemory`, `ReadLines`, `WriteLines` | `LoadAtStart` | `Upset` |
| **ControlsSources** | `ReceiveSources`, `PrepareGroup`, `StoreSource`, `StartLoad`, `StartIngest`, `AnswerUpload` | `FetchSources`, `FetchPublished`, `AskForVersion`, `DeleteFound`, `SendRecords`, `EndLoad` | `LoadRaises` and refused items |
| **LocalControls** | `StageLocally`, `StartLocalIngest`, `ParseLocally`, `LoadLocally`, `AnswerLocally`, `ClearLocally` | `StartAgain` | `ParseFails` |

**AssessmentStages**: one assessment, `step` naming the call that is next:
intake or queue (`TakeRequest`, `ReceiveMessage`), `ResolvePage` and its kind,
`CheckAccess` and `DecideAccess`, reading, `FindControls`, `ReviewControls`,
`FindGuidance`, and the report as a whole with one more try (`ReadableReply`,
`InvalidReply`, `UnreadableReply`) or control by control (`AssessOne`,
`AssessOneFails`); `CallRaises` ends it anywhere. `trail` is the audit trail.
For a request about Azure resources reading is **AzureExtract**, page by page;
paths and assignments are sets there, taken in an arbitrary order, and an
assignment is taken to be the same in every listing.

Both composed instances, `MCWeb` and `MCWork`, have a `scene`: their parts share
no variable, so a behaviour of one is a behaviour of the whole with the others
at rest, and no interleaving between them could show anything else.

**ControlsPublish** is the publication of one framework's controls into the
search index. `index[q]` is the manifest the document of requirement id `q` was
uploaded with, which stands for its version and text: keys do not hold the
version, so an upload of the next version takes over the ids both have.

| Action | Code |
|---|---|
| `Start` | `corpus_a_ingest` (skips a framework that has a document unless told to replace), an upload of source files, or the command line |
| `Examine`, with `Gate` | parsing and the duplicate gate, `publish_controls.py` 288-371; `Pages(SameVersion(m), Top)` is the state query |
| `DeleteBatch` | one `delete_documents` call of `_delete_requirements`, whose result is not looked at |
| `UploadBatch`, with `EndUpload` | one `merge_or_upload_documents` call, 403-406, and the exit code of `run_controls_azure` |
| `Dies`, with `ExitWithError` | a call raises or the execution is killed; the platform runs it again (`replica_retry_limit = 1`) |
| `StartClear`, `ClearSearch`, `ClearDelete`, `ClearDies` | `clear_corpus_a`, a page at a time; its limit of 50 rounds is not reached |
| `SourceChanges` | the publisher of the framework |

`alone` is chosen once: either one writer finishes before the next starts, and
then calls fail, executions die and the source changes; or executions overlap,
and then nothing fails and they publish one manifest. Batches are taken in any
order, where the code has the order of the parser or of the search service. The
index answers queries from what was written last; Azure AI Search may lag.
The history variable `left` holds the ids whose deletion failed unnoticed;
properties speak of the other documents. A query is taken to return every
document of the version (`TopAssumption`; the code asks for 1500).

## 3. The runs

| Run | Question | Instance | Result |
|---|---|---|---|
| `poll_restart` | One process, one crash or failing call anywhere, edits of pages and mentions: markers after answers, each assessment part posted once, processed mentions left alone, refinement of the desk. | three mentions on two pages (two frameworks, none, one), two page versions, two-part comments, a moving initial lookback | holds |
| `poll_progress` | Is any mention skipped, and is every one settled in the end, unless the initial lookback left it behind? | two faults, one mention that always fails, an initial lookback that may move past the first mentions | holds, under fairness |
| `poll_overlap` | Two processes whose cycles outlive the lease: do two cycles younger than it run together without a race on the lock document? | lease of two ticks, read and then written, one fault, expiring marker, symmetry of processes | holds |
| `poll_lease_race` | Does the lease keep two such cycles apart? | two processes, no fault | violated |
| `poll_lost_assessment` | Does a processed mention always get its assessment? | one fault | violated |
| `poll_quarantine` | Is a quarantine final? | one mention that always fails | violated |
| `poll_edited_mention` | Is every mention settled when its author edits it? | one edit, one fault | violated |
| `controls_publish` | Does a version hold one manifest, is what is reported as uploaded whole, and do overlapping executions of one manifest end whole? | three ids, three manifests of two versions, two executions, batches of one, two faults | holds |
| `controls_duplicate` | Is a framework that is skipped as already loaded in the index? | one execution, one fault | violated |
| `web_requests` | Graphs: are readers never behind, tables of one build, quiet reads the last build; what do replies leave out? Conversations: when is anything lost? Questions: scope, evaluation, cost, fit of controls? | see below; 1.8 million states | holds |
| `graph_seeds` | Does retrieval start its expansion from the guidance chunks it found? | the same instance | violated |
| `background_work` | Reports: failures, counts, an answer for the browser. Indexing: what does success or exit code zero mean? Assessments: the trail, failures, comments. Stores: is each the contract? | see below; a third of a million states | holds, `BrowserIsAnswered` under fairness |

Each violated run checks what the repository says in its documents or reports;
the `findings` of `PROJECT.json` quote them. In short: the lock document is
written without its ETag; the snapshot is saved before the comment, so a failed
post turns the retry into a no-change note; a quarantined mention has no marker
and is attempted again while the watermark stays in its minute; the watermark
follows the time of the last edit while the search filters by creation; the
duplicate gate takes one document with the manifest hash for all of them, so
that the retry of an execution that died half way skips the rest; and a build
numbers the chunks in its node ids while retrieval makes the ids of its seeds
without a number, so no chunk is ever a seed.

*Bounds of the poller.* `MaxVersion`, `Parts`, `MaxFaults`, `MaxAttempts`,
`LeaseTTL` and `BatchLimit` bound the instances. Two versions are what it takes
for a comparison to come out both ways, two parts for a post to fail in the
middle, two attempts for a failure to be retried and then be the last, a TTL of
one or two ticks for a cycle to outlive its lease. Three mentions in two minutes
give a batch with mentions of the watermark's minute, before it and after it;
two of them share a page and a framework. A single fault already reaches every
pair of (last step done, step repeated); `poll_progress` has two, so that a
retry fails as well. `Openings` is where the initial lookback may begin: before
all mentions, and after those of the first minute, so that one of them lapses
after a failed attempt or before any; the runs that are not about it have one
opening, before all.

*Of the controls.* Batches of one id make every boundary between two calls
a place to fail; manifests that each drop an id of the one before make leftover
documents visible; m3 shares ids with the other version. Two faults are an
execution and its retry failing, after which the next one starts.

*Of `web_requests`.* Graph builds: two builders (interchangeable), one reader
of two operations, two builds and one fault are what it takes for a reader to
load one build while another is written, and to find its state changed, or
not, at the next operation; the theorems say the same of any number. Graph
queries: inputs with missing fields, shared words within and across frameworks
and a chain of four controls, size bands at 4 and 5 edges, so that the limits of
each band, of depth and of each reply are met and exceeded. Conversations: two
clients, three messages and one outage let a save fall into another request
twice. Questions: `include` and `exclude` empty, named, unknown and missing,
numbers at and beyond both ends, one document of each kind, and a request of the
page whose conversation tells of a corpus that is excluded now; of the numbers of
requests a call may take, those in `Costs`: none, two, four and eight, which are
the limits of each call. Controls: six
controls of three frameworks with a shared family and a shared requirement, in
three orders, of which one has another score and one leaves a framework out;
one to four asked for, with one or two wordings, with and without words that
count, and all combinations of filter, inferred framework, comparison and
preference.

*Of `background_work`.* Two controls to a report (one may fail and one not).
Three uploads with a text stored before, as two types and in both corpora, two
jobs, one upset, two waits for the indexer. Files of one and two chunks in
bulks of two; four local files of which two are one page in both corpora.
Requests for an assessment by every combination of source, provider, mode, requester,
and strategy that the intake can tell apart; three resources of which two fit the limit.
Reports of up to three sections shorter than, near and longer than the limit.
Files of two frameworks told apart or not, two editions that share one of two
requirements, questions that return two. Stores: two runs, two mentions, three
pages, times of two, one failing read; lists that show one row and look at two,
so that a list is cut short.

*Fairness.* `FairSpec` of the poller assumes that a running process takes its
next step (`run_forever` loops for ever and every call returns or raises), that
an exited process is restarted (the deployment keeps one replica,
`min_replicas = 1`), and that time passes. Nothing is assumed of users, and
faults are bounded by `MaxFaults`: a store that fails for ever settles nothing.
`background_work` assumes weak fairness of the job's thread, whose calls all
have timeouts, and of the browser, whose loop ends only with an answer or its
last try.

Deadlock is checked in the `poll_` and `controls_` runs: the worker never stops.
In `web_requests`, `graph_seeds` and `background_work` it is not
(`CHECK_DEADLOCK FALSE`): requests, tasks and reports end.

## 4. The proofs

All theorems hold for every set of processes, mentions, pages and frameworks
and every bound; the assumptions are the named `ASSUME`s of the modules, which
TLC evaluates in the runs. They say what the constants are (`StoreAssumption`,
`SiteAssumption`, `MentionAssumption`, `CycleAssumption`, `PublishAssumption`
and the like), that lists are sequences (`ReportControlsAssumption`,
`StagesAssumption`, `EstateAssumption`, `QueryAssumption`,
`RenderingsAssumption`), that limits are not below one where the code does not
let them be, that what is counted is a number (`SearchBounds`,
`StoreDocumentsAssumption`), that a comment has room for what is cut from a
section (`LimitAssumption`; 6 of 32 767 characters), and that the markers for "none"
(`NoLocal`, `NoFilter`, `NoEvent`, `NoDoc`) are no values. Five say more:
`TopAssumption`, that a state query returns every document of a version;
`LegacyAssumption`, that blobs from before have the fields of a blob;
`IdAssumption`, that an assignment of Azure is the same in every listing;
`RankedOnce`, that a search returns a control once;
`IdsNameFrameworks`, that a requirement id is of one framework, because the
parsers put the name of the framework into it, and so is a source without ids.

### The polling worker

* `TypeCorrect` (PollCycleProofs): `TypeOK` is an invariant. It is not
  inductive alone: the places of a runner tie the mention in hand and the
  position in its list of frameworks to `pc` (`TypeInv`), without which `F(r)` may be no
  framework.
* `DryRunWritesNothing` (PollCycleProofs): with `config.dry_run`, no step posts
  a comment or writes a snapshot or a row. No run repeats it.
* `OverlapsComeFromRaces` (PollCycleProofs): `OverlapNeedsRace`, for any number
  of processes and every store. `LeaseInv` says that, as long as nobody has
  raced, a cycle younger than the TTL owns the lock document and its age and the
  time left add up to the TTL; and that a process that has read the document as
  it still is, and is about to write it, read it free, and one about to delete
  it is its owner. So cycles that outlive their lease, crash, restart and
  release late are harmless; what is left is the read that is stale when the
  document is written, which `poll_lease_race` shows to happen.
* `AnswersPrecedeMarkers` (PollTurnProofs): `ProcessedImpliesAnswered`, with
  any number of processes, swallowed reads, non-atomic lease and expiring
  markers. The inductive invariant `AnswerInv` says of each process in an
  attempt that the frameworks before the current one are delivered, that the
  parts before the current one are posted, and that a process about to mark has
  answered. Comments only accumulate, so no other process can disturb it.
* `OneProcessAssessesOnce` (PollTurnProofs): `AssessedOnce` for one process and
  a store that does not swallow reads: no part twice under one version, and the
  same text twice only when the page was edited between the read for the stamp
  and the read for the assessment. `OnceInv` relates comments, snapshots
  and the attempt: every assessment comment is of a version some snapshot
  reached and of a text no older, and a process that posts part *i* has the
  snapshot of the version it posts and finds only parts before *i*. Both
  hypotheses are needed: two processes, or a snapshot that seems missing, assess
  again.
* `ProcessedStaysFinal` (PollTurnProofs): `ProcessedIsFinal`, for one process and
  a store that does not swallow reads. `SettledInv` says of the mention in hand
  that it has no marker while it is attempted, has one once it is committed,
  and is quarantined when the attempt ends that way.
* `WatermarkPassesNothing` (PollTurnProofs): `NothingSkipped` under `InOrder`:
  one process, reads that do not fail silently, markers that do not expire, a
  search index without lag, and a search that returns everything there is, or
  mentions nobody edits (`OneSearchSuffices`). A mention that lapsed before the
  first commit is not due. `TurnInv` adds to the property that times of edits only
  grow (`TimesGrow`), that what is in the batch was reported by a search and
  is not older than what is in hand (`BatchInOrder`), and that a mention that is
  due is in the batch or in hand, or no older than anything that is
  (`NoneLeftBehind`). Without `OneSearchSuffices` it is false; section 5 says how.
* `WorkerImplementsDesk` (PollTurnProofs): `PollCycle` implements
  `MentionDesk`, under `InOrder` and without a dry run (which closes what it did
  not answer). `TurnInv`, `SettledInv` and `AnswerInv` give what a desk step
  needs: every action of the worker that posts the last comment, writes a marker
  or quarantines is a desk step of a mention whose turn it is; a search that
  begins later than the one before lets mentions lapse, and only before the first
  commit; every other is a stutter.

### The state stores

`StoresImplementContract` (StoreProofs): `StoresSpec => BackendIsStore`, for any
mentions, pages, runs, times to live, and lengths of lists. A document is read
back through the mapping of `PollingStores`; three facts make its steps those of
the contract.

* What a call does not write it does not change (`KeptOutside`), and each kind of
  access, a read, a write of one document, a time to live that passes, is a step
  of the contract whatever store makes it; the method of each store is then shown
  to be such an access. This is where a conditional put that finds another
  owner, an expired document that is still stored and a read that fails and
  looks like a missing document are told apart.
* `StoreInv`: a document has the fields of its type, no two rows of a list were
  written at once (`Stamped`), and the file of the local store is torn or holds
  what memory does, except for markers that have expired (`FileHolds`). With
  distinct stamps the ranks of *n* rows are *n* different numbers below *n*, so
  all of them (`EveryRank`): `Newest` has a row for each place, is sorted, and
  leaves out nothing newer than what it shows (`NewestIs`).
* `KindInv`: rows of SQLite are numbered (`Numbered`), the state document of
  DynamoDB has a version (`Versioned`), and Cosmos DB has no marker that is over
  (`Live`), because its container removes them. Without these a method of the one
  store would be applied to a document of another.

### The publication of controls

For every set of ids, manifests, batch sizes, executions and faults:

* `TypesAreKept`, `OneManifestHolds` and `UploadedIsWholeHolds`
  (ControlsProofs). `OneManifest` is not inductive: an execution that uploads
  must find nothing of its version that is not its own. `Inv` therefore says
  that with one writer at a time only one is at work (`OneWriter`), that what is
  still there of the version an execution replaces is on its list of deletions
  (`Deleting`), and that what is there of a version being uploaded is the part
  of the manifest already sent (`Uploading`); the last also gives that nothing
  is missing when no item failed. `Deleting` holds from the start only if the
  state query returns all documents, which is where `TopAssumption` is used.
* `ConcurrentEndsWholeHolds` (ControlsProofs): `ConcurrentEndsWhole`.
  `Together` says, of any number of executions with no fault, that one that
  deletes will delete every document of an older manifest and none is left from
  its first upload on (`OldGoes`), and that a record of the source that is not
  in the index is still to be uploaded by some execution, be it only because
  that execution is still deleting (`NoneForgotten`).

### Graphs

For every number of builders, readers, builds, operations and faults, and each
backend (GraphProofs):

* `ReadersAreNeverBehind`: `NeverBehind`. What is written to a part only
  grows, and `Forward` says of a reader that what it saw, read and loaded is
  there, that the state it remembers is not newer than what it has loaded, and
  that the first part it saw or read is as new as its floor. That it looks
  before it reads is what makes the remembered state safe.
* `TablesStayOneBuild` and `QuietReadsAreLast`: `TablesAreOneBuild` and
  `QuietReadIsLastBuild`, when builds do not overlap. `BuildsInTurn` says that
  the builder at the *k*-th call of its plan (`Place`) finds in files, objects,
  its memory and its transaction what its calls before have written
  (`Written`), and that, after a build that ran to its end, both parts are its
  own; `Quiet` that a reader that began then sees what there is. `WhichCall`
  ties each action to its place in the plan.

For every set of controls and chunks, every seed, depth and limit:

* `EdgesKeepTheirNodes`: `EdgesHaveNodes`. Each of the stages of a build keeps
  the graph `Sound`: edges join its nodes, and an id stands for one node or edge.
* `ExpansionStaysWithinLimit`: `ExpansionWithinLimit`. `SubgraphInv` says that
  edges that were seen have their ends among the nodes that were seen, and that
  what was merged fits the budget that is left.
* `RepliesTellWhatTheyLeaveOut`: `LeftOutIsReported`: of what is in reach a reply
  that does not say it is cut leaves out nothing, except nodes without edges in a
  query that has no seed (section 5). `SearchInv` says of a
  search that has not met its limit that at depth *m* (`AtLevel`) the ball
  of radius *m* has been seen and of the ball before it all edges, so that one that
  ends has seen everything within its depth (`AllSeen`). The ball is a
  function of the depth, and what a capped list takes (`Taken`) one of the limit;
  both are reasoned about by induction in first-order form, as a set of numbers that has zero
  and with each number the next (`NatInd`, from `LeastNumber`).
* `CommunitiesAreWhole`: `CommunitiesAreComponents`. `CommunityInv` says that
  finished groups are closed under adjacency (`Closed`), that groups
  are disjoint, that every group is in every closed set that its root is in (`Rooted`),
  and that what the last one lacks is in the queue.

### Questions and conversations

ConversationProofs, for every number of clients, messages and outages, and every
document, selection and threshold:

* `LossNeedsOverlap`: `LostOnlyByOverlap`, and `ConversationsStayWhole`:
  `ConversationsAreWhole`. The inductive invariant adds that stamps are new
  when they are made, that a copy is held exactly by a request under way, and
  that a copy has everything clients were told except what was exposed
  (`CopiesKeepUp`): a save then loses nothing else.
* `ModelIsGivenTheSelection`: `ContextWithinSelection`. What the models see of
  the documents is in the context and of a corpus the caller wants, or it comes
  with the conversation's earlier turns and feedback or from a summary in place
  of an answer, which nobody filters. `SelectionInv`: what is selected may be
  used, and the context holds nothing else, whichever step filters it last.
* `RepliesAreEvaluated`: `AnswerIsEvaluated`. `EvaluationInv` follows the draft
  and its evaluation to the reply.
* `RequestsAreBounded`: `CallsAreBounded`: at most 38 requests and 16 for each
  community in reach. `CallsInv` bounds the requests made before each stage
  (`Spent`: two of the validator, and of each draft two times two tries of four,
  the second of them after a `TypeError`, and two of each evaluation), and those
  for the communities named and told, eight each.
* `TurnsKeepChunks`: `RebalanceKeepsChunks`. A chunk is placed by how many come
  before it: those of an earlier turn, and those of its own turn whose group
  comes first. Places are counted, so that they are all different and none is
  left free; the invariant is only that chunks are a sequence of documents
  (`ChunksStayInOrder`).

For every set of controls, every ranking of them and every question, the search for
controls, from one invariant (`SearchInv`, theorem `SearchInvariant`): types
(`SearchTypeOK`), which searches are still to be made and of what framework
their candidates are (`SearchScope`), and that picks are candidates and no more
than asked for (`PickedFromFound`).

* `ControlsFit`: `ControlsFitTheQuestion`, from these.
* `ComparisonsSpan`: `ComparisonSpansFrameworks`. While controls are picked,
  every candidate is unseen, passed over or picked, no framework has more than
  half of the places, and what was passed over was crowded out (`SpreadSoFar`);
  so when picking ends two frameworks are there, or every candidate is of the
  framework or family of the first, and filling up keeps it so (`SpreadIsKept`).
  That removing duplicate ids keeps it too needs `IdsNameFrameworks`.
* `PreferredStaysRepresented`: `PreferredIsRepresented`. `PreferredSoFar` follows
  the candidates of the preferred framework through the second ranking: they are
  unseen or picked, and if none has a place when it ends, all of them are unseen
  and the best was looked at and did not fit.

### Assessments

AssessmentProofs, for every request, estate and list of controls:

* `TrailAlwaysAccounts`: `TrailAccountsForContent`. `TrailInv` says what is on
  the trail at each step (`TrailMatchesStep`), that nothing is read or sent
  before its step (`NothingBefore`), and what content, refusal and report need
  to have on record (`Accounted`), which remains true after a failure because
  nothing is taken off the trail.
* `ReportsTellOfFailures`: `NoReportHidesFailure`. `ExtractInv` says of the
  extract of Azure resources that resources, assignments and policies are what
  the pages so far hold (`ResourcesSoFar`, `AssignmentsSoFar`, `PoliciesSoFar`),
  and `AgentInv` of the report that findings and controls left add
  up, and that a failed control has its finding. Of an Azure report the theorem
  says that an extract that was not cut at `max_resources` is whole; one that was
  cut does not say so.
* `CommentsAreTheReport`: `PartsAreTheReport`, for reports of any sections and
  any limit: the sections are there once and in order, every body is packed
  within the limit, and so is an answer of one comment. What is posted as one of
  several is its header longer. `PartsInv` says that the open body goes on where the full ones end
  and is as long as it is counted (`Packing`), that full ones follow each other
  (`Chained`), and that the comments of an answer are the first of its bodies (`Posting`).

### Jobs in the background

WorkProofs, for every set of files, corpora, frameworks, controls, batches,
requests, executions and faults:

* `FailureNeverComplies` and `NoControlIsLeftOut`: `FailureIsNoCompliance` and
  `EveryControlIsAssessed`. `ReportInv` says that findings and controls to do
  add up to the total, and that a failure has its finding before the report is
  made. Two things are the model's word, and the property says so: the rating of
  a report made by one call (`RatedByModel`), and an item of that reply that was
  dropped (`lost`).
* `LocalMemoryIsAsReported`: `MemoryIsAsReported`. `LocalControlsInv` says that
  what a thread that works alone took of memory is memory still (`Knows`), and
  that it has a framework in hand (`InHand`).
* `RestartsChangeNothing`: `RestartChangesNothing`. `FileFollows` relates
  memory and file through the stages of an upload and of a clear.
* `ZeroExitIsWhole`: `ZeroIsWhole`. `TaskInv`: every file listed is still to be
  read, or what is to be made of it is made (`ReadSoFar`); then, every one is
  settled, or all its chunks are held or still to be sent (`SentSoFar`, `Covered`), unless
  there was trouble.
* `SuccessHasIndexed`: `SuccessIsIndexed`. `CorpusInv` says that a blob an
  undisturbed job answers for is indexed or ahead of the indexer's mark (`Ahead`), and, once
  the job waits, indexed or in the run that is under way (`Awaited`), and
  that a job that works alone has the source and the run to itself (`JobAlone`).
* `ZeroReadsThatUpload`: `ZeroIsThatUpload`. `SourcesInv` says that the documents
  under a prefix are those the request sent (`StoredAs`) and that only the last prefix
  is still filled (`FilingInv`); of a task, that what it has read is what was promised and that,
  while it is the only one of its framework (`AloneIsAlone`) and nothing was left or refused, the
  index has exactly the requirements it has sent so far (`LoadOk`).

*Model-checked only*, and why. `EveryMentionSettled` and `BrowserIsAnswered` are
liveness under fairness, which is out of the prover's reach. Every other property
of the runs that hold is a theorem. The properties of the runs that expect a
violation are false of the code.

## 5. What was seen and is not a run

Behaviours of the code that no run is about: a listed finding covers them, or they
lie outside what a property claims. Most contradict no sentence of the repository;
where one does, the sentence is quoted or named.

*Polling worker.* A crash between the last comment and the marker posts a
no-change note at the retry. A cycle never renews its lease (`renew_lease` has
no caller), so a long one runs beside the next. A marker that expires while the
watermark stays in its minute lets the mention be attempted again; overlapping
processes can move the watermark back. More mentions in one minute than one
search returns (`confluence.py:674`) keep the watermark in that minute, so
`EveryMentionSettled` is checked with a search that returns them all. When there
are more mentions than one search returns and one that it returns was edited,
the watermark takes the time of the edit and passes mentions that were not
returned (TLC shows it with `BatchLimit = 1`); an edited mention that failed can
be overtaken, as the desk allows. A dry
run marks the mentions it looked at (`polling_worker.py:923`). The no-change row
replaces the dashboard row of the assessment (`:731`). An outage of the Cosmos
store that makes a snapshot look missing leads to a second assessment. Comments
that could not be read are passed over on SharePoint and raise on Confluence.
As long as nothing is committed every cycle searches from `initial_lookback`
(one hour) before now (`:882`), so a mention older than that is never fetched, and
one whose attempts fail for the first hour is lost, although the comment at
`:958` says "stop and retry from this event in the next cycle". The page is read
once for version and hash and once more for the assessment, which is stamped with
the first version (`:787-792`): after an edit in between, the same text is
assessed again, at the next mention, under its own version. The header of a part
("Assessment comment 1 of 2", `:315`) is added after packing, so that a posted
part may exceed by it what the docstring calls "the maximum character limit for
each comment body" (`:306`); parts of a failed attempt stay on the page.

*State stores.* SQLite (which keeps the row of a document that is written again)
and DynamoDB (in key order, one page) list from four times as many documents as
asked for, before the time filter, so that the newest may be missing when there
are more; the contract has a flag for it. SQLite deletes an expired document it
has read without looking again. A local file cut off in the middle of a write is
taken as empty at the next start. Cosmos swallows failed reads and failed lease
deletions. `expected_etag` is honoured by DynamoDB only, and no caller gives
one. The SQLite path defaults to `:memory:`.

*Assessments.* A delegated assessment of a Confluence or SharePoint page is always
denied: the servers return their verdict under other keys than the adapter
looks for (`interfaces.py:257`, `confluence.py:1061`, `sharepoint.py:478`),
although `docs/agent-assessment-orchestration.md:742` describes delegated mode.
`ASSESSMENT_VALIDATION_MODE` has no effect on `generate_assessment`. A failed
search for controls gives a report of no findings rated low; unknown statuses
count as low; the review of applicability only annotates. Prompts for one control
see at most three excerpts of 1200 characters. A SharePoint file without
readable content is assessed as a placeholder sentence. An ARM answer without a list
ends a listing silently, `max_resources` cuts silently, ids named twice push
others out of the limit, a group listing has no properties, and an extract is
not one state of the estate.

*Controls.* `LocalControls` takes `LOCAL_CONTROLS_JSONL_PATH` as set. When it is
not, an ingest writes to `parsed-controls` beside the state database or under
`/tmp` (`corpus.py:1795-1804`) and a start reads from `./parsed-controls` or
`/app/parsed-controls` (`local_startup.py:63-71`), so that what was uploaded may
not come back. A deletion that fails leaves an old document in a version that
is reported as replaced; an upload of the next version takes the ids it shares
from the earlier one, whose remaining documents still stop it from being loaded
again; two overlapping executions of different manifests leave a mixture; the
state query asks for 1500 records (`publish_controls.py:223`); a record whose
embedding fails keeps the vector of its old text (`:404`). Automatic mode stores
one framework before the next is found incomplete and then refuses the request
with the first stored and no task started; a failed start answers 500 while
tasks of earlier frameworks run. On AWS, refused items of a bulk deletion go
unnoticed, as do more than 1000 requirements of a version, and one
record with the manifest's hash counts as the whole. Locally, a source directory of
one name is overwritten (a failed file mixes editions), a dry run writes the
JSONL and so takes effect at the next start, a cleared framework comes back with
a restart, and overlapping requests double or lose frameworks.

*Corpus B and C.* Jobs share one data source and one indexer: a job may wait
for, and report, the run of another, and the last result may be stale. A start
that fails twice answers 500 although the files are stored, and a retry then
finds duplicates only (`corpus.py:194`). A clear that leaves the blobs, followed
by the same upload, is a duplicate that is not indexed until it is marked again;
documents of replaced blobs stay. Blobs without a label count as "legacy" and
escape clears. A rebuilt index is empty for both corpora while the job fills its
own scope only. A reset during a run raises, and the blobs stay; a reset deletes
in the background (`reset.py:57`), can meet an upload (`ingestion.py:794`), and
two replicas can repair the same blob (`ingestion.py:1295`). A clear stops at 50
rounds of 500. On AWS, a text indexed in part or for the other corpus makes a
later task skip it and end with zero; reindexing Corpus C does nothing there; a
failed read of the metadata labels a document of C as B. Locally, one page under
one name in both corpora shares its chunk ids, and an upload beside a clear
loses or restores documents.

*Graphs.* Overlapping builds can mix nodes and edges for good; publication of
two objects is not atomic (`docs/relationship-graph-deliverables.md:152` says
so). Stamps of objects and files have the resolution of the platform and are
taken to differ (`graph_backend.py:255`). A query without a seed does not say
which isolated nodes it omits; an expansion spends the budget of later seeds on
edges it has. A graph in object storage is not available to a question, because
the client is not passed. The build endpoint does not look at `allow_build`.

*Questions and conversations.* The prompt of the page holds the session's
earlier messages and feedback (`ask.py:537-562`, `rag_pipeline.py:1669-1688`),
which may quote documents of a corpus that the question excludes. One question
can cost 38 requests, and each community up to 16 more; retries inside the
client library come on top. A `TypeError` raised by anything within a try for a
draft has it tried again without `top_p` (`rag_pipeline.py:1735`), be it about
that or not. The prompts of communities name items of corpora that were not
selected. A summary in place of a blank answer is made of everything retrieved,
in scope or not. An amended answer replaces the first whether it is better or
not. `exclude=["a"]` without `include` still searches controls. The API's
`retrieve_k` of 5 means the preset; the page accepts a blank question. The
session is loaded outside the handler's `try`.

*Reports.* A report made by one call keeps the model's rating whatever became of
its findings (`compliance.py:696-714`, `:729-736`, `:762-765`): findings that
are empty or name no known status become `insufficient_evidence` beside a rating
of "low", and items that are no objects are dropped without a word. A poll
between the two writes of a job sees "completed" without a result. One invalid
finding replaces a whole report made control by control; soft validation of an
Azure report gives an empty one as completed; a failed count looks like no
documents; AWS has no preflight and drops the filter of upload batches. Jobs are
lost with a restart or behind another replica (`compliance.py:2262`), and the
browser polls on.

## 6. Not modelled, and why

Text and rendering (comments, summaries, dashboards, prompts, labels) carry no
control flow. Run summaries are written and never read by the worker. Parsers of
frameworks are sequential and stateless and right or wrong by the wording of
documents of outside publishers. Clients of managed services translate one call
into one call; what they lose or delay appears at their callers. The rules of
the prompt guard and authentication decide one request by itself; that the guard
may refuse, and what its validator costs, is part of `AnswerPipeline`.
Diagnostics, logging and wiring change nothing the program reads back. The
repository has no consumer of the queue, so its delivery is not modelled.
Scores, token limits, temperatures and runtime hints are abstracted to the
choices they lead to. Within modelled components: a second replica of the web
application, the history lists of conversations, the job's own upload of blobs,
and `MentionPoller`, which the worker does not use. `PROJECT.json` lists every
component with its status.

## 7. Plan

The models, the runs and the proofs of the properties above are done. What
would add most next:

1. A second replica of the web application beside the first: duplicate repair,
   report jobs and graph files that are not shared.
2. The delegated access check as a run of its own, and the other items of section
   5 that contradict a document.
3. `PollCycle` instantiated with the documents of one store instead of the
   contract, which `StoresImplementContract` makes unnecessary for safety but
   would show on an instance.
