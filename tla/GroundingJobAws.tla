-------------------------- MODULE GroundingJobAws --------------------------
(***************************************************************************)
(* Documents of Corpus B and Corpus C on AWS: the upload request puts      *)
(* files into a bucket (_upload_corpus_files_s3), a task lists them, reads *)
(* them, cuts them into chunks and sends the chunks to OpenSearch in bulk  *)
(* (aws_orchestrator.py, publish_grounding_aws.py).  A chunk has an id     *)
(* made of key, position and text, so that sending it again changes        *)
(* nothing; what is there already is known by the hash of the text alone.  *)
(***************************************************************************)
EXTENDS Naturals, FiniteSets
LOCAL INSTANCE FiniteSetsExt

CONSTANTS
    S3Files,       \* [corpus, hash, ext, chunks]: files that may be uploaded
    BulkBatch,     \* chunks of one bulk request
    MaxTasks, MaxTaskFaults

VARIABLES
    bucket,        \* [file, hashed]: objects, and whether their metadata has the hash of the text
    held,          \* [file, n, label]: chunks in the index, with the corpus they are said to be of
    task,          \* the ingestion task: what it does next
    toRead,        \* objects it has still to read
    records,       \* [file, n, label, hash]: chunks it has made
    toSend,        \* those it sends
    trouble,       \* a document or a chunk failed
    exit,          \* "none", "zero", "one"
    listed,        \* files it found
    doubtful,      \* hashes the index held a part of only, or for another corpus, when the task asked,
                   \* or that were cleared meanwhile
    tasks, taskFaults

taskVars == <<bucket, held, task, toRead, records, toSend, trouble, exit, listed, doubtful, tasks, taskFaults>>

Extractable == {"pdf", "xlsx"}
Id(k) == <<k.file, k.n>>
IsWhole(f) == \A n \in 1..f.chunks : \E k \in held : Id(k) = <<f, n>>
Objects == {o.file : o \in bucket}

TaskInit ==
    /\ bucket = {} /\ held = {} /\ task = [stage |-> "none", corpus |-> "b", replace |-> FALSE]
    /\ toRead = {} /\ records = {} /\ toSend = {} /\ trouble = FALSE /\ exit = "none" /\ listed = {} /\ doubtful = {}
    /\ tasks = 0 /\ taskFaults = 0

TaskFault == taskFaults < MaxTaskFaults /\ taskFaults' = taskFaults + 1
NoTaskFault == UNCHANGED taskFaults

\* The request leaves a file out when the first key under its hash has all
\* metadata and the same type; keys of other types stay beside the new one.
\* Other tools put files without a hash.
First(keys) == CHOOSE o \in keys : o.file.ext = "pdf" \/ \A x \in keys : x.file.ext # "pdf"
PutObjects ==
    /\ \E f \in S3Files, hashed \in BOOLEAN :
           LET keys == {o \in bucket : o.file.corpus = f.corpus /\ o.file.hash = f.hash}
           IN  /\ hashed /\ keys # {} => ~First(keys).hashed \/ First(keys).file.ext # f.ext
               /\ bucket' = {o \in bucket : o.file # f} \cup {[file |-> f, hashed |-> hashed]}
    /\ UNCHANGED <<held, task, toRead, records, toSend, trouble, exit, listed, doubtful, tasks, taskFaults>>

\* Clearing a corpus: documents first, then objects, both best effort.
ClearObjects ==
    /\ \E c \in {"b", "c"}, objectsToo \in BOOLEAN :
           /\ held' = {k \in held : k.label # c}
           /\ doubtful' = IF task.stage \in {"read", "send"} THEN doubtful \cup {f.hash : f \in listed} ELSE doubtful
           /\ bucket' = IF objectsToo THEN {o \in bucket : o.file.corpus # c} ELSE bucket
    /\ TaskFault
    /\ UNCHANGED <<task, toRead, records, toSend, trouble, exit, listed, tasks>>

\* A task is started for a prefix; the index is made or found usable and the
\* objects of the types it can read are listed.
StartTask ==
    /\ task.stage \in {"none", "ended"} /\ tasks < MaxTasks
    /\ tasks' = tasks + 1
    /\ \E c \in {"b", "c"}, replace \in BOOLEAN :
           LET found == {f \in Objects : f.corpus = c /\ f.ext \in Extractable}
           IN  /\ task' = [stage |-> IF found = {} THEN "ended" ELSE "read", corpus |-> c, replace |-> replace]
               /\ exit' = IF found = {} THEN "zero" ELSE "none"
               /\ listed' = found /\ toRead' = found
    /\ records' = {} /\ toSend' = {} /\ trouble' = FALSE /\ doubtful' = {}
    /\ UNCHANGED <<bucket, held, taskFaults>>

\* The files are read one after another; their order makes no difference.
TakeUp(f) == task.stage = "read" /\ f \in toRead /\ toRead' = toRead \ {f}
\* When its metadata cannot be read, a file has no hash and is said to be of
\* Corpus B.
MadeOf(f, label, hash) == {[file |-> f, n |-> n, label |-> label, hash |-> hash] : n \in 1..f.chunks}
HashOf(f) == IF \E o \in bucket : o.file = f /\ o.hashed THEN f.hash ELSE ""

ReadObject ==
    /\ \E f \in Objects :
           /\ TakeUp(f)
           /\ \/ records' = records \cup MadeOf(f, f.corpus, HashOf(f)) /\ NoTaskFault
              \/ records' = records \cup MadeOf(f, "b", "") /\ TaskFault
    /\ UNCHANGED <<bucket, held, task, toSend, trouble, exit, listed, doubtful, tasks>>

\* Bug: a file that cannot be read is passed over in silence.
PassOver ==
    /\ \E f \in listed : TakeUp(f) /\ IF f \in Objects THEN TaskFault ELSE NoTaskFault
    /\ UNCHANGED <<bucket, held, task, records, toSend, trouble, exit, listed, doubtful, tasks>>

\* It cannot be downloaded any more, not be read, or has no text.
ReadFails ==
    /\ \E f \in listed : TakeUp(f) /\ IF f \in Objects THEN TaskFault ELSE NoTaskFault
    /\ trouble' = TRUE
    /\ UNCHANGED <<bucket, held, task, records, toSend, exit, listed, doubtful, tasks>>

\* One chunk of one file of any corpus makes a hash known.
Known == {k.file.hash : k \in held}

\* Unless documents are to be replaced, what has a hash that the index knows is
\* not sent.
AskForHashes ==
    /\ task.stage = "read" /\ toRead = {}
    /\ LET wholly == {f.hash : f \in {g \in S3Files : g.corpus = task.corpus /\ IsWhole(g)}}
       IN  /\ toSend' = {r \in records : task.replace \/ r.hash = "" \/ r.hash \notin Known}
           /\ doubtful' = IF task.replace THEN doubtful ELSE doubtful \cup (Known \ wholly)
    /\ task' = [task EXCEPT !.stage = "send"]
    /\ UNCHANGED <<bucket, held, toRead, records, trouble, exit, listed, tasks, taskFaults>>

NextBatch == CHOOSE s \in SUBSET toSend : Cardinality(s) = Min({BulkBatch, Cardinality(toSend)})
With(sent) == {k \in held : \A r \in sent : Id(r) # Id(k)}
              \cup {[file |-> r.file, n |-> r.n, label |-> r.label] : r \in sent}

\* A bulk request; single items may be refused.
SendBatch ==
    /\ task.stage = "send" /\ toSend # {}
    /\ toSend' = toSend \ NextBatch
    /\ \E refused \in {{}} \cup {{r} : r \in NextBatch} :
           /\ held' = With(NextBatch \ refused)
           /\ IF refused = {} THEN NoTaskFault /\ UNCHANGED trouble ELSE TaskFault /\ trouble' = TRUE
    /\ UNCHANGED <<bucket, task, toRead, records, exit, listed, doubtful, tasks>>

\* What the process knew goes with it.
Ended ==
    /\ task' = [task EXCEPT !.stage = "ended"]
    /\ toRead' = {} /\ records' = {} /\ toSend' = {} /\ trouble' = FALSE /\ listed' = {} /\ doubtful' = {}

\* Asking or a whole request fails, or the task is stopped: what was sent stays.
TaskFails ==
    /\ task.stage \in {"read", "send"}
    /\ Ended /\ exit' = "one"
    /\ TaskFault
    /\ UNCHANGED <<bucket, held, tasks>>

EndTask ==
    /\ task.stage = "send" /\ toSend = {}
    /\ Ended
    /\ exit' = IF trouble THEN "one" ELSE "zero"
    /\ UNCHANGED <<bucket, held, tasks, taskFaults>>

TaskNext ==
    \/ PutObjects \/ ClearObjects \/ StartTask \/ ReadObject \/ ReadFails \/ AskForHashes \/ SendBatch \/ TaskFails
    \/ EndTask

TaskSpec == TaskInit /\ [][TaskNext]_taskVars

(***************************************************************************)
(* Properties.                                                             *)
(***************************************************************************)

\* A task that ends with exit code zero leaves all the text of every file it
\* found in the index: its chunks, or those of a file of the same corpus and
\* text.  Excepted is a text of which the index had, when the task asked, only a
\* part or only another corpus's copy, which the question by hash cannot tell
\* from the whole, and one cleared meanwhile; replacing has only the last
\* exception.
ZeroIsWhole ==
    [][exit = "none" /\ exit' = "zero" =>
           \A f \in listed : \/ f.hash \in doubtful
                              \/ \E g \in S3Files : g.corpus = f.corpus /\ g.hash = f.hash /\ IsWhole(g)]_taskVars
=============================================================================
