---------------------------- MODULE LocalCorpus ----------------------------
(***************************************************************************)
(* Documents of Corpus B and Corpus C of a local installation: they are    *)
(* searched in memory and kept in one JSONL file, which is read at the     *)
(* start (_upload_corpus_files_local, _persist_local_evidence_docs,        *)
(* delete_local_evidence_docs_by_corpus, local_startup.py).                *)
(*                                                                         *)
(* Uploads run on the event loop, one at a time; clearing runs on a thread *)
(* beside it.                                                              *)
(***************************************************************************)
EXTENDS Naturals, FiniteSets

CONSTANTS
    LocalFiles,     \* [name, corpus, hash, html]
    MaxLocalUploads, MaxLocalUpsets,
    NoLocal

\* An upload and a clear under way, and what says that there is none.
LocalUploading == [stage : {"load", "append"}, existing : SUBSET LocalFiles, staged : SUBSET LocalFiles]
LocalClearing == [stage : {"read", "write"}, corpus : {"b", "c"}, left : SUBSET LocalFiles]
ASSUME LocalAssumption == LocalFiles # {} /\ NoLocal \notin LocalUploading \cup LocalClearing

VARIABLES
    memory, kept,   \* documents in memory, and lines of the file
    uploading,      \* [stage, existing, staged], or NoLocal
    clearing,       \* [stage, corpus, found]
    disturbed,      \* an upload and a clear overlapped, or a write failed
    localUploads, localUpsets

localVars == <<memory, kept, uploading, clearing, disturbed, localUploads, localUpsets>>

\* A chunk of a page of HTML is named after the file and its text, one of the
\* other types after a directory of the one upload: here after its corpus.
DocumentId(d) == IF d.html THEN <<d.name, d.hash>> ELSE <<d.name, d.hash, d.corpus>>

LocalInit ==
    /\ kept \in {{}, {CHOOSE d \in LocalFiles : TRUE}} /\ memory = kept
    /\ uploading = NoLocal /\ clearing = NoLocal
    /\ disturbed = FALSE /\ localUploads = 0 /\ localUpsets = 0

Upset == localUpsets < MaxLocalUpsets /\ localUpsets' = localUpsets + 1

\* What the corpus has not got yet is cut into documents; a file that cannot be
\* read is reported and left out.
StageFiles ==
    /\ uploading = NoLocal /\ localUploads < MaxLocalUploads
    /\ localUploads' = localUploads + 1
    /\ \E files \in SUBSET LocalFiles :
           LET fresh == {d \in files : \A e \in memory : e.corpus # d.corpus \/ e.hash # d.hash}
               one == {d \in fresh : d = CHOOSE e \in fresh : e.corpus = d.corpus /\ e.hash = d.hash}
           IN  /\ files # {} /\ Cardinality({d.corpus : d \in files}) = 1
               /\ uploading' = IF one = {} THEN NoLocal ELSE [stage |-> "load", existing |-> memory, staged |-> one]
    /\ disturbed' = (disturbed \/ clearing # NoLocal)
    /\ UNCHANGED <<memory, kept, clearing, localUpsets>>

\* The documents there were at the start and the new ones replace all there are.
LoadMerged ==
    /\ uploading # NoLocal /\ uploading.stage = "load"
    /\ memory' = uploading.existing \cup uploading.staged
    /\ uploading' = [uploading EXCEPT !.stage = "append"]
    /\ UNCHANGED <<kept, clearing, disturbed, localUploads, localUpsets>>

\* New lines are appended; a failure is only logged.
AppendLines ==
    /\ uploading # NoLocal /\ uploading.stage = "append"
    /\ \/ kept' = kept \cup uploading.staged /\ UNCHANGED <<disturbed, localUpsets>>
       \/ Upset /\ disturbed' = TRUE /\ UNCHANGED kept
    /\ uploading' = NoLocal
    /\ UNCHANGED <<memory, clearing, localUploads>>

\* The documents of a corpus are deleted from memory by their names.
ClearMemory ==
    /\ clearing = NoLocal
    /\ Upset
    /\ \E c \in {"b", "c"} :
           LET ids == {DocumentId(d) : d \in {e \in memory : e.corpus = c}}
           IN  /\ memory' = {d \in memory : DocumentId(d) \notin ids}
               /\ clearing' = [stage |-> "read", corpus |-> c, left |-> {}]
    /\ disturbed' = (disturbed \/ uploading # NoLocal)
    /\ UNCHANGED <<kept, uploading, localUploads>>

\* The file is read, and written anew when lines are to go.
ReadLines ==
    /\ clearing # NoLocal /\ clearing.stage = "read"
    /\ LET left == {d \in kept : d.corpus # clearing.corpus}
       IN  clearing' = IF left = kept THEN NoLocal ELSE [clearing EXCEPT !.stage = "write", !.left = left]
    /\ UNCHANGED <<memory, kept, uploading, disturbed, localUploads, localUpsets>>

\* Bug: the file is left as it is.
KeepLines ==
    /\ clearing # NoLocal /\ clearing.stage = "write"
    /\ clearing' = NoLocal
    /\ UNCHANGED <<memory, kept, uploading, disturbed, localUploads, localUpsets>>

WriteLines ==
    /\ clearing # NoLocal /\ clearing.stage = "write"
    /\ kept' = clearing.left
    /\ clearing' = NoLocal
    /\ UNCHANGED <<memory, uploading, disturbed, localUploads, localUpsets>>

\* A start of the process reads the file.
LoadAtStart ==
    /\ Upset
    /\ memory' = kept
    /\ disturbed' = FALSE
    /\ uploading' = NoLocal /\ clearing' = NoLocal
    /\ UNCHANGED <<kept, localUploads>>

LocalNext ==
    \/ StageFiles \/ LoadMerged \/ AppendLines \/ ClearMemory \/ ReadLines \/ WriteLines \/ LoadAtStart

LocalSpec == LocalInit /\ [][LocalNext]_localVars

(***************************************************************************)
(* Properties.                                                             *)
(***************************************************************************)

\* While no request is under way a restart forgets no document that is found
\* and brings none back that was cleared, unless an upload and a clear
\* overlapped or a write failed.  Only a page of HTML stored alike in both
\* corpora is cleared with either from memory and comes back from the file.
RestartChangesNothing ==
    uploading = NoLocal /\ clearing = NoLocal /\ ~disturbed =>
        /\ memory \subseteq kept
        /\ \A d \in kept \ memory : \E e \in LocalFiles : e.corpus # d.corpus /\ DocumentId(e) = DocumentId(d)
=============================================================================
