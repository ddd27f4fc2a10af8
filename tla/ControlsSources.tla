-------------------------- MODULE ControlsSources --------------------------
(***************************************************************************)
(* Frameworks of Corpus A whose documents are uploaded (CIS Controls,      *)
(* PCI DSS), from the upload request to the search index on AWS: the files *)
(* are told apart and stored under a prefix of their own                   *)
(* (_classify_corpus_a_auto_uploads, _upload_corpus_a_reference_files), a  *)
(* task is started with that prefix, it reads and parses the files         *)
(* (controls_source_orchestrator.py, run_controls_aws) and sends their     *)
(* requirements to OpenSearch (publish_controls_aws.py).                   *)
(*                                                                         *)
(* Requests run on the event loop, one at a time; tasks run beside them.   *)
(* Each parser knows one version of its framework.                         *)
(***************************************************************************)
EXTENDS Naturals, Sequences, FiniteSets

CONSTANTS
    SourceRequests,  \* [framework, files, trigger, replace, dry]; files are [type, says, edition]
    Targets,         \* framework -> the types of its documents
    Published,       \* frameworks whose parser asks their publisher
    RowsOf,          \* edition of a document -> the requirement ids it has
    QueryTop,        \* requirements the question for what is there returns
    BulkSize,        \* records of one bulk request
    Loads,           \* tasks, numbers in the order they start
    MaxSourceUploads, MaxLoadFaults,
    NoFiling

VARIABLES
    sources,     \* [framework, batch, type, edition]: stored documents
    filing,      \* the upload request being served
    loads,       \* Loads -> task
    shelf,       \* [framework, id, manifest]: requirements in the index
    batches, sourceUploads, loadFaults

sourceVars == <<sources, filing, loads, shelf, batches, sourceUploads, loadFaults>>

NewLoad == [stage |-> "off", framework |-> "none", batch |-> 0, replace |-> FALSE, dry |-> FALSE, promised |-> <<>>,
            content |-> <<>>, found |-> {}, todo |-> {}, failed |-> FALSE, did |-> "none", exit |-> "none",
            alone |-> TRUE, left |-> FALSE]

SourcesInit ==
    /\ sources = {} /\ filing = NoFiling /\ shelf = {}
    /\ loads = [l \in Loads |-> NewLoad]
    /\ batches = 0 /\ sourceUploads = 0 /\ loadFaults = 0

LoadFault == loadFaults < MaxLoadFaults /\ loadFaults' = loadFaults + 1
NoLoadFault == UNCHANGED loadFaults

(***************************************************************************)
(* The upload request.                                                     *)
(***************************************************************************)
Rejected == [refused |-> TRUE, groups |-> <<>>]
OfType(files, type) == SelectSeq(files, LAMBDA f : f.type = type)
Saying(files, word) == SelectSeq(files, LAMBDA f : f.type = "pdf" /\ f.says = word)

\* Sheets are of CIS and so are PDFs that say so; a PDF that says nothing goes
\* to CIS when it has a sheet and lacks a PDF, else to PCI when it lacks one.
Classified(files) ==
    LET sheets == OfType(files, "xlsx")
        plain == Saying(files, "nothing")
        toCis == IF plain # <<>> /\ sheets # <<>> /\ Saying(files, "cis") = <<>> THEN 1 ELSE 0
        toPci == Len(plain) - toCis
        cis == sheets \o Saying(files, "cis") \o SubSeq(plain, 1, toCis)
        pci == Saying(files, "pci") \o SubSeq(plain, toCis + 1, Len(plain))
        group(framework, its) == IF its = <<>> THEN <<>> ELSE <<[framework |-> framework, files |-> its]>>
    IN  IF toPci > 1 \/ (toPci = 1 /\ Saying(files, "pci") # <<>>) THEN Rejected
        ELSE [refused |-> FALSE, groups |-> group("cis", cis) \o group("pci", pci)]

Groups(r) == IF r.framework = "auto" THEN Classified(r.files)
             ELSE [refused |-> FALSE, groups |-> <<[framework |-> r.framework, files |-> r.files]>>]

\* One document of each type the framework has, and no other.
Prepared(g) == /\ {g.files[i].type : i \in DOMAIN g.files} = Targets[g.framework]
               /\ \A i, j \in DOMAIN g.files : g.files[i].type = g.files[j].type => i = j

\* The documents of a framework on their way: files of which todo, positions, are
\* still to be stored.
NoGroup == [framework |-> "none", batch |-> 0, files |-> <<>>, todo |-> {}, failed |-> FALSE]

ReceiveSources ==
    /\ filing = NoFiling /\ sourceUploads < MaxSourceUploads
    /\ sourceUploads' = sourceUploads + 1
    /\ \E r \in SourceRequests :
           filing' = IF Groups(r).refused THEN NoFiling
                     ELSE [request |-> r, groups |-> Groups(r).groups, current |-> NoGroup, ready |-> <<>>]
    /\ UNCHANGED <<sources, loads, shelf, batches, loadFaults>>

Between == filing # NoFiling /\ filing.current = NoGroup

\* Frameworks follow each other; one that is not complete refuses the request,
\* and what was stored of another before stays without a task.
PrepareGroup ==
    /\ Between /\ filing.groups # <<>>
    /\ LET g == Head(filing.groups)
       IN  IF Prepared(g)
           THEN /\ batches' = batches + 1
                /\ filing' = [filing EXCEPT !.groups = Tail(@), !.current =
                       [framework |-> g.framework, batch |-> batches + 1, files |-> g.files, todo |-> DOMAIN g.files, failed |-> FALSE]]
           ELSE filing' = NoFiling /\ UNCHANGED batches
    /\ UNCHANGED <<sources, loads, shelf, sourceUploads, loadFaults>>

SourceDocument(g, i) ==
    [framework |-> g.framework, batch |-> g.batch, type |-> g.files[i].type, edition |-> g.files[i].edition]

\* One after the other, in an order that does not matter here.
StoreSource ==
    /\ filing # NoFiling
    /\ \E i \in filing.current.todo :
           \/ /\ sources' = sources \cup {SourceDocument(filing.current, i)}
              /\ filing' = [filing EXCEPT !.current.todo = @ \ {i}]
              /\ NoLoadFault
           \/ /\ filing' = [filing EXCEPT !.current.todo = @ \ {i}, !.current.failed = TRUE]
              /\ LoadFault /\ UNCHANGED sources
    /\ UNCHANGED <<loads, shelf, batches, sourceUploads>>

\* A framework is ready when no document of it failed.
CloseGroup ==
    /\ filing # NoFiling /\ filing.current # NoGroup /\ filing.current.todo = {}
    /\ filing' = [filing EXCEPT !.current = NoGroup,
                                !.ready = IF filing.current.failed THEN @ ELSE Append(@, filing.current)]
    /\ UNCHANGED <<sources, loads, shelf, batches, sourceUploads, loadFaults>>

Busy(l) == loads[l].stage \notin {"off", "ended"}
Free(l) == loads[l].stage = "off" /\ \A k \in Loads : loads[k].stage = "off" => l <= k
Start(l, framework, batch, how, promised) ==
    LET others == {k \in Loads : Busy(k) /\ loads[k].framework = framework}
    IN  [k \in Loads |->
            IF k = l THEN [NewLoad EXCEPT !.stage = "fetch", !.framework = framework, !.batch = batch, !.promised = promised,
                                          !.replace = how.replace, !.dry = how.dry, !.alone = (others = {})]
            ELSE IF k \in others THEN [loads[k] EXCEPT !.alone = FALSE] ELSE loads[k]]

\* What the request sent for a framework.
Sent(g) == [t \in Targets[g.framework] |-> g.files[CHOOSE i \in DOMAIN g.files : g.files[i].type = t].edition]

\* A task that does not start fails the request; those before it run.
StartLoad ==
    /\ Between /\ filing.groups = <<>> /\ filing.request.trigger /\ filing.ready # <<>>
    /\ LET g == Head(filing.ready)
       IN  \/ /\ \E l \in Loads : Free(l) /\ loads' = Start(l, g.framework, g.batch, filing.request, Sent(g))
              /\ filing' = [filing EXCEPT !.ready = Tail(@)] /\ NoLoadFault
           \/ filing' = NoFiling /\ LoadFault /\ UNCHANGED loads
    /\ UNCHANGED <<sources, shelf, batches, sourceUploads>>

\* POST /api/corpus-a/ingest: a framework that is in the index already is left
\* unless it is to be replaced, one that needs documents in any case.
StartIngest ==
    /\ sourceUploads < MaxSourceUploads
    /\ \E f \in Published, replace \in BOOLEAN, l \in Loads :
           /\ {r \in shelf : r.framework = f} # {} => replace
           /\ Free(l) /\ loads' = Start(l, f, 0, [replace |-> replace, dry |-> FALSE], <<>>)
    /\ sourceUploads' = sourceUploads + 1
    /\ UNCHANGED <<sources, filing, shelf, batches, loadFaults>>

AnswerUpload ==
    /\ Between /\ filing.groups = <<>> /\ (filing.request.trigger => filing.ready = <<>>)
    /\ filing' = NoFiling
    /\ UNCHANGED <<sources, loads, shelf, batches, sourceUploads, loadFaults>>

(***************************************************************************)
(* The task.                                                               *)
(***************************************************************************)
Doing(l, stage) == loads[l].stage = stage
Becomes(l, t) == loads' = [loads EXCEPT ![l] = t]
Over(t, code) == [t EXCEPT !.stage = "ended", !.exit = code]
LoadStep(l, t) == Becomes(l, t) /\ UNCHANGED <<sources, filing, batches, sourceUploads>>

\* Bug: the documents are looked for under the framework's prefix.
FetchNewest(l) ==
    /\ Doing(l, "fetch") /\ loads[l].framework \notin Published
    /\ LET t == loads[l]
           found == {s \in sources : s.framework = t.framework}
           edition(type) == (CHOOSE s \in found : s.type = type /\ \A o \in found : o.type = type => o.batch <= s.batch).edition
       IN  LoadStep(l, IF {s.type : s \in found} # Targets[t.framework] THEN Over(t, "one")
                       ELSE [t EXCEPT !.stage = "ask", !.content = [type \in Targets[t.framework] |-> edition(type)]])
    /\ UNCHANGED <<shelf, loadFaults>>

\* The documents under the prefix, which must be all the framework has.
FetchSources(l) ==
    /\ Doing(l, "fetch") /\ loads[l].framework \notin Published
    /\ LET t == loads[l]
           found == {s \in sources : s.framework = t.framework /\ s.batch = t.batch}
           edition(type) == (CHOOSE s \in found : s.type = type).edition
       IN  LoadStep(l, IF {s.type : s \in found} # Targets[t.framework] THEN Over(t, "one")
                       ELSE [t EXCEPT !.stage = "ask", !.content = [type \in Targets[t.framework] |-> edition(type)]])
    /\ UNCHANGED <<shelf, loadFaults>>

FetchPublished(l) ==
    /\ Doing(l, "fetch") /\ loads[l].framework \in Published
    /\ \E e \in DOMAIN RowsOf :
           LoadStep(l, [loads[l] EXCEPT !.stage = "ask", !.content = [site |-> e], !.promised = [site |-> e]])
    /\ UNCHANGED <<shelf, loadFaults>>

Requirements(t, content) ==
    {[framework |-> t.framework, id |-> i, manifest |-> content] : i \in UNION {RowsOf[content[type]] : type \in DOMAIN content}}
There(t) == {r \in shelf : r.framework = t.framework}

\* What comes of a set when no more than n are taken, whichever they are.
Portions(S, n) == {s \in SUBSET S : Cardinality(s) = IF Cardinality(S) < n THEN Cardinality(S) ELSE n}

\* The manifest's hash on one requirement is enough to take it for loaded; what
\* is there otherwise is left unless it is to be replaced.
AskForVersion(l) ==
    /\ Doing(l, "ask")
    /\ \E found \in Portions(There(loads[l]), QueryTop) :
       LET t == loads[l]
           to(did) == [Over(t, "zero") EXCEPT !.did = did]
       IN  LoadStep(l, IF \E r \in found : r.manifest = t.content THEN to("duplicate")
                       ELSE IF found # {} /\ ~t.replace THEN to("conflict")
                       ELSE IF t.dry THEN to("dry")
                       ELSE [t EXCEPT !.stage = IF found = {} THEN "send" ELSE "delete", !.found = found,
                                      !.left = (found # There(t)), !.todo = Requirements(t, t.content)])
    /\ UNCHANGED <<shelf, loadFaults>>

\* Items the index refuses to delete are not noticed.
DeleteFound(l) ==
    /\ Doing(l, "delete")
    /\ \E kept \in {{}} \cup {{r} : r \in loads[l].found} :
           /\ shelf' = {r \in shelf : \A x \in loads[l].found \ kept : x.id # r.id \/ x.framework # r.framework}
           /\ LoadStep(l, [loads[l] EXCEPT !.stage = "send", !.left = @ \/ kept # {}])
           /\ IF kept = {} THEN NoLoadFault ELSE LoadFault

NextRecords(t) == Portions(t.todo, BulkSize)

SendRecords(l) ==
    /\ Doing(l, "send") /\ loads[l].todo # {}
    /\ \E batch \in NextRecords(loads[l]) : \E refused \in {{}} \cup {{r} : r \in batch} :
           LET t == loads[l]
               put == batch \ refused
           IN  /\ shelf' = {r \in shelf : \A x \in put : x.id # r.id \/ x.framework # r.framework} \cup put
               /\ LoadStep(l, [t EXCEPT !.todo = @ \ batch, !.failed = @ \/ refused # {}])
               /\ IF refused = {} THEN NoLoadFault ELSE LoadFault

EndLoad(l) ==
    /\ Doing(l, "send") /\ loads[l].todo = {}
    /\ LoadStep(l, [Over(loads[l], IF loads[l].failed THEN "one" ELSE "zero") EXCEPT !.did = "loaded"])
    /\ UNCHANGED <<shelf, loadFaults>>

\* Whatever else goes wrong, a parser that finds nothing too, is an error of
\* its framework.
LoadRaises(l) ==
    /\ Busy(l)
    /\ LoadStep(l, Over(loads[l], "one"))
    /\ LoadFault
    /\ UNCHANGED shelf

Load(l) ==
    \/ FetchSources(l) \/ FetchPublished(l) \/ AskForVersion(l) \/ DeleteFound(l) \/ SendRecords(l) \/ EndLoad(l) \/ LoadRaises(l)

SourcesNext ==
    \/ ReceiveSources \/ PrepareGroup \/ StoreSource \/ CloseGroup \/ StartLoad \/ StartIngest
    \/ AnswerUpload
    \/ \E l \in Loads : Load(l)

SourcesSpec == SourcesInit /\ [][SourcesNext]_sourceVars

(***************************************************************************)
(* Properties.                                                             *)
(***************************************************************************)

\* A task that ends with exit code zero has read the very documents of the
\* request that started it, whatever was uploaded meanwhile, and if it loaded
\* them the index has their requirements and no others of the framework.
\* Excepted are a task beside which another of the same framework ran, and one
\* that left old requirements behind: refused deletions go unnoticed, and more
\* requirements than one question returns are not deleted.
ZeroIsThatUpload ==
    [][\A l \in Loads : loads[l].exit = "none" /\ loads'[l].exit = "zero" =>
           LET t == loads'[l]
           IN  /\ t.content = t.promised
               /\ t.did = "loaded" /\ t.alone /\ ~t.left =>
                      {r \in shelf' : r.framework = t.framework} = Requirements(t, t.promised)]_sourceVars
=============================================================================
