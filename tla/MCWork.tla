------------------------------- MODULE MCWork -------------------------------
(***************************************************************************)
(* The parts that work in the background or on their own data: report      *)
(* jobs, the ways documents and controls get into their indexes, the       *)
(* stages and the answer of an assessment, and the stores of the polling   *)
(* worker.  They share no variable: scene says which one moves, and the    *)
(* others are at rest.                                                     *)
(***************************************************************************)
EXTENDS ReportJobs, CorpusIndexing, GroundingJobAws, LocalCorpus, AssessmentStages, CommentParts, ControlsSources,
        LocalControls, PollingStores

VARIABLE scene
workVars == <<jobVars, corpusVars, taskVars, localVars, stageVars, partVars, sourceVars, localControlVars, docVars>>

\* Report jobs: two controls.
MCReportControls == <<"k1", "k2">>

\* Uploads: a text that may be there already, the same as another type with one
\* that is not there, and one of the other corpus; blobs without metadata.
Upload(corpus, files, reindex) == [corpus |-> corpus, files |-> files, reindex |-> reindex, trigger |-> TRUE]
Page(hash, ext) == [hash |-> hash, ext |-> ext]
MCUploads == {Upload("b", <<Page("1", "pdf")>>, TRUE), Upload("b", <<Page("1", "doc"), Page("2", "pdf")>>, FALSE),
              Upload("c", <<Page("1", "pdf")>>, FALSE)}
MCLegacy == {{}, {[corpus |-> "b", hash |-> "1", ext |-> "pdf", whole |-> FALSE, at |-> 1]}}

\* Objects: one text as two types and in both corpora.
S3File(corpus, ext, chunks) == [corpus |-> corpus, hash |-> "1", ext |-> ext, chunks |-> chunks]
MCS3Files == {S3File("b", "pdf", 2), S3File("b", "xlsx", 1), S3File("c", "pdf", 2)}

\* Local files: a page of HTML in both corpora, and another file.
Local(name, corpus, hash, html) == [name |-> name, corpus |-> corpus, hash |-> hash, html |-> html]
MCLocalFiles == {Local("n", "b", "1", TRUE), Local("n", "c", "1", TRUE), Local("m", "b", "1", FALSE), Local("m", "c", "2", FALSE)}

\* A group of three resources, of which two are read; one policy is assigned to the
\* group and to a resource, and one assignment is inherited.
MCScopes == {<<"r1">>, <<"r3", "r1", "r2">>}
MCEstate ==
    LET a(id, policy) == [id |-> id, policy |-> policy]
        path == [subscription |-> <<a("1", "p")>>, group |-> <<a("1", "p"), a("2", "q")>>,
                 r1 |-> <<a("3", "q"), a("4", "none")>>, r2 |-> <<>>, r3 |-> <<a("2", "q")>>]
    IN  [resources |-> <<"r1", "r2", "r3">>, assigned |-> path]

\* Requests for an assessment, by where they come from, what they lack and who asks.
MCRequests ==
    {r \in [source : {"event", "email", "queue"}, missing : {"nothing", "url", "id"}, kind : {"assessment_requested", "other"},
            provider : {"confluence", "sharepoint", "azure"}, scope : {<<>>} \cup MCScopes, mode : {"app_only", "delegated"}, requester : {"", "u"},
            readable : BOOLEAN, each : BOOLEAN, review : BOOLEAN] :
        /\ r.kind = "other" => r.source = "queue"
        /\ r.missing # "nothing" => r.mode = "app_only" /\ ~r.review
        /\ r.requester = "u" => r.mode = "delegated"
        /\ r.provider = "azure" => r.readable /\ r.mode = "app_only" /\ r.missing = "nothing" /\ r.source = "queue"
        /\ r.provider = "sharepoint" => r.missing = "nothing" /\ r.source = "event" /\ r.readable
        /\ r.scope # <<>> => r.provider = "azure"
        /\ r.review => r.source = "event"}
MCAllControls == <<[id |-> "1", scope |-> "technical", sure |-> TRUE], [id |-> "2", scope |-> "process", sure |-> TRUE],
                   [id |-> "3", scope |-> "governance", sure |-> FALSE]>>

\* Reports of up to three sections, short, long and too long.
MCRenderings == UNION {[1..n -> {1, 4, 6}] : n \in 0..3}

\* Documents of frameworks: told apart by name or not, complete or not, of two editions.
MCSourceRequests ==
    LET sheet(e) == [type |-> "xlsx", says |-> "nothing", edition |-> e]
        pdf(says, e) == [type |-> "pdf", says |-> says, edition |-> e]
        ask(framework, files, how) == [framework |-> framework, files |-> files, trigger |-> how # "store",
                                       replace |-> how = "replace", dry |-> how = "dry"]
    IN  {ask("cis", <<sheet(1), pdf("nothing", 1)>>, "load"), ask("cis", <<sheet(2), pdf("cis", 2)>>, "replace"),
         ask("auto", <<sheet(1), pdf("nothing", 2), pdf("nothing", 1)>>, "replace"),
         ask("auto", <<sheet(1), pdf("pci", 1)>>, "load"), ask("auto", <<pdf("cis", 1), pdf("nothing", 1)>>, "load"),
         ask("auto", <<pdf("nothing", 1), pdf("nothing", 2)>>, "load"),
         ask("pci", <<pdf("nothing", 1)>>, "dry"), ask("pci", <<pdf("pci", 2)>>, "store")}
MCTargets == [cis |-> {"xlsx", "pdf"}, pci |-> {"pdf"}]
MCRows == <<{1, 2}, {1, 3}>>

\* What the parts that are at rest have before them: a report job that was
\* refused, and nothing for the others to do.
RestingReport ==
    /\ order = [kind |-> "compliance", strategy |-> "per_control", validation |-> "hard", now |-> FALSE] /\ indexed = FALSE
    /\ registered = FALSE /\ stage = "ended" /\ state = "none" /\ result = NoReport /\ jobError = FALSE
    /\ todo = <<>> /\ total = 0 /\ findings = <<>> /\ failed = FALSE /\ report = NoReport
    /\ browser = "refused" /\ reading = <<>> /\ shown = [state |-> "none", error |-> FALSE, result |-> NoReport]
    /\ restarted = FALSE
RestingRequest == CHOOSE r \in MCRequests : r.missing = "url"

MCWorkInit ==
    /\ scene \in {"report", "corpus", "task", "local", "stages", "parts", "sources", "controls"} \cup DocumentTypes
    /\ IF scene = "report" THEN ReportInit ELSE RestingReport
    /\ IF scene = "corpus" THEN CorpusInit ELSE CorpusInitWith({{}})
    /\ TaskInit
    /\ LocalInit /\ (scene # "local" => memory = {})
    /\ IF scene = "stages" THEN StageInit ELSE StageInitWith({RestingRequest})
    /\ PartsInit /\ (scene # "parts" => rendering = <<>>)
    /\ SourcesInit
    /\ LocalControlsInit /\ (scene # "controls" => \A f \in LocalFrameworks : onDisk[f] = NoEdition /\ parsed[f] = NoEdition)
    /\ DocumentsInit(IF scene \in DocumentTypes THEN StoreKinds ELSE {"none"})

MCWorkNext ==
    /\ UNCHANGED scene
    /\ \/ /\ scene = "report" /\ ReportNext
          /\ UNCHANGED <<corpusVars, taskVars, localVars, stageVars, partVars, sourceVars, localControlVars, docVars>>
       \/ /\ scene = "corpus" /\ CorpusNext
          /\ UNCHANGED <<jobVars, taskVars, localVars, stageVars, partVars, sourceVars, localControlVars, docVars>>
       \/ /\ scene = "task" /\ TaskNext
          /\ UNCHANGED <<jobVars, corpusVars, localVars, stageVars, partVars, sourceVars, localControlVars, docVars>>
       \/ /\ scene = "local" /\ LocalNext
          /\ UNCHANGED <<jobVars, corpusVars, taskVars, stageVars, partVars, sourceVars, localControlVars, docVars>>
       \/ /\ scene = "stages" /\ StageNext
          /\ UNCHANGED <<jobVars, corpusVars, taskVars, localVars, partVars, sourceVars, localControlVars, docVars>>
       \/ /\ scene = "parts" /\ PartsNext
          /\ UNCHANGED <<jobVars, corpusVars, taskVars, localVars, stageVars, sourceVars, localControlVars, docVars>>
       \/ /\ scene = "sources" /\ SourcesNext
          /\ UNCHANGED <<jobVars, corpusVars, taskVars, localVars, stageVars, partVars, localControlVars, docVars>>
       \/ /\ scene = "controls" /\ LocalControlsNext
          /\ UNCHANGED <<jobVars, corpusVars, taskVars, localVars, stageVars, partVars, sourceVars, docVars>>
       \/ /\ scene \in DocumentTypes /\ StoresNext({scene})
          /\ UNCHANGED <<jobVars, corpusVars, taskVars, localVars, stageVars, partVars, sourceVars, localControlVars>>

MCWorkSpec ==
    MCWorkInit /\ [][MCWorkNext]_<<scene, workVars>> /\ WF_jobVars(Worker) /\ WF_jobVars(Browser)
=============================================================================
