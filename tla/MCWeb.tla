------------------------------- MODULE MCWeb -------------------------------
(***************************************************************************)
(* The parts of the web application that answer requests on their own.     *)
(* They share no variable, so that a behaviour of one of them is a         *)
(* behaviour of all with the others at rest: scene says which one moves.   *)
(***************************************************************************)
EXTENDS GraphSnapshot, GraphQuery, Conversations, AnswerPipeline, ControlsSearch

VARIABLE scene
allVars == <<scene, snapshotVars, queryVars, conversationVars, answerVars, inquiryVars>>

\* Graphs: one control with and without shared words, two of two frameworks,
\* four in a row, fields left empty; guidance of one source, of none, and an artifact.
Control(id, f, family, words) == [id |-> id, framework |-> f, family |-> family, source |-> "s", words |-> words]
Chunk(name, hash, corpus, words) == [source |-> name, hash |-> hash, corpus |-> corpus, words |-> words]
MCControls == {<<Control("1", "f", "k", {"x", "y"})>>,
               <<Control("1", "f", "k", {"x", "y"}), Control("2", "g", "", {"y"})>>,
               <<Control("1", "f", "", {"x"}), Control("2", "g", "", {"x", "y"}), Control("3", "h", "", {"y", "z"}),
                 Control("4", "i", "", {"z"})>>,
               <<Control("1", "f", "k", {"x"}), Control("", "f", "k", {"x"}), Control("1", "", "", {"y"})>>}
MCChunks == {<<>>,
             <<Chunk("s", "h", "b", {"x", "z"})>>,
             <<Chunk("t", "h", "b", {"x", "y"}), Chunk("t", "i", "c", {"y"}), Chunk("", "h", "b", {"y"})>>}
MCGraphInputs == {[controls |-> c, chunks |-> k] : c \in MCControls, k \in MCChunks}
MCRequests ==
    LET ask(kind, depth, maxEdges, maxNodes, types) ==
            [kind |-> kind, depth |-> depth, maxEdges |-> maxEdges, maxNodes |-> maxNodes, types |-> types]
        some == {{}, {"CorpusAControl", "CorpusBGuidanceChunk"}}
    IN  {ask("related", d, n, 20, {}) : d \in 1..3, n \in {1, 2, 3, 5, 20}}
        \cup {ask("query", d, n, k, t) : d \in 1..2, n \in {3, 20}, k \in {2, 20}, t \in some}
        \cup {ask(q, 1, n, k, t) : q \in {"list", "export"}, n \in {3, 20}, k \in {2, 20}, t \in some}
        \cup {ask("expand", d, n, 20, {}) : d \in 1..2, n \in {1, 3, 20}}
        \cup {ask("communities", 1, 20, 20, {})}
MCThreshold == [small |-> 1, medium |-> 2, large |-> 3]

\* Documents: a control, guidance of one framework, artifacts of another and of none.
Doc(id, corpus, hint) == [id |-> id, corpus |-> corpus, hint |-> hint]
MCDocuments == {Doc("k", "a", "pci"), Doc("g", "b", "pci"), Doc("h", "b", "pci"), Doc("e", "c", "ism"), Doc("f", "c", "file")}
MCFrameworks == {"pci", "ism"}
\* Questions of the page and of the API; one corpus there is not, numbers at and
\* beyond the ends of the range, and earlier turns that tell of another corpus.
MCAsked ==
    LET ask(route, include, exclude, k, expand) ==
            [route |-> route, authorised |-> TRUE, blank |-> FALSE, include |-> include, exclude |-> exclude, k |-> k,
             mode |-> "quick", expand |-> expand, framework |-> FALSE, earlier |-> {}]
    IN  {ask("page", i, {}, 0, TRUE) : i \in {{}, {"b", "c"}, {"a", "b", "x"}}}
        \cup {ask("page", {}, e, 0, TRUE) : e \in {{"a"}, {"b", "x"}}}
        \cup {ask("api", i, {"b"}, 1, TRUE) : i \in {NoFilter, {"b", "c"}}}
        \cup {ask("api", {}, {}, 1, TRUE)}
        \cup {[ask("page", {"c"}, {}, 0, FALSE) EXCEPT !.earlier = {Doc("k", "a", "pci"), Doc("e", "c", "ism")}]}
        \cup {ask("page", {"x"}, {}, k, FALSE) : k \in {-1, 3}}
        \cup {ask("api", {"a", "b"}, {}, k, FALSE) : k \in {0, 2}}
        \cup {[ask(r, NoFilter, {}, 2, FALSE) EXCEPT !.authorised = FALSE, !.blank = (b = 1)] : r \in {"page", "api"}, b \in {0, 1}}
MCTopK == [quick |-> 2]

\* Controls of three frameworks, two of them sharing a family, one requirement
\* from two sources, one with a score that is noise.
Found(id, f, document, family, hits, score) ==
    [id |-> id, framework |-> f, source |-> document, family |-> family, overlap |-> hits, score |-> score]
MCRankings ==
    LET a == Found("1", "ism", "i", "acc", 2, 30)
        b == Found("2", "ism", "i", "log", 2, 20)
        c == Found("3", "pci", "p", "net", 1, 20)
        d == Found("3", "pci", "q", "acc", 1, 4)
        e == Found("4", "e8", "e", "", 0, 12)
        f == Found("5", "e8", "e", "", 1, 30)
    IN  {<<a, b, c, d, e, f>>, <<[f EXCEPT !.score = 4], e, d, c, b, a>>, <<a, b, d>>}
MCInquiries ==
    LET ask(words) == [k : 1..4, explicit : {AnyFramework, "pci"}, inferred : {AnyFramework, "ism"}, compare : BOOLEAN,
                       preferred : {AnyFramework, "e8"}, words : {words}, wordings : IF words THEN 1..2 ELSE {1},
                       more : {IF words THEN 0 ELSE 2}]
    IN  ask(TRUE) \cup ask(FALSE)
MCAuthority == [ism |-> 0, pci |-> 1, e8 |-> 2]
MCCompared == <<"e8", "ism", "pci">>

WebSymmetry == Permutations(Builders)

\* What the parts that are at rest have before them.
RestingRequest == [kind |-> "export", depth |-> 1, maxEdges |-> 1, maxNodes |-> 1, types |-> {}]
RestingInput == [controls |-> <<Control("1", "", "", {})>>, chunks |-> <<>>]
RestingQuestion == CHOOSE r \in MCAsked : r.route = "api" /\ r.blank
RestingInquiry == [k |-> 1, explicit |-> "pci", inferred |-> "pci", compare |-> FALSE, preferred |-> "pci", words |-> FALSE,
                   wordings |-> 0, more |-> 0]

MCWebInit ==
    /\ scene \in {"snapshot", "query", "conversations", "answer", "controls"}
    /\ SnapshotInit /\ (scene # "snapshot" => backend = "local" /\ ~overlap)
    /\ IF scene = "query" THEN QueryInit ELSE QueryInitWith({RestingRequest}, {RestingInput})
    /\ ConversationsInit /\ (scene # "conversations" => persistent)
    /\ IF scene = "answer" THEN AnswerInit ELSE AnswerInitWith({RestingQuestion})
    /\ IF scene = "controls" THEN SearchInit ELSE SearchInitWith({RestingInquiry})

MCWebNext ==
    \/ scene = "snapshot" /\ SnapshotNext /\ UNCHANGED <<scene, queryVars, conversationVars, answerVars, inquiryVars>>
    \/ scene = "query" /\ QueryNext /\ UNCHANGED <<scene, snapshotVars, conversationVars, answerVars, inquiryVars>>
    \/ scene = "conversations" /\ ConversationsNext /\ UNCHANGED <<scene, snapshotVars, queryVars, answerVars, inquiryVars>>
    \/ scene = "answer" /\ AnswerNext /\ UNCHANGED <<scene, snapshotVars, queryVars, conversationVars, inquiryVars>>
    \/ scene = "controls" /\ SearchNext /\ UNCHANGED <<scene, snapshotVars, queryVars, conversationVars, answerVars>>

MCWebSpec == MCWebInit /\ [][MCWebNext]_allVars
=============================================================================
