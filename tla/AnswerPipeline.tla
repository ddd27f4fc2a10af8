--------------------------- MODULE AnswerPipeline ---------------------------
(***************************************************************************)
(* How a question is answered: the page and the API of endpoints/ask.py,   *)
(* and _run_rag of pipeline/rag_pipeline.py with the retrieval of          *)
(* pipeline/search.py, the model calls of pipeline/llm_chat.py and the     *)
(* answers of pipeline/answer.py.                                          *)
(*                                                                         *)
(* The guard looks at the question, evidence and controls are retrieved    *)
(* from the selected corpora and the graph adds to them, what is in scope  *)
(* becomes the context of the model, and an evaluator that is not content  *)
(* with the answer has it amended once.                                    *)
(***************************************************************************)
EXTENDS Integers, Sequences, FiniteSets, SequencesExt

CONSTANTS Documents,      \* [id, corpus, hint] records: what is indexed
          Frameworks,     \* hints that name a framework; others name a source
          Asked,          \* requests: [route, authorised, blank, include, exclude, k, mode, expand, framework, earlier],
                          \* the last of them the documents the turns and the feedback of its conversation tell of
          SearchTopK,     \* of each thinking mode
          DefaultK,       \* retrieve_k of an API request that gives none
          MaxK,           \* the most chunks a request may ask for
          Costs,          \* numbers of requests that are looked at, of those a call of the model may take
          MaxCommunities, \* bound on the communities of an expansion
          SmallK,         \* _SMALL_K_REBALANCE_THRESHOLD
          Threshold,      \* evaluation_threshold
          NoFilter,       \* evidence_corpora_include is None
          NoText          \* no answer, no evaluation

ASSUME AnswerAssumption ==
    /\ Threshold \in Int /\ MaxCommunities \in Nat /\ MaxK \in Nat /\ Costs \subseteq Nat
    /\ \A C \in SUBSET {"a", "b", "c"} : C # NoFilter

VARIABLES
    asked,       \* the request
    question,    \* what is made of it for run_rag: [include, exclude, k, expand, framework, earlier]
    progress,
    chunks,      \* the evidence, in order
    controls,    \* the controls, a set
    communities, \* of the expansion: how many, how many named, how many told of
    scope,       \* the corpora in scope
    context,     \* what the model is given
    answer,      \* [draft, text]: which draft it is and what it consists of
    evaluation,  \* [of, acceptable, score]
    summary,     \* documents that a summary in place of an answer has shown
    given,       \* documents that the model has been given, and the evaluator
    calls,       \* requests to the model
    repeated,    \* whether the draft has been begun anew after a TypeError
    response        \* what the caller gets

answerVars == <<asked, question, progress, chunks, controls, communities, scope, context, answer, evaluation, summary, given, calls, repeated,
                response>>
requestState == <<asked, question, response>>
modelState == <<summary, given, calls, repeated>>

Corpora == {"a", "b", "c"}
Of(C) == {d \in Documents : d.corpus \in C}

\* _resolve_evidence_corpora
Selected == (IF question.include = NoFilter THEN Corpora ELSE question.include) \ question.exclude

NoCommunities == [found |-> 0, named |-> 0, told |-> 0]

AnswerInitWith(requests) ==
    /\ asked \in requests /\ question = NoText /\ progress = "asked" /\ response = NoText
    /\ chunks = <<>> /\ controls = {} /\ communities = NoCommunities /\ scope = {} /\ context = {}
    /\ answer = NoText /\ evaluation = NoText /\ summary = {} /\ given = {} /\ calls = 0 /\ repeated = FALSE

AnswerInit == AnswerInitWith(Asked)

(***************************************************************************)
(* The endpoints.                                                          *)
(***************************************************************************)
Supported(names) == names \cap Corpora
Preset == SearchTopK[asked.mode]
Refuse(status) ==
    /\ progress = "asked" /\ progress' = "refused"
    /\ response' = [status |-> status, text |-> "refused"]
    /\ UNCHANGED <<asked, question, chunks, controls, communities, scope, context, answer, evaluation, modelState>>

RefusePage == asked.route = "page" /\ ~asked.authorised /\ Refuse(401)

\* Only the API looks whether there is a question and how much it asks for.
Valid == ~asked.blank /\ asked.k \in 1..MaxK
RefuseInvalid == asked.route = "api" /\ ~Valid /\ Refuse(422)
RefuseApi == asked.route = "api" /\ Valid /\ ~asked.authorised /\ Refuse(401)

Run(include, k, earlier) ==
    /\ progress = "asked" /\ asked.authorised /\ progress' = "guard"
    /\ question' = [include |-> include, exclude |-> Supported(asked.exclude), k |-> k,
                     expand |-> asked.expand, framework |-> asked.framework, earlier |-> earlier]
    /\ UNCHANGED <<asked, response, chunks, controls, communities, scope, context, answer, evaluation, modelState>>

\* A form that names no corpus, or none there is, names all; a number that is
\* zero is the preset of the thinking mode, and others are brought into range.
\* Only the page has conversations, and puts the earlier turns to the model.
NamedOrAll == IF Supported(asked.include) = {} THEN NoFilter ELSE Supported(asked.include)
PageK == LET k == IF asked.k = 0 THEN Preset ELSE asked.k
         IN  IF k < 1 THEN 1 ELSE IF k > MaxK THEN MaxK ELSE k
AskPage == asked.route = "page" /\ Run(NamedOrAll, PageK, asked.earlier)

\* To the API an empty list means none, and the default number the preset.
ApiInclude == IF asked.include = NoFilter THEN NoFilter
              ELSE IF asked.include = {} THEN {} ELSE NamedOrAll
ApiK == IF asked.k = DefaultK THEN Preset ELSE asked.k
AskApi == asked.route = "api" /\ Valid /\ Run(ApiInclude, ApiK, {})

(***************************************************************************)
(* run_rag.                                                                *)
(***************************************************************************)

\* What the guard asks of the validator, another model, when the rules flag the
\* question and do not block it.  A validator that fails has no say.
Validate(n) == calls' = calls + n /\ UNCHANGED <<summary, given, repeated>>

\* The deterministic rules or the validator refuse the question.
BlockQuestion(n) ==
    /\ progress = "guard"
    /\ Validate(n)
    /\ progress' = "blocked"
    /\ answer' = [draft |-> 0, text |-> "refusal"]
    /\ UNCHANGED <<requestState, chunks, controls, communities, scope, context, evaluation>>

AllowQuestion(n) ==
    /\ progress = "guard"
    /\ Validate(n)
    /\ progress' = "retrieve"
    /\ UNCHANGED <<requestState, chunks, controls, communities, scope, context, answer, evaluation>>

\* A search brings at most k documents of the corpora it is filtered by, in the
\* order of their scores, and none when it or the embedding fails.
Hits(C, k) == {s \in UNION {[1..n -> Of(C)] : n \in 0..k} : \A i, j \in DOMAIN s : s[i] = s[j] => i = j}

\* Guidance and evidence are searched apart when both are selected.
Finds == {g \o h : g \in Hits({"b"}, MaxK), h \in Hits({"c"}, MaxK)}

Retrieve(found) ==
    /\ progress = "retrieve"
    /\ LET wanted == Selected \ {"a"}
       IN  IF wanted = {"b", "c"}
           THEN \E n \in 0..Len(found) : /\ SubSeq(found, 1, n) \in Hits({"b"}, question.k)
                                         /\ SubSeq(found, n + 1, Len(found)) \in Hits({"c"}, question.k)
           ELSE found \in Hits(wanted, question.k)
    /\ chunks' = found
    /\ progress' = "rebalance"
    /\ UNCHANGED <<requestState, controls, communities, scope, context, answer, evaluation, modelState>>

\* _small_k_chunk_rebalance: when one framework dominates a short result the
\* chunks of the frameworks, and of the sources that name none, take turns.
Hinted(h) == {i \in DOMAIN chunks : chunks[i].hint = h}
Hints == {chunks[i].hint : i \in DOMAIN chunks}
FirstAt(h) == CHOOSE i \in Hinted(h) : \A j \in Hinted(h) : i <= j
\* Bug: chunks are taken from the end.
RankFromEnd(i) == Cardinality({j \in Hinted(chunks[i].hint) : i <= j})

Rank(i) == Cardinality({j \in Hinted(chunks[i].hint) : j <= i})
TakesTurnBefore(i, j) == Rank(i) < Rank(j) \/ (Rank(i) = Rank(j) /\ FirstAt(chunks[i].hint) < FirstAt(chunks[j].hint))
Place(i) == Cardinality({j \in DOMAIN chunks : TakesTurnBefore(j, i)}) + 1
Dominated == \E h \in Hints \cap Frameworks : 5 * Cardinality(Hinted(h)) >= 3 * Len(chunks)
InTurns == [n \in DOMAIN chunks |-> chunks[CHOOSE i \in DOMAIN chunks : Place(i) = n]]

Rebalance ==
    /\ progress = "rebalance"
    /\ LET apply == question.k < SmallK /\ Len(chunks) > 2 /\ ~question.framework /\ Dominated
       IN  chunks' = IF apply THEN InTurns ELSE chunks
    /\ progress' = "controls"
    /\ UNCHANGED <<requestState, controls, communities, scope, context, answer, evaluation, modelState>>

SearchControls(found) ==
    /\ progress = "controls"
    /\ controls' = IF question.include = NoFilter \/ "a" \in Selected THEN found ELSE {}
    /\ progress' = "expand"
    /\ UNCHANGED <<requestState, chunks, communities, scope, context, answer, evaluation, modelState>>

\* The graph adds controls and guidance that what was found is linked to,
\* whatever corpora are selected.  It tells how many communities it has reached.
ExpandByGraph(found, reached) ==
    /\ progress = "expand"
    /\ reached > 0 => question.expand /\ (controls # {} \/ \E i \in DOMAIN chunks : chunks[i].corpus = "b")
    /\ found # {} => reached > 0
    /\ controls' = controls \cup {d \in found : d.corpus = "a"}
    /\ chunks' = FoldSet(LAMBDA d, seq : Append(seq, d), chunks, {d \in found : d.corpus = "b"} \ ToSet(chunks))
    /\ communities' = [NoCommunities EXCEPT !.found = reached]
    /\ progress' = IF reached > 0 THEN "communities" ELSE "scope"
    /\ UNCHANGED <<requestState, scope, context, answer, evaluation, modelState>>

\* The model is asked to name each community, and then to tell of each what it
\* is: names of requirements, frameworks and files are put before it, not what
\* they say.  One that fails goes without; a blank one is asked for once more.
AskOfCommunity(n, part) ==
    /\ progress = "communities"
    /\ communities' = [communities EXCEPT ![part] = @ + 1]
    /\ calls' = calls + n
    /\ progress' = IF communities'.told = communities.found THEN "scope" ELSE progress
    /\ UNCHANGED <<requestState, chunks, controls, scope, context, answer, evaluation, summary, given, repeated>>

NameCommunity(n) == communities.named < communities.found /\ AskOfCommunity(n, "named")
TellOfCommunity(n) == communities.named = communities.found /\ AskOfCommunity(n, "told")

Retrieved(c) == \E d \in controls \cup ToSet(chunks) : d.corpus = c

\* Bug: whatever was retrieved is in scope.
InScopeIfFound(c, known) == IF c \in known THEN Of({c}) # {} ELSE Retrieved(c)

\* _build_scope_profile: known says of which corpora a probe could tell whether
\* they have documents.
InScope(c, known) ==
    /\ c \in Selected
    /\ IF c \in known THEN Of({c}) # {} ELSE Retrieved(c)

\* Each corpus is a section of the context, what is out of scope an empty one.
ContextOf(corpora) == {d \in controls \cup ToSet(chunks) : d.corpus \in corpora}

SetScope(known) ==
    /\ progress = "scope"
    /\ scope' = {c \in Corpora : InScope(c, known)}
    /\ context' = ContextOf(scope')
    /\ IF scope' = {}
       THEN progress' = "outOfScope" /\ answer' = [draft |-> 0, text |-> "nothingInScope"]
       ELSE progress' = "answer" /\ UNCHANGED answer
    /\ UNCHANGED <<requestState, chunks, controls, communities, evaluation, modelState>>

\* The messages: the earlier turns and the feedback of the conversation, the
\* context, and when it is to be amended the answer so far.  The evaluator gets
\* the context and the answer.
Judged == context \cup summary
Messages == question.earlier \cup Judged

\* n requests with these documents.  A completion is one request, and a second
\* when the model takes no temperature or top_p; a try for a draft is one
\* completion, and another when that raised a TypeError.
Completion(n, documents) ==
    /\ calls' = calls + n
    /\ given' = IF n = 0 THEN given ELSE given \cup documents

\* The first draft, and the one that is to amend it.  A blank completion is
\* asked for once more at another temperature; if it is blank again a summary of
\* what was retrieved, in scope or not, stands for it.  (It shows the first five
\* of each corpus.)  A TypeError of the second completion of a try has the whole
\* draft begun anew, once.
Summary == controls \cup ToSet(chunks)
Drafting == {"answer", "answerAgain", "amend", "amendAgain"}
First == progress \in {"answer", "answerAgain"}

Drafted(text) ==
    /\ answer' = [draft |-> IF First THEN 1 ELSE 2, text |-> text]
    /\ summary' = IF text = "summary" THEN summary \cup Summary ELSE summary
    /\ progress' = IF First THEN "evaluate" ELSE "evaluateAgain"
    /\ repeated' = FALSE
    /\ UNCHANGED <<requestState, chunks, controls, communities, scope, context, evaluation>>

ModelAnswers(n) == progress \in {"answer", "amend"} /\ Completion(n, Messages) /\ Drafted("text")
RetryAnswers(n, text) == progress \in {"answerAgain", "amendAgain"} /\ Completion(n, Messages) /\ Drafted(text)

NoDraftYet == UNCHANGED <<requestState, chunks, controls, communities, scope, context, answer, evaluation, summary>>

\* Bug: the first request is made again and again.
AskAgain(n) == progress \in {"answer", "amend"} /\ Completion(n, Messages) /\ NoDraftYet /\ UNCHANGED <<progress, repeated>>

ModelIsBlank(n) ==
    /\ progress \in {"answer", "amend"}
    /\ Completion(n, Messages)
    /\ progress' = IF First THEN "answerAgain" ELSE "amendAgain"
    /\ NoDraftYet /\ UNCHANGED repeated

BeginAnew(n) ==
    /\ progress \in Drafting /\ ~repeated /\ repeated' = TRUE
    /\ Completion(n, Messages)
    /\ progress' = IF First THEN "answer" ELSE "amend"
    /\ NoDraftYet

\* What the evaluator says, when it cannot be read a score of zero.
Verdict(n, acceptable, score) ==
    /\ Completion(n, Judged)
    /\ evaluation' = [of |-> answer.draft, acceptable |-> acceptable, score |-> score]
    /\ UNCHANGED <<requestState, chunks, controls, communities, scope, context, answer, summary, repeated>>

\* Bug: the score does not count.
EvaluateLoosely(n, acceptable, score) ==
    /\ progress = "evaluate"
    /\ Verdict(n, acceptable, score)
    /\ progress' = IF ~acceptable THEN "amend" ELSE "done"

Evaluate(n, acceptable, score) ==
    /\ progress = "evaluate"
    /\ Verdict(n, acceptable, score)
    /\ progress' = IF ~acceptable \/ score < Threshold THEN "amend" ELSE "done"

EvaluateAgain(n, acceptable, score) ==
    /\ progress = "evaluateAgain"
    /\ Verdict(n, acceptable, score)
    /\ progress' = "done"

\* A call of the model or a search of the controls raises, and run_rag with it.
RunRaises(n) ==
    /\ \/ progress = "controls" /\ n = 0 /\ Completion(n, {})
       \/ progress \in Drafting /\ Completion(n, Messages)
       \/ progress \in {"evaluate", "evaluateAgain"} /\ n <= 2 /\ Completion(n, Judged)
    /\ progress' = "raised"
    /\ answer' = NoText
    /\ UNCHANGED <<requestState, chunks, controls, communities, scope, context, evaluation, summary, repeated>>

Finished == {"blocked", "outOfScope", "done", "raised"}

Respond(failed) ==
    /\ progress \in Finished /\ progress' = "replied"
    /\ response' = IF progress = "raised" THEN failed ELSE [status |-> 200, text |-> answer.text]
    /\ UNCHANGED <<asked, question, chunks, controls, communities, scope, context, answer, evaluation, modelState>>

\* The page shows an error and no answer, the API reports a problem.
AnswerPage == asked.route = "page" /\ Respond([status |-> 200, text |-> "error"])
AnswerApi == asked.route = "api" /\ Respond([status |-> 500, text |-> "error"])

AnswerNext ==
    \/ RefusePage \/ RefuseInvalid \/ RefuseApi \/ AskPage \/ AskApi \/ AnswerPage \/ AnswerApi
    \/ \E n \in Costs \cap (0..2) : BlockQuestion(n) \/ AllowQuestion(n)
    \/ \E f \in Finds : Retrieve(f)
    \/ Rebalance
    \/ \E f \in SUBSET Of({"a"}) : SearchControls(f)
    \/ \E f \in SUBSET Of({"a", "b"}), n \in 0..MaxCommunities : ExpandByGraph(f, n)
    \/ \E n \in Costs \cap (0..8) : NameCommunity(n) \/ TellOfCommunity(n)
    \/ \E known \in SUBSET Corpora : SetScope(known)
    \/ \E n \in Costs \cap (1..4) :
          \/ ModelAnswers(n) \/ ModelIsBlank(n)
          \/ \E text \in {"text", "summary"} : RetryAnswers(n, text)
    \/ \E n \in Costs \cap (0..4) : BeginAnew(n) \/ RunRaises(n)
    \/ \E n \in Costs \cap (1..2), ok \in BOOLEAN, score \in {Threshold - 1, Threshold} :
          Evaluate(n, ok, score) \/ EvaluateAgain(n, ok, score)

AnswerSpec == AnswerInit /\ [][AnswerNext]_answerVars

(***************************************************************************)
(* Properties.                                                             *)
(***************************************************************************)

MayUse(c) == /\ c \notin asked.exclude
             /\ asked.include # NoFilter /\ Supported(asked.include) # {} => c \in asked.include
             /\ ~(asked.route = "api" /\ asked.include = {})

\* Of what is retrieved for a question the model and the evaluator are only given
\* documents of corpora the caller wants, although the graph, and the search of
\* controls when a corpus is excluded rather than others included, bring documents
\* of the others too: none that is excluded, those that are named when one is, and
\* none when the API is given an empty list.  Outside that context they are given
\* what the earlier turns and the feedback of the conversation tell of, whatever
\* corpora those were asked from, and what a summary in place of an answer has
\* shown, which is made of whatever was retrieved; and nothing else.
ContextWithinSelection ==
    \A d \in given : \/ d \in context /\ MayUse(d.corpus)
                     \/ d \notin context /\ (d \in summary \/ d \in question.earlier)

\* An answer that is returned, and replied, is the one its evaluation is about, and it was
\* found acceptable or is a second draft.
AnswerIsEvaluated ==
    progress = "done" \/ (response # NoText /\ response.text \in {"text", "summary"}) =>
        /\ response # NoText => response.text = answer.text
        /\ evaluation.of = answer.draft
        /\ answer.draft = 2 \/ (evaluation.acceptable /\ evaluation.score >= Threshold)

\* However often the model is blank, refuses a parameter or has a TypeError
\* raised, a question costs at most 38 requests: two for the validator, for each
\* of two drafts two times two tries of four, and two for each of two
\* evaluations; and two prompts of two tries for each community the graph has
\* reached.
CallsAreBounded == calls <= 38 + 16 * communities.found

\* The how-manieth of its framework or source a chunk is.
Turn(s, i) == Cardinality({j \in DOMAIN s : j <= i /\ s[j].hint = s[i].hint})

\* Taking turns loses no chunk and adds none, keeps the order within each
\* framework or source, and none has a further chunk before all others that
\* have as many have had theirs.
RebalanceKeepsChunks ==
    [][progress = "rebalance" =>
          /\ Len(chunks') = Len(chunks)
          /\ \A i \in DOMAIN chunks : \E j \in DOMAIN chunks' : chunks'[j] = chunks[i] /\ Turn(chunks', j) = Turn(chunks, i)
          /\ chunks' # chunks => \A i, j \in DOMAIN chunks' : Turn(chunks', i) < Turn(chunks', j) => i < j]_answerVars
=============================================================================
