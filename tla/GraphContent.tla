---------------------------- MODULE GraphContent ----------------------------
(***************************************************************************)
(* What a build puts into the graph: query_web/graph_foundation.py,        *)
(* graph_artifacts.py, graph_batch.py, and the size bands of               *)
(* graph_traversal.py.  An identifier is the tuple of what it is made of,  *)
(* already in lower case; a text is the set of its words.                  *)
(***************************************************************************)
EXTENDS Integers, Sequences, FiniteSets

CONSTANTS SmallEdges, LargeEdges,        \* GRAPH_SIZE_SMALL_EDGES, GRAPH_SIZE_LARGE_EDGES
          GuidanceThreshold,             \* GRAPH_GUIDANCE_THRESHOLD_*, in shared words
          FullOverlap                    \* shared words that make a confidence of 1.0 (8)

Structural == {"BELONGS_TO_FRAMEWORK", "IN_FAMILY", "DERIVED_FROM_SOURCE"}
Supports == "GUIDANCE_SUPPORTS_CONTROL"
Missing == ""                            \* an empty field

SizeBand(n) == IF n < SmallEdges THEN "small" ELSE IF n <= LargeEdges THEN "medium" ELSE "large"

Node(id, type, framework, words) == [id |-> id, type |-> type, framework |-> framework, words |-> words]
Edge(from, type, to, key, confidence) ==
    [from |-> from, type |-> type, to |-> to, key |-> key, confidence |-> confidence]
EdgeId(e) == <<e.from, e.type, e.to, e.key>>

ControlId(c) == <<"a", c.id>>
ControlNode(c) == Node(ControlId(c), "CorpusAControl", c.framework, c.words)

\* A control without a requirement id is dropped.
KeptControls(controls) == {i \in DOMAIN controls : controls[i].id # Missing}

\* The framework, family and source a control names, each a node and an edge to it.
ControlParts(c) ==
    (IF c.framework = Missing THEN {}
     ELSE {[type |-> "BELONGS_TO_FRAMEWORK", node |-> Node(<<"framework", c.framework>>, "Framework", c.framework, {})]})
    \cup
    (IF c.family = Missing THEN {}
     ELSE {[type |-> "IN_FAMILY", node |-> Node(<<"family", c.framework, c.family>>, "ControlFamily", c.framework, {})]})
    \cup
    (IF c.source = Missing THEN {}
     ELSE {[type |-> "DERIVED_FROM_SOURCE", node |-> Node(<<"source", c.source>>, "SourceDocument", Missing, {})]})

\* A chunk's node is known by its source, its text and its place among the
\* guidance chunks of the request that builds the graph.
ChunkId(k, ordinal) == <<"b", k.source, k.hash, ordinal>>
NoOrdinal == -1
ChunkNode(k, ordinal) == Node(ChunkId(k, ordinal), "CorpusBGuidanceChunk", Missing, k.words)
GuidanceChunks(chunks) == {j \in DOMAIN chunks : chunks[j].corpus = "b"}
Ordinal(chunks, j) == Cardinality({h \in GuidanceChunks(chunks) : h < j})
ChunkParts(k) ==
    IF k.source = Missing THEN {}
    ELSE {[type |-> "DERIVED_FROM_SOURCE", node |-> Node(<<"source", k.source>>, "SourceDocument", Missing, {})]}

\* Lexical overlap of a control with a chunk.
Shared(c, k) == c.words \cap k.words
Confidence(c, k) == IF Cardinality(Shared(c, k)) > FullOverlap THEN FullOverlap ELSE Cardinality(Shared(c, k))
SupportEdge(c, k, ordinal) ==
    Edge(ChunkId(k, ordinal), Supports, ControlId(c), Shared(c, k), Confidence(c, k))

\* Bug: nodes that differ in some other field are kept as well.
AllNodes(found) == {p.node : p \in found}

\* Of the nodes of one id the first is kept: at says where it was found.
DedupedNodes(found) == {p.node : p \in {q \in found : \A r \in found : r.node.id = q.node.id => q.at <= r.at}}

\* Of the edges of one id the one with the highest confidence is kept.
DedupedEdges(edges) == {e \in edges : \A f \in edges : EdgeId(f) = EdgeId(e) => f.confidence <= e.confidence}

NodesOfControl(c) == {ControlNode(c)} \cup {part.node : part \in ControlParts(c)}
NodesOfChunk(k, ordinal) == {ChunkNode(k, ordinal)} \cup {part.node : part \in ChunkParts(k)}

\* The nodes of all kept controls and guidance chunks, controls before chunks.
FoundNodes(controls, chunks) ==
    (UNION {{[at |-> i, node |-> n] : n \in NodesOfControl(controls[i])} : i \in KeptControls(controls)})
    \cup
    (UNION {{[at |-> Len(controls) + j, node |-> n] : n \in NodesOfChunk(chunks[j], Ordinal(chunks, j))} :
               j \in GuidanceChunks(chunks)})

\* The parts of all controls and chunks, each with where it comes from.
PartsOfControls(controls) == UNION {{<<i, part>> : part \in ControlParts(controls[i])} : i \in KeptControls(controls)}
PartsOfChunks(chunks) == UNION {{<<j, part>> : part \in ChunkParts(chunks[j])} : j \in GuidanceChunks(chunks)}

StructuralEdges(controls, chunks) ==
    {Edge(ControlId(controls[p[1]]), p[2].type, p[2].node.id, {}, FullOverlap) : p \in PartsOfControls(controls)}
    \cup
    {Edge(ChunkId(chunks[p[1]], Ordinal(chunks, p[1])), p[2].type, p[2].node.id, {}, FullOverlap) :
        p \in PartsOfChunks(chunks)}

\* Every control is compared with every chunk; how much they must share depends
\* on how many edges there are so far, before any is left out as a duplicate.
InferredEdges(controls, chunks) ==
    LET edgeCount == Cardinality(PartsOfControls(controls)) + Cardinality(PartsOfChunks(chunks))
        threshold == GuidanceThreshold[SizeBand(edgeCount)]
    IN  {SupportEdge(controls[p[1]], chunks[p[2]], Ordinal(chunks, p[2])) : p \in
            {q \in KeptControls(controls) \X GuidanceChunks(chunks) :
                Confidence(controls[q[1]], chunks[q[2]]) >= threshold}}

Graph(controls, chunks) ==
    [nodes |-> DedupedNodes(FoundNodes(controls, chunks)),
     edges |-> DedupedEdges(StructuralEdges(controls, chunks) \cup InferredEdges(controls, chunks))]

\* The nodes graph-assisted retrieval starts from: those of what was retrieved.
SeedIds(controls, chunks) ==
    {ControlId(controls[i]) : i \in KeptControls(controls)}
    \cup {ChunkId(chunks[j], NoOrdinal) : j \in GuidanceChunks(chunks)}
=============================================================================
