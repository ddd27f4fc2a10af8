----------------------------- MODULE GraphQuery -----------------------------
(***************************************************************************)
(* Questions asked of a built graph: the breadth-first subgraph of         *)
(* graph_store.py and graph_backend.py, POST /api/graph/query and          *)
(* /api/graph/related of endpoints/graph.py, the expansion of retrieval in *)
(* pipeline/rag_pipeline.py, and the communities.                          *)
(***************************************************************************)
EXTENDS GraphContent, SequencesExt

CONSTANTS GraphInputs,     \* what graphs are built from: [controls, chunks] records
          Requests,        \* [kind, depth, maxEdges, maxNodes, types] records; no type means any
          MinCommunity,    \* nodes a community must have to be shown
          NoAnswer

ASSUME QueryAssumption ==
    /\ FullOverlap \in Nat
    /\ \A r \in Requests : r.depth \in Nat \ {0} /\ r.maxEdges \in Nat \ {0} /\ r.maxNodes \in Nat \ {0}
    /\ \A i \in GraphInputs : /\ i.controls \in Seq(ToSet(i.controls)) /\ i.chunks \in Seq(ToSet(i.chunks))
                             /\ \A c \in ToSet(i.controls) : IsFiniteSet(c.words)

VARIABLES
    graph,      \* the graph in the store
    request,
    seed,       \* the node a related or query request names
    seeds,      \* seeds still to be expanded
    seen,       \* seen_nodes and seen_edges of the current subgraph
    frontier,   \* its queue, a set: nodes, each with its depth
    merged,     \* nodes and edges of the subgraphs so far
    groups,     \* the communities found so far
    queue,      \* nodes to put into the last one, a set
    reply       \* what the request returned

queryVars == <<graph, request, seed, seeds, seen, frontier, merged, groups, queue, reply>>

Nothing == [nodes |-> {}, edges |-> {}]
NodeIds == {n.id : n \in graph.nodes}
Incident(n) == {e \in graph.edges : e.from = n \/ e.to = n}
Other(e, n) == IF e.from = n THEN e.to ELSE e.from
FirstOf(S) == CHOOSE n \in S : TRUE

\* At most max elements of S, the heaviest ones first.
Taken(S, max, weight) ==
    LET taken[n \in 0..max] ==
            IF n = 0 THEN {}
            ELSE LET before == taken[n - 1]
                     rest == S \ before
                 IN  IF rest = {} THEN before
                     ELSE before \cup {CHOOSE x \in rest : \A y \in rest : weight[y] <= weight[x]}
    IN  taken[max]

\* A few of S, the first ones in an order that does not matter here.
Some(S, max) == Taken(S, max, [x \in S |-> 0])

\* neighbours: at most max_items edges of a node, the most confident ones first.
Strongest(edges, max) == Taken(edges, max, [e \in edges |-> e.confidence])
Neighbours(n, maxItems) == Strongest(Incident(n), maxItems)

\* Bug: every seed has the whole limit.
BudgetPerSeed == request.maxEdges

\* What the expansion may still add: ask stops at its limit over all seeds.
Budget == IF request.kind = "expand" THEN request.maxEdges - Cardinality(merged.edges) ELSE request.maxEdges

\* The adjacency of _community_groups: edges that mean something, and, for a
\* word nodes of several frameworks share, a bridge from the first node of one
\* framework to the first of each other.
Words == UNION {n.words : n \in graph.nodes}
Anchors(w) ==
    LET having == {n \in graph.nodes : w \in n.words /\ n.framework # Missing}
    IN  {FirstOf({n.id : n \in {m \in having : m.framework = f}}) : f \in {n.framework : n \in having}}
Bridges(w) == IF Cardinality(Anchors(w)) < 2 THEN {} ELSE {{FirstOf(Anchors(w)), a} : a \in Anchors(w) \ {FirstOf(Anchors(w))}}
MeaningfulLinks == {{e.from, e.to} : e \in {f \in graph.edges : f.type \notin Structural}}
                   \cup UNION {Bridges(w) : w \in Words}

\* The communities of an expansion are those of the controls and the guidance it
\* has reached, by every edge between them.
Reached == {n.id : n \in {m \in merged.nodes : m.type \in {"CorpusAControl", "CorpusBGuidanceChunk"}}}
Members == IF request.kind = "expand" THEN Reached ELSE NodeIds
Links == IF request.kind = "expand"
         THEN {l \in {{e.from, e.to} : e \in merged.edges} : l \subseteq Reached}
         ELSE MeaningfulLinks

\* The nodes that have a community.
Labelled == UNION ToSet(groups)
Adjacent(n) == (UNION {l \in Links : n \in l}) \ {n}

Seeded == request.kind \in {"related", "query"}

QueryInitWith(requests, inputs) ==
    /\ request \in requests
    /\ \E input \in inputs :
          /\ graph = Graph(input.controls, input.chunks)
          /\ seed \in IF Seeded THEN NodeIds ELSE {FirstOf(NodeIds)}
          /\ seeds = IF request.kind = "expand" THEN SeedIds(input.controls, input.chunks) ELSE {seed}
    /\ seen = Nothing /\ frontier = {} /\ merged = Nothing
    /\ groups = <<>> /\ queue = {} /\ reply = NoAnswer

QueryInit == QueryInitWith(Requests, GraphInputs)

StartSubgraph(s) ==
    /\ (Seeded \/ request.kind = "expand") /\ reply = NoAnswer /\ s \in seeds /\ frontier = {} /\ Budget > 0
    /\ seeds' = seeds \ {s}
    /\ seen' = [nodes |-> {s}, edges |-> {}]
    /\ frontier' = {<<s, 0>>}
    /\ UNCHANGED <<graph, request, seed, merged, groups, queue, reply>>

\* The subgraph is done: nodes that are not in the table are left out.
Collect(found) ==
    merged' = [nodes |-> merged.nodes \cup {n \in graph.nodes : n.id \in found.nodes},
               edges |-> merged.edges \cup found.edges]

\* One turn of the loop: the oldest node of the queue is expanded unless it is
\* at the depth asked for; the loop ends when the edges reach the limit.
Full == Cardinality(seen.edges) >= Budget

\* The oldest node: of those that are nearest to the seed, one.
Oldest == FirstOf({p \in frontier : \A q \in frontier : p[2] <= q[2]})

Expand ==
    /\ frontier # {} /\ ~Full
    /\ LET n == Oldest[1]
           d == Oldest[2]
           new == Strongest(Neighbours(n, Budget) \ seen.edges, Budget - Cardinality(seen.edges))
           found == {Other(e, n) : e \in new} \ seen.nodes
       IN  IF d >= request.depth
           THEN seen' = seen /\ frontier' = frontier \ {Oldest}
           ELSE /\ seen' = [nodes |-> seen.nodes \cup found, edges |-> seen.edges \cup new]
                /\ frontier' = (frontier \ {Oldest}) \cup {<<f, d + 1>> : f \in found}
    /\ IF frontier' = {} THEN Collect(seen') ELSE UNCHANGED merged
    /\ UNCHANGED <<graph, request, seed, seeds, groups, queue, reply>>

StopFull ==
    /\ frontier # {} /\ Full
    /\ Collect(seen)
    /\ frontier' = {}
    /\ UNCHANGED <<graph, request, seed, seeds, seen, groups, queue, reply>>

Searched == seeds = {} /\ frontier = {}

Answer(ns, es, truncated) ==
    /\ reply' = [nodes |-> ns, edges |-> es, truncated |-> truncated]
    /\ UNCHANGED <<graph, request, seed, seeds, seen, frontier, merged, groups, queue>>

\* Bug: a reply that is just full is not reported.
RelatedOver ==
    /\ request.kind = "related" /\ reply = NoAnswer /\ Searched
    /\ Answer(merged.nodes, merged.edges, Cardinality(merged.edges) > request.maxEdges)

Related ==
    /\ request.kind = "related" /\ reply = NoAnswer /\ Searched
    /\ Answer(merged.nodes, merged.edges, Cardinality(merged.edges) >= request.maxEdges)

Expansion == request.kind = "expand" /\ frontier = {} /\ (seeds = {} \/ Budget <= 0)

Expanded ==
    /\ Expansion /\ reply = NoAnswer /\ queue = {} /\ Members = Labelled
    /\ Answer(merged.nodes, merged.edges, FALSE)

Export ==
    /\ request.kind = "export" /\ reply = NoAnswer
    /\ LET ns == Some(graph.nodes, request.maxNodes)
           es == Some(graph.edges, request.maxEdges)
       IN  Answer(ns, es, Cardinality(ns) >= request.maxNodes \/ Cardinality(es) >= request.maxEdges)

\* The filters of a query, applied to what the subgraph, or the whole graph up
\* to the limits, offers.
Wanted(n) == request.types = {} \/ n.type \in request.types

Filter(offered) ==
    LET ns == Some({n \in offered.nodes : Wanted(n)}, request.maxNodes)
        ids == {n.id : n \in ns}
        es == Some({e \in offered.edges : e.from \in ids /\ e.to \in ids}, request.maxEdges)
    IN  Answer(ns, es, \/ Cardinality(offered.nodes) > Cardinality(ns)
                       \/ Cardinality(offered.edges) > Cardinality(es)
                       \/ Cardinality(offered.edges) >= request.maxEdges)

Query == request.kind = "query" /\ reply = NoAnswer /\ Searched /\ Filter(merged)

List ==
    /\ request.kind = "list" /\ reply = NoAnswer
    /\ Filter([nodes |-> Some(graph.nodes, request.maxNodes), edges |-> Some(graph.edges, request.maxEdges)])

(***************************************************************************)
(* _community_groups, and _graph_community_groups of an expansion: the     *)
(* first node without a community starts one, and the queue labels what is *)
(* adjacent to it.  Of the whole graph the groups that are too small are   *)
(* not shown; the nodes that share a word are, whatever group they are in. *)
(***************************************************************************)
StartCommunity ==
    /\ request.kind = "communities" \/ Expansion
    /\ reply = NoAnswer /\ queue = {} /\ Members # Labelled
    /\ LET n == FirstOf(Members \ Labelled)
       IN  /\ groups' = Append(groups, {n})
           /\ queue' = Adjacent(n) \ (Labelled \cup {n})
    /\ UNCHANGED <<graph, request, seed, seeds, seen, frontier, merged, reply>>

\* Bug: only the neighbours of the first node are reached.
LabelOnly ==
    /\ queue # {}
    /\ LET n == FirstOf(queue)
       IN  /\ groups' = IF n \in Labelled THEN groups ELSE [groups EXCEPT ![Len(groups)] = @ \cup {n}]
           /\ queue' = queue \ {n}
    /\ UNCHANGED <<graph, request, seed, seeds, seen, frontier, merged, reply>>

LabelNext ==
    /\ queue # {}
    /\ LET n == FirstOf(queue)
       IN  IF n \in Labelled
           THEN groups' = groups /\ queue' = queue \ {n}
           ELSE /\ groups' = [groups EXCEPT ![Len(groups)] = @ \cup {n}]
                /\ queue' = (queue \ {n}) \cup (Adjacent(n) \ (Labelled \cup {n}))
    /\ UNCHANGED <<graph, request, seed, seeds, seen, frontier, merged, reply>>

Topics == {{n.id : n \in {m \in graph.nodes : w \in m.words}} : w \in Words}

ShowCommunities ==
    /\ request.kind = "communities" /\ reply = NoAnswer /\ queue = {} /\ Members = Labelled
    /\ reply' = [communities |-> {g \in ToSet(groups) \cup Topics : Cardinality(g) >= MinCommunity}]
    /\ UNCHANGED <<graph, request, seed, seeds, seen, frontier, merged, groups, queue>>

QueryNext ==
    \/ \E s \in seeds : StartSubgraph(s)
    \/ Expand \/ StopFull
    \/ Related \/ Expanded \/ Export \/ Query \/ List
    \/ StartCommunity \/ LabelNext \/ ShowCommunities

QuerySpec == QueryInit /\ [][QueryNext]_queryVars

(***************************************************************************)
(* Properties.                                                             *)
(***************************************************************************)

\* Every edge of a built graph joins two nodes of it, and an id stands for one
\* node or edge, whatever fields the controls and chunks lack or share.
EdgesHaveNodes ==
    /\ \A e \in graph.edges : e.from \in NodeIds /\ e.to \in NodeIds
    /\ \A m, n \in graph.nodes : m.id = n.id => m = n
    /\ \A e, f \in graph.edges : EdgeId(e) = EdgeId(f) => e = f

\* The nodes at most d edges away.
Ball(d) ==
    LET ball[i \in 0..d] == IF i = 0 THEN {seed}
                            ELSE ball[i - 1] \cup UNION {{Other(e, n) : e \in Incident(n)} : n \in ball[i - 1]}
    IN  ball[d]

\* A reply that does not say it is truncated leaves nothing out: every edge in
\* reach that the filters let through is in it, and every such node (of a query
\* without a seed, every one with an edge), whatever the limits of the
\* neighbour lists, of the subgraph, of the query and of the reply do.
LeftOutIsReported ==
    reply # NoAnswer /\ request.kind \in {"related", "query", "export", "list"} =>
        \/ reply.truncated
        \/ LET inReach == IF Seeded THEN {n \in graph.nodes : n.id \in Ball(request.depth)} ELSE graph.nodes
               edges == IF Seeded THEN UNION {Incident(n) : n \in Ball(request.depth - 1)} ELSE graph.edges
               wanted == {n \in inReach : request.kind \in {"related", "export"} \/ Wanted(n)}
               ids == {n.id : n \in wanted}
           IN  /\ {e \in edges : e.from \in ids /\ e.to \in ids} \subseteq reply.edges
               /\ {n \in wanted : request.kind = "list" => Incident(n.id) # {}} \subseteq reply.nodes

\* Over all its seeds an expansion takes no more edges than it was given, and
\* the nodes of every edge it takes.
ExpansionWithinLimit ==
    request.kind = "expand" =>
        /\ Cardinality(merged.edges) <= request.maxEdges
        /\ \A e \in merged.edges : {e.from, e.to} \subseteq {n.id : n \in merged.nodes}

\* The communities found are the connected parts of the graph of meaningful
\* edges and topic bridges, and those of an expansion the connected parts of what
\* it has reached, however many seeds it started from: none is split and no two
\* are one.
CommunitiesAreComponents ==
    reply # NoAnswer /\ request.kind \in {"communities", "expand"} =>
        LET closed(g) == \A n \in g : Adjacent(n) \subseteq g
        IN  \A g \in ToSet(groups) :
               closed(g) /\ \A part \in SUBSET g : part # {} /\ closed(part) => part = g

\* Retrieval starts its expansion from the node of every guidance chunk it
\* found that is in the graph (rag_pipeline.py 474-511).
ChunksAreSeeds ==
    request.kind = "expand" /\ reply # NoAnswer /\ Budget > 0 =>
        {n.id : n \in {m \in graph.nodes : m.type = "CorpusBGuidanceChunk"}}
            \subseteq {n.id : n \in merged.nodes}
=============================================================================
