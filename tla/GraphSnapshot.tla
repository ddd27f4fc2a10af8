--------------------------- MODULE GraphSnapshot ---------------------------
(***************************************************************************)
(* How the relationship graph is built, published, stored and read:        *)
(* query_web/graph_batch.py, graph_store.py, graph_backend.py and the      *)
(* build, node, related and export handlers of endpoints/graph.py.         *)
(*                                                                         *)
(* A build writes two files of a directory all builds share, and then      *)
(* publishes them as two objects, or replaces two tables by what it reads  *)
(* back from them.  A request reads the tables, the objects or the files,  *)
(* whichever the backend is, one part after the other.  A part is the      *)
(* number of the build it was made by.                                     *)
(***************************************************************************)
EXTENDS Naturals, Sequences, FiniteSets

CONSTANTS Builders, Readers,   \* request threads of the web application
          MaxBuilds,           \* bound: builds that are started
          MaxOps,              \* bound: store operations of one request
          MaxFaults,           \* bound: failing calls and restarts
          NoBuilder

ASSUME GraphAssumption == /\ MaxBuilds \in Nat /\ MaxOps \in Nat /\ MaxFaults \in Nat
                          /\ NoBuilder \notin Builders

Parts == {"nodes", "edges"}
Backends == {"local", "files", "objects"}
Empty == 0                      \* a part without records

VARIABLES
    backend,    \* where requests read from; chosen by the configuration
    overlap,    \* whether builds may overlap
    file,       \* the files of GRAPH_ARTIFACTS_DIR: the build that wrote each
    source,     \* what was written, in turn, to each part requests read
    dbLock,     \* the connection that has BEGIN IMMEDIATE, if any
    started,    \* builds started so far
    completed,  \* the last build that ran to its end
    left,       \* the calls each builder has left
    build,      \* the build each builder works on
    text,       \* what it read back from the files
    tables,     \* the tables as its open transaction has them
    step,       \* where each reader is in its operation on the store
    ops,        \* operations its request has left
    meta,       \* the state of the parts it has just seen
    last,       \* _last_artifact_state
    got,        \* the parts it has just read
    loaded,     \* the parts it answers from
    floor,      \* the parts there were when its operation began
    quiet,      \* no build has run since then, and the last one completed
    ok,         \* its operation got what it asked for
    faults

builderVars == <<file, dbLock, started, completed, left, build, text, tables>>
readerVars == <<step, ops, meta, last, got, loaded, floor, ok>>
snapshotVars == <<backend, overlap, source, quiet, faults, builderVars, readerVars>>

None == [p \in Parts |-> 0]
Current == [p \in Parts |-> Len(source[p])]
Content(seen) == [p \in Parts |-> IF seen[p] = 0 THEN Empty ELSE source[p][seen[p]]]

(***************************************************************************)
(* The calls of POST /api/graph/build, in their order.                     *)
(***************************************************************************)
WriteFiles == << <<"open", "nodes">>, <<"flush", "nodes">>,
                 <<"open", "edges">>, <<"flush", "edges">> >>
Publish == << <<"put", "nodes">>, <<"put", "edges">> >>
Persist == << <<"load", "nodes">>, <<"load", "edges">>,
              <<"begin", "tables">>, <<"fill", "tables">>, <<"commit", "tables">> >>

\* Bug: the file of edges is left open, and its records are still in the buffer.
PlanLeavesEdgesOpen == SubSeq(WriteFiles, 1, 3) \o CASE backend = "objects" -> Publish
                                                    [] backend = "local" -> Persist
                                                    [] OTHER -> <<>>

BuildPlan == WriteFiles \o CASE backend = "objects" -> Publish
                             [] backend = "local" -> Persist
                             [] OTHER -> <<>>

Call(b, what, p) == left[b] # <<>> /\ Head(left[b]) = <<what, p>>

\* The call returns; the last one of a build ends it.
Return(b) == /\ left' = [left EXCEPT ![b] = Tail(@)]
             /\ completed' = IF Len(left[b]) = 1 THEN build[b] ELSE completed

Write(p, c) == source' = [source EXCEPT ![p] = Append(@, c)]

SnapshotInit ==
    /\ backend \in Backends /\ overlap \in BOOLEAN
    /\ file = [p \in Parts |-> Empty]
    /\ source = [p \in Parts |-> <<>>]
    /\ dbLock = NoBuilder /\ started = 0 /\ completed = 0
    /\ left = [b \in Builders |-> <<>>] /\ build = [b \in Builders |-> 0]
    /\ text = [b \in Builders |-> None] /\ tables = [b \in Builders |-> None]
    /\ step = [r \in Readers |-> "idle"] /\ ops = [r \in Readers |-> 0]
    /\ meta = [r \in Readers |-> None] /\ last = [r \in Readers |-> None]
    /\ got = [r \in Readers |-> None] /\ loaded = [r \in Readers |-> None]
    /\ floor = [r \in Readers |-> None] /\ quiet = [r \in Readers |-> FALSE]
    /\ ok = [r \in Readers |-> TRUE] /\ faults = 0

StartBuild(b) ==
    /\ left[b] = <<>> /\ started < MaxBuilds
    /\ overlap \/ \A c \in Builders : left[c] = <<>>
    /\ started' = started + 1
    /\ build' = [build EXCEPT ![b] = started + 1]
    /\ left' = [left EXCEPT ![b] = BuildPlan]
    /\ quiet' = [r \in Readers |-> FALSE]
    /\ UNCHANGED <<backend, overlap, file, source, dbLock, completed, text, tables, readerVars,
                   faults>>

\* _write_jsonl opens the file with "w", which empties it, and the records
\* reach it when it is closed.
SetFile(b, p, c) ==
    /\ file' = [file EXCEPT ![p] = c]
    /\ IF backend = "files" THEN Write(p, c) ELSE UNCHANGED source
    /\ Return(b)
    /\ UNCHANGED <<backend, overlap, dbLock, started, build, text, tables, quiet, faults, readerVars>>

OpenFile(b, p) == Call(b, "open", p) /\ SetFile(b, p, Empty)
FlushFile(b, p) == Call(b, "flush", p) /\ SetFile(b, p, build[b])

\* One object of the snapshot, from the file as it is now.
PutObject(b, p) ==
    /\ Call(b, "put", p)
    /\ Write(p, file[p])
    /\ Return(b)
    /\ UNCHANGED <<backend, overlap, file, dbLock, started, build, text, tables, quiet, faults, readerVars>>

\* load_artifact_files reads both files back.
LoadFile(b, p) ==
    /\ Call(b, "load", p)
    /\ text' = [text EXCEPT ![b][p] = file[p]]
    /\ Return(b)
    /\ UNCHANGED <<backend, overlap, file, source, dbLock, started, build, tables, quiet, faults, readerVars>>

(***************************************************************************)
(* replace_graph.  Every request has a connection of its own, so the lock  *)
(* of the object holds nobody back, BEGIN IMMEDIATE does, and the tables   *)
(* others read are the committed ones.                                     *)
(***************************************************************************)
Begin(b) ==
    /\ Call(b, "begin", "tables")
    /\ dbLock = NoBuilder
    /\ dbLock' = b
    /\ tables' = [tables EXCEPT ![b] = None]
    /\ Return(b)
    /\ UNCHANGED <<backend, overlap, file, source, started, build, text, quiet, faults, readerVars>>

Fill(b) ==
    /\ Call(b, "fill", "tables")
    /\ tables' = [tables EXCEPT ![b] = text[b]]
    /\ Return(b)
    /\ UNCHANGED <<backend, overlap, file, source, dbLock, started, build, text, quiet, faults, readerVars>>

Commit(b) ==
    /\ Call(b, "commit", "tables")
    /\ source' = [p \in Parts |-> Append(source[p], tables[b][p])]
    /\ dbLock' = NoBuilder
    /\ Return(b)
    /\ UNCHANGED <<backend, overlap, file, started, build, text, tables, quiet, faults, readerVars>>

\* Bug: the open transaction is committed as far as it has come.
RaiseCommitting(b) ==
    /\ left[b] # <<>> /\ faults < MaxFaults
    /\ left' = [left EXCEPT ![b] = <<>>]
    /\ source' = IF dbLock = b THEN [p \in Parts |-> Append(source[p], tables[b][p])] ELSE source
    /\ dbLock' = IF dbLock = b THEN NoBuilder ELSE dbLock
    /\ faults' = faults + 1
    /\ UNCHANGED <<backend, overlap, file, started, completed, build, text, tables, quiet, readerVars>>

\* A call of the build raises (storage, disk, "database is locked") and the
\* request with it; an open transaction is rolled back.
BuildRaises(b) ==
    /\ left[b] # <<>> /\ faults < MaxFaults
    /\ left' = [left EXCEPT ![b] = <<>>]
    /\ dbLock' = IF dbLock = b THEN NoBuilder ELSE dbLock
    /\ faults' = faults + 1
    /\ UNCHANGED <<backend, overlap, file, source, started, completed, build, text, tables, quiet,
                   readerVars>>

\* The web application ends; its requests go with it.
Restart ==
    /\ faults < MaxFaults
    /\ left' = [b \in Builders |-> <<>>]
    /\ dbLock' = NoBuilder
    /\ step' = [r \in Readers |-> "idle"]
    /\ ops' = [r \in Readers |-> 0]
    /\ floor' = [r \in Readers |-> None]
    /\ quiet' = [r \in Readers |-> FALSE]
    /\ faults' = faults + 1
    /\ UNCHANGED <<backend, overlap, file, source, started, completed, build, text, tables, meta, last,
                   got, loaded, ok>>

(***************************************************************************)
(* A request creates its store (create_graph_store) and makes a few        *)
(* operations on it.                                                       *)
(***************************************************************************)
StartRequest(r) ==
    /\ step[r] = "idle" /\ ops[r] = 0
    /\ ops' = [ops EXCEPT ![r] = MaxOps]
    /\ last' = [last EXCEPT ![r] = None]
    /\ loaded' = [loaded EXCEPT ![r] = None]
    /\ floor' = [floor EXCEPT ![r] = None]
    /\ quiet' = [quiet EXCEPT ![r] = FALSE]
    /\ UNCHANGED <<backend, overlap, source, faults, builderVars, step, meta, got, ok>>

Idle == \A b \in Builders : left[b] = <<>>

StartOp(r) ==
    /\ step[r] = "idle" /\ ops[r] > 0
    /\ ops' = [ops EXCEPT ![r] = @ - 1]
    /\ step' = [step EXCEPT ![r] = IF backend = "local" THEN "read nodes" ELSE "see nodes"]
    /\ floor' = [floor EXCEPT ![r] = Current]
    /\ quiet' = [quiet EXCEPT ![r] = ~overlap /\ Idle /\ completed = started /\ started > 0]
    /\ ok' = [ok EXCEPT ![r] = TRUE]
    /\ UNCHANGED <<backend, overlap, source, faults, builderVars, meta, last, got, loaded>>

\* artifact_state: the nodes first, then the edges; nothing is refreshed
\* while one of them is missing.
See(r, p) ==
    /\ meta' = [meta EXCEPT ![r][p] = Len(source[p])]
    /\ UNCHANGED <<backend, overlap, source, quiet, faults, builderVars, ops, last, got, loaded, floor>>

SeeNodes(r) ==
    /\ step[r] = "see nodes" /\ See(r, "nodes")
    /\ step' = [step EXCEPT ![r] = "see edges"]
    /\ UNCHANGED ok

SeeEdges(r) ==
    /\ step[r] = "see edges" /\ See(r, "edges")
    /\ LET now == meta'[r]
           missing == \E p \in Parts : now[p] = 0
       IN  /\ step' = [step EXCEPT ![r] = IF missing \/ now = last[r] THEN "idle" ELSE "read nodes"]
           /\ ok' = [ok EXCEPT ![r] = ~missing]

\* list_nodes and list_edges are two queries, read_snapshot two reads.
ReadNodes(r) ==
    /\ step[r] = "read nodes"
    /\ got' = [got EXCEPT ![r].nodes = Len(source.nodes)]
    /\ step' = [step EXCEPT ![r] = "read edges"]
    /\ UNCHANGED <<backend, overlap, source, quiet, faults, builderVars, ops, meta, last, loaded, floor, ok>>

\* Bug: the nodes there were are kept beside the edges that were read.
ReadKeepsNodes(r) ==
    /\ step[r] = "read edges"
    /\ got' = [got EXCEPT ![r].edges = Len(source.edges)]
    /\ loaded' = [loaded EXCEPT ![r].edges = Len(source.edges)]
    /\ last' = [last EXCEPT ![r] = meta[r]]
    /\ step' = [step EXCEPT ![r] = "idle"]
    /\ UNCHANGED <<backend, overlap, source, quiet, faults, builderVars, ops, meta, floor, ok>>

\* The adapter keeps the state it saw before it read.
ReadEdges(r) ==
    /\ step[r] = "read edges"
    /\ got' = [got EXCEPT ![r].edges = Len(source.edges)]
    /\ loaded' = [loaded EXCEPT ![r] = got'[r]]
    /\ last' = [last EXCEPT ![r] = meta[r]]
    /\ step' = [step EXCEPT ![r] = "idle"]
    /\ UNCHANGED <<backend, overlap, source, quiet, faults, builderVars, ops, meta, floor, ok>>

\* The object store fails: artifact_state or read_snapshot is None, and the
\* operation answers from what the adapter has.
SourceFails(r) ==
    /\ step[r] # "idle" /\ backend = "objects" /\ faults < MaxFaults
    /\ step' = [step EXCEPT ![r] = "idle"]
    /\ ok' = [ok EXCEPT ![r] = FALSE]
    /\ faults' = faults + 1
    /\ UNCHANGED <<backend, overlap, source, quiet, builderVars, ops, meta, last, got, loaded, floor>>

\* The request answers and its store goes away.
EndRequest(r) ==
    /\ step[r] = "idle" /\ ops[r] < MaxOps /\ ops[r] > 0
    /\ ops' = [ops EXCEPT ![r] = 0]
    /\ UNCHANGED <<backend, overlap, source, quiet, faults, builderVars, step, meta, last, got, loaded,
                   floor, ok>>

Build(b) ==
    \/ StartBuild(b)
    \/ \E p \in Parts : OpenFile(b, p) \/ FlushFile(b, p) \/ PutObject(b, p) \/ LoadFile(b, p)
    \/ Begin(b) \/ Fill(b) \/ Commit(b)
    \/ BuildRaises(b)

Read(r) == \/ StartRequest(r) \/ StartOp(r) \/ SeeNodes(r) \/ SeeEdges(r)
           \/ ReadNodes(r) \/ ReadEdges(r) \/ SourceFails(r) \/ EndRequest(r)

SnapshotNext == (\E b \in Builders : Build(b)) \/ (\E r \in Readers : Read(r)) \/ Restart

SnapshotSpec == SnapshotInit /\ [][SnapshotNext]_snapshotVars

(***************************************************************************)
(* Properties.                                                             *)
(***************************************************************************)
Steps == {"idle", "see nodes", "see edges", "read nodes", "read edges"}
Seen == [Parts -> Nat]
Calls == {"open", "flush", "put", "load", "begin", "fill", "commit"} \X (Parts \cup {"tables"})

\* Every variable has its type.
SnapshotTypeOK ==
    /\ backend \in Backends /\ overlap \in BOOLEAN
    /\ file \in [Parts -> Nat] /\ source \in [Parts -> Seq(Nat)]
    /\ dbLock \in Builders \cup {NoBuilder}
    /\ started \in 0..MaxBuilds /\ completed \in Nat /\ faults \in 0..MaxFaults
    /\ build \in [Builders -> Nat]
    /\ left \in [Builders -> Seq(Calls)]
    /\ text \in [Builders -> [Parts -> Nat]] /\ tables \in [Builders -> [Parts -> Nat]]
    /\ step \in [Readers -> Steps] /\ ops \in [Readers -> Nat]
    /\ meta \in [Readers -> Seen] /\ last \in [Readers -> Seen] /\ got \in [Readers -> Seen]
    /\ loaded \in [Readers -> Seen] /\ floor \in [Readers -> Seen]
    /\ quiet \in [Readers -> BOOLEAN] /\ ok \in [Readers -> BOOLEAN]

\* An operation that got what it asked for answers from parts at least as new
\* as those there were when it began, whether it refreshed what it had or found
\* that it need not (graph_backend.py 394-412); builds may overlap it and each
\* other.
NeverBehind ==
    \A r \in Readers : step[r] = "idle" /\ ok[r] => \A p \in Parts : loaded[r][p] >= floor[r][p]

\* When builds do not overlap, the tables hold the nodes and edges of one build,
\* whatever builds failed or were cut off before it.
TablesAreOneBuild ==
    backend = "local" /\ ~overlap =>
        \A i \in DOMAIN source.nodes : source.nodes[i] = source.edges[i] /\ source.nodes[i] # Empty

\* A request that reads while no build runs, after one that ran to its end and
\* by itself, gets that build, whole, through any backend, although earlier
\* builds may have left half of theirs.
QuietReadIsLastBuild ==
    \A r \in Readers : quiet[r] /\ ok[r] /\ step[r] = "idle" =>
                          Content(loaded[r]) = [p \in Parts |-> completed]
=============================================================================
