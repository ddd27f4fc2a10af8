----------------------------- MODULE GraphProofs -----------------------------
(***************************************************************************)
(* First, of GraphSnapshot: that readers are never behind, that tables are *)
(* of one build, and that a quiet read gets the last build, for any number *)
(* of builds, readers, operations and faults.  Then, of GraphContent and   *)
(* GraphQuery: that edges keep their nodes, that an expansion stays within *)
(* its limit, that replies tell what they leave out, and that communities  *)
(* are whole, whatever controls and chunks the graph is built from.        *)
(***************************************************************************)
EXTENDS GraphSnapshot, GraphQuery, SequenceTheorems, FiniteSetTheorems, WellFoundedInduction, TLAPS

LastIs(p, n) == source[p] # <<>> /\ source[p][Len(source[p])] = n
Length == Len(BuildPlan)

\* The builder is about to make the k-th call of its plan.
Place(b, k) == k \in 1..Length /\ left[b] = SubSeq(BuildPlan, k, Length)

\* What the calls before it have left behind when nobody interferes.
Owner(b) == build[b] = started /\ completed < started
Written(b, k) ==
    /\ k > 2 => file.nodes = started
    /\ k > 4 => file.edges = started
    /\ backend = "files" /\ k > 2 => LastIs("nodes", started)
    /\ backend = "objects" /\ k > 5 => LastIs("nodes", started)
    /\ backend = "local" /\ k > 5 => text[b].nodes = started
    /\ backend = "local" /\ k > 6 => text[b].edges = started
    /\ backend = "local" /\ k > 8 => tables[b] = text[b]

BuildsInTurn ==
    ~overlap => /\ completed <= started
                /\ \A b, c \in Builders : left[b] # <<>> /\ left[c] # <<>> => b = c
                /\ \A b \in Builders : left[b] # <<>> => \E k \in 1..Length : Place(b, k) /\ Owner(b) /\ Written(b, k)
                /\ Idle /\ completed = started /\ started > 0 => \A p \in Parts : LastIs(p, started)

TablesTogether ==
    backend = "local" /\ ~overlap => Len(source.nodes) = Len(source.edges) /\ TablesAreOneBuild

\* What a reader has seen is there, and it goes forward from its floor.
Forward(r) ==
    /\ \A p \in Parts : /\ meta[r][p] <= Len(source[p]) /\ got[r][p] <= Len(source[p])
                        /\ last[r][p] <= loaded[r][p] /\ loaded[r][p] <= Len(source[p])
                        /\ floor[r][p] <= Len(source[p])
                        /\ step[r] = "idle" /\ ok[r] => loaded[r][p] >= floor[r][p]
    /\ step[r] = "see edges" => meta[r].nodes >= floor[r].nodes
    /\ step[r] = "read edges" => got[r].nodes >= floor[r].nodes /\ got[r].nodes >= meta[r].nodes

\* In a quiet time it sees what there is.
Quiet(r) ==
    quiet[r] => /\ ~overlap /\ Idle /\ completed = started /\ started > 0
                /\ step[r] = "see edges" => meta[r].nodes = Len(source.nodes)
                /\ step[r] = "read edges" => got[r].nodes = Len(source.nodes)
                /\ step[r] = "idle" /\ ok[r] => \A p \in Parts : loaded[r][p] = Len(source[p])

Inv == /\ SnapshotTypeOK /\ BuildsInTurn /\ TablesTogether
       /\ \A r \in Readers : Forward(r) /\ Quiet(r)

(***************************************************************************)
(* Plans.                                                                  *)
(***************************************************************************)
LEMMA Joined ==
    ASSUME NEW s \in Seq(Calls), NEW t \in Seq(Calls)
    PROVE  /\ s \o t \in Seq(Calls) /\ Len(s \o t) = Len(s) + Len(t)
           /\ \A i \in 1..Len(s) : (s \o t)[i] = s[i]
           /\ \A i \in 1..Len(t) : (s \o t)[Len(s) + i] = t[i]
  OBVIOUS

LEMMA TailOf ==
    ASSUME NEW s \in Seq(Calls), Len(s) > 0
    PROVE  Tail(s) \in Seq(Calls) /\ Len(Tail(s)) = Len(s) - 1 /\ \A i \in 1..Len(s) - 1 : Tail(s)[i] = s[i + 1]
  OBVIOUS

LEMMA PlanIs ==
    ASSUME backend \in Backends
    PROVE  /\ BuildPlan \in Seq(Calls) /\ Length \in Nat
           /\ BuildPlan[1] = <<"open", "nodes">> /\ BuildPlan[2] = <<"flush", "nodes">>
           /\ BuildPlan[3] = <<"open", "edges">> /\ BuildPlan[4] = <<"flush", "edges">>
           /\ backend = "files" => Length = 4
           /\ backend = "objects" => /\ Length = 6
                                     /\ BuildPlan[5] = <<"put", "nodes">> /\ BuildPlan[6] = <<"put", "edges">>
           /\ backend = "local" => /\ Length = 9
                                   /\ BuildPlan[5] = <<"load", "nodes">> /\ BuildPlan[6] = <<"load", "edges">>
                                   /\ BuildPlan[7] = <<"begin", "tables">> /\ BuildPlan[8] = <<"fill", "tables">>
                                   /\ BuildPlan[9] = <<"commit", "tables">>
  <1>1. /\ WriteFiles \in Seq(Calls) /\ Len(WriteFiles) = 4
        /\ WriteFiles[1] = <<"open", "nodes">> /\ WriteFiles[2] = <<"flush", "nodes">>
        /\ WriteFiles[3] = <<"open", "edges">> /\ WriteFiles[4] = <<"flush", "edges">>
    BY DEF WriteFiles, Calls, Parts
  <1>2. /\ Publish \in Seq(Calls) /\ Len(Publish) = 2
        /\ Publish[1] = <<"put", "nodes">> /\ Publish[2] = <<"put", "edges">>
    BY DEF Publish, Calls, Parts
  <1>3. /\ Persist \in Seq(Calls) /\ Len(Persist) = 5
        /\ Persist[1] = <<"load", "nodes">> /\ Persist[2] = <<"load", "edges">>
        /\ Persist[3] = <<"begin", "tables">> /\ Persist[4] = <<"fill", "tables">>
        /\ Persist[5] = <<"commit", "tables">>
    BY DEF Persist, Calls, Parts
  <1>4. CASE backend = "files"
    <2>1. BuildPlan = WriteFiles \o <<>>
      BY <1>4 DEF BuildPlan
    <2> QED BY <1>1, <1>4, <2>1 DEF Length
  <1>5. CASE backend = "objects"
    <2>1. BuildPlan = WriteFiles \o Publish
      BY <1>5 DEF BuildPlan
    <2>2. /\ BuildPlan \in Seq(Calls) /\ Len(BuildPlan) = 6
          /\ \A i \in 1..4 : BuildPlan[i] = WriteFiles[i]
          /\ \A i \in 1..2 : BuildPlan[4 + i] = Publish[i]
      <3>1. /\ WriteFiles \o Publish \in Seq(Calls) /\ Len(WriteFiles \o Publish) = Len(WriteFiles) + Len(Publish)
            /\ \A i \in 1..Len(WriteFiles) : (WriteFiles \o Publish)[i] = WriteFiles[i]
            /\ \A i \in 1..Len(Publish) : (WriteFiles \o Publish)[Len(WriteFiles) + i] = Publish[i]
        <4>1. WriteFiles \in Seq(Calls) /\ Publish \in Seq(Calls)
          BY <1>1, <1>2
        <4> QED BY <4>1, Joined, Zenon
      <3> QED BY <1>1, <1>2, <2>1, <3>1
    <2>3. BuildPlan[5] = Publish[1] /\ BuildPlan[6] = Publish[2]
      BY <2>2
    <2>4. BuildPlan[1] = WriteFiles[1] /\ BuildPlan[2] = WriteFiles[2] /\ BuildPlan[3] = WriteFiles[3] /\ BuildPlan[4] = WriteFiles[4]
      BY <2>2
    <2> QED BY <1>1, <1>2, <1>5, <2>2, <2>3, <2>4 DEF Length
  <1>6. CASE backend = "local"
    <2>1. BuildPlan = WriteFiles \o Persist
      BY <1>6 DEF BuildPlan
    <2>2. /\ BuildPlan \in Seq(Calls) /\ Len(BuildPlan) = 9
          /\ \A i \in 1..4 : BuildPlan[i] = WriteFiles[i]
          /\ \A i \in 1..5 : BuildPlan[4 + i] = Persist[i]
      <3>1. /\ WriteFiles \o Persist \in Seq(Calls) /\ Len(WriteFiles \o Persist) = Len(WriteFiles) + Len(Persist)
            /\ \A i \in 1..Len(WriteFiles) : (WriteFiles \o Persist)[i] = WriteFiles[i]
            /\ \A i \in 1..Len(Persist) : (WriteFiles \o Persist)[Len(WriteFiles) + i] = Persist[i]
        <4>1. WriteFiles \in Seq(Calls) /\ Persist \in Seq(Calls)
          BY <1>1, <1>3
        <4> QED BY <4>1, Joined, Zenon
      <3>2. Len(WriteFiles) = 4 /\ Len(Persist) = 5
        BY <1>1, <1>3
      <3>3. BuildPlan \in Seq(Calls) /\ Len(BuildPlan) = 9
        BY <2>1, <3>1, <3>2
      <3>4. \A i \in 1..4 : BuildPlan[i] = WriteFiles[i]
        BY <2>1, <3>1, <3>2
      <3>5. \A i \in 1..5 : BuildPlan[4 + i] = Persist[i]
        BY <2>1, <3>1, <3>2
      <3> QED BY <3>3, <3>4, <3>5
    <2>3. /\ BuildPlan[5] = Persist[1] /\ BuildPlan[6] = Persist[2] /\ BuildPlan[7] = Persist[3]
          /\ BuildPlan[8] = Persist[4] /\ BuildPlan[9] = Persist[5]
      BY <2>2
    <2>4. BuildPlan[1] = WriteFiles[1] /\ BuildPlan[2] = WriteFiles[2] /\ BuildPlan[3] = WriteFiles[3] /\ BuildPlan[4] = WriteFiles[4]
      BY <2>2
    <2> QED BY <1>1, <1>3, <1>6, <2>2, <2>3, <2>4 DEF Length
  <1> QED BY <1>4, <1>5, <1>6 DEF Backends

\* The call a builder makes is the one at its place, and then it is at the next.
LEMMA PlaceMoves ==
    ASSUME backend \in Backends, NEW b \in Builders, NEW k \in 1..Length, Place(b, k), NEW what, NEW p, Call(b, what, p)
    PROVE  /\ BuildPlan[k] = <<what, p>>
           /\ Len(left[b]) = 1 <=> k = Length
           /\ k = Length => Tail(left[b]) = <<>>
           /\ k < Length => Tail(left[b]) = SubSeq(BuildPlan, k + 1, Length)
  <1> DEFINE s == SubSeq(BuildPlan, k, Length)
             t == SubSeq(BuildPlan, k + 1, Length)
  <1>1. BuildPlan \in Seq(Calls) /\ Length \in Nat /\ Length = Len(BuildPlan)
    BY PlanIs DEF Length
  <1>2. s \in Seq(Calls) /\ Len(s) = Length - k + 1 /\ \A i \in 1..Len(s) : s[i] = BuildPlan[k + i - 1]
    BY <1>1
  <1>3. left[b] = s /\ Head(s) = <<what, p>>
    BY DEF Place, Call
  <1>4. BuildPlan[k] = <<what, p>>
    BY <1>1, <1>2, <1>3
  <1>5. k = Length => Tail(s) = <<>>
    BY <1>1, <1>2
  <1>6. k < Length => Tail(s) = t
    <2> SUFFICES ASSUME k < Length PROVE Tail(s) = t
      OBVIOUS
    <2>1. t \in Seq(Calls) /\ Len(t) = Length - k /\ \A i \in 1..Len(t) : t[i] = BuildPlan[k + 1 + i - 1]
      BY <1>1
    <2>2. Tail(s) \in Seq(Calls) /\ Len(Tail(s)) = Length - k /\ \A i \in 1..Len(t) : Tail(s)[i] = s[i + 1]
      <3> HIDE DEF s, t
      <3> QED BY <1>1, <1>2, <2>1, TailOf
    <2>3. \A i \in 1..Len(t) : Tail(s)[i] = t[i]
      <3> HIDE DEF s, t
      <3> QED BY <1>1, <1>2, <2>1, <2>2
    <2>4. Len(Tail(s)) = Len(t)
      BY <2>1, <2>2
    <2> QED BY <2>1, <2>2, <2>3, <2>4, SeqEqual
  <1>7. Len(s) = 1 <=> k = Length
    <2> HIDE DEF s
    <2> QED BY <1>1, <1>2
  <1> HIDE DEF s
  <1> QED BY <1>3, <1>4, <1>5, <1>6, <1>7

\* Which call it is says where the builder is.
LEMMA WhichCall ==
    ASSUME backend \in Backends, NEW k \in 1..Length, NEW what, NEW p, BuildPlan[k] = <<what, p>>
    PROVE  /\ what = "open" /\ p = "nodes" => k = 1
           /\ what = "flush" /\ p = "nodes" => k = 2
           /\ what = "open" /\ p = "edges" => k = 3
           /\ what = "flush" /\ p = "edges" => k = 4
           /\ what = "put" => backend = "objects"
           /\ what = "put" /\ p = "nodes" => k = 5
           /\ what = "put" /\ p = "edges" => k = 6 /\ Length = 6
           /\ what \in {"load", "begin", "fill", "commit"} => backend = "local"
           /\ what = "load" /\ p = "nodes" => k = 5
           /\ what = "load" /\ p = "edges" => k = 6
           /\ what = "begin" => k = 7
           /\ what = "fill" => k = 8
           /\ what = "commit" => k = 9 /\ Length = 9
           /\ k <= 4 => what \in {"open", "flush"}
           /\ k = Length /\ what \in {"open", "flush"} => k = 4 /\ backend = "files"
           /\ k # Length => ~(what = "flush" /\ p = "edges" /\ backend = "files")
  <1>1. Length \in {4, 6, 9} /\ (Length = 4 <=> backend = "files") /\ (Length = 6 <=> backend = "objects")
        /\ (Length = 9 <=> backend = "local")
    BY PlanIs DEF Backends
  <1>2. CASE k \in 1..4
    <2>1. <<what, p>> \in {<<"open", "nodes">>, <<"flush", "nodes">>, <<"open", "edges">>, <<"flush", "edges">>}
      BY <1>2, PlanIs
    <2>2. /\ k = 1 => what = "open" /\ p = "nodes"
          /\ k = 2 => what = "flush" /\ p = "nodes"
          /\ k = 3 => what = "open" /\ p = "edges"
          /\ k = 4 => what = "flush" /\ p = "edges"
      BY <1>2, PlanIs
    <2> QED BY <1>1, <1>2, <2>2
  <1>3. CASE k > 4 /\ backend = "objects"
    <2>1. k \in {5, 6} /\ (k = 5 => what = "put" /\ p = "nodes") /\ (k = 6 => what = "put" /\ p = "edges")
      BY <1>1, <1>3, PlanIs
    <2> QED BY <1>1, <1>3, <2>1
  <1>4. CASE k > 4 /\ backend = "local"
    <2>1. /\ k \in {5, 6, 7, 8, 9}
          /\ k = 5 => what = "load" /\ p = "nodes"
          /\ k = 6 => what = "load" /\ p = "edges"
          /\ k = 7 => what = "begin"
          /\ k = 8 => what = "fill"
          /\ k = 9 => what = "commit"
      BY <1>1, <1>4, PlanIs
    <2> QED BY <1>1, <1>4, <2>1
  <1> QED BY <1>1, <1>2, <1>3, <1>4 DEF Backends

(***************************************************************************)
(* Types.                                                                  *)
(***************************************************************************)
LEMMA CallsKeepType ==
    ASSUME SnapshotTypeOK, NEW b \in Builders, NEW p \in Parts,
           OpenFile(b, p) \/ FlushFile(b, p) \/ PutObject(b, p) \/ LoadFile(b, p) \/ Begin(b) \/ Fill(b) \/ Commit(b)
    PROVE  SnapshotTypeOK'
  <1> USE GraphAssumption
  <1>1. left[b] # <<>> /\ Return(b)
    BY DEF OpenFile, FlushFile, PutObject, LoadFile, Begin, Fill, Commit, SetFile, Call
  <1>2. left' \in [Builders -> Seq(Calls)] /\ completed' \in Nat
    BY <1>1 DEF Return, SnapshotTypeOK
  <1>3. CASE OpenFile(b, p) \/ FlushFile(b, p)
    <2>1. PICK c \in Nat : SetFile(b, p, c)
      <3>1. 0 \in Nat /\ build[b] \in Nat
        BY DEF SnapshotTypeOK
      <3> QED BY <1>3, <3>1 DEF OpenFile, FlushFile, Empty
    <2>2. file' \in [Parts -> Nat]
      <3>1. file' = [file EXCEPT ![p] = c]
        BY <2>1 DEF SetFile
      <3> QED BY <3>1 DEF SnapshotTypeOK
    <2>3. source' \in [Parts -> Seq(Nat)]
      <3>1. source' = source \/ source' = [source EXCEPT ![p] = Append(@, c)]
        BY <2>1 DEF SetFile, Write
      <3>2. Append(source[p], c) \in Seq(Nat)
        BY DEF SnapshotTypeOK
      <3> QED BY <3>1, <3>2 DEF SnapshotTypeOK
    <2> QED BY <1>2, <2>1, <2>2, <2>3 DEF SetFile, SnapshotTypeOK, readerVars
  <1>4. CASE PutObject(b, p)
    <2>1. source' \in [Parts -> Seq(Nat)]
      BY <1>4 DEF PutObject, Write, SnapshotTypeOK
    <2> QED BY <1>2, <1>4, <2>1 DEF PutObject, SnapshotTypeOK, readerVars
  <1>5. CASE LoadFile(b, p)
    BY <1>2, <1>5 DEF LoadFile, SnapshotTypeOK, readerVars
  <1>6. CASE Begin(b)
    BY <1>2, <1>6 DEF Begin, None, SnapshotTypeOK, readerVars
  <1>7. CASE Fill(b)
    BY <1>2, <1>7 DEF Fill, SnapshotTypeOK, readerVars
  <1>8. CASE Commit(b)
    <2>1. source' \in [Parts -> Seq(Nat)]
      BY <1>8 DEF Commit, SnapshotTypeOK
    <2> QED BY <1>2, <1>8, <2>1 DEF Commit, SnapshotTypeOK, readerVars
  <1> QED BY <1>3, <1>4, <1>5, <1>6, <1>7, <1>8

LEMMA OthersKeepType ==
    ASSUME SnapshotTypeOK, NEW b \in Builders, StartBuild(b) \/ BuildRaises(b)
    PROVE  SnapshotTypeOK'
  <1> USE GraphAssumption
  <1>1. CASE StartBuild(b)
    <2>1. BuildPlan \in Seq(Calls)
      BY PlanIs DEF SnapshotTypeOK
    <2>2. left' \in [Builders -> Seq(Calls)]
      BY <1>1, <2>1 DEF StartBuild, SnapshotTypeOK
    <2>3. started' \in 0..MaxBuilds /\ started + 1 \in Nat
      BY <1>1 DEF StartBuild, SnapshotTypeOK
    <2>4. build' \in [Builders -> Nat]
      BY <1>1, <2>3 DEF StartBuild, SnapshotTypeOK
    <2>5. quiet' \in [Readers -> BOOLEAN]
      BY <1>1 DEF StartBuild
    <2> QED BY <1>1, <2>2, <2>3, <2>4, <2>5 DEF StartBuild, SnapshotTypeOK, readerVars
  <1>2. CASE BuildRaises(b)
    BY <1>2 DEF BuildRaises, SnapshotTypeOK, readerVars
  <1> QED BY <1>1, <1>2

LEMMA RestartKeepsType ==
    ASSUME SnapshotTypeOK, Restart PROVE SnapshotTypeOK'
  <1> USE GraphAssumption
  <1>1. None \in Seen
    BY DEF None, Seen
  <1>2. <<>> \in Seq(Calls)
    OBVIOUS
  <1>3. left' \in [Builders -> Seq(Calls)]
    BY <1>2 DEF Restart
  <1>4. step' \in [Readers -> Steps] /\ ops' \in [Readers -> Nat] /\ quiet' \in [Readers -> BOOLEAN]
    BY DEF Restart, Steps
  <1>5. floor' \in [Readers -> Seen]
    BY <1>1 DEF Restart
  <1>6. faults' \in 0..MaxFaults /\ dbLock' \in Builders \cup {NoBuilder}
    BY DEF Restart, SnapshotTypeOK
  <1> QED BY <1>3, <1>4, <1>5, <1>6 DEF Restart, SnapshotTypeOK

\* What a reader changes.
ReaderTypes ==
    /\ step \in [Readers -> Steps] /\ ops \in [Readers -> Nat]
    /\ meta \in [Readers -> Seen] /\ last \in [Readers -> Seen] /\ got \in [Readers -> Seen]
    /\ loaded \in [Readers -> Seen] /\ floor \in [Readers -> Seen]
    /\ quiet \in [Readers -> BOOLEAN] /\ ok \in [Readers -> BOOLEAN] /\ faults \in 0..MaxFaults

LEMMA Lengths ==
    ASSUME SnapshotTypeOK
    PROVE  Current \in Seen /\ \A p \in Parts : Len(source[p]) \in Nat
  BY DEF SnapshotTypeOK, Current, Seen

LEMMA SeenMoves ==
    ASSUME NEW f \in [Readers -> Seen], NEW r \in Readers, NEW p \in Parts, NEW n \in Nat
    PROVE  [f EXCEPT ![r][p] = n] \in [Readers -> Seen]
  <1>1. [f[r] EXCEPT ![p] = n] \in Seen
    BY DEF Seen
  <1> QED BY <1>1

LEMMA ReadersKeepType ==
    ASSUME SnapshotTypeOK, NEW r \in Readers, Read(r)
    PROVE  SnapshotTypeOK'
  <1>t. ReaderTypes
    BY DEF SnapshotTypeOK, ReaderTypes
  <1>n. None \in Seen
    BY DEF None, Seen
  <1>p. "nodes" \in Parts /\ "edges" \in Parts
    BY DEF Parts
  <1>c. Current \in Seen /\ Len(source["nodes"]) \in Nat /\ Len(source["edges"]) \in Nat
    BY <1>p, Lengths
  <1>0. ReaderTypes'
    <2> USE <1>t DEF ReaderTypes
    <2>1. CASE StartRequest(r)
      <3>1. ops' \in [Readers -> Nat]
        BY <2>1, GraphAssumption DEF StartRequest
      <3>2. last' \in [Readers -> Seen] /\ loaded' \in [Readers -> Seen] /\ floor' \in [Readers -> Seen]
        BY <2>1, <1>n DEF StartRequest
      <3> QED BY <2>1, <3>1, <3>2 DEF StartRequest
    <2>2. CASE StartOp(r)
      <3>1. ops' \in [Readers -> Nat]
        <4>1. ops[r] > 0 /\ ops' = [ops EXCEPT ![r] = ops[r] - 1]
          BY <2>2, Zenon DEF StartOp
        <4>2. ops[r] \in Nat
          OBVIOUS
        <4>3. ops[r] - 1 \in Nat
          BY <4>1, <4>2
        <4> QED BY <4>1, <4>3
      <3>2. step' \in [Readers -> Steps]
        BY <2>2 DEF StartOp, Steps
      <3>3. floor' \in [Readers -> Seen]
        BY <2>2, <1>c DEF StartOp
      <3>4. quiet' \in [Readers -> BOOLEAN] /\ ok' \in [Readers -> BOOLEAN]
        BY <2>2 DEF StartOp
      <3> QED BY <2>2, <3>1, <3>2, <3>3, <3>4 DEF StartOp
    <2>3. CASE SeeNodes(r)
      <3>1. meta' \in [Readers -> Seen]
        BY <2>3, <1>c, <1>p, SeenMoves DEF SeeNodes, See
      <3>2. step' \in [Readers -> Steps]
        BY <2>3 DEF SeeNodes, Steps
      <3> QED BY <2>3, <3>1, <3>2 DEF SeeNodes, See
    <2>4. CASE SeeEdges(r)
      <3>1. meta' \in [Readers -> Seen]
        BY <2>4, <1>c, <1>p, SeenMoves DEF SeeEdges, See
      <3>2. step' \in [Readers -> Steps]
        BY <2>4 DEF SeeEdges, Steps
      <3>3. ok' \in [Readers -> BOOLEAN]
        BY <2>4 DEF SeeEdges
      <3> QED BY <2>4, <3>1, <3>2, <3>3 DEF SeeEdges, See
    <2>5. CASE ReadNodes(r)
      <3>1. got' \in [Readers -> Seen]
        BY <2>5, <1>c, <1>p, SeenMoves DEF ReadNodes
      <3>2. step' \in [Readers -> Steps]
        BY <2>5 DEF ReadNodes, Steps
      <3> QED BY <2>5, <3>1, <3>2 DEF ReadNodes
    <2>6. CASE ReadEdges(r)
      <3>1. got' \in [Readers -> Seen]
        BY <2>6, <1>c, <1>p, SeenMoves DEF ReadEdges
      <3>2. loaded' \in [Readers -> Seen] /\ last' \in [Readers -> Seen]
        BY <2>6, <3>1 DEF ReadEdges
      <3>3. step' \in [Readers -> Steps]
        BY <2>6 DEF ReadEdges, Steps
      <3> QED BY <2>6, <3>1, <3>2, <3>3 DEF ReadEdges
    <2>7. CASE SourceFails(r)
      <3>1. step' \in [Readers -> Steps]
        BY <2>7 DEF SourceFails, Steps
      <3>2. ok' \in [Readers -> BOOLEAN] /\ faults' \in 0..MaxFaults
        BY <2>7, GraphAssumption DEF SourceFails
      <3> QED BY <2>7, <3>1, <3>2 DEF SourceFails
    <2>8. CASE EndRequest(r)
      BY <2>8 DEF EndRequest
    <2> QED BY <2>1, <2>2, <2>3, <2>4, <2>5, <2>6, <2>7, <2>8 DEF Read
  <1>1. UNCHANGED <<backend, overlap, source, file, dbLock, started, completed, left, build, text, tables>>
    BY DEF Read, StartRequest, StartOp, SeeNodes, SeeEdges, See, ReadNodes, ReadEdges, SourceFails, EndRequest,
           builderVars
  <1> QED BY <1>0, <1>1 DEF SnapshotTypeOK, ReaderTypes

(***************************************************************************)
(* Builders.                                                               *)
(***************************************************************************)
LEMMA PlansStay ==
    ASSUME UNCHANGED backend PROVE BuildPlan' = BuildPlan /\ Length' = Length
  BY DEF BuildPlan, Length

\* A call goes on in its builder's plan and only adds to what is read.
LEMMA CallEffect ==
    ASSUME SnapshotTypeOK, NEW b \in Builders, NEW p \in Parts,
           OpenFile(b, p) \/ FlushFile(b, p) \/ PutObject(b, p) \/ LoadFile(b, p) \/ Begin(b) \/ Fill(b) \/ Commit(b)
    PROVE  /\ left[b] # <<>> /\ Return(b)
           /\ UNCHANGED <<backend, overlap, started, build, quiet, faults, readerVars>>
           /\ \A q \in Parts : Len(source'[q]) >= Len(source[q])
  <1>1. left[b] # <<>> /\ Return(b)
    BY DEF OpenFile, FlushFile, PutObject, LoadFile, Begin, Fill, Commit, SetFile, Call
  <1>2. UNCHANGED <<backend, overlap, started, build, quiet, faults, readerVars>>
    BY DEF OpenFile, FlushFile, PutObject, LoadFile, Begin, Fill, Commit, SetFile
  <1>3. \A q \in Parts : source'[q] = source[q] \/ \E c : source'[q] = Append(source[q], c)
    <2>1. CASE OpenFile(b, p) \/ FlushFile(b, p) \/ PutObject(b, p)
      <3>1. UNCHANGED source \/ \E c : Write(p, c)
        BY <2>1 DEF OpenFile, FlushFile, SetFile, PutObject
      <3> QED BY <3>1 DEF Write, SnapshotTypeOK
    <2>2. CASE LoadFile(b, p) \/ Begin(b) \/ Fill(b)
      BY <2>2 DEF LoadFile, Begin, Fill
    <2>3. CASE Commit(b)
      BY <2>3 DEF Commit
    <2> QED BY <2>1, <2>2, <2>3
  <1>4. \A q \in Parts : source[q] \in Seq(Nat)
    BY DEF SnapshotTypeOK
  <1> QED BY <1>1, <1>2, <1>3, <1>4

LEMMA AddedLast ==
    ASSUME NEW s \in Seq(Nat), NEW c
    PROVE  Append(s, c) # <<>> /\ Append(s, c)[Len(Append(s, c))] = c
  OBVIOUS

LEMMA WriteIsLast ==
    ASSUME SnapshotTypeOK, NEW p \in Parts, NEW c, Write(p, c)
    PROVE  LastIs(p, c)' /\ \A q \in Parts \ {p} : source'[q] = source[q]
  <1>1. source'[p] = Append(source[p], c) /\ source[p] \in Seq(Nat)
    BY DEF Write, SnapshotTypeOK
  <1>2. LastIs(p, c)'
    BY <1>1, AddedLast DEF LastIs
  <1>3. \A q \in Parts \ {p} : source'[q] = source[q]
    BY DEF Write, SnapshotTypeOK
  <1> QED BY <1>2, <1>3

\* What a call writes is what the calls after it rely on.
LEMMA CallWrites ==
    ASSUME SnapshotTypeOK, NEW b \in Builders, NEW p \in Parts, NEW k \in 1..Length,
           Place(b, k), Owner(b), Written(b, k),
           OpenFile(b, p) \/ FlushFile(b, p) \/ PutObject(b, p) \/ LoadFile(b, p) \/ Begin(b) \/ Fill(b) \/ Commit(b)
    PROVE  /\ k < Length => Written(b, k + 1)'
           /\ k = Length => \A q \in Parts : LastIs(q, started)'
           /\ backend = "local" => \/ UNCHANGED source
                                   \/ \A q \in Parts : source'[q] = Append(source[q], started)
  <1>b. backend \in Backends /\ UNCHANGED <<backend, started, build>> /\ build[b] = started
    BY CallEffect DEF SnapshotTypeOK, Owner
  <1>l. Length \in {4, 6, 9} /\ (Length = 4 <=> backend = "files") /\ (Length = 6 <=> backend = "objects")
        /\ (Length = 9 <=> backend = "local")
    BY <1>b, PlanIs DEF Backends
  <1>p. p = "nodes" \/ p = "edges"
    BY DEF Parts
  <1>1. CASE OpenFile(b, p)
    <2>1. BuildPlan[k] = <<"open", p>>
      BY <1>1, <1>b, PlaceMoves DEF OpenFile
    <2>2. (p = "nodes" => k = 1) /\ (p = "edges" => k = 3)
      BY <2>1, <1>b, WhichCall, Zenon
    <2>3. file' = [file EXCEPT ![p] = 0] /\ UNCHANGED <<text, tables>>
          /\ IF backend = "files" THEN Write(p, 0) ELSE UNCHANGED source
      BY <1>1 DEF OpenFile, SetFile, Empty
    <2>4. CASE p = "nodes"
      <3>1. k = 1 /\ k + 1 = 2
        BY <2>2, <2>4
      <3>2. Written(b, 2)'
        BY DEF Written
      <3> QED BY <3>1, <3>2, <2>3, <1>l
    <2>5. CASE p = "edges"
      <3>1. k = 3 /\ k + 1 = 4
        BY <2>2, <2>5
      <3>2. file'.nodes = started
        BY <2>3, <2>5, <3>1 DEF Written, SnapshotTypeOK, Parts
      <3>3. backend = "files" => LastIs("nodes", started)'
        <4>1. backend = "files" => source'["nodes"] = source["nodes"]
          BY <2>3, <2>5, WriteIsLast DEF Parts
        <4> QED BY <4>1, <3>1, <1>b DEF Written, LastIs
      <3>4. Written(b, 4)'
        BY <3>2, <3>3, <1>b DEF Written
      <3> QED BY <3>1, <3>4, <2>3, <1>l
    <2> QED BY <2>4, <2>5, <1>p
  <1>2. CASE FlushFile(b, p)
    <2>1. BuildPlan[k] = <<"flush", p>>
      BY <1>2, <1>b, PlaceMoves DEF FlushFile
    <2>2. (p = "nodes" => k = 2) /\ (p = "edges" => k = 4)
      BY <2>1, <1>b, WhichCall, Zenon
    <2>3. file' = [file EXCEPT ![p] = started] /\ UNCHANGED <<text, tables>>
          /\ IF backend = "files" THEN Write(p, started) ELSE UNCHANGED source
      BY <1>2, <1>b DEF FlushFile, SetFile
    <2>4. file'[p] = started /\ backend = "files" => LastIs(p, started)'
      BY <2>3, <1>b, WriteIsLast DEF LastIs
    <2>5. file'[p] = started
      BY <2>3 DEF SnapshotTypeOK
    <2>6. CASE p = "nodes"
      <3>1. k = 2 /\ k + 1 = 3
        BY <2>2, <2>6
      <3>2. Written(b, 3)'
        BY <2>4, <2>5, <2>6, <1>b DEF Written
      <3> QED BY <3>1, <3>2, <2>3, <1>l
    <2>7. CASE p = "edges"
      <3>1. k = 4 /\ k + 1 = 5
        BY <2>2, <2>7
      <3>2. file'.nodes = started
        BY <2>3, <2>7, <3>1 DEF Written, SnapshotTypeOK, Parts
      <3>3. backend = "files" => LastIs("nodes", started)'
        <4>1. backend = "files" => source'["nodes"] = source["nodes"]
          BY <2>3, <2>7, WriteIsLast DEF Parts
        <4> QED BY <4>1, <3>1, <1>b DEF Written, LastIs
      <3>4. Written(b, 5)'
        BY <2>5, <2>7, <3>2, <3>3, <1>b DEF Written
      <3>5. k = Length => \A q \in Parts : LastIs(q, started)'
        BY <2>4, <2>5, <2>7, <3>1, <3>3, <1>l DEF Parts
      <3> QED BY <3>1, <3>4, <3>5, <2>3, <1>l
    <2> QED BY <2>6, <2>7, <1>p
  <1>3. CASE PutObject(b, p)
    <2>1. BuildPlan[k] = <<"put", p>>
      BY <1>3, <1>b, PlaceMoves DEF PutObject
    <2>2. backend = "objects" /\ (p = "nodes" => k = 5) /\ (p = "edges" => k = 6)
      BY <2>1, <1>b, WhichCall, Zenon
    <2>3. Write(p, file[p]) /\ UNCHANGED <<file, text, tables>>
      BY <1>3 DEF PutObject
    <2>4. file.nodes = started /\ (p = "edges" => file.edges = started)
      BY <2>2, <1>p DEF Written
    <2>5. LastIs(p, started)' /\ \A q \in Parts \ {p} : source'[q] = source[q]
      <3>1. file[p] = started
        BY <2>4, <1>p
      <3>2. Write(p, started)
        BY <2>3, <3>1
      <3> QED BY <3>2, <1>b, WriteIsLast DEF LastIs
    <2>6. CASE p = "nodes"
      <3>1. k = 5 /\ k + 1 = 6
        BY <2>2, <2>6
      <3>2. file.edges = started
        BY <3>1 DEF Written
      <3>3. Written(b, 6)'
        BY <2>2, <2>3, <2>4, <2>5, <2>6, <3>2, <1>b DEF Written
      <3> QED BY <3>1, <3>3, <2>2, <1>l
    <2>7. CASE p = "edges"
      <3>1. LastIs("nodes", started)
        BY <2>2, <2>7 DEF Written
      <3>2. LastIs("nodes", started)'
        BY <3>1, <2>5, <2>7, <1>b DEF LastIs, Parts
      <3> QED BY <2>2, <2>5, <2>7, <3>2, <1>l, <1>b DEF Parts
    <2> QED BY <2>6, <2>7, <1>p
  <1>4. CASE LoadFile(b, p)
    <2>1. BuildPlan[k] = <<"load", p>>
      BY <1>4, <1>b, PlaceMoves DEF LoadFile
    <2>2. backend = "local" /\ (p = "nodes" => k = 5) /\ (p = "edges" => k = 6)
      BY <2>1, <1>b, WhichCall, Zenon
    <2>3. text' = [text EXCEPT ![b][p] = file[p]] /\ UNCHANGED <<file, source, tables>>
      BY <1>4 DEF LoadFile
    <2>4. k > 4 /\ file.nodes = started /\ file.edges = started
      BY <2>2, <1>p DEF Written
    <2>5. text'[b][p] = started /\ \A q \in Parts \ {p} : text'[b][q] = text[b][q]
      BY <2>3, <2>4, <1>p DEF SnapshotTypeOK
    <2>6. CASE p = "nodes"
      <3>1. k + 1 = 6
        BY <2>2, <2>6
      <3>2. Written(b, 6)'
        BY <2>2, <2>3, <2>4, <2>5, <2>6, <1>b DEF Written
      <3> QED BY <3>1, <3>2, <2>2, <2>3, <2>6, <1>l
    <2>7. CASE p = "edges"
      <3>1. k + 1 = 7
        BY <2>2, <2>7
      <3>2. text[b].nodes = started
        BY <2>2, <2>7 DEF Written
      <3>3. text'[b].nodes = started
        BY <2>5, <2>7, <3>2 DEF Parts
      <3>4. Written(b, 7)'
        BY <2>2, <2>3, <2>4, <2>5, <2>7, <3>3, <1>b DEF Written
      <3> QED BY <3>1, <3>4, <2>2, <2>3, <2>7, <1>l
    <2> QED BY <2>6, <2>7, <1>p
  <1>5. CASE Begin(b)
    <2>1. BuildPlan[k] = <<"begin", "tables">>
      BY <1>5, <1>b, PlaceMoves DEF Begin
    <2>2. backend = "local" /\ k = 7
      BY <2>1, <1>b, WhichCall, Zenon
    <2>3. UNCHANGED <<file, source, text>>
      BY <1>5 DEF Begin
    <2>4. Written(b, 8)'
      BY <2>2, <2>3, <1>b DEF Written
    <2> QED BY <2>2, <2>3, <2>4, <1>l
  <1>6. CASE Fill(b)
    <2>1. BuildPlan[k] = <<"fill", "tables">>
      BY <1>6, <1>b, PlaceMoves DEF Fill
    <2>2. backend = "local" /\ k = 8
      BY <2>1, <1>b, WhichCall, Zenon
    <2>3. tables' = [tables EXCEPT ![b] = text[b]] /\ UNCHANGED <<file, source, text>>
      BY <1>6 DEF Fill
    <2>4. tables'[b] = text'[b]
      BY <2>3 DEF SnapshotTypeOK
    <2>5. Written(b, 9)'
      BY <2>2, <2>3, <2>4, <1>b DEF Written
    <2> QED BY <2>2, <2>3, <2>5, <1>l
  <1>7. CASE Commit(b)
    <2>1. BuildPlan[k] = <<"commit", "tables">>
      BY <1>7, <1>b, PlaceMoves DEF Commit
    <2>2. backend = "local" /\ k = 9
      BY <2>1, <1>b, WhichCall, Zenon
    <2>3. tables[b] = text[b] /\ text[b].nodes = started /\ text[b].edges = started
      BY <2>2 DEF Written
    <2>4. \A q \in Parts : tables[b][q] = started
      BY <2>3 DEF Parts
    <2>5. \A q \in Parts : source'[q] = Append(source[q], started) /\ source[q] \in Seq(Nat)
      BY <1>7, <2>4 DEF Commit, SnapshotTypeOK
    <2>6. \A q \in Parts : LastIs(q, started)'
      BY <2>5, <1>b, AddedLast DEF LastIs
    <2> QED BY <2>2, <2>5, <2>6, <1>l
  <1> QED BY <1>1, <1>2, <1>3, <1>4, <1>5, <1>6, <1>7

LEMMA WholePlan ==
    ASSUME backend \in Backends
    PROVE  BuildPlan = SubSeq(BuildPlan, 1, Length) /\ BuildPlan # <<>> /\ 1 \in 1..Length
  <1> DEFINE s == BuildPlan
             t == SubSeq(s, 1, Length)
  <1>1. s \in Seq(Calls) /\ Len(s) = Length /\ Length \in {4, 6, 9}
    BY PlanIs DEF Length, Backends
  <1> HIDE DEF s
  <1>2. t \in Seq(Calls) /\ Len(t) = Length /\ \A i \in 1..Length : t[i] = s[i]
    BY <1>1
  <1> HIDE DEF t
  <1>3. s = t
    BY <1>1, <1>2, SeqEqual
  <1>4. s # <<>> /\ 1 \in 1..Length
    BY <1>1
  <1> QED BY <1>3, <1>4 DEF s, t

\* A place in the plan with calls left is not the end of it.
LEMMA PlaceIsBusy ==
    ASSUME backend \in Backends, NEW k \in 1..Length
    PROVE  SubSeq(BuildPlan, k, Length) # <<>>
  <1>1. BuildPlan \in Seq(Calls) /\ Length \in Nat /\ Length = Len(BuildPlan)
    BY PlanIs DEF Length
  <1>2. Len(SubSeq(BuildPlan, k, Length)) = Length - k + 1
    BY <1>1
  <1> QED BY <1>1, <1>2

LEMMA CallsInTurn ==
    ASSUME SnapshotTypeOK, BuildsInTurn, TablesTogether, NEW b \in Builders, NEW p \in Parts,
           OpenFile(b, p) \/ FlushFile(b, p) \/ PutObject(b, p) \/ LoadFile(b, p) \/ Begin(b) \/ Fill(b) \/ Commit(b)
    PROVE  BuildsInTurn' /\ TablesTogether'
  <1>1. /\ left[b] # <<>> /\ Return(b)
        /\ UNCHANGED <<backend, overlap, started, build>>
        /\ backend \in Backends
    BY CallEffect DEF SnapshotTypeOK
  <1>2. CASE overlap
    BY <1>1, <1>2 DEF BuildsInTurn, TablesTogether
  <1>3. CASE ~overlap
    <2>1. PICK k \in 1..Length : Place(b, k) /\ Owner(b) /\ Written(b, k)
      BY <1>1, <1>3 DEF BuildsInTurn
    <2>2. /\ completed < started /\ completed \in Nat /\ started \in Nat /\ build[b] = started
          /\ \A c \in Builders \ {b} : left[c] = <<>>
      BY <1>1, <1>3, <2>1 DEF BuildsInTurn, Owner, SnapshotTypeOK
    <2>3. /\ k < Length => Written(b, k + 1)'
          /\ k = Length => \A q \in Parts : LastIs(q, started)'
          /\ backend = "local" => \/ UNCHANGED source
                                  \/ \A q \in Parts : source'[q] = Append(source[q], started)
      BY <2>1, CallWrites
    <2>4. /\ Len(left[b]) = 1 <=> k = Length
          /\ k = Length => Tail(left[b]) = <<>>
          /\ k < Length => Tail(left[b]) = SubSeq(BuildPlan, k + 1, Length)
      <3>1. PICK what, q : Call(b, what, q)
        BY DEF OpenFile, FlushFile, PutObject, LoadFile, Begin, Fill, Commit
      <3> QED BY <1>1, <2>1, <3>1, PlaceMoves
    <2>5. /\ left'[b] = Tail(left[b]) /\ \A c \in Builders \ {b} : left'[c] = <<>>
          /\ completed' = IF Len(left[b]) = 1 THEN started ELSE completed
      BY <1>1, <2>2 DEF Return, SnapshotTypeOK
    <2>6. BuildsInTurn'
      <3>1. CASE k = Length
        <4>1. \A c \in Builders : left'[c] = <<>>
          BY <2>4, <2>5, <3>1
        <4>2. completed' = started'
          BY <1>1, <2>4, <2>5, <3>1
        <4>3. \A q \in Parts : LastIs(q, started)'
          BY <2>3, <3>1
        <4> QED BY <1>1, <2>2, <4>1, <4>2, <4>3 DEF BuildsInTurn
      <3>2. CASE k < Length
        <4>0. k + 1 \in 1..Length /\ Length' = Length /\ BuildPlan' = BuildPlan
          BY <1>1, <3>2, PlanIs, PlansStay
        <4>1. Place(b, k + 1)'
          BY <2>4, <2>5, <3>2, <4>0 DEF Place
        <4>2. Owner(b)'
          BY <1>1, <2>2, <2>4, <2>5, <3>2 DEF Owner
        <4>3. left'[b] # <<>>
          BY <1>1, <2>4, <2>5, <3>2, <4>0, PlaceIsBusy
        <4>4. \E n \in (1..Length)' : (Place(b, n) /\ Owner(b) /\ Written(b, n))'
          BY <2>3, <3>2, <4>0, <4>1, <4>2
        <4>5. ~(Idle /\ completed = started /\ started > 0)'
          BY <4>3 DEF Idle
        <4>6. completed' <= started'
          BY <1>1, <2>2, <2>4, <2>5, <3>2
        <4>7. (\A c, d \in Builders : left[c] # <<>> /\ left[d] # <<>> => c = d)'
          BY <2>5
        <4>8. (\A c \in Builders : left[c] # <<>> => \E n \in 1..Length : Place(c, n) /\ Owner(c) /\ Written(c, n))'
          BY <2>5, <4>4
        <4> QED BY <4>5, <4>6, <4>7, <4>8 DEF BuildsInTurn
      <3> QED BY <3>1, <3>2, PlanIs, <1>1
    <2>7. TablesTogether'
      <3> SUFFICES ASSUME backend = "local", ~overlap PROVE (Len(source.nodes) = Len(source.edges) /\ TablesAreOneBuild)'
        BY <1>1 DEF TablesTogether
      <3>1. Len(source.nodes) = Len(source.edges) /\ TablesAreOneBuild
        BY DEF TablesTogether
      <3>2. source.nodes \in Seq(Nat) /\ source.edges \in Seq(Nat)
        BY DEF SnapshotTypeOK, Parts
      <3>3. CASE UNCHANGED source
        BY <1>1, <3>1, <3>3 DEF TablesAreOneBuild
      <3>4. CASE \A q \in Parts : source'[q] = Append(source[q], started)
        <4>1. source'.nodes = Append(source.nodes, started) /\ source'.edges = Append(source.edges, started)
          BY <3>4 DEF Parts
        <4>2. \A i \in 1..Len(source.nodes) : source.nodes[i] = source.edges[i] /\ source.nodes[i] # Empty
          BY <3>1, <3>2 DEF TablesAreOneBuild
        <4>3. started # Empty
          BY <2>2 DEF Empty
        <4>4. \A i \in 1..Len(source.nodes) + 1 : source'.nodes[i] = source'.edges[i] /\ source'.nodes[i] # Empty
          <5> TAKE i \in 1..Len(source.nodes) + 1
          <5>1. CASE i = Len(source.nodes) + 1
            <6>1. source'.nodes[i] = started /\ source'.edges[i] = started
              BY <3>1, <3>2, <4>1, <5>1
            <6> QED BY <4>3, <6>1
          <5>2. CASE i # Len(source.nodes) + 1
            <6>1. i \in 1..Len(source.nodes)
              BY <3>2, <5>2
            <6>2. source'.nodes[i] = source.nodes[i] /\ source'.edges[i] = source.edges[i]
              BY <3>1, <3>2, <4>1, <6>1
            <6> QED BY <4>2, <6>1, <6>2
          <5> QED BY <5>1, <5>2
        <4>5. DOMAIN source'.nodes = 1..Len(source.nodes) + 1 /\ Len(source'.nodes) = Len(source'.edges)
          BY <3>1, <3>2, <4>1
        <4> QED BY <4>4, <4>5 DEF TablesAreOneBuild
      <3> QED BY <2>3, <3>3, <3>4
    <2> QED BY <2>6, <2>7
  <1> QED BY <1>2, <1>3

LEMMA OthersInTurn ==
    ASSUME SnapshotTypeOK, BuildsInTurn, TablesTogether,
           (\E b \in Builders : StartBuild(b) \/ BuildRaises(b)) \/ Restart
    PROVE  BuildsInTurn' /\ TablesTogether'
  <1>1. UNCHANGED <<backend, overlap, source, completed>> /\ backend \in Backends
    BY DEF StartBuild, BuildRaises, Restart, SnapshotTypeOK
  <1>2. TablesTogether'
    BY <1>1 DEF TablesTogether, TablesAreOneBuild
  <1>3. completed \in Nat /\ started \in Nat
    BY DEF SnapshotTypeOK
  <1>4. ASSUME NEW b \in Builders, StartBuild(b), ~overlap PROVE BuildsInTurn'
    <2>1. /\ \A c \in Builders : left[c] = <<>>
          /\ started' = started + 1 /\ completed <= started
      BY <1>4 DEF StartBuild, BuildsInTurn
    <2>2. left'[b] = BuildPlan /\ build'[b] = started + 1 /\ \A c \in Builders \ {b} : left'[c] = <<>>
      BY <1>4, <2>1 DEF StartBuild, SnapshotTypeOK
    <2>3. Length' = Length /\ BuildPlan' = BuildPlan
      BY <1>1, PlansStay
    <2>4. Place(b, 1)' /\ left'[b] # <<>> /\ 1 \in (1..Length)'
      BY <1>1, <2>2, <2>3, WholePlan DEF Place
    <2>5. Owner(b)'
      BY <1>1, <1>3, <2>1, <2>2 DEF Owner
    <2>6. Written(b, 1)'
      BY DEF Written
    <2>7. \E n \in (1..Length)' : (Place(b, n) /\ Owner(b) /\ Written(b, n))'
      BY <2>4, <2>5, <2>6
    <2>8. ~Idle' /\ completed' <= started'
      BY <1>1, <1>3, <2>1, <2>4 DEF Idle
    <2>9. (\A c, d \in Builders : left[c] # <<>> /\ left[d] # <<>> => c = d)'
      BY <2>2
    <2>10. (\A c \in Builders : left[c] # <<>> => \E n \in 1..Length : Place(c, n) /\ Owner(c) /\ Written(c, n))'
      BY <2>2, <2>7
    <2> QED BY <2>8, <2>9, <2>10 DEF BuildsInTurn
  <1>5. ASSUME (\E b \in Builders : BuildRaises(b)) \/ Restart, ~overlap PROVE BuildsInTurn'
    <2>1. \A c \in Builders : left'[c] = <<>>
      <3>1. CASE Restart
        BY <3>1 DEF Restart
      <3>2. ASSUME NEW b \in Builders, BuildRaises(b) PROVE \A c \in Builders : left'[c] = <<>>
        <4>1. left[b] # <<>> /\ left' = [left EXCEPT ![b] = <<>>]
          BY <3>2 DEF BuildRaises
        <4>2. \A c \in Builders \ {b} : left[c] = <<>>
          BY <1>5, <4>1 DEF BuildsInTurn
        <4> QED BY <4>1, <4>2 DEF SnapshotTypeOK
      <3> QED BY <1>5, <3>1, <3>2
    <2>2. started' = started
      BY <1>5 DEF Restart, BuildRaises
    <2>3. completed = started => Idle
      BY <1>3, <1>5 DEF BuildsInTurn, Owner, Idle
    <2>4. (Idle /\ completed = started /\ started > 0 => \A p \in Parts : LastIs(p, started))'
      BY <1>1, <1>5, <2>2, <2>3 DEF BuildsInTurn, LastIs
    <2>5. completed' <= started'
      BY <1>1, <1>5, <2>2 DEF BuildsInTurn
    <2> QED BY <2>1, <2>4, <2>5 DEF BuildsInTurn
  <1>6. CASE overlap
    BY <1>1, <1>2, <1>6 DEF BuildsInTurn
  <1> QED BY <1>2, <1>4, <1>5, <1>6

(***************************************************************************)
(* Readers.                                                                *)
(***************************************************************************)
LEMMA Numbers ==
    ASSUME SnapshotTypeOK, NEW r \in Readers, NEW p \in Parts
    PROVE  /\ Len(source[p]) \in Nat
           /\ meta[r][p] \in Nat /\ got[r][p] \in Nat /\ last[r][p] \in Nat
           /\ loaded[r][p] \in Nat /\ floor[r][p] \in Nat
  BY DEF SnapshotTypeOK, Seen

LEMMA AdditionsLeaveReaders ==
    ASSUME SnapshotTypeOK, SnapshotTypeOK', UNCHANGED readerVars,
           \A p \in Parts : Len(source'[p]) >= Len(source[p]), NEW r \in Readers, Forward(r)
    PROVE  Forward(r)'
  <1>1. UNCHANGED <<step, ok, meta, got, last, loaded, floor>>
    BY DEF readerVars
  <1>2. \A p \in Parts : /\ Len(source[p]) \in Nat /\ Len(source'[p]) \in Nat
                         /\ meta[r][p] \in Nat /\ got[r][p] \in Nat /\ loaded[r][p] \in Nat /\ floor[r][p] \in Nat
    <2>1. \A p \in Parts : Len(source'[p]) \in Nat
      BY DEF SnapshotTypeOK
    <2> QED BY <2>1, Numbers
  <1>3. ASSUME NEW p \in Parts
        PROVE  /\ meta[r][p] <= Len(source'[p]) /\ got[r][p] <= Len(source'[p])
               /\ loaded[r][p] <= Len(source'[p]) /\ floor[r][p] <= Len(source'[p])
    <2>1. /\ meta[r][p] <= Len(source[p]) /\ got[r][p] <= Len(source[p])
          /\ loaded[r][p] <= Len(source[p]) /\ floor[r][p] <= Len(source[p])
      BY DEF Forward
    <2>2. Len(source'[p]) >= Len(source[p])
      OBVIOUS
    <2> HIDE DEF Forward
    <2> QED BY <1>2, <2>1, <2>2
  <1> QED BY <1>1, <1>3 DEF Forward

LEMMA BuildersLeaveReaders ==
    ASSUME SnapshotTypeOK, SnapshotTypeOK', NEW b \in Builders, Build(b),
           NEW r \in Readers, Forward(r), Quiet(r)
    PROVE  Forward(r)' /\ Quiet(r)'
  <1>1. /\ UNCHANGED readerVars
        /\ \A p \in Parts : Len(source'[p]) >= Len(source[p])
        /\ quiet'[r] = FALSE \/ (quiet'[r] = quiet[r] /\ left[b] # <<>>)
    <2>0. \A p \in Parts : Len(source[p]) \in Nat
      BY Lengths
    <2>1. CASE StartBuild(b)
      <3>1. UNCHANGED <<readerVars, source>>
        BY <2>1 DEF StartBuild
      <3>2. quiet'[r] = FALSE
        BY <2>1 DEF StartBuild
      <3>3. UNCHANGED readerVars /\ \A p \in Parts : Len(source'[p]) >= Len(source[p])
        BY <2>0, <3>1
      <3> QED BY <3>2, <3>3
    <2>2. CASE BuildRaises(b)
      <3>1. UNCHANGED <<readerVars, source, quiet>> /\ left[b] # <<>>
        BY <2>2 DEF BuildRaises
      <3> QED BY <2>0, <3>1
    <2>3. ASSUME NEW p \in Parts,
                 OpenFile(b, p) \/ FlushFile(b, p) \/ PutObject(b, p) \/ LoadFile(b, p) \/ Begin(b) \/ Fill(b) \/ Commit(b)
          PROVE  /\ UNCHANGED readerVars
                 /\ \A q \in Parts : Len(source'[q]) >= Len(source[q])
                 /\ quiet'[r] = quiet[r] /\ left[b] # <<>>
      BY <2>3, CallEffect
    <2>4. "nodes" \in Parts
      BY DEF Parts
    <2> QED BY <2>1, <2>2, <2>3, <2>4 DEF Build
  <1>2. Forward(r)'
    BY <1>1, AdditionsLeaveReaders
  <1>3. ~quiet'[r]
    BY <1>1 DEF Quiet, Idle
  <1> QED BY <1>2, <1>3 DEF Quiet

LEMMA RestartLeavesReaders ==
    ASSUME SnapshotTypeOK, Restart, NEW r \in Readers, Forward(r)
    PROVE  Forward(r)' /\ Quiet(r)'
  <1>1. /\ step'[r] = "idle" /\ quiet'[r] = FALSE /\ floor'[r] = None
        /\ UNCHANGED <<source, meta, got, last, loaded, ok>>
    BY DEF Restart
  <1>2. ASSUME NEW p \in Parts PROVE floor'[r][p] = 0 /\ floor'[r][p] <= Len(source[p]) /\ loaded[r][p] >= floor'[r][p]
    <2>1. Len(source[p]) \in Nat /\ loaded[r][p] \in Nat
      BY Numbers
    <2>2. floor'[r][p] = 0
      BY <1>1 DEF None
    <2> QED BY <2>1, <2>2
  <1>3. Forward(r)'
    BY <1>1, <1>2 DEF Forward
  <1> QED BY <1>1, <1>3 DEF Quiet

LEMMA ReadersMind ==
    ASSUME SnapshotTypeOK, NEW r \in Readers, Read(r)
    PROVE  /\ UNCHANGED <<backend, overlap, source, builderVars>>
           /\ \A q \in Readers \ {r} : UNCHANGED <<step[q], ok[q], meta[q], got[q], last[q], loaded[q], floor[q], quiet[q]>>
  <1> USE DEF SnapshotTypeOK
  <1>1. CASE StartRequest(r)
    BY <1>1 DEF StartRequest
  <1>2. CASE StartOp(r)
    BY <1>2 DEF StartOp
  <1>3. CASE SeeNodes(r)
    BY <1>3 DEF SeeNodes, See
  <1>4. CASE SeeEdges(r)
    BY <1>4 DEF SeeEdges, See
  <1>5. CASE ReadNodes(r)
    BY <1>5 DEF ReadNodes
  <1>6. CASE ReadEdges(r)
    BY <1>6 DEF ReadEdges
  <1>7. CASE SourceFails(r)
    BY <1>7 DEF SourceFails
  <1>8. CASE EndRequest(r)
    BY <1>8 DEF EndRequest
  <1> QED BY <1>1, <1>2, <1>3, <1>4, <1>5, <1>6, <1>7, <1>8 DEF Read

LEMMA ReaderGoesForward ==
    ASSUME SnapshotTypeOK, NEW r \in Readers, Read(r), Forward(r), Quiet(r)
    PROVE  Forward(r)' /\ Quiet(r)'
  <1>0. \A p \in Parts : /\ Len(source[p]) \in Nat
                         /\ meta[r][p] \in Nat /\ got[r][p] \in Nat /\ last[r][p] \in Nat
                         /\ loaded[r][p] \in Nat /\ floor[r][p] \in Nat
                         /\ meta[r][p] <= Len(source[p]) /\ got[r][p] <= Len(source[p])
                         /\ last[r][p] <= loaded[r][p] /\ loaded[r][p] <= Len(source[p])
                         /\ floor[r][p] <= Len(source[p])
                         /\ step[r] = "idle" /\ ok[r] => loaded[r][p] >= floor[r][p]
    BY Numbers DEF Forward
  <1>p. "nodes" \in Parts /\ "edges" \in Parts /\ \A p \in Parts : p = "nodes" \/ p = "edges"
    BY DEF Parts
  <1>s. UNCHANGED <<overlap, source, completed, started, left>>
    BY ReadersMind DEF builderVars
  <1>i. Idle' = Idle
    BY <1>s DEF Idle
  <1>1. CASE StartRequest(r)
    <2>1. /\ UNCHANGED <<step, meta, got, ok>> /\ step[r] = "idle"
          /\ last'[r] = None /\ loaded'[r] = None /\ floor'[r] = None /\ quiet'[r] = FALSE
      BY <1>1 DEF StartRequest, SnapshotTypeOK
    <2>2. ASSUME NEW p \in Parts
          PROVE  /\ last'[r][p] <= loaded'[r][p] /\ loaded'[r][p] <= Len(source[p])
                 /\ floor'[r][p] <= Len(source[p]) /\ loaded'[r][p] >= floor'[r][p]
      <3>1. last'[r][p] = 0 /\ loaded'[r][p] = 0 /\ floor'[r][p] = 0
        BY <2>1 DEF None
      <3> QED BY <1>0, <3>1
    <2>3. Forward(r)'
      BY <1>0, <1>s, <2>1, <2>2 DEF Forward
    <2> QED BY <2>1, <2>3 DEF Quiet
  <1>2. CASE StartOp(r)
    <2>1. /\ UNCHANGED <<meta, got, last, loaded>> /\ floor'[r] = Current
          /\ step'[r] \in {"read nodes", "see nodes"}
          /\ quiet'[r] => ~overlap /\ Idle /\ completed = started /\ started > 0
      BY <1>2 DEF StartOp, SnapshotTypeOK
    <2>2. \A p \in Parts : floor'[r][p] = Len(source[p]) /\ floor'[r][p] <= Len(source[p])
      <3>1. \A p \in Parts : floor'[r][p] = Len(source[p])
        BY <2>1 DEF Current
      <3> QED BY <1>0, <3>1
    <2>3. Forward(r)'
      BY <1>0, <1>s, <2>1, <2>2 DEF Forward
    <2>4. Quiet(r)'
      BY <1>s, <1>i, <2>1 DEF Quiet
    <2> QED BY <2>3, <2>4
  <1>3. CASE SeeNodes(r)
    <2>1. /\ UNCHANGED <<got, last, loaded, floor, quiet>> /\ step'[r] = "see edges"
          /\ meta'[r] = [meta[r] EXCEPT !["nodes"] = Len(source["nodes"])]
      BY <1>3 DEF SeeNodes, See, SnapshotTypeOK
    <2>2. meta'[r].nodes = Len(source.nodes) /\ meta'[r].edges = meta[r].edges
      BY <2>1 DEF SnapshotTypeOK, Seen, Parts
    <2>a. (\A p \in Parts : meta'[r][p] <= Len(source[p])) /\ meta'[r].nodes >= floor[r].nodes
      <3>1. \A p \in Parts : meta'[r][p] = Len(source[p]) \/ meta'[r][p] = meta[r][p]
        BY <1>p, <2>2
      <3> QED BY <1>0, <1>p, <2>2, <3>1
    <2>3. Forward(r)'
      BY <1>0, <1>s, <2>1, <2>a DEF Forward
    <2>4. Quiet(r)'
      BY <1>s, <1>i, <2>1, <2>2 DEF Quiet
    <2> QED BY <2>3, <2>4
  <1>4. CASE SeeEdges(r)
    <2>1. /\ UNCHANGED <<got, last, loaded, floor, quiet>> /\ step[r] = "see edges"
          /\ meta'[r] = [meta[r] EXCEPT !["edges"] = Len(source["edges"])]
      BY <1>4 DEF SeeEdges, See, SnapshotTypeOK
    <2>2. meta'[r].edges = Len(source.edges) /\ meta'[r].nodes = meta[r].nodes
      BY <2>1 DEF SnapshotTypeOK, Seen, Parts
    <2>3. /\ step'[r] \in {"idle", "read nodes"}
          /\ step'[r] = "idle" /\ ok'[r] => meta'[r] = last[r]
      BY <1>4 DEF SeeEdges, SnapshotTypeOK
    <2>4. step'[r] = "idle" /\ ok'[r] => /\ last[r].nodes = meta[r].nodes /\ last[r].edges = Len(source.edges)
      BY <2>2, <2>3
    <2>a. /\ \A p \in Parts : meta'[r][p] <= Len(source[p])
          /\ meta[r].nodes >= floor[r].nodes
      <3>1. \A p \in Parts : meta'[r][p] = Len(source[p]) \/ meta'[r][p] = meta[r][p]
        BY <1>p, <2>2
      <3>2. meta[r].nodes >= floor[r].nodes
        BY <2>1 DEF Forward
      <3> QED BY <1>0, <3>1, <3>2
    <2>b. step'[r] = "idle" /\ ok'[r] => \A p \in Parts : loaded[r][p] >= floor[r][p]
      BY <1>0, <1>p, <2>4, <2>a
    <2>5. Forward(r)'
      BY <1>0, <1>s, <2>1, <2>3, <2>a, <2>b DEF Forward
    <2>6. Quiet(r)'
      <3>1. quiet[r] /\ step'[r] = "idle" /\ ok'[r] => \A p \in Parts : loaded[r][p] = Len(source[p])
        <4>1. quiet[r] => meta[r].nodes = Len(source.nodes)
          BY <2>1 DEF Quiet
        <4> QED BY <1>0, <1>p, <2>4, <4>1
      <3> QED BY <1>s, <1>i, <2>1, <2>3, <3>1 DEF Quiet
    <2> QED BY <2>5, <2>6
  <1>5. CASE ReadNodes(r)
    <2>1. /\ UNCHANGED <<meta, last, loaded, floor, quiet>> /\ step'[r] = "read edges"
          /\ got'[r] = [got[r] EXCEPT !["nodes"] = Len(source["nodes"])]
      BY <1>5 DEF ReadNodes, SnapshotTypeOK
    <2>2. got'[r].nodes = Len(source.nodes) /\ got'[r].edges = got[r].edges
      BY <2>1 DEF SnapshotTypeOK, Seen, Parts
    <2>a. /\ \A p \in Parts : got'[r][p] <= Len(source[p])
          /\ got'[r].nodes >= floor[r].nodes /\ got'[r].nodes >= meta[r].nodes
      BY <1>0, <1>p, <2>2
    <2>3. Forward(r)'
      BY <1>0, <1>s, <2>1, <2>a DEF Forward
    <2>4. Quiet(r)'
      BY <1>s, <1>i, <2>1, <2>2 DEF Quiet
    <2> QED BY <2>3, <2>4
  <1>6. CASE ReadEdges(r)
    <2>1. /\ UNCHANGED <<meta, floor, quiet>> /\ step'[r] = "idle" /\ step[r] = "read edges"
          /\ got'[r] = [got[r] EXCEPT !["edges"] = Len(source["edges"])]
      BY <1>6 DEF ReadEdges, SnapshotTypeOK
    <2>2. loaded'[r] = got'[r] /\ last'[r] = meta[r]
      BY <1>6 DEF ReadEdges, SnapshotTypeOK
    <2>3. got'[r].edges = Len(source.edges) /\ got'[r].nodes = got[r].nodes
      BY <2>1 DEF SnapshotTypeOK, Seen, Parts
    <2>a. got[r].nodes >= floor[r].nodes /\ got[r].nodes >= meta[r].nodes
      BY <2>1 DEF Forward
    <2>b. ASSUME NEW p \in Parts
          PROVE  /\ meta[r][p] <= got'[r][p] /\ got'[r][p] <= Len(source[p]) /\ got'[r][p] >= floor[r][p]
      BY <1>0, <1>p, <2>3, <2>a
    <2>4. Forward(r)'
      BY <1>0, <1>s, <2>1, <2>2, <2>b DEF Forward
    <2>5. Quiet(r)'
      <3>1. quiet[r] => \A p \in Parts : loaded'[r][p] = Len(source[p])
        BY <2>1, <2>2, <2>3 DEF Quiet, Parts
      <3> QED BY <1>s, <1>i, <2>1, <3>1 DEF Quiet
    <2> QED BY <2>4, <2>5
  <1>7. CASE SourceFails(r)
    <2>1. UNCHANGED <<meta, got, last, loaded, floor, quiet>> /\ step'[r] = "idle" /\ ok'[r] = FALSE
      BY <1>7 DEF SourceFails, SnapshotTypeOK
    <2>2. Forward(r)'
      BY <1>0, <1>s, <2>1 DEF Forward
    <2> QED BY <1>s, <1>i, <2>1, <2>2 DEF Quiet
  <1>8. CASE EndRequest(r)
    <2>1. UNCHANGED <<meta, got, last, loaded, floor, quiet, step, ok>>
      BY <1>8 DEF EndRequest
    <2>2. Forward(r)'
      BY <1>0, <1>s, <2>1 DEF Forward
    <2> QED BY <1>s, <1>i, <2>1, <2>2 DEF Quiet
  <1> QED BY <1>1, <1>2, <1>3, <1>4, <1>5, <1>6, <1>7, <1>8 DEF Read

LEMMA ReadersKeepInv ==
    ASSUME Inv, NEW r \in Readers, Read(r)
    PROVE  Inv'
  <1>1. SnapshotTypeOK'
    BY ReadersKeepType DEF Inv
  <1>2. /\ UNCHANGED <<backend, overlap, source, file, dbLock, started, completed, left, build, text, tables>>
        /\ \A q \in Readers \ {r} : UNCHANGED <<step[q], ok[q], meta[q], got[q], last[q], loaded[q], floor[q], quiet[q]>>
    BY ReadersMind DEF builderVars, Inv
  <1>3. BuildsInTurn'
    <2>1. Length' = Length /\ BuildPlan' = BuildPlan /\ Idle' = Idle
      BY <1>2, PlansStay DEF Idle
    <2> QED BY <1>2, <2>1 DEF Inv, BuildsInTurn, Place, Owner, Written, LastIs
  <1>4. TablesTogether'
    BY <1>2 DEF Inv, TablesTogether, TablesAreOneBuild
  <1>5. ASSUME NEW q \in Readers PROVE Forward(q)' /\ Quiet(q)'
    <2>1. CASE q = r
      BY <2>1, ReaderGoesForward DEF Inv
    <2>2. CASE q # r
      <3>1. Forward(q) /\ Quiet(q)
        BY DEF Inv
      <3>2. UNCHANGED <<step[q], ok[q], meta[q], got[q], last[q], loaded[q], floor[q], quiet[q]>>
        BY <1>2, <2>2
      <3> QED BY <1>2, <3>1, <3>2 DEF Forward, Quiet, Idle
    <2> QED BY <2>1, <2>2
  <1> QED BY <1>1, <1>3, <1>4, <1>5 DEF Inv

LEMMA StartsInInv == SnapshotInit => Inv
  <1> SUFFICES ASSUME SnapshotInit PROVE Inv
    OBVIOUS
  <1>1. None \in Seen /\ None \in [Parts -> Nat] /\ \A p \in Parts : None[p] = 0
    BY DEF None, Seen
  <1>2. SnapshotTypeOK
    BY <1>1, GraphAssumption DEF SnapshotInit, SnapshotTypeOK, Empty, Steps
  <1>3. BuildsInTurn
    BY DEF SnapshotInit, BuildsInTurn
  <1>4. TablesTogether
    BY DEF SnapshotInit, TablesTogether, TablesAreOneBuild, Parts
  <1>5. \A r \in Readers : Forward(r) /\ Quiet(r)
    BY <1>1 DEF SnapshotInit, Forward, Quiet
  <1> QED BY <1>2, <1>3, <1>4, <1>5 DEF Inv

LEMMA InvIsInvariant == SnapshotSpec => []Inv
  <1>1. Inv /\ [SnapshotNext]_snapshotVars => Inv'
    <2> SUFFICES ASSUME Inv, [SnapshotNext]_snapshotVars PROVE Inv'
      OBVIOUS
    <2>1. ASSUME NEW b \in Builders, Build(b) PROVE Inv'
      <3>1. SnapshotTypeOK' /\ BuildsInTurn' /\ TablesTogether'
        <4>1. CASE StartBuild(b) \/ BuildRaises(b)
          BY <4>1, OthersKeepType, OthersInTurn DEF Inv
        <4>2. ASSUME NEW p \in Parts,
                     OpenFile(b, p) \/ FlushFile(b, p) \/ PutObject(b, p) \/ LoadFile(b, p) \/ Begin(b) \/ Fill(b) \/ Commit(b)
              PROVE  SnapshotTypeOK' /\ BuildsInTurn' /\ TablesTogether'
          BY <4>2, CallsKeepType, CallsInTurn DEF Inv
        <4>3. "nodes" \in Parts
          BY DEF Parts
        <4> QED BY <2>1, <4>1, <4>2, <4>3 DEF Build
      <3>2. \A r \in Readers : Forward(r)' /\ Quiet(r)'
        BY <2>1, <3>1, BuildersLeaveReaders DEF Inv
      <3> QED BY <3>1, <3>2 DEF Inv
    <2>2. ASSUME NEW r \in Readers, Read(r) PROVE Inv'
      BY <2>2, ReadersKeepInv
    <2>3. CASE Restart
      BY <2>3, RestartKeepsType, OthersInTurn, RestartLeavesReaders DEF Inv
    <2>4. CASE UNCHANGED snapshotVars
      <3>1. Length' = Length /\ BuildPlan' = BuildPlan /\ Idle' = Idle
        BY <2>4, PlansStay DEF Idle, snapshotVars, builderVars
      <3>2. SnapshotTypeOK'
        BY <2>4 DEF snapshotVars, builderVars, readerVars, Inv, SnapshotTypeOK
      <3>3. BuildsInTurn' /\ TablesTogether'
        BY <2>4, <3>1 DEF snapshotVars, builderVars, readerVars, Inv, BuildsInTurn, Place, Owner, Written, LastIs,
                          TablesTogether, TablesAreOneBuild
      <3>4. \A r \in Readers : Forward(r)' /\ Quiet(r)'
        BY <2>4, <3>1 DEF snapshotVars, builderVars, readerVars, Inv, Forward, Quiet
      <3> QED BY <3>2, <3>3, <3>4 DEF Inv
    <2> QED BY <2>1, <2>2, <2>3, <2>4 DEF SnapshotNext
  <1> QED BY <1>1, StartsInInv, PTL DEF SnapshotSpec

(***************************************************************************)
(* What it gives.                                                          *)
(***************************************************************************)
\* Every variable of the graph's builds and reads keeps its type.
THEOREM GraphTypes == SnapshotSpec => []SnapshotTypeOK
  <1>1. Inv => SnapshotTypeOK
    BY DEF Inv
  <1> QED BY <1>1, InvIsInvariant, PTL

\* Whatever builds overlap it, an operation that got what it asked for answers
\* from parts at least as new as those there were when it began.
THEOREM ReadersAreNeverBehind == SnapshotSpec => []NeverBehind
  <1>1. Inv => NeverBehind
    BY DEF Inv, NeverBehind, Forward
  <1> QED BY <1>1, InvIsInvariant, PTL

\* When builds do not overlap, the tables hold the nodes and edges of one build.
THEOREM TablesStayOneBuild == SnapshotSpec => []TablesAreOneBuild
  <1>1. Inv => TablesAreOneBuild
    BY DEF Inv, TablesTogether, TablesAreOneBuild
  <1> QED BY <1>1, InvIsInvariant, PTL

\* A read in a quiet time gets the last build, whole.
THEOREM QuietReadsAreLast == SnapshotSpec => []QuietReadIsLastBuild
  <1>1. Inv => QuietReadIsLastBuild
    <2> SUFFICES ASSUME Inv, NEW r \in Readers, quiet[r], ok[r], step[r] = "idle"
                 PROVE  Content(loaded[r]) = [p \in Parts |-> completed]
      BY DEF QuietReadIsLastBuild
    <2>1. ~overlap /\ Idle /\ completed = started /\ started > 0
      BY DEF Inv, Quiet
    <2>2. \A p \in Parts : LastIs(p, started)
      BY <2>1 DEF Inv, BuildsInTurn
    <2>3. \A p \in Parts : loaded[r][p] = Len(source[p])
      BY DEF Inv, Quiet
    <2>4. \A p \in Parts : Len(source[p]) # 0
      BY <2>2 DEF LastIs, Inv, SnapshotTypeOK
    <2> QED BY <2>1, <2>2, <2>3, <2>4 DEF Content, LastIs
  <1> QED BY <1>1, InvIsInvariant, PTL

(***************************************************************************)
(* GraphContent: what a built graph is made of.                            *)
(***************************************************************************)
LEMMA LeastNumber ==
  ASSUME NEW T \in SUBSET Nat, T # {}
  PROVE  \E n \in T : \A m \in T : n <= m
<1>1. PICK x \in T : \A y \in T : <<y, x>> \notin OpToRel(<, Nat)
  BY NatLessThanWellFounded, WFMin
<1>2. \A y \in T : ~(y < x)
  BY <1>1 DEF OpToRel
<1> QED
  BY <1>2

\* Whatever is found first of an id is kept.
LEMMA IdsAreKept ==
  ASSUME NEW F, \A p \in F : p.at \in Nat, NEW p \in F
  PROVE  \E n \in DedupedNodes(F) : n.id = p.node.id
<1> DEFINE T == {q.at : q \in {r \in F : r.node.id = p.node.id}}
<1>1. T \in SUBSET Nat /\ T # {}
  OBVIOUS
<1>2. PICK n \in T : \A m \in T : n <= m
  BY <1>1, LeastNumber
<1>3. PICK q \in F : q.node.id = p.node.id /\ q.at = n
  OBVIOUS
<1>4. \A r \in F : r.node.id = q.node.id => q.at <= r.at
  BY <1>2, <1>3
<1> QED
  BY <1>3, <1>4 DEF DedupedNodes

\* The nodes of one control or chunk have ids of their own.
LEMMA ControlNodesDiffer ==
  ASSUME NEW c, NEW m \in NodesOfControl(c),
         NEW n \in NodesOfControl(c), m.id = n.id
  PROVE  m = n
<1>1. \A k \in {part.node : part \in ControlParts(c)} :
         \/ k = Node(<<"framework", c.framework>>, "Framework", c.framework, {})
         \/ k = Node(<<"family", c.framework, c.family>>, "ControlFamily", c.framework, {})
         \/ k = Node(<<"source", c.source>>, "SourceDocument", Missing, {})
  BY DEF ControlParts
<1> QED
  BY <1>1 DEF NodesOfControl, ControlNode, ControlId, Node

LEMMA ChunkNodesDiffer ==
  ASSUME NEW k, NEW o, NEW m \in NodesOfChunk(k, o),
         NEW n \in NodesOfChunk(k, o), m.id = n.id
  PROVE  m = n
<1> DEFINE document == Node(<<"source", k.source>>, "SourceDocument", Missing, {})
<1>1. \A h \in NodesOfChunk(k, o) : h = ChunkNode(k, o) \/ h = document
  BY DEF NodesOfChunk, ChunkParts
<1>2. ChunkNode(k, o).id[1] = "b" /\ document.id[1] = "source"
  BY DEF ChunkNode, ChunkId, Node
<1> QED
  BY <1>1, <1>2

LEMMA FoundNodesAre ==
  ASSUME NEW controls, NEW chunks, NEW p \in FoundNodes(controls, chunks)
  PROVE  \/ \E i \in KeptControls(controls) :
                p.at = i /\ p.node \in NodesOfControl(controls[i])
         \/ \E j \in GuidanceChunks(chunks) :
                /\ p.at = Len(controls) + j
                /\ p.node \in NodesOfChunk(chunks[j], Ordinal(chunks, j))
<1> DEFINE OfControl(i) == {[at |-> i, node |-> n] : n \in NodesOfControl(controls[i])}
           OfChunk(j) == {[at |-> Len(controls) + j, node |-> n] : n \in NodesOfChunk(chunks[j], Ordinal(chunks, j))}
           C == {OfControl(i) : i \in KeptControls(controls)}
           K == {OfChunk(j) : j \in GuidanceChunks(chunks)}
<1>1. p \in (UNION C) \cup (UNION K)
  BY Zenon DEF FoundNodes
<1>2. CASE p \in UNION C
  BY <1>2
<1>3. CASE p \in UNION K
  BY <1>3
<1> HIDE DEF C, K
<1> QED
  BY <1>1, <1>2, <1>3

LEMMA NodesAreFound ==
  ASSUME NEW controls, NEW chunks
  PROVE  /\ \A i \in KeptControls(controls) : \A n \in NodesOfControl(controls[i]) :
                \E p \in FoundNodes(controls, chunks) : p.node = n
         /\ \A j \in GuidanceChunks(chunks) :
                \A n \in NodesOfChunk(chunks[j], Ordinal(chunks, j)) :
                    \E p \in FoundNodes(controls, chunks) : p.node = n
<1> DEFINE OfControl(i) == {[at |-> i, node |-> n] : n \in NodesOfControl(controls[i])}
           OfChunk(j) == {[at |-> Len(controls) + j, node |-> n] : n \in NodesOfChunk(chunks[j], Ordinal(chunks, j))}
           C == {OfControl(i) : i \in KeptControls(controls)}
           K == {OfChunk(j) : j \in GuidanceChunks(chunks)}
<1>1. FoundNodes(controls, chunks) = (UNION C) \cup (UNION K)
  BY Zenon DEF FoundNodes
<1>2. \A i \in KeptControls(controls) : OfControl(i) \in C
  OBVIOUS
<1>3. \A j \in GuidanceChunks(chunks) : OfChunk(j) \in K
  OBVIOUS
<1>4. \A i \in KeptControls(controls) : \A n \in NodesOfControl(controls[i]) : [at |-> i, node |-> n] \in OfControl(i)
  OBVIOUS
<1>5. \A j \in GuidanceChunks(chunks) : \A n \in NodesOfChunk(chunks[j], Ordinal(chunks, j)) :
          [at |-> Len(controls) + j, node |-> n] \in OfChunk(j)
  OBVIOUS
<1> HIDE DEF C, K, OfControl, OfChunk
<1>6. \A i \in KeptControls(controls) : \A n \in NodesOfControl(controls[i]) :
          [at |-> i, node |-> n] \in FoundNodes(controls, chunks)
  BY <1>1, <1>2, <1>4, Zenon
<1>7. \A j \in GuidanceChunks(chunks) : \A n \in NodesOfChunk(chunks[j], Ordinal(chunks, j)) :
          [at |-> Len(controls) + j, node |-> n] \in FoundNodes(controls, chunks)
  BY <1>1, <1>3, <1>5, Zenon
<1> QED
  BY <1>6, <1>7

LEMMA OneNodePerId ==
  ASSUME NEW controls, NEW chunks, Len(controls) \in Nat, DOMAIN controls = 1..Len(controls), DOMAIN chunks \subseteq 1..Len(chunks), Len(chunks) \in Nat,
         NEW m \in DedupedNodes(FoundNodes(controls, chunks)), NEW n \in DedupedNodes(FoundNodes(controls, chunks)), m.id = n.id
  PROVE  m = n
<1>1. PICK p \in FoundNodes(controls, chunks) : p.node = m /\ \A r \in FoundNodes(controls, chunks) : r.node.id = m.id => p.at <= r.at
  BY DEF DedupedNodes
<1>2. PICK q \in FoundNodes(controls, chunks) : q.node = n /\ \A r \in FoundNodes(controls, chunks) : r.node.id = n.id => q.at <= r.at
  BY DEF DedupedNodes
<1>3. p.at <= q.at /\ q.at <= p.at
  BY <1>1, <1>2
<1>4. \A i \in KeptControls(controls) : i \in 1..Len(controls)
  BY DEF KeptControls
<1>5. \A j \in GuidanceChunks(chunks) : j \in Nat \ {0}
  BY DEF GuidanceChunks
<1>6. p.at \in Nat /\ q.at \in Nat
  BY <1>4, <1>5, FoundNodesAre
<1>7. p.at = q.at
  BY <1>3, <1>6
<1>8. CASE p.at \in 1..Len(controls)
  <2>1. \A j \in GuidanceChunks(chunks) : p.at # Len(controls) + j
    BY <1>5, <1>8
  <2>2. m \in NodesOfControl(controls[p.at])
    BY <1>1, <2>1, FoundNodesAre
  <2>3. n \in NodesOfControl(controls[p.at])
    BY <1>2, <1>7, <2>1, FoundNodesAre
  <2> QED
    BY <2>2, <2>3, ControlNodesDiffer
<1>9. CASE p.at \notin 1..Len(controls)
  <2>1. \A i \in KeptControls(controls) : p.at # i
    BY <1>4, <1>9
  <2>2. PICK j \in GuidanceChunks(chunks) :
            /\ p.at = Len(controls) + j
            /\ m \in NodesOfChunk(chunks[j], Ordinal(chunks, j))
    BY <1>1, <2>1, FoundNodesAre
  <2>3. PICK h \in GuidanceChunks(chunks) :
            /\ q.at = Len(controls) + h
            /\ n \in NodesOfChunk(chunks[h], Ordinal(chunks, h))
    BY <1>2, <1>7, <2>1, FoundNodesAre
  <2>4. h = j
    <3>1. j \in Nat /\ h \in Nat /\ Len(controls) + h = Len(controls) + j
      BY <1>5, <1>7, <2>2, <2>3
    <3> QED
      BY <3>1
  <2> QED
    BY <2>2, <2>3, <2>4, ChunkNodesDiffer
<1> QED
  BY <1>8, <1>9

LEMMA EdgeEndsAreFound ==
  ASSUME NEW controls, NEW chunks, NEW e \in StructuralEdges(controls, chunks) \cup InferredEdges(controls, chunks)
  PROVE  \A end \in {e.from, e.to} : \E p \in FoundNodes(controls, chunks) : p.node.id = end
<1>1. CASE \E i \in KeptControls(controls) : \E part \in ControlParts(controls[i]) :
              e = Edge(ControlId(controls[i]), part.type, part.node.id, {}, FullOverlap)
  <2>1. PICK i \in KeptControls(controls) : \E part \in ControlParts(controls[i]) :
              e = Edge(ControlId(controls[i]), part.type, part.node.id, {}, FullOverlap)
    BY <1>1
  <2>2. PICK part \in ControlParts(controls[i]) : e = Edge(ControlId(controls[i]), part.type, part.node.id, {}, FullOverlap)
    BY <2>1
  <2>3. /\ e.from = ControlNode(controls[i]).id /\ e.to = part.node.id
        /\ {ControlNode(controls[i]), part.node} \subseteq NodesOfControl(controls[i])
    BY <2>2 DEF Edge, ControlNode, Node, NodesOfControl
  <2>4. \A n \in NodesOfControl(controls[i]) : \E p \in FoundNodes(controls, chunks) : p.node = n
    BY NodesAreFound
  <2>5. PICK p \in FoundNodes(controls, chunks) : p.node = ControlNode(controls[i])
    BY <2>3, <2>4
  <2>6. PICK r \in FoundNodes(controls, chunks) : r.node = part.node
    BY <2>3, <2>4
  <2> QED
    BY <2>3, <2>5, <2>6
<1>2. CASE \E j \in GuidanceChunks(chunks) : \E part \in ChunkParts(chunks[j]) :
              e = Edge(ChunkId(chunks[j], Ordinal(chunks, j)), part.type, part.node.id, {}, FullOverlap)
  <2>1. PICK j \in GuidanceChunks(chunks) : \E part \in ChunkParts(chunks[j]) :
              e = Edge(ChunkId(chunks[j], Ordinal(chunks, j)), part.type, part.node.id, {}, FullOverlap)
    BY <1>2
  <2>2. PICK part \in ChunkParts(chunks[j]) : e = Edge(ChunkId(chunks[j], Ordinal(chunks, j)), part.type, part.node.id, {}, FullOverlap)
    BY <2>1
  <2>3. /\ e.from = ChunkNode(chunks[j], Ordinal(chunks, j)).id /\ e.to = part.node.id
        /\ {ChunkNode(chunks[j], Ordinal(chunks, j)), part.node} \subseteq NodesOfChunk(chunks[j], Ordinal(chunks, j))
    BY <2>2 DEF Edge, ChunkNode, Node, NodesOfChunk
  <2>4. \A n \in NodesOfChunk(chunks[j], Ordinal(chunks, j)) : \E p \in FoundNodes(controls, chunks) : p.node = n
    BY NodesAreFound
  <2>5. PICK p \in FoundNodes(controls, chunks) : p.node = ChunkNode(chunks[j], Ordinal(chunks, j))
    BY <2>3, <2>4
  <2>6. PICK r \in FoundNodes(controls, chunks) : r.node = part.node
    BY <2>3, <2>4
  <2> QED
    BY <2>3, <2>5, <2>6
<1>3. CASE \E i \in KeptControls(controls), j \in GuidanceChunks(chunks) : e = SupportEdge(controls[i], chunks[j], Ordinal(chunks, j))
  <2>1. PICK i \in KeptControls(controls), j \in GuidanceChunks(chunks) : e = SupportEdge(controls[i], chunks[j], Ordinal(chunks, j))
    BY <1>3
  <2>2. /\ e.from = ChunkNode(chunks[j], Ordinal(chunks, j)).id /\ e.to = ControlNode(controls[i]).id
        /\ ChunkNode(chunks[j], Ordinal(chunks, j)) \in NodesOfChunk(chunks[j], Ordinal(chunks, j))
        /\ ControlNode(controls[i]) \in NodesOfControl(controls[i])
    BY <2>1 DEF SupportEdge, Edge, ChunkNode, ControlNode, Node, NodesOfChunk, NodesOfControl
  <2>3. \A n \in NodesOfControl(controls[i]) : \E p \in FoundNodes(controls, chunks) : p.node = n
    BY NodesAreFound
  <2>4. \A n \in NodesOfChunk(chunks[j], Ordinal(chunks, j)) : \E p \in FoundNodes(controls, chunks) : p.node = n
    BY NodesAreFound
  <2>5. PICK p \in FoundNodes(controls, chunks) : p.node = ChunkNode(chunks[j], Ordinal(chunks, j))
    BY <2>2, <2>4
  <2>6. PICK r \in FoundNodes(controls, chunks) : r.node = ControlNode(controls[i])
    BY <2>2, <2>3
  <2> QED
    BY <2>2, <2>5, <2>6
<1>4. CASE \E q \in PartsOfControls(controls) : e = Edge(ControlId(controls[q[1]]), q[2].type, q[2].node.id, {}, FullOverlap)
  BY <1>1, <1>4 DEF PartsOfControls
<1>5. CASE \E q \in PartsOfChunks(chunks) :
              e = Edge(ChunkId(chunks[q[1]], Ordinal(chunks, q[1])), q[2].type, q[2].node.id, {}, FullOverlap)
  BY <1>2, <1>5 DEF PartsOfChunks
<1>6. CASE e \in InferredEdges(controls, chunks)
  BY <1>3, <1>6 DEF InferredEdges
<1> QED
  BY <1>4, <1>5, <1>6 DEF StructuralEdges

\* An edge is what its fields are, and its confidence is a number.
EdgeShape(e) ==
    /\ e = Edge(e.from, e.type, e.to, e.key, e.confidence)
    /\ e.confidence \in Int

LEMMA EdgesAreEdges ==
  ASSUME NEW controls, NEW chunks, FullOverlap \in Nat,
         \A i \in DOMAIN controls : IsFiniteSet(controls[i].words),
         NEW e \in StructuralEdges(controls, chunks) \cup InferredEdges(controls, chunks)
  PROVE  EdgeShape(e)
<1>0. \A from, type, to, key, confidence : confidence \in Int => EdgeShape(Edge(from, type, to, key, confidence))
  BY DEF EdgeShape, Edge
<1>1. CASE e \in StructuralEdges(controls, chunks)
  <2>1. \E from, type, to : e = Edge(from, type, to, {}, FullOverlap)
    BY <1>1 DEF StructuralEdges
  <2> QED
    BY <1>0, <2>1
<1>2. CASE e \in InferredEdges(controls, chunks)
  <2>1. PICK i \in KeptControls(controls), j \in GuidanceChunks(chunks) : e = SupportEdge(controls[i], chunks[j], Ordinal(chunks, j))
    BY <1>2 DEF InferredEdges
  <2>2. IsFiniteSet(Shared(controls[i], chunks[j]))
    BY FS_Intersection DEF Shared, KeptControls
  <2>3. Confidence(controls[i], chunks[j]) \in Int
    BY <2>2, FS_CardinalityType DEF Confidence
  <2> QED
    BY <1>0, <2>1, <2>3 DEF SupportEdge
<1> QED
  BY <1>1, <1>2

Sound(g) ==
    /\ \A e \in g.edges : \A end \in {e.from, e.to} : \E n \in g.nodes : n.id = end
    /\ \A m, n \in g.nodes : m.id = n.id => m = n
    /\ \A e, f \in g.edges : EdgeId(e) = EdgeId(f) => e = f
    /\ \A e \in g.edges : EdgeShape(e)
    /\ IsFiniteSet(g.nodes) /\ IsFiniteSet(g.edges)

\* What a function makes of a finite set is finite.
LEMMA ImageIsFinite ==
  ASSUME NEW S, IsFiniteSet(S), NEW f, DOMAIN f = S, f = [x \in S |-> f[x]]
  PROVE  IsFiniteSet({f[x] : x \in S})
<1> DEFINE T == {f[x] : x \in S}
<1>1. f \in [S -> T] /\ \A t \in T : \E x \in S : f[x] = t
  OBVIOUS
<1>2. f \in Surjection(S, T)
  BY <1>1 DEF Surjection
<1> QED
  BY <1>2, FS_Surjection

LEMMA PartsAreFinite ==
  ASSUME NEW controls, NEW chunks, IsFiniteSet(DOMAIN controls), IsFiniteSet(DOMAIN chunks)
  PROVE  /\ IsFiniteSet(FoundNodes(controls, chunks))
         /\ IsFiniteSet(StructuralEdges(controls, chunks) \cup InferredEdges(controls, chunks))
<1>1. IsFiniteSet(KeptControls(controls)) /\ IsFiniteSet(GuidanceChunks(chunks))
  BY FS_Subset DEF KeptControls, GuidanceChunks
<1>2. \A c : IsFiniteSet(ControlParts(c))
  <2> SUFFICES ASSUME NEW c PROVE IsFiniteSet(ControlParts(c))
    OBVIOUS
  <2> DEFINE A == [type |-> "BELONGS_TO_FRAMEWORK", node |-> Node(<<"framework", c.framework>>, "Framework", c.framework, {})]
             B == [type |-> "IN_FAMILY", node |-> Node(<<"family", c.framework, c.family>>, "ControlFamily", c.framework, {})]
             C == [type |-> "DERIVED_FROM_SOURCE", node |-> Node(<<"source", c.source>>, "SourceDocument", Missing, {})]
  <2>1. ControlParts(c) \subseteq ({A} \cup {B}) \cup {C}
    BY DEF ControlParts
  <2> HIDE DEF A, B, C
  <2>2. IsFiniteSet({A}) /\ IsFiniteSet({B}) /\ IsFiniteSet({C})
    BY FS_Singleton
  <2>3. IsFiniteSet(({A} \cup {B}) \cup {C})
    BY <2>2, FS_Union
  <2> QED
    BY <2>1, <2>3, FS_Subset
<1>3. \A k : IsFiniteSet(ChunkParts(k))
  BY FS_EmptySet, FS_Singleton DEF ChunkParts
<1>4. IsFiniteSet(PartsOfControls(controls))
  <2> DEFINE Of(i) == {<<i, part>> : part \in ControlParts(controls[i])}
             S == {Of(i) : i \in KeptControls(controls)}
  <2>1. ASSUME NEW i PROVE IsFiniteSet(Of(i))
    <3> DEFINE f == [part \in ControlParts(controls[i]) |-> <<i, part>>]
    <3>1. IsFiniteSet({f[part] : part \in ControlParts(controls[i])})
      BY <1>2, ImageIsFinite
    <3> QED
      BY <3>1
  <2> HIDE DEF Of
  <2>2. IsFiniteSet(S)
    <3> DEFINE f == [i \in KeptControls(controls) |-> Of(i)]
    <3>1. IsFiniteSet({f[i] : i \in KeptControls(controls)})
      BY <1>1, ImageIsFinite
    <3> QED
      BY <3>1
  <2>3. \A T \in S : IsFiniteSet(T)
    BY <2>1
  <2>4. PartsOfControls(controls) = UNION S
    BY Zenon DEF PartsOfControls, S, Of
  <2> HIDE DEF S
  <2> QED
    BY <2>2, <2>3, <2>4, FS_UNION
<1>5. IsFiniteSet(PartsOfChunks(chunks))
  <2> DEFINE Of(j) == {<<j, part>> : part \in ChunkParts(chunks[j])}
             S == {Of(j) : j \in GuidanceChunks(chunks)}
  <2>1. ASSUME NEW j PROVE IsFiniteSet(Of(j))
    <3> DEFINE f == [part \in ChunkParts(chunks[j]) |-> <<j, part>>]
    <3>1. IsFiniteSet({f[part] : part \in ChunkParts(chunks[j])})
      BY <1>3, ImageIsFinite
    <3> QED
      BY <3>1
  <2> HIDE DEF Of
  <2>2. IsFiniteSet(S)
    <3> DEFINE f == [j \in GuidanceChunks(chunks) |-> Of(j)]
    <3>1. IsFiniteSet({f[j] : j \in GuidanceChunks(chunks)})
      BY <1>1, ImageIsFinite
    <3> QED
      BY <3>1
  <2>3. \A T \in S : IsFiniteSet(T)
    BY <2>1
  <2>4. PartsOfChunks(chunks) = UNION S
    BY Zenon DEF PartsOfChunks, S, Of
  <2> HIDE DEF S
  <2> QED
    BY <2>2, <2>3, <2>4, FS_UNION
<1>6. IsFiniteSet(StructuralEdges(controls, chunks))
  <2> DEFINE A == {Edge(ControlId(controls[p[1]]), p[2].type, p[2].node.id, {}, FullOverlap) : p \in PartsOfControls(controls)}
             B == {Edge(ChunkId(chunks[p[1]], Ordinal(chunks, p[1])), p[2].type, p[2].node.id, {}, FullOverlap) :
                      p \in PartsOfChunks(chunks)}
  <2>1. IsFiniteSet(A)
    <3> DEFINE f == [p \in PartsOfControls(controls) |->
                       Edge(ControlId(controls[p[1]]), p[2].type, p[2].node.id, {}, FullOverlap)]
    <3>1. IsFiniteSet({f[p] : p \in PartsOfControls(controls)})
      BY <1>4, ImageIsFinite
    <3> QED
      BY <3>1
  <2>2. IsFiniteSet(B)
    <3> DEFINE f == [p \in PartsOfChunks(chunks) |->
                       Edge(ChunkId(chunks[p[1]], Ordinal(chunks, p[1])), p[2].type, p[2].node.id, {}, FullOverlap)]
    <3>1. IsFiniteSet({f[p] : p \in PartsOfChunks(chunks)})
      BY <1>5, ImageIsFinite
    <3> QED
      BY <3>1
  <2>3. StructuralEdges(controls, chunks) = A \cup B
    BY Zenon DEF StructuralEdges
  <2> HIDE DEF A, B
  <2> QED
    BY <2>1, <2>2, <2>3, FS_Union
<1>7. IsFiniteSet(InferredEdges(controls, chunks))
  <2> DEFINE P == KeptControls(controls) \X GuidanceChunks(chunks)
             All == {SupportEdge(controls[p[1]], chunks[p[2]], Ordinal(chunks, p[2])) : p \in P}
  <2>1. IsFiniteSet(P)
    BY <1>1, FS_Product
  <2> HIDE DEF P
  <2>2. IsFiniteSet(All)
    <3> DEFINE f == [p \in P |-> SupportEdge(controls[p[1]], chunks[p[2]], Ordinal(chunks, p[2]))]
    <3>1. IsFiniteSet({f[p] : p \in P})
      BY <2>1, ImageIsFinite
    <3> QED
      BY <3>1
  <2>3. InferredEdges(controls, chunks) \subseteq All
    BY DEF InferredEdges, P
  <2> HIDE DEF All
  <2> QED
    BY <2>2, <2>3, FS_Subset
<1>8. ASSUME NEW k, NEW parts, IsFiniteSet(parts) PROVE IsFiniteSet({k} \cup {part.node : part \in parts})
  <2> DEFINE f == [part \in parts |-> part.node]
  <2>1. IsFiniteSet({f[part] : part \in parts})
    BY <1>8, ImageIsFinite
  <2>2. IsFiniteSet({part.node : part \in parts})
    BY <2>1
  <2> QED
    BY <2>2, FS_AddElement
<1>9. \A c : IsFiniteSet(NodesOfControl(c))
  BY <1>2, <1>8 DEF NodesOfControl
<1>10. \A k, ordinal : IsFiniteSet(NodesOfChunk(k, ordinal))
  BY <1>3, <1>8 DEF NodesOfChunk
<1>11. IsFiniteSet(FoundNodes(controls, chunks))
  <2> DEFINE OfControl(i) == {[at |-> i, node |-> n] : n \in NodesOfControl(controls[i])}
             OfChunk(j) == {[at |-> Len(controls) + j, node |-> n] : n \in NodesOfChunk(chunks[j], Ordinal(chunks, j))}
             C == {OfControl(i) : i \in KeptControls(controls)}
             K == {OfChunk(j) : j \in GuidanceChunks(chunks)}
  <2>1. FoundNodes(controls, chunks) = (UNION C) \cup (UNION K)
    BY Zenon DEF FoundNodes
  <2>2. ASSUME NEW i PROVE IsFiniteSet(OfControl(i))
    <3> DEFINE f == [n \in NodesOfControl(controls[i]) |-> [at |-> i, node |-> n]]
    <3>1. IsFiniteSet({f[n] : n \in NodesOfControl(controls[i])})
      BY <1>9, ImageIsFinite
    <3> QED
      BY <3>1
  <2>3. ASSUME NEW j PROVE IsFiniteSet(OfChunk(j))
    <3> DEFINE f == [n \in NodesOfChunk(chunks[j], Ordinal(chunks, j)) |-> [at |-> Len(controls) + j, node |-> n]]
    <3>1. IsFiniteSet({f[n] : n \in NodesOfChunk(chunks[j], Ordinal(chunks, j))})
      BY <1>10, ImageIsFinite
    <3> QED
      BY <3>1
  <2> HIDE DEF OfControl, OfChunk
  <2>4. IsFiniteSet(C)
    <3> DEFINE f == [i \in KeptControls(controls) |-> OfControl(i)]
    <3>1. IsFiniteSet({f[i] : i \in KeptControls(controls)})
      BY <1>1, ImageIsFinite
    <3> QED
      BY <3>1
  <2>5. IsFiniteSet(K)
    <3> DEFINE f == [j \in GuidanceChunks(chunks) |-> OfChunk(j)]
    <3>1. IsFiniteSet({f[j] : j \in GuidanceChunks(chunks)})
      BY <1>1, ImageIsFinite
    <3> QED
      BY <3>1
  <2>6. (\A T \in C : IsFiniteSet(T)) /\ (\A T \in K : IsFiniteSet(T))
    BY <2>2, <2>3
  <2> HIDE DEF C, K
  <2>7. IsFiniteSet(UNION C) /\ IsFiniteSet(UNION K)
    BY <2>4, <2>5, <2>6, FS_UNION
  <2> QED
    <3>1. IsFiniteSet((UNION C) \cup (UNION K))
      BY <2>7, FS_Union
    <3> QED
      BY <2>1, <3>1
<1> QED
  BY <1>6, <1>7, <1>11, FS_Union

LEMMA BuiltGraphsAreSound ==
  ASSUME NEW input \in GraphInputs
  PROVE  Sound(Graph(input.controls, input.chunks))
<1> DEFINE controls == input.controls
           chunks == input.chunks
           F == FoundNodes(controls, chunks)
           E == StructuralEdges(controls, chunks) \cup InferredEdges(controls, chunks)
<1>1. controls \in Seq(ToSet(controls)) /\ chunks \in Seq(ToSet(chunks))
  BY QueryAssumption
<1>2. /\ Len(controls) \in Nat /\ DOMAIN controls = 1..Len(controls)
      /\ Len(chunks) \in Nat /\ DOMAIN chunks = 1..Len(chunks)
  BY <1>1
<1>3. \A i \in DOMAIN controls : IsFiniteSet(controls[i].words)
  BY QueryAssumption DEF ToSet
<1>4. IsFiniteSet(DOMAIN controls) /\ IsFiniteSet(DOMAIN chunks)
  BY <1>2, FS_Interval
<1>5. Graph(controls, chunks) = [nodes |-> DedupedNodes(F), edges |-> DedupedEdges(E)]
  BY DEF Graph
<1>6. \A e \in DedupedEdges(E) : e \in E
  BY DEF DedupedEdges
<1>7. \A p \in F : p.at \in Nat
  <2>1. \A i \in KeptControls(controls) : i \in Nat
    BY <1>2 DEF KeptControls
  <2>2. \A j \in GuidanceChunks(chunks) : Len(controls) + j \in Nat
    BY <1>2 DEF GuidanceChunks
  <2> HIDE DEF controls, chunks
  <2> QED
    BY <2>1, <2>2, FoundNodesAre
<1>8. \A e \in DedupedEdges(E) : \A end \in {e.from, e.to} : \E n \in DedupedNodes(F) : n.id = end
  <2> SUFFICES ASSUME NEW e \in DedupedEdges(E), NEW end \in {e.from, e.to}
               PROVE  \E n \in DedupedNodes(F) : n.id = end
    OBVIOUS
  <2>1. PICK p \in F : p.node.id = end
    BY <1>6, EdgeEndsAreFound
  <2> QED
    BY <1>7, <2>1, IdsAreKept
<1>9. \A m, n \in DedupedNodes(F) : m.id = n.id => m = n
  BY <1>2, OneNodePerId
<1>10. \A e \in E : EdgeShape(e)
  BY <1>3, QueryAssumption, EdgesAreEdges
<1>11. \A e, f \in DedupedEdges(E) : EdgeId(e) = EdgeId(f) => e = f
  <2> SUFFICES ASSUME NEW e \in DedupedEdges(E), NEW f \in DedupedEdges(E), EdgeId(e) = EdgeId(f)
               PROVE  e = f
    OBVIOUS
  <2>1. EdgeShape(e) /\ EdgeShape(f)
    BY <1>6, <1>10
  <2>2. f.confidence <= e.confidence /\ e.confidence <= f.confidence
    BY DEF DedupedEdges
  <2>3. e.confidence = f.confidence
    BY <2>1, <2>2 DEF EdgeShape
  <2>4. e.from = f.from /\ e.type = f.type /\ e.to = f.to /\ e.key = f.key
    BY DEF EdgeId
  <2> QED
    BY <2>1, <2>3, <2>4, Zenon DEF EdgeShape
<1>12. IsFiniteSet(DedupedEdges(E))
  <2>1. IsFiniteSet(E)
    BY <1>4, PartsAreFinite
  <2> QED
    BY <1>6, <2>1, FS_Subset
<1>14. IsFiniteSet(DedupedNodes(F))
  <2>1. IsFiniteSet(F)
    BY <1>4, PartsAreFinite
  <2> DEFINE f == [p \in F |-> p.node]
  <2>2. IsFiniteSet({f[p] : p \in F})
    BY <2>1, ImageIsFinite
  <2>3. DedupedNodes(F) \subseteq {f[p] : p \in F}
    BY DEF DedupedNodes
  <2> QED
    BY <2>2, <2>3, FS_Subset
<1> HIDE DEF F, E, controls, chunks
<1>13. Sound([nodes |-> DedupedNodes(F), edges |-> DedupedEdges(E)])
  BY <1>6, <1>8, <1>9, <1>10, <1>11, <1>12, <1>14 DEF Sound
<1> QED
  BY <1>5, <1>13 DEF controls, chunks
(***************************************************************************)
(* GraphQuery: the graph is not changed by a question.                     *)
(***************************************************************************)
LEMMA InitialGraph ==
  ASSUME QueryInit
  PROVE  Sound(graph)
BY BuiltGraphsAreSound DEF QueryInit, QueryInitWith

LEMMA GraphIsFixed ==
  ASSUME [QueryNext]_queryVars
  PROVE  graph' = graph /\ request' = request /\ seed' = seed
BY DEF QueryNext, queryVars, StartSubgraph, Expand, StopFull, Related, Expanded, Export, Query, List, Filter, Answer,
       StartCommunity, LabelNext, ShowCommunities

LEMMA SoundIsEdgesHaveNodes ==
  ASSUME Sound(graph)
  PROVE  EdgesHaveNodes
BY DEF Sound, EdgesHaveNodes, NodeIds

LEMMA GraphStaysSound == QuerySpec => []Sound(graph)
<1>1. QueryInit => Sound(graph)
  BY InitialGraph
<1>2. Sound(graph) /\ [QueryNext]_queryVars => Sound(graph)'
  BY GraphIsFixed
<1> QED
  BY <1>1, <1>2, PTL DEF QuerySpec

\* Every edge of a graph the build returns joins two nodes of it, and an id
\* stands for one node and one edge (graph_foundation.py, graph_artifacts.py).
THEOREM EdgesKeepTheirNodes == QuerySpec => []EdgesHaveNodes
<1>1. Sound(graph) => EdgesHaveNodes
  BY SoundIsEdgesHaveNodes
<1> QED
  BY <1>1, GraphStaysSound, PTL

(***************************************************************************)
(* What Taken takes.                                                       *)
(***************************************************************************)
LEMMA NatInd ==
  ASSUME NEW T \in SUBSET Nat, 0 \in T, \A n \in T : n + 1 \in T
  PROVE  T = Nat
<1> SUFFICES ASSUME Nat \ T # {} PROVE FALSE
  OBVIOUS
<1>1. PICK n \in Nat \ T : \A m \in Nat \ T : n <= m
  BY LeastNumber
<1>2. n # 0 /\ n - 1 \in Nat
  BY <1>1
<1>3. n - 1 \in T
  BY <1>1, <1>2
<1> QED
  BY <1>1, <1>2, <1>3

\* There is a function on an interval that starts as said and goes on as said.
Recurs(g, base, G, max) == g[0] = base /\ \A n \in 1..max : g[n] = G[g[n - 1]]

LEMMA RecursionExists ==
  ASSUME NEW D, NEW base \in D, NEW G \in [D -> D], NEW max \in Nat
  PROVE  \E g \in [0..max -> D] : Recurs(g, base, G, max)
<1> DEFINE Upto(k, f) == f[0] = base /\ \A n \in 1..k : f[n] = G[f[n - 1]]
           T == {k \in Nat : \E f \in [0..k -> D] : Upto(k, f)}
<1>1. 0 \in T
  <2> DEFINE f == [n \in 0..0 |-> base]
  <2>1. f \in [0..0 -> D] /\ Upto(0, f)
    OBVIOUS
  <2> QED
    BY <2>1
<1>2. \A k \in T : k + 1 \in T
  <2> SUFFICES ASSUME NEW k \in T PROVE k + 1 \in T
    OBVIOUS
  <2>1. PICK f \in [0..k -> D] : Upto(k, f)
    OBVIOUS
  <2> DEFINE h == [n \in 0..(k + 1) |-> IF n <= k THEN f[n] ELSE G[f[k]]]
  <2>2. k \in Nat
    OBVIOUS
  <2>3. h \in [0..(k + 1) -> D]
    BY <2>2
  <2>4. h[0] = base
    BY <2>1, <2>2
  <2>5. ASSUME NEW n \in 1..(k + 1) PROVE h[n] = G[h[n - 1]]
    <3>1. CASE n <= k
      <4>1. n \in 1..k /\ n \in 0..(k + 1) /\ n - 1 \in 0..(k + 1) /\ n - 1 <= k
        BY <2>2, <3>1
      <4>2. h[n] = f[n] /\ h[n - 1] = f[n - 1]
        BY <3>1, <4>1
      <4> QED
        BY <2>1, <4>1, <4>2
    <3>2. CASE ~(n <= k)
      <4>1. n = k + 1 /\ n - 1 = k /\ k \in 0..(k + 1) /\ n \in 0..(k + 1)
        BY <2>2, <3>2
      <4>2. h[n] = G[f[k]] /\ h[k] = f[k]
        BY <2>2, <3>2, <4>1
      <4> QED
        BY <4>1, <4>2
    <3> QED
      BY <3>1, <3>2
  <2> HIDE DEF h
  <2>6. Upto(k + 1, h)
    BY <2>4, <2>5
  <2> QED
    BY <2>2, <2>3, <2>6
<1>3. T = Nat
  <2> HIDE DEF T
  <2>1. T \in SUBSET Nat
    BY DEF T
  <2> QED
    BY <1>1, <1>2, <2>1, NatInd
<1> QED
  BY <1>3 DEF Recurs

LEMMA HeaviestExists ==
  ASSUME NEW S, IsFiniteSet(S), S # {}, NEW weight, \A x \in S : weight[x] \in Int
  PROVE  \E x \in S : \A y \in S : weight[y] <= weight[x]
<1> DEFINE HasHeaviest(R) == \E x \in R : \A y \in R : weight[y] <= weight[x]
           T == {k \in Nat : \A R \in SUBSET S : Cardinality(R) = k + 1 => HasHeaviest(R)}
<1>1. 0 \in T
  <2> SUFFICES ASSUME NEW R \in SUBSET S, Cardinality(R) = 1 PROVE HasHeaviest(R)
    OBVIOUS
  <2>1. IsFiniteSet(R)
    BY FS_Subset
  <2>2. PICK x : R = {x}
    BY <2>1, FS_Singleton
  <2> QED
    BY <2>2
<1>2. \A k \in T : k + 1 \in T
  <2> SUFFICES ASSUME NEW k \in T, NEW R \in SUBSET S, Cardinality(R) = (k + 1) + 1 PROVE HasHeaviest(R)
    OBVIOUS
  <2>1. k \in Nat /\ IsFiniteSet(R)
    BY FS_Subset
  <2>2. R # {}
    BY <2>1, FS_EmptySet
  <2>3. PICK x \in R : TRUE
    BY <2>2
  <2>4. R \ {x} \in SUBSET S /\ Cardinality(R \ {x}) = k + 1
    <3>1. Cardinality(R \ {x}) = Cardinality(R) - 1
      BY <2>1, <2>3, FS_RemoveElement
    <3> QED
      BY <2>1, <3>1
  <2>5. HasHeaviest(R \ {x})
    BY <2>4
  <2>6. PICK h \in R \ {x} : \A y \in R \ {x} : weight[y] <= weight[h]
    BY <2>5
  <2>7. \A y \in R : weight[y] \in Int
    OBVIOUS
  <2>8. CASE weight[x] <= weight[h]
    <3>1. \A y \in R : weight[y] <= weight[h]
      BY <2>6, <2>8
    <3> QED
      BY <3>1
  <2>9. CASE ~(weight[x] <= weight[h])
    <3>1. \A y \in R : weight[y] <= weight[x]
      BY <2>3, <2>6, <2>7, <2>9
    <3> QED
      BY <2>3, <3>1
  <2> QED
    BY <2>8, <2>9
<1>3. T = Nat
  <2>1. T \in SUBSET Nat
    OBVIOUS
  <2> HIDE DEF T
  <2> QED
    BY <1>1, <1>2, <2>1, NatInd
<1>4. Cardinality(S) \in Nat \ {0}
  BY FS_CardinalityType, FS_EmptySet
<1>5. Cardinality(S) - 1 \in T
  BY <1>3, <1>4
<1>6. Cardinality(S) = (Cardinality(S) - 1) + 1
  BY <1>4
<1> HIDE DEF HasHeaviest
<1>7. HasHeaviest(S)
  BY <1>5, <1>6
<1> QED
  BY <1>7 DEF HasHeaviest

\* Taken takes at most max elements of a finite set, and all of it unless it
\* takes that many.
LEMMA TakenIs ==
  ASSUME NEW S, IsFiniteSet(S), NEW max \in Nat, NEW weight, \A x \in S : weight[x] \in Int
  PROVE  /\ Taken(S, max, weight) \subseteq S
         /\ Cardinality(Taken(S, max, weight)) <= max
         /\ Cardinality(Taken(S, max, weight)) < max => Taken(S, max, weight) = S
<1> DEFINE Heaviest(R) == CHOOSE x \in R : \A y \in R : weight[y] <= weight[x]
           D == SUBSET S
           G == [B \in D |-> IF S \ B = {} THEN B ELSE B \cup {Heaviest(S \ B)}]
<1>1. \A R \in SUBSET S : R # {} => Heaviest(R) \in R
  <2> SUFFICES ASSUME NEW R \in SUBSET S, R # {} PROVE Heaviest(R) \in R
    OBVIOUS
  <2>1. IsFiniteSet(R) /\ \A x \in R : weight[x] \in Int
    BY FS_Subset
  <2>2. \E x \in R : \A y \in R : weight[y] <= weight[x]
    BY <2>1, HeaviestExists
  <2> QED
    BY <2>2
<1> HIDE DEF Heaviest
<1>2. \A B \in D : /\ S \ B = {} => G[B] = B
                   /\ S \ B # {} => G[B] = B \cup {Heaviest(S \ B)} /\ Heaviest(S \ B) \in S \ B
  BY <1>1
<1>3. G \in [D -> D] /\ {} \in D
  BY <1>1
<1> DEFINE Step(B) == LET rest == S \ B IN IF rest = {} THEN B ELSE B \cup {Heaviest(rest)}
           Chosen == CHOOSE f : f = [n \in 0..max |-> IF n = 0 THEN {} ELSE Step(f[n - 1])]
<1>4. Taken(S, max, weight) = Chosen[max]
  BY Zenon DEF Taken, Heaviest
<1>5. \A B \in D : Step(B) = G[B]
  OBVIOUS
<1> HIDE DEF Step, G
<1>6. \E f : f = [n \in 0..max |-> IF n = 0 THEN {} ELSE Step(f[n - 1])]
  <2>1. PICK taken \in [0..max -> D] : taken[0] = {} /\ \A n \in 1..max : taken[n] = G[taken[n - 1]]
    <3> HIDE DEF D
    <3>1. \E g \in [0..max -> D] : Recurs(g, {}, G, max)
      BY <1>3, RecursionExists
    <3> QED
      BY <3>1 DEF Recurs
  <2>2. \A n \in 0..max : taken[n] = IF n = 0 THEN {} ELSE Step(taken[n - 1])
    <3> SUFFICES ASSUME NEW n \in 0..max, n # 0 PROVE taken[n] = Step(taken[n - 1])
      BY <2>1
    <3>1. n \in 1..max /\ n - 1 \in 0..max
      OBVIOUS
    <3> QED
      BY <1>5, <2>1, <3>1
  <2>3. taken = [n \in 0..max |-> IF n = 0 THEN {} ELSE Step(taken[n - 1])]
    BY <2>1, <2>2
  <2> QED
    BY <2>3
<1>7. Chosen = [n \in 0..max |-> IF n = 0 THEN {} ELSE Step(Chosen[n - 1])]
  BY <1>6
<1> HIDE DEF Chosen, D
<1> DEFINE Good(n) == /\ Chosen[n] \in D
                      /\ Cardinality(Chosen[n]) <= n
                      /\ Cardinality(Chosen[n]) < n => Chosen[n] = S
           U == {n \in Nat : n <= max => Good(n)}
<1>8. 0 \in U
  <2>1. Chosen[0] = {}
    BY <1>7
  <2> QED
    BY <1>3, <2>1, FS_EmptySet
<1>9. \A n \in U : n + 1 \in U
  <2> SUFFICES ASSUME NEW n \in U, n + 1 <= max PROVE Good(n + 1)
    OBVIOUS
  <2>1. n \in Nat /\ n + 1 \in 0..max /\ n + 1 # 0 /\ (n + 1) - 1 = n /\ Good(n)
    OBVIOUS
  <2> DEFINE B == Chosen[n]
  <2>2. Chosen[n + 1] = G[B] /\ B \in D /\ Cardinality(B) <= n /\ (Cardinality(B) < n => B = S)
    BY <1>5, <1>7, <2>1
  <2> HIDE DEF B
  <2>3. IsFiniteSet(B) /\ Cardinality(B) \in Nat
    BY <2>2, FS_Subset, FS_CardinalityType DEF D
  <2>4. CASE S \ B = {}
    <3>1. Chosen[n + 1] = B /\ B = S
      BY <1>2, <2>2, <2>4 DEF D
    <3> QED
      BY <2>1, <2>2, <2>3, <3>1
  <2>5. CASE S \ B # {}
    <3>1. Chosen[n + 1] = B \cup {Heaviest(S \ B)} /\ Heaviest(S \ B) \in S \ B
      BY <1>2, <2>2, <2>5
    <3>2. Cardinality(B) = n
      BY <2>1, <2>2, <2>3, <2>5
    <3>3. Cardinality(Chosen[n + 1]) = n + 1
      BY <2>3, <3>1, <3>2, FS_AddElement
    <3>4. Chosen[n + 1] \in D
      BY <2>2, <3>1 DEF D
    <3> QED
      BY <2>1, <3>3, <3>4
  <2> QED
    BY <2>4, <2>5
<1>10. U = Nat
  <2>1. U \in SUBSET Nat
    OBVIOUS
  <2> HIDE DEF U
  <2> QED
    BY <1>8, <1>9, <2>1, NatInd
<1>11. Good(max)
  BY <1>10
<1> QED
  BY <1>4, <1>11 DEF D

LEMMA StrongestIs ==
  ASSUME Sound(graph), NEW edges \in SUBSET graph.edges, NEW max \in Nat
  PROVE  /\ Strongest(edges, max) \subseteq edges
         /\ Cardinality(Strongest(edges, max)) <= max
         /\ Cardinality(Strongest(edges, max)) < max => Strongest(edges, max) = edges
<1> DEFINE weight == [e \in edges |-> e.confidence]
<1>1. IsFiniteSet(edges)
  BY FS_Subset DEF Sound
<1>2. \A e \in edges : weight[e] \in Int
  BY DEF Sound, EdgeShape
<1> HIDE DEF weight
<1>3. /\ Taken(edges, max, weight) \subseteq edges
      /\ Cardinality(Taken(edges, max, weight)) <= max
      /\ Cardinality(Taken(edges, max, weight)) < max => Taken(edges, max, weight) = edges
  BY <1>1, <1>2, TakenIs
<1> QED
  BY <1>3, Zenon DEF Strongest, weight

(***************************************************************************)
(* The subgraphs: what is collected has the ends of its edges, and never   *)
(* more edges than the budget.                                             *)
(***************************************************************************)
EndsIn(edges, ids) == \A e \in edges : e.from \in ids /\ e.to \in ids

SubgraphInv ==
    /\ request \in Requests
    /\ seen.edges \subseteq graph.edges
    /\ merged.edges \subseteq graph.edges
    /\ \A p \in frontier : p[1] \in seen.nodes /\ p[2] \in Nat
    /\ EndsIn(seen.edges, seen.nodes)
    /\ EndsIn(merged.edges, {n.id : n \in merged.nodes})
    /\ request.kind = "expand" => Cardinality(merged.edges) <= request.maxEdges
    /\ frontier # {} => Cardinality(seen.edges) <= Budget

LEMMA SubgraphInit ==
  ASSUME QueryInit
  PROVE  SubgraphInv
<1>1. Cardinality({}) = 0
  BY FS_EmptySet
<1>2. request \in Requests /\ seen = Nothing /\ frontier = {} /\ merged = Nothing
  BY DEF QueryInit, QueryInitWith
<1> QED
  BY <1>1, <1>2, QueryAssumption DEF SubgraphInv, Nothing, EndsIn

LEMMA BudgetIsNumber ==
  ASSUME Sound(graph), SubgraphInv
  PROVE  /\ Budget \in Nat /\ request.maxEdges \in Nat /\ request.depth \in Nat
         /\ IsFiniteSet(seen.edges) /\ Cardinality(seen.edges) \in Nat
         /\ IsFiniteSet(merged.edges) /\ Cardinality(merged.edges) \in Nat
<1>1. IsFiniteSet(seen.edges) /\ IsFiniteSet(merged.edges)
  BY FS_Subset DEF Sound, SubgraphInv
<1>2. Cardinality(seen.edges) \in Nat /\ Cardinality(merged.edges) \in Nat
  BY <1>1, FS_CardinalityType
<1>3. request.maxEdges \in Nat /\ request.depth \in Nat
  BY QueryAssumption DEF SubgraphInv
<1> QED
  BY <1>1, <1>2, <1>3 DEF SubgraphInv, Budget

LEMMA OldestIs ==
  ASSUME frontier # {}, \A p \in frontier : p[2] \in Nat
  PROVE  Oldest \in frontier /\ \A q \in frontier : Oldest[2] <= q[2]
<1> DEFINE T == {p[2] : p \in frontier}
<1>1. T \in SUBSET Nat /\ T # {}
  OBVIOUS
<1>2. PICK d \in T : \A m \in T : d <= m
  BY <1>1, LeastNumber
<1>3. PICK p \in frontier : p[2] = d
  OBVIOUS
<1>4. p \in {r \in frontier : \A q \in frontier : r[2] <= q[2]}
  BY <1>2, <1>3
<1> QED
  BY <1>4 DEF Oldest, FirstOf

\* Collecting a subgraph that kept its budget keeps the limit.
LEMMA CollectKeepsLimit ==
  ASSUME Sound(graph), SubgraphInv, NEW found, Collect(found), found.edges \subseteq graph.edges,
         EndsIn(found.edges, found.nodes), Cardinality(found.edges) <= Budget
  PROVE  /\ merged'.edges \subseteq graph.edges
         /\ EndsIn(merged'.edges, {n.id : n \in merged'.nodes})
         /\ request.kind = "expand" => Cardinality(merged'.edges) <= request.maxEdges
<1>1. /\ merged'.nodes = merged.nodes \cup {n \in graph.nodes : n.id \in found.nodes}
      /\ merged'.edges = merged.edges \cup found.edges
  BY DEF Collect
<1>2. merged'.edges \subseteq graph.edges
  BY <1>1 DEF SubgraphInv
<1>3. EndsIn(merged'.edges, {n.id : n \in merged'.nodes})
  <2> SUFFICES ASSUME NEW e \in merged'.edges, NEW end \in {e.from, e.to}
               PROVE  \E n \in merged'.nodes : n.id = end
    BY DEF EndsIn
  <2>1. CASE e \in merged.edges
    BY <1>1, <2>1 DEF SubgraphInv, EndsIn
  <2>2. CASE e \in found.edges
    <3>1. end \in found.nodes
      BY <2>2 DEF EndsIn
    <3>2. PICK n \in graph.nodes : n.id = end
      BY <2>2 DEF Sound
    <3> QED
      BY <1>1, <3>1, <3>2
  <2> QED
    BY <1>1, <2>1, <2>2
<1>4. ASSUME request.kind = "expand" PROVE Cardinality(merged'.edges) <= request.maxEdges
  <2>1. IsFiniteSet(found.edges) /\ IsFiniteSet(merged.edges)
    BY BudgetIsNumber, FS_Subset DEF Sound
  <2>2. IsFiniteSet(merged.edges \cap found.edges)
    BY <2>1, FS_Intersection
  <2>3. Cardinality(merged'.edges)
            = Cardinality(merged.edges) + Cardinality(found.edges) - Cardinality(merged.edges \cap found.edges)
    BY <1>1, <2>1, FS_Union
  <2>4. /\ Cardinality(found.edges) \in Nat /\ Cardinality(merged.edges) \in Nat
        /\ Cardinality(merged.edges \cap found.edges) \in Nat
    BY <2>1, <2>2, FS_CardinalityType
  <2>5. Budget = request.maxEdges - Cardinality(merged.edges) /\ request.maxEdges \in Nat
    BY <1>4, BudgetIsNumber DEF Budget
  <2> QED
    BY <2>3, <2>4, <2>5
<1> QED
  BY <1>2, <1>3, <1>4

LEMMA ExpandSees ==
  ASSUME Sound(graph), SubgraphInv, Expand
  PROVE  /\ seen'.edges \subseteq graph.edges
         /\ EndsIn(seen'.edges, seen'.nodes)
         /\ Cardinality(seen'.edges) <= Budget
         /\ \A p \in frontier' : p[1] \in seen'.nodes /\ p[2] \in Nat
<1> DEFINE n == Oldest[1]
           d == Oldest[2]
           near == Neighbours(n, Budget)
           new == Strongest(near \ seen.edges, Budget - Cardinality(seen.edges))
           found == {Other(e, n) : e \in new} \ seen.nodes
<1>1. /\ frontier # {} /\ ~Full
      /\ IF d >= request.depth
         THEN seen' = seen /\ frontier' = frontier \ {Oldest}
         ELSE /\ seen' = [nodes |-> seen.nodes \cup found, edges |-> seen.edges \cup new]
              /\ frontier' = (frontier \ {Oldest}) \cup {<<f, d + 1>> : f \in found}
  BY DEF Expand
<1>2. /\ Budget \in Nat /\ Cardinality(seen.edges) \in Nat /\ IsFiniteSet(seen.edges)
      /\ Budget - Cardinality(seen.edges) \in Nat
  BY <1>1, BudgetIsNumber DEF SubgraphInv
<1>3. Oldest \in frontier /\ n \in seen.nodes /\ d \in Nat
  BY <1>1, OldestIs DEF SubgraphInv
<1>4. near \subseteq Incident(n) /\ Incident(n) \subseteq graph.edges
  <2>1. Incident(n) \in SUBSET graph.edges
    BY DEF Incident
  <2> QED
    BY <1>2, <2>1, StrongestIs DEF Neighbours
<1>5. new \subseteq near \ seen.edges /\ Cardinality(new) <= Budget - Cardinality(seen.edges)
  <2>1. near \ seen.edges \in SUBSET graph.edges
    BY <1>4
  <2> HIDE DEF near
  <2> QED
    BY <1>2, <2>1, StrongestIs
<1>6. IsFiniteSet(new) /\ Cardinality(new) \in Nat
  BY <1>4, <1>5, FS_Subset, FS_CardinalityType DEF Sound
<1>7. \A e \in new : e \in graph.edges /\ e.from \in {n, Other(e, n)} /\ e.to \in {n, Other(e, n)}
  BY <1>4, <1>5 DEF Incident, Other
<1> HIDE DEF new, near, n, d
<1>8. CASE d >= request.depth
  BY <1>1, <1>8 DEF SubgraphInv
<1>9. CASE ~(d >= request.depth)
  <2>1. /\ seen'.nodes = seen.nodes \cup found /\ seen'.edges = seen.edges \cup new
        /\ frontier' = (frontier \ {Oldest}) \cup {<<f, d + 1>> : f \in found}
    BY <1>1, <1>9
  <2>2. Cardinality(seen'.edges) <= Budget
    <3>1. Cardinality(seen'.edges) = Cardinality(seen.edges) + Cardinality(new) - Cardinality(seen.edges \cap new)
      BY <1>2, <1>6, <2>1, FS_Union
    <3>2. Cardinality(seen.edges \cap new) \in Nat
      BY <1>2, FS_Intersection, FS_CardinalityType
    <3> QED
      BY <1>2, <1>5, <1>6, <3>1, <3>2
  <2>3. EndsIn(seen'.edges, seen'.nodes)
    BY <1>3, <1>7, <2>1 DEF SubgraphInv, EndsIn
  <2>4. \A p \in frontier' : p[1] \in seen'.nodes /\ p[2] \in Nat
    BY <1>3, <2>1 DEF SubgraphInv
  <2>5. seen'.edges \subseteq graph.edges
    BY <1>7, <2>1 DEF SubgraphInv
  <2> QED
    BY <2>2, <2>3, <2>4, <2>5
<1> QED
  BY <1>8, <1>9

LEMMA SubgraphStep ==
  ASSUME Sound(graph), SubgraphInv, [QueryNext]_queryVars
  PROVE  SubgraphInv'
<1>1. graph' = graph /\ request' = request
  BY GraphIsFixed
<1>2. ASSUME NEW s \in seeds, StartSubgraph(s) PROVE SubgraphInv'
  <2>1. seen' = [nodes |-> {s}, edges |-> {}] /\ frontier' = {<<s, 0>>} /\ merged' = merged
    BY <1>2 DEF StartSubgraph
  <2>2. Cardinality(seen'.edges) = 0 /\ seen'.edges = {} /\ s \in seen'.nodes
    BY <2>1, FS_EmptySet
  <2>3. Budget' = Budget /\ Budget \in Nat
    BY <1>1, <2>1, BudgetIsNumber DEF Budget
  <2> QED
    BY <1>1, <2>1, <2>2, <2>3 DEF SubgraphInv, EndsIn
<1>3. CASE Expand
  <2>1. /\ seen'.edges \subseteq graph.edges
        /\ EndsIn(seen'.edges, seen'.nodes)
        /\ Cardinality(seen'.edges) <= Budget
        /\ \A p \in frontier' : p[1] \in seen'.nodes /\ p[2] \in Nat
    BY <1>3, ExpandSees
  <2>2. CASE frontier' = {}
    <3>1. Collect(seen')
      BY <1>3, <2>2 DEF Expand
    <3>2. /\ merged'.edges \subseteq graph.edges
          /\ EndsIn(merged'.edges, {n.id : n \in merged'.nodes})
          /\ request.kind = "expand" => Cardinality(merged'.edges) <= request.maxEdges
      BY <2>1, <3>1, CollectKeepsLimit
    <3> QED
      BY <1>1, <2>1, <2>2, <3>2 DEF SubgraphInv, EndsIn
  <2>3. CASE frontier' # {}
    <3>1. merged' = merged
      BY <1>3, <2>3 DEF Expand
    <3>2. Budget' = Budget
      BY <1>1, <3>1 DEF Budget
    <3> QED
      BY <1>1, <2>1, <3>1, <3>2 DEF SubgraphInv, EndsIn
  <2> QED
    BY <2>2, <2>3
<1>4. CASE StopFull
  <2>1. Collect(seen) /\ frontier' = {} /\ seen' = seen /\ frontier # {}
    BY <1>4 DEF StopFull
  <2>2. /\ merged'.edges \subseteq graph.edges
        /\ EndsIn(merged'.edges, {n.id : n \in merged'.nodes})
        /\ request.kind = "expand" => Cardinality(merged'.edges) <= request.maxEdges
    BY <2>1, CollectKeepsLimit DEF SubgraphInv
  <2> QED
    BY <1>1, <2>1, <2>2 DEF SubgraphInv, EndsIn
<1>5. CASE UNCHANGED <<seen, frontier, merged>>
  BY <1>1, <1>5 DEF SubgraphInv, EndsIn, Budget
<1>6. CASE Related \/ Expanded \/ Export \/ Query \/ List \/ StartCommunity \/ LabelNext \/ ShowCommunities \/ UNCHANGED queryVars
  BY <1>5, <1>6 DEF Related, Expanded, Export, Query, List, Filter, Answer, StartCommunity, LabelNext, ShowCommunities, queryVars
<1> QED
  BY <1>2, <1>3, <1>4, <1>6 DEF QueryNext

LEMMA SubgraphIsInvariant == QuerySpec => []SubgraphInv
<1>1. QueryInit => SubgraphInv
  BY SubgraphInit
<1>2. Sound(graph) /\ SubgraphInv /\ [QueryNext]_queryVars => SubgraphInv'
  BY SubgraphStep
<1> QED
  BY <1>1, <1>2, GraphStaysSound, PTL DEF QuerySpec

\* Over all its seeds an expansion takes no more edges than the request allows,
\* and with an edge both its nodes (rag_pipeline.py, graph_store.py).
THEOREM ExpansionStaysWithinLimit == QuerySpec => []ExpansionWithinLimit
<1>1. SubgraphInv => ExpansionWithinLimit
  BY DEF SubgraphInv, ExpansionWithinLimit, EndsIn
<1> QED
  BY <1>1, SubgraphIsInvariant, PTL

(***************************************************************************)
(* How far a node is away.                                                 *)
(***************************************************************************)
With(B) == B \cup UNION {{Other(e, n) : e \in Incident(n)} : n \in B}

LEMMA RecursionsAgree ==
  ASSUME NEW base, NEW G, NEW k \in Nat, NEW m \in Nat, k <= m,
         NEW f, Recurs(f, base, G, k), NEW g, Recurs(g, base, G, m)
  PROVE  f[k] = g[k]
<1> DEFINE T == {n \in Nat : n <= k => f[n] = g[n]}
<1>1. 0 \in T
  BY DEF Recurs
<1>2. \A n \in T : n + 1 \in T
  <2> SUFFICES ASSUME NEW n \in T, n + 1 <= k PROVE f[n + 1] = g[n + 1]
    OBVIOUS
  <2>1. n \in Nat /\ n + 1 \in 1..k /\ n + 1 \in 1..m /\ (n + 1) - 1 = n /\ f[n] = g[n]
    OBVIOUS
  <2>2. f[n + 1] = G[f[n]] /\ g[n + 1] = G[g[n]]
    BY <2>1 DEF Recurs
  <2> QED
    BY <2>1, <2>2
<1>3. T \in SUBSET Nat
  OBVIOUS
<1> HIDE DEF T
<1>4. T = Nat
  BY <1>1, <1>2, <1>3, NatInd
<1> QED
  BY <1>4 DEF T

\* The ends of edges, and the steps of With among them.
Ends == {seed} \cup {e.from : e \in graph.edges} \cup {e.to : e \in graph.edges}
WithOf == [B \in SUBSET Ends |-> With(B)]

LEMMA WithStays ==
  /\ WithOf \in [SUBSET Ends -> SUBSET Ends]
  /\ {seed} \in SUBSET Ends
  /\ \A B \in SUBSET Ends : WithOf[B] = With(B)
<1>1. ASSUME NEW B \in SUBSET Ends PROVE With(B) \in SUBSET Ends
  <2> SUFFICES ASSUME NEW x \in With(B) PROVE x \in Ends
    OBVIOUS
  <2>1. CASE x \in B
    BY <2>1
  <2>2. CASE x \notin B
    <3>1. PICK n \in B : x \in {Other(e, n) : e \in Incident(n)}
      BY <2>2 DEF With
    <3>2. PICK e \in Incident(n) : x = Other(e, n)
      BY <3>1
    <3> QED
      BY <3>2 DEF Other, Incident, Ends
  <2> QED
    BY <2>1, <2>2
<1>2. {seed} \in SUBSET Ends
  BY DEF Ends
<1> QED
  BY <1>1, <1>2 DEF WithOf

LEMMA BallIs ==
  ASSUME NEW d \in Nat
  PROVE  \E f \in [0..d -> SUBSET Ends] : Recurs(f, {seed}, WithOf, d) /\ Ball(d) = f[d]
<1> DEFINE Chosen == CHOOSE f : f = [i \in 0..d |-> IF i = 0 THEN {seed} ELSE With(f[i - 1])]
<1>1. Ball(d) = Chosen[d]
  BY Zenon DEF Ball, With
<1>2. PICK f \in [0..d -> SUBSET Ends] : Recurs(f, {seed}, WithOf, d)
  BY WithStays, RecursionExists
<1>3. f = [i \in 0..d |-> IF i = 0 THEN {seed} ELSE With(f[i - 1])]
  <2>1. \A i \in 0..d : f[i] = IF i = 0 THEN {seed} ELSE With(f[i - 1])
    <3> SUFFICES ASSUME NEW i \in 0..d, i # 0 PROVE f[i] = With(f[i - 1])
      BY <1>2 DEF Recurs
    <3>1. i \in 1..d /\ i - 1 \in 0..d
      OBVIOUS
    <3>2. f[i - 1] \in SUBSET Ends
      BY <3>1
    <3> QED
      BY <1>2, <3>1, <3>2, WithStays DEF Recurs
  <2> QED
    BY <2>1
<1>4. \E h : h = [i \in 0..d |-> IF i = 0 THEN {seed} ELSE With(h[i - 1])]
  BY <1>3
<1>5. Chosen = [i \in 0..d |-> IF i = 0 THEN {seed} ELSE With(Chosen[i - 1])]
  BY <1>4
<1> HIDE DEF Chosen
<1> DEFINE T == {n \in Nat : n <= d => Chosen[n] = f[n]}
<1>6. 0 \in T
  BY <1>2, <1>5 DEF Recurs
<1>7. \A n \in T : n + 1 \in T
  <2> SUFFICES ASSUME NEW n \in T, n + 1 <= d PROVE Chosen[n + 1] = f[n + 1]
    OBVIOUS
  <2>1. n \in Nat /\ n + 1 \in 0..d /\ n + 1 # 0 /\ (n + 1) - 1 = n /\ Chosen[n] = f[n]
    OBVIOUS
  <2>2. Chosen[n + 1] = With(Chosen[n]) /\ f[n + 1] = With(f[n])
    BY <1>3, <1>5, <2>1
  <2> QED
    BY <2>1, <2>2
<1>8. T \in SUBSET Nat
  OBVIOUS
<1> HIDE DEF T
<1>9. T = Nat
  BY <1>6, <1>7, <1>8, NatInd
<1>10. Chosen[d] = f[d]
  BY <1>9 DEF T
<1> QED
  BY <1>1, <1>2, <1>10

LEMMA BallSteps ==
  /\ Ball(0) = {seed}
  /\ \A d \in Nat : Ball(d + 1) = With(Ball(d))
<1>1. Ball(0) = {seed}
  BY BallIs DEF Recurs
<1>2. ASSUME NEW d \in Nat PROVE Ball(d + 1) = With(Ball(d))
  <2>1. PICK f \in [0..d -> SUBSET Ends] : Recurs(f, {seed}, WithOf, d) /\ Ball(d) = f[d]
    BY BallIs
  <2>2. d + 1 \in Nat
    OBVIOUS
  <2>3. PICK g \in [0..(d + 1) -> SUBSET Ends] : Recurs(g, {seed}, WithOf, d + 1) /\ Ball(d + 1) = g[d + 1]
    BY <2>2, BallIs
  <2>4. f[d] = g[d]
    <3>1. d <= d + 1
      OBVIOUS
    <3> QED
      BY <2>1, <2>2, <2>3, <3>1, RecursionsAgree
  <2>5. g[d + 1] = WithOf[g[d]] /\ g[d] \in SUBSET Ends
    BY <2>2, <2>3 DEF Recurs
  <2> QED
    BY <2>1, <2>3, <2>4, <2>5, WithStays
<1> QED
  BY <1>1, <1>2

\* What has the seed and all that is linked to what it has contains every ball.
LEMMA BallsAreInside ==
  ASSUME NEW P, seed \in P, With(P) \subseteq P, NEW d \in Nat
  PROVE  Ball(d) \subseteq P
<1> DEFINE T == {n \in Nat : Ball(n) \subseteq P}
<1>1. 0 \in T
  BY BallSteps
<1>2. \A n \in T : n + 1 \in T
  <2> SUFFICES ASSUME NEW n \in T PROVE Ball(n + 1) \subseteq P
    OBVIOUS
  <2>1. Ball(n + 1) = With(Ball(n)) /\ Ball(n) \subseteq P
    BY BallSteps
  <2>2. With(Ball(n)) \subseteq With(P)
    BY <2>1 DEF With
  <2> QED
    BY <2>1, <2>2
<1>3. T \in SUBSET Nat
  OBVIOUS
<1> HIDE DEF T
<1>4. T = Nat
  BY <1>1, <1>2, <1>3, NatInd
<1> QED
  BY <1>4 DEF T

(***************************************************************************)
(* The search of a node's surroundings: level m says that all that is at   *)
(* most m edges away has been seen, and that what is behind it is queued.  *)
(***************************************************************************)
Waiting == {p[1] : p \in frontier}

AtLevel(m) ==
    /\ \A p \in frontier : p[2] \in {m, m + 1} /\ p[2] <= request.depth
    /\ Ball(m) \subseteq seen.nodes
    /\ \A p \in frontier : p[2] = m + 1 => p[1] \notin Ball(m)
    /\ m < request.depth => \A n \in seen.nodes : n \in Waiting \/ Incident(n) \subseteq seen.edges
    /\ m > 0 => \A n \in Ball(m - 1) : Incident(n) \subseteq seen.edges

AllSeen ==
    /\ Ball(request.depth) \subseteq seen.nodes
    /\ \A n \in Ball(request.depth - 1) : Incident(n) \subseteq seen.edges

SearchInv ==
    /\ seeds = {} /\ Cardinality(seen.edges) < Budget =>
          IF frontier = {} THEN AllSeen ELSE \E m \in 0..request.depth : AtLevel(m)
    /\ seeds # {} \/ frontier # {} => merged = Nothing
    /\ Searched => /\ merged.nodes = {n \in graph.nodes : n.id \in seen.nodes}
                   /\ merged.edges = seen.edges
    /\ seeds \subseteq {seed}
    /\ seeds # {} => frontier = {}
    /\ seeds = {} => seed \in seen.nodes

SeededInv == Seeded => SearchInv

LEMMA SearchInit ==
  ASSUME QueryInit
  PROVE  SeededInv
BY DEF QueryInit, QueryInitWith, SeededInv, SearchInv, Seeded, Searched

\* A level is left when everything of it has been looked at.
LEMMA NextLevel ==
  ASSUME SubgraphInv, NEW m \in Nat, m < request.depth, request.depth \in Nat,
         AtLevel(m), \A p \in frontier : p[2] = m + 1
  PROVE  AtLevel(m + 1)
<1>1. \A n \in Ball(m) : n \notin Waiting /\ n \in seen.nodes
  BY DEF AtLevel, Waiting
<1>2. \A n \in Ball(m) : Incident(n) \subseteq seen.edges
  BY <1>1 DEF AtLevel
<1>3. \A n \in Ball(m) : \A e \in Incident(n) : Other(e, n) \in seen.nodes
  BY <1>2 DEF SubgraphInv, EndsIn, Other
<1>4. With(Ball(m)) \subseteq seen.nodes
  BY <1>1, <1>3 DEF With
<1>5. Ball(m + 1) \subseteq seen.nodes
  BY <1>4, BallSteps
<1>6. \A p \in frontier : p[2] = m + 1 /\ p[2] # (m + 1) + 1 /\ p[2] <= request.depth
  BY DEF AtLevel
<1>7. (m + 1) - 1 = m
  OBVIOUS
<1> QED
  BY <1>2, <1>5, <1>6, <1>7 DEF AtLevel

\* The node taken from the queue is of the level.
LEMMA OldestIsOfLevel ==
  ASSUME Sound(graph), SubgraphInv, frontier # {}, \E m \in 0..request.depth : AtLevel(m)
  PROVE  \E m \in 0..request.depth : AtLevel(m) /\ Oldest[2] = m
<1>1. PICK m \in 0..request.depth : AtLevel(m)
  OBVIOUS
<1>2. request.depth \in Nat
  BY BudgetIsNumber
<1>3. Oldest \in frontier /\ \A q \in frontier : Oldest[2] <= q[2]
  BY OldestIs DEF SubgraphInv
<1>4. CASE Oldest[2] = m
  BY <1>1, <1>4
<1>5. CASE Oldest[2] # m
  <2>1. Oldest[2] = m + 1 /\ m + 1 <= request.depth
    BY <1>1, <1>3, <1>5 DEF AtLevel
  <2>2. \A p \in frontier : p[2] = m + 1
    BY <1>1, <1>3, <2>1 DEF AtLevel
  <2>3. AtLevel(m + 1) /\ m + 1 \in 0..request.depth
    BY <1>1, <1>2, <2>1, <2>2, NextLevel
  <2> QED
    BY <2>1, <2>3
<1> QED
  BY <1>4, <1>5

\* A node is looked at with all its edges, unless that uses the budget up.
LEMMA ExpandTakesAll ==
  ASSUME Sound(graph), SubgraphInv, Expand, Oldest[2] < request.depth, Cardinality(seen'.edges) < Budget
  PROVE  Incident(Oldest[1]) \subseteq seen'.edges
<1> DEFINE n == Oldest[1]
           near == Neighbours(n, Budget)
           rest == near \ seen.edges
           room == Budget - Cardinality(seen.edges)
           new == Strongest(rest, room)
<1>1. frontier # {} /\ ~Full /\ request.depth \in Nat /\ Oldest[2] \in Nat
  BY BudgetIsNumber, OldestIs DEF Expand, SubgraphInv
<1>2. seen'.edges = seen.edges \cup new
  <2> DEFINE nodes == seen.nodes \cup ({Other(e, n) : e \in new} \ seen.nodes)
  <2>1. IF Oldest[2] >= request.depth THEN seen' = seen ELSE seen' = [nodes |-> nodes, edges |-> seen.edges \cup new]
    BY DEF Expand
  <2> HIDE DEF new, nodes
  <2> QED
    BY <1>1, <2>1
<1>3. /\ Budget \in Nat /\ Cardinality(seen.edges) \in Nat /\ IsFiniteSet(seen.edges) /\ room \in Nat
  BY <1>1, BudgetIsNumber DEF SubgraphInv
<1>4. Incident(n) \in SUBSET graph.edges
  BY DEF Incident
<1>5. near \subseteq Incident(n) /\ (Cardinality(near) < Budget => near = Incident(n))
  BY <1>3, <1>4, StrongestIs DEF Neighbours
<1>6. rest \in SUBSET graph.edges
  BY <1>4, <1>5
<1> HIDE DEF rest, room, near
<1>7. new \subseteq rest /\ (Cardinality(new) < room => new = rest)
  BY <1>3, <1>6, StrongestIs
<1>8. IsFiniteSet(new) /\ Cardinality(new) \in Nat
  BY <1>6, <1>7, FS_Subset, FS_CardinalityType DEF Sound
<1> HIDE DEF new, n
<1>9. IsFiniteSet(seen'.edges) /\ Cardinality(seen'.edges) = Cardinality(seen.edges) + Cardinality(new)
  <2>1. seen.edges \cap new = {}
    BY <1>7 DEF rest
  <2>2. Cardinality(seen.edges \cap new) = 0
    BY <2>1, FS_EmptySet
  <2>3. /\ IsFiniteSet(seen.edges \cup new)
        /\ Cardinality(seen.edges \cup new) = Cardinality(seen.edges) + Cardinality(new) - Cardinality(seen.edges \cap new)
    BY <1>3, <1>8, FS_Union
  <2> QED
    BY <1>2, <1>3, <1>8, <2>2, <2>3
<1>10. Cardinality(new) < room
  BY <1>3, <1>8, <1>9 DEF room
<1>11. near \subseteq seen'.edges
  BY <1>2, <1>7, <1>10 DEF rest
<1>12. Cardinality(near) <= Cardinality(seen'.edges) /\ Cardinality(near) \in Nat
  BY <1>9, <1>11, FS_Subset, FS_CardinalityType
<1>13. Cardinality(seen'.edges) \in Nat
  BY <1>9, FS_CardinalityType
<1>14. near = Incident(n)
  BY <1>3, <1>5, <1>12, <1>13
<1> QED
  BY <1>11, <1>14 DEF n

\* Ball, of any graph and seed.
BallFrom(g, from, d) ==
    LET ball[i \in 0..d] ==
            IF i = 0 THEN {from}
            ELSE ball[i - 1] \cup UNION {{Other(e, n) : e \in {f \in g.edges : f.from = n \/ f.to = n}} : n \in ball[i - 1]}
    IN  ball[d]

LEMMA BallsAreFixed ==
  ASSUME graph' = graph, seed' = seed
  PROVE  (\A n : Incident(n)' = Incident(n)) /\ (\A d : Ball(d)' = Ball(d))
<1>1. \A n : Incident(n)' = Incident(n)
  BY DEF Incident
<1>2. \A d : Ball(d)' = Ball(d)
  <2>1. \A d : Ball(d) = BallFrom(graph, seed, d)
    BY Zenon DEF Ball, BallFrom, Incident
  <2>2. \A d : Ball(d)' = BallFrom(graph', seed', d)
    BY Zenon DEF Ball, BallFrom, Incident
  <2> QED
    BY <2>1, <2>2
<1> QED
  BY <1>1, <1>2

\* Where everything seen has been looked at, nothing is left to see.
LEMMA NothingLeft ==
  ASSUME SubgraphInv', graph' = graph, seed' = seed, request' = request, request.depth \in Nat \ {0},
         seed \in seen'.nodes, \A n \in seen'.nodes : Incident(n) \subseteq seen'.edges
  PROVE  AllSeen'
<1>1. \A n \in seen'.nodes : \A e \in Incident(n) : Other(e, n) \in seen'.nodes
  BY DEF SubgraphInv, EndsIn, Other
<1>2. With(seen'.nodes) \subseteq seen'.nodes
  BY <1>1 DEF With
<1>3. \A d \in Nat : Ball(d) \subseteq seen'.nodes
  BY <1>2, BallsAreInside
<1>4. request.depth - 1 \in Nat
  OBVIOUS
<1>5. Ball(request.depth) \subseteq seen'.nodes /\ \A n \in Ball(request.depth - 1) : Incident(n) \subseteq seen'.edges
  BY <1>3, <1>4
<1> QED
  BY <1>5, BallsAreFixed DEF AllSeen

LEMMA ExpandKeepsLevels ==
  ASSUME Sound(graph), SubgraphInv, SubgraphInv', SearchInv, Seeded, Expand
  PROVE  seeds' = {} /\ Cardinality(seen'.edges) < Budget =>
             IF frontier' = {} THEN AllSeen' ELSE \E m \in 0..request.depth : AtLevel(m)'
<1> SUFFICES ASSUME seeds' = {}, Cardinality(seen'.edges) < Budget
             PROVE  IF frontier' = {} THEN AllSeen' ELSE \E m \in 0..request.depth : AtLevel(m)'
  OBVIOUS
<1> DEFINE n == Oldest[1]
           d == Oldest[2]
           found == seen'.nodes \ seen.nodes
<1>1. graph' = graph /\ seed' = seed /\ request' = request /\ seeds' = seeds
  BY DEF Expand
<1>2. frontier # {} /\ ~Full /\ seeds = {}
  BY <1>1 DEF Expand
<1>3. Cardinality(seen.edges) < Budget
  BY <1>2, BudgetIsNumber DEF Full
<1>4. PICK m \in 0..request.depth : AtLevel(m) /\ d = m
  BY <1>2, <1>3, OldestIsOfLevel DEF SearchInv
<1>5. request.depth \in Nat \ {0} /\ m \in Nat /\ Oldest \in frontier /\ d \in Nat
  BY <1>2, OldestIs, QueryAssumption DEF SubgraphInv
<1>6. (\A x : Incident(x)' = Incident(x)) /\ (\A k : Ball(k)' = Ball(k))
  BY <1>1, BallsAreFixed
<1>7. seed \in seen.nodes
  BY <1>2 DEF SearchInv
<1>8. CASE d >= request.depth
  <2>1. seen' = seen /\ frontier' = frontier \ {Oldest} /\ m = request.depth
    BY <1>4, <1>5, <1>8 DEF Expand
  <2>2. CASE frontier' = {}
    <3>1. Ball(request.depth) \subseteq seen'.nodes /\ \A x \in Ball(request.depth - 1) : Incident(x) \subseteq seen'.edges
      BY <1>4, <1>5, <2>1 DEF AtLevel
    <3> QED
      BY <1>1, <1>6, <2>2, <3>1 DEF AllSeen
  <2>3. CASE frontier' # {}
    <3>1. AtLevel(m)'
      BY <1>1, <1>4, <1>5, <1>6, <2>1 DEF AtLevel
    <3> QED
      BY <2>3, <3>1
  <2> QED
    BY <2>2, <2>3
<1>9. CASE ~(d >= request.depth)
  <2>1. d < request.depth /\ m < request.depth /\ m + 1 <= request.depth
    BY <1>4, <1>5, <1>9
  <2>2. /\ seen.nodes \subseteq seen'.nodes /\ seen.edges \subseteq seen'.edges
        /\ frontier' = (frontier \ {Oldest}) \cup {<<f, d + 1>> : f \in found}
    <3> DEFINE new == Strongest(Neighbours(n, Budget) \ seen.edges, Budget - Cardinality(seen.edges))
               fresh == {Other(e, n) : e \in new} \ seen.nodes
    <3>1. /\ seen' = [nodes |-> seen.nodes \cup fresh, edges |-> seen.edges \cup new]
          /\ frontier' = (frontier \ {Oldest}) \cup {<<f, d + 1>> : f \in fresh}
      BY <1>9 DEF Expand
    <3> HIDE DEF new, fresh
    <3>2. seen'.nodes = seen.nodes \cup fresh /\ seen'.edges = seen.edges \cup new
      BY <3>1
    <3>3. found = fresh
      <4>1. fresh \cap seen.nodes = {}
        BY DEF fresh
      <4> QED
        BY <3>2, <4>1
    <3> QED
      BY <3>1, <3>2, <3>3
  <2>3. Incident(n) \subseteq seen'.edges
    BY <2>1, ExpandTakesAll
  <2>4. \A x \in seen.nodes : x \in Waiting \/ Incident(x) \subseteq seen.edges
    BY <1>4, <2>1 DEF AtLevel
  <2>5. \A x \in seen'.nodes : (\E p \in frontier' : p[1] = x) \/ Incident(x) \subseteq seen'.edges
    <3> SUFFICES ASSUME NEW x \in seen'.nodes, ~(Incident(x) \subseteq seen'.edges)
                 PROVE  \E p \in frontier' : p[1] = x
      OBVIOUS
    <3>1. CASE x \in seen.nodes
      <4>1. PICK p \in frontier : p[1] = x
        BY <2>2, <2>4, <3>1 DEF Waiting
      <4>2. p # Oldest
        BY <2>3, <4>1
      <4> QED
        BY <2>2, <4>1, <4>2
    <3>2. CASE x \notin seen.nodes
      <4>1. <<x, d + 1>> \in frontier'
        BY <2>2, <3>2
      <4> QED
        BY <4>1
    <3> QED
      BY <3>1, <3>2
  <2>6. CASE frontier' = {}
    <3>1. \A x \in seen'.nodes : Incident(x) \subseteq seen'.edges
      BY <2>5, <2>6
    <3>2. AllSeen'
      BY <1>1, <1>5, <1>7, <2>2, <3>1, NothingLeft
    <3> QED
      BY <2>6, <3>2
  <2>7. CASE frontier' # {}
    <3>1. \A p \in frontier' : p[2] \in {m, m + 1} /\ p[2] <= request.depth
      BY <1>4, <2>1, <2>2 DEF AtLevel
    <3>2. Ball(m) \subseteq seen'.nodes
      BY <1>4, <2>2 DEF AtLevel
    <3>3. \A p \in frontier' : p[2] = m + 1 => p[1] \notin Ball(m)
      <4> SUFFICES ASSUME NEW p \in frontier', p[2] = m + 1 PROVE p[1] \notin Ball(m)
        OBVIOUS
      <4>1. CASE p \in frontier
        BY <1>4, <4>1 DEF AtLevel
      <4>2. CASE p \notin frontier
        <5>1. p[1] \notin seen.nodes
          BY <2>2, <4>2
        <5> QED
          BY <1>4, <5>1 DEF AtLevel
      <4> QED
        BY <4>1, <4>2
    <3>4. m > 0 => \A x \in Ball(m - 1) : Incident(x) \subseteq seen'.edges
      BY <1>4, <2>2 DEF AtLevel
    <3>5. Waiting' = {p[1] : p \in frontier'}
      BY DEF Waiting
    <3>6. \A x \in seen'.nodes : x \in Waiting' \/ Incident(x) \subseteq seen'.edges
      BY <2>5, <3>5
    <3>7. AtLevel(m)'
      BY <1>1, <1>6, <3>1, <3>2, <3>3, <3>4, <3>6 DEF AtLevel
    <3> QED
      BY <2>7, <3>7
  <2> QED
    BY <2>6, <2>7
<1> QED
  BY <1>8, <1>9

LEMMA SearchStep ==
  ASSUME Sound(graph), SubgraphInv, SubgraphInv', SeededInv, [QueryNext]_queryVars
  PROVE  SeededInv'
<1>1. graph' = graph /\ request' = request /\ seed' = seed
  BY GraphIsFixed
<1>2. SUFFICES ASSUME Seeded PROVE SearchInv'
  BY <1>1 DEF SeededInv, Seeded
<1>3. SearchInv
  BY <1>2 DEF SeededInv
<1>4. (\A x : Incident(x)' = Incident(x)) /\ (\A k : Ball(k)' = Ball(k))
  BY <1>1, BallsAreFixed
<1>5. Budget' = Budget /\ Budget = request.maxEdges
  BY <1>1, <1>2 DEF Budget, Seeded
<1>6. ASSUME NEW s \in seeds, StartSubgraph(s) PROVE SearchInv'
  <2>1. /\ seeds' = seeds \ {s} /\ merged' = merged
        /\ seen' = [nodes |-> {s}, edges |-> {}] /\ frontier' = {<<s, 0>>}
    BY <1>6 DEF StartSubgraph
  <2>2. s = seed /\ seeds' = {} /\ merged = Nothing
    BY <1>3, <2>1 DEF SearchInv
  <2>3. seen'.nodes = {seed} /\ Waiting' = {seed} /\ <<seed, 0>>[2] = 0
    BY <2>1, <2>2 DEF Waiting
  <2>4. request.depth \in Nat
    BY BudgetIsNumber
  <2>5. Ball(0) = {seed}
    BY BallSteps
  <2>6. \A p \in frontier' : p[2] = 0
    BY <2>1
  <2>7. AtLevel(0)'
    BY <1>1, <1>4, <2>3, <2>4, <2>5, <2>6 DEF AtLevel
  <2>8. 0 \in 0..request.depth
    BY <2>4
  <2> QED
    BY <1>1, <2>1, <2>2, <2>3, <2>7, <2>8 DEF SearchInv, Searched
<1>7. CASE Expand
  <2>1. seeds' = seeds /\ frontier # {} /\ seeds = {}
    BY <1>3, <1>7 DEF Expand, SearchInv
  <2>2. seen.nodes \subseteq seen'.nodes
    BY <1>7 DEF Expand
  <2>3. CASE frontier' = {}
    <3>1. Collect(seen')
      BY <1>7, <2>3 DEF Expand
    <3>2. /\ merged'.nodes = {n \in graph.nodes : n.id \in seen'.nodes}
          /\ merged'.edges = seen'.edges
      BY <1>3, <2>1, <3>1 DEF Collect, SearchInv, Nothing
    <3> QED
      BY <1>1, <1>2, <1>3, <1>5, <1>7, <2>1, <2>2, <2>3, <3>2, ExpandKeepsLevels DEF SearchInv, Searched
  <2>4. CASE frontier' # {}
    <3>1. merged' = merged
      BY <1>7, <2>4 DEF Expand
    <3> QED
      BY <1>1, <1>2, <1>3, <1>5, <1>7, <2>1, <2>2, <2>4, <3>1, ExpandKeepsLevels DEF SearchInv, Searched
  <2> QED
    BY <2>3, <2>4
<1>8. CASE StopFull
  <2>1. /\ seeds' = seeds /\ seen' = seen /\ frontier' = {} /\ frontier # {} /\ Collect(seen) /\ Full
    BY <1>8 DEF StopFull
  <2>2. seeds = {} /\ merged = Nothing
    BY <1>3, <2>1 DEF SearchInv
  <2>3. /\ merged'.nodes = {n \in graph.nodes : n.id \in seen.nodes}
        /\ merged'.edges = seen.edges
    BY <2>1, <2>2 DEF Collect, Nothing
  <2>4. ~(Cardinality(seen.edges) < Budget)
    BY <2>1, BudgetIsNumber DEF Full
  <2> QED
    BY <1>1, <1>3, <1>5, <2>1, <2>2, <2>3, <2>4 DEF SearchInv, Searched
<1>9. CASE UNCHANGED <<seeds, seen, frontier, merged>>
  <2>1. AllSeen' <=> AllSeen
    BY <1>1, <1>4, <1>9 DEF AllSeen
  <2>2. \A m : AtLevel(m)' <=> AtLevel(m)
    BY <1>1, <1>4, <1>9 DEF AtLevel, Waiting
  <2> QED
    BY <1>1, <1>3, <1>5, <1>9, <2>1, <2>2 DEF SearchInv, Searched
<1>10. CASE Related \/ Expanded \/ Export \/ Query \/ List \/ StartCommunity \/ LabelNext \/ ShowCommunities \/ UNCHANGED queryVars
  BY <1>9, <1>10 DEF Related, Expanded, Export, Query, List, Filter, Answer, StartCommunity, LabelNext, ShowCommunities, queryVars
<1> QED
  BY <1>6, <1>7, <1>8, <1>10 DEF QueryNext

LEMMA SearchIsInvariant == QuerySpec => []SeededInv
<1>1. QueryInit => SeededInv
  BY SearchInit
<1>2. Sound(graph) /\ SubgraphInv /\ SubgraphInv' /\ SeededInv /\ [QueryNext]_queryVars => SeededInv'
  BY SearchStep
<1> QED
  BY <1>1, <1>2, GraphStaysSound, SubgraphIsInvariant, PTL DEF QuerySpec

(***************************************************************************)
(* What a reply leaves out.                                                *)
(***************************************************************************)
InReach == IF Seeded THEN {n \in graph.nodes : n.id \in Ball(request.depth)} ELSE graph.nodes
EdgesInReach == IF Seeded THEN UNION {Incident(n) : n \in Ball(request.depth - 1)} ELSE graph.edges
WantedInReach == {n \in InReach : request.kind \in {"related", "export"} \/ Wanted(n)}
Questions == {"related", "query", "export", "list"}

LeavesNothingOut(ns, es) ==
    LET ids == {n.id : n \in WantedInReach}
    IN  /\ {e \in EdgesInReach : e.from \in ids /\ e.to \in ids} \subseteq es
        /\ {n \in WantedInReach : request.kind = "list" => Incident(n.id) # {}} \subseteq ns

LEMMA LeftOutIs ==
  LeftOutIsReported <=>
      (reply # NoAnswer /\ request.kind \in Questions => reply.truncated \/ LeavesNothingOut(reply.nodes, reply.edges))
BY Zenon DEF LeftOutIsReported, LeavesNothingOut, InReach, EdgesInReach, WantedInReach, Questions

LEMMA LeftOutNextIs ==
  ASSUME graph' = graph, request' = request, seed' = seed
  PROVE  LeftOutIsReported' <=>
             (reply' # NoAnswer /\ request.kind \in Questions =>
                 reply'.truncated \/ LeavesNothingOut(reply'.nodes, reply'.edges))
<1>1. LeftOutIsReported' <=>
          (reply' # NoAnswer /\ request.kind' \in Questions =>
              reply'.truncated \/ LeavesNothingOut(reply.nodes, reply.edges)')
  BY Zenon DEF LeftOutIsReported, LeavesNothingOut, InReach, EdgesInReach, WantedInReach, Questions
<1>2. (\A n : Incident(n)' = Incident(n)) /\ (\A d : Ball(d)' = Ball(d))
  BY BallsAreFixed
<1>3. InReach' = InReach /\ EdgesInReach' = EdgesInReach
  BY <1>2 DEF InReach, EdgesInReach, Seeded
<1>4. WantedInReach' = WantedInReach
  BY <1>3 DEF WantedInReach, Wanted
<1>5. LeavesNothingOut(reply.nodes, reply.edges)' <=> LeavesNothingOut(reply'.nodes, reply'.edges)
  BY <1>2, <1>3, <1>4 DEF LeavesNothingOut
<1> QED
  BY <1>1, <1>5

LEMMA SomeIs ==
  ASSUME NEW S, IsFiniteSet(S), NEW max \in Nat
  PROVE  /\ Some(S, max) \subseteq S
         /\ Cardinality(Some(S, max)) <= max
         /\ Cardinality(Some(S, max)) < max => Some(S, max) = S
<1> DEFINE weight == [x \in S |-> 0]
<1>1. \A x \in S : weight[x] \in Int
  OBVIOUS
<1> HIDE DEF weight
<1>2. /\ Taken(S, max, weight) \subseteq S
      /\ Cardinality(Taken(S, max, weight)) <= max
      /\ Cardinality(Taken(S, max, weight)) < max => Taken(S, max, weight) = S
  BY <1>1, TakenIs
<1> QED
  BY <1>2, Zenon DEF Some, weight

LEMMA LimitsAreNumbers ==
  ASSUME SubgraphInv
  PROVE  request.maxEdges \in Nat /\ request.maxNodes \in Nat /\ request.depth \in Nat \ {0}
BY QueryAssumption DEF SubgraphInv

\* A search that did not use its budget up has found all there is.
LEMMA SearchIsComplete ==
  ASSUME Sound(graph), SubgraphInv, SeededInv, Seeded, Searched, Cardinality(merged.edges) < request.maxEdges
  PROVE  InReach \subseteq merged.nodes /\ EdgesInReach \subseteq merged.edges
<1>1. /\ merged.nodes = {n \in graph.nodes : n.id \in seen.nodes}
      /\ merged.edges = seen.edges
      /\ seeds = {} /\ frontier = {}
  BY DEF SeededInv, SearchInv, Searched
<1>2. Budget = request.maxEdges
  BY DEF Budget, Seeded
<1>3. AllSeen
  BY <1>1, <1>2 DEF SeededInv, SearchInv
<1> QED
  BY <1>1, <1>3 DEF InReach, EdgesInReach, AllSeen

LEMMA RelatedReports ==
  ASSUME Sound(graph), SubgraphInv, SeededInv, Related
  PROVE  LeftOutIsReported'
<1>1. /\ graph' = graph /\ request' = request /\ seed' = seed /\ request.kind = "related" /\ Searched
      /\ reply' = [nodes |-> merged.nodes, edges |-> merged.edges, truncated |-> Cardinality(merged.edges) >= request.maxEdges]
  BY DEF Related, Answer
<1>2. /\ reply'.nodes = merged.nodes /\ reply'.edges = merged.edges
      /\ reply'.truncated = (Cardinality(merged.edges) >= request.maxEdges)
  BY <1>1
<1>3. CASE Cardinality(merged.edges) >= request.maxEdges
  BY <1>1, <1>2, <1>3, LeftOutNextIs
<1>4. CASE ~(Cardinality(merged.edges) >= request.maxEdges)
  <2>1. Cardinality(merged.edges) < request.maxEdges
    BY <1>4, BudgetIsNumber
  <2>2. InReach \subseteq merged.nodes /\ EdgesInReach \subseteq merged.edges
    BY <1>1, <2>1, SearchIsComplete DEF Seeded
  <2>3. LeavesNothingOut(merged.nodes, merged.edges)
    BY <2>2 DEF LeavesNothingOut, WantedInReach
  <2> QED
    BY <1>1, <1>2, <2>3, LeftOutNextIs
<1> QED
  BY <1>3, <1>4

LEMMA ExportReports ==
  ASSUME Sound(graph), SubgraphInv, Export
  PROVE  LeftOutIsReported'
<1> DEFINE ns == Some(graph.nodes, request.maxNodes)
           es == Some(graph.edges, request.maxEdges)
           truncated == Cardinality(ns) >= request.maxNodes \/ Cardinality(es) >= request.maxEdges
<1>1. /\ graph' = graph /\ request' = request /\ seed' = seed /\ request.kind = "export"
      /\ reply' = [nodes |-> ns, edges |-> es, truncated |-> truncated]
  BY DEF Export, Answer
<1>2. /\ ns \subseteq graph.nodes /\ (Cardinality(ns) < request.maxNodes => ns = graph.nodes)
      /\ es \subseteq graph.edges /\ (Cardinality(es) < request.maxEdges => es = graph.edges)
  BY LimitsAreNumbers, SomeIs DEF Sound
<1> HIDE DEF ns, es
<1>3. /\ Cardinality(ns) \in Nat /\ Cardinality(es) \in Nat
      /\ request.maxEdges \in Nat /\ request.maxNodes \in Nat
  BY <1>2, LimitsAreNumbers, FS_Subset, FS_CardinalityType DEF Sound
<1>4. reply'.nodes = ns /\ reply'.edges = es /\ reply'.truncated = truncated
  BY <1>1
<1>5. CASE truncated
  BY <1>1, <1>4, <1>5, LeftOutNextIs
<1>6. CASE ~truncated
  <2>1. ns = graph.nodes /\ es = graph.edges
    BY <1>2, <1>3, <1>6
  <2>2. LeavesNothingOut(ns, es)
    BY <1>1, <2>1 DEF LeavesNothingOut, WantedInReach, InReach, EdgesInReach, Seeded
  <2> QED
    BY <1>1, <1>4, <2>2, LeftOutNextIs
<1> QED
  BY <1>5, <1>6

\* A filtered reply that is not called truncated is all that was offered.
LEMMA FilterReports ==
  ASSUME Sound(graph), SubgraphInv, NEW offered,
         offered.nodes \subseteq graph.nodes, offered.edges \subseteq graph.edges, Filter(offered)
  PROVE  \/ reply'.truncated
         \/ /\ reply'.nodes = offered.nodes /\ reply'.edges = offered.edges
            /\ Cardinality(offered.edges) < request.maxEdges
            /\ \A e \in offered.edges : {e.from, e.to} \subseteq {n.id : n \in offered.nodes}
<1> DEFINE wanted == {n \in offered.nodes : Wanted(n)}
           ns == Some(wanted, request.maxNodes)
           ids == {n.id : n \in ns}
           joined == {e \in offered.edges : e.from \in ids /\ e.to \in ids}
           es == Some(joined, request.maxEdges)
           truncated == \/ Cardinality(offered.nodes) > Cardinality(ns)
                        \/ Cardinality(offered.edges) > Cardinality(es)
                        \/ Cardinality(offered.edges) >= request.maxEdges
<1>1. reply' = [nodes |-> ns, edges |-> es, truncated |-> truncated]
  BY DEF Filter, Answer
<1>2. IsFiniteSet(offered.nodes) /\ IsFiniteSet(offered.edges)
  BY FS_Subset DEF Sound
<1>3. wanted \in SUBSET offered.nodes /\ joined \in SUBSET offered.edges
  OBVIOUS
<1>4. IsFiniteSet(wanted) /\ IsFiniteSet(joined)
  BY <1>2, <1>3, FS_Subset
<1> HIDE DEF wanted, joined
<1>5. ns \subseteq wanted /\ es \subseteq joined
  BY <1>4, LimitsAreNumbers, SomeIs
<1> HIDE DEF ns, es
<1>6. /\ Cardinality(offered.nodes) \in Nat /\ Cardinality(offered.edges) \in Nat
      /\ Cardinality(ns) \in Nat /\ Cardinality(es) \in Nat
      /\ Cardinality(ns) <= Cardinality(offered.nodes) /\ (Cardinality(offered.nodes) = Cardinality(ns) => offered.nodes = ns)
      /\ Cardinality(es) <= Cardinality(offered.edges) /\ (Cardinality(offered.edges) = Cardinality(es) => offered.edges = es)
  <2>1. ns \in SUBSET offered.nodes /\ es \in SUBSET offered.edges
    BY <1>3, <1>5
  <2> QED
    BY <1>2, <2>1, FS_Subset, FS_CardinalityType
<1>7. request.maxEdges \in Nat
  BY LimitsAreNumbers
<1>8. reply'.nodes = ns /\ reply'.edges = es /\ reply'.truncated = truncated
  BY <1>1
<1>9. CASE truncated
  BY <1>8, <1>9
<1>10. CASE ~truncated
  <2>1. ns = offered.nodes /\ es = offered.edges /\ Cardinality(offered.edges) < request.maxEdges
    BY <1>6, <1>7, <1>10
  <2>2. \A e \in offered.edges : e.from \in ids /\ e.to \in ids
    BY <1>5, <2>1 DEF joined
  <2> QED
    BY <1>8, <2>1, <2>2
<1> QED
  BY <1>9, <1>10

LEMMA QueryReports ==
  ASSUME Sound(graph), SubgraphInv, SeededInv, Query
  PROVE  LeftOutIsReported'
<1>1. request.kind = "query" /\ Searched /\ Filter(merged)
  BY DEF Query
<1>2. graph' = graph /\ request' = request /\ seed' = seed
  BY <1>1 DEF Filter, Answer
<1>3. Seeded
  BY <1>1 DEF Seeded
<1>4. merged.nodes \subseteq graph.nodes /\ merged.edges \subseteq graph.edges
  BY <1>1, <1>3 DEF SeededInv, SearchInv, SubgraphInv
<1>5. CASE reply'.truncated
  BY <1>2, <1>5, LeftOutNextIs
<1>6. CASE ~reply'.truncated
  <2>1. reply'.nodes = merged.nodes /\ reply'.edges = merged.edges /\ Cardinality(merged.edges) < request.maxEdges
    BY <1>1, <1>4, <1>6, FilterReports
  <2>2. InReach \subseteq merged.nodes /\ EdgesInReach \subseteq merged.edges
    BY <1>1, <1>3, <2>1, SearchIsComplete
  <2>3. LeavesNothingOut(reply'.nodes, reply'.edges)
    BY <2>1, <2>2 DEF LeavesNothingOut, WantedInReach
  <2> QED
    BY <1>2, <2>3, LeftOutNextIs
<1> QED
  BY <1>5, <1>6

LEMMA ListReports ==
  ASSUME Sound(graph), SubgraphInv, List
  PROVE  LeftOutIsReported'
<1> DEFINE ns == Some(graph.nodes, request.maxNodes)
           es == Some(graph.edges, request.maxEdges)
           offered == [nodes |-> ns, edges |-> es]
<1>1. request.kind = "list" /\ Filter(offered)
  BY DEF List
<1>2. graph' = graph /\ request' = request /\ seed' = seed
  BY <1>1 DEF Filter, Answer
<1>3. ns \subseteq graph.nodes /\ es \subseteq graph.edges /\ (Cardinality(es) < request.maxEdges => es = graph.edges)
  BY LimitsAreNumbers, SomeIs DEF Sound
<1> HIDE DEF ns, es
<1>4. offered.nodes = ns /\ offered.edges = es
  OBVIOUS
<1> HIDE DEF offered
<1>5. CASE reply'.truncated
  BY <1>2, <1>5, LeftOutNextIs
<1>6. CASE ~reply'.truncated
  <2>1. /\ reply'.nodes = ns /\ reply'.edges = es /\ Cardinality(es) < request.maxEdges
        /\ \A e \in es : {e.from, e.to} \subseteq {n.id : n \in ns}
    BY <1>1, <1>3, <1>4, <1>6, FilterReports
  <2>2. es = graph.edges
    BY <1>3, <2>1
  <2>3. \A n \in graph.nodes : Incident(n.id) # {} => n \in ns
    <3> SUFFICES ASSUME NEW n \in graph.nodes, NEW e \in Incident(n.id) PROVE n \in ns
      OBVIOUS
    <3>1. e \in es /\ n.id \in {e.from, e.to}
      BY <2>2 DEF Incident
    <3>2. PICK m \in ns : m.id = n.id
      BY <2>1, <3>1
    <3>3. m = n
      BY <1>3, <3>2 DEF Sound
    <3> QED
      BY <3>3
  <2>4. LeavesNothingOut(ns, es)
    BY <1>1, <2>2, <2>3 DEF LeavesNothingOut, WantedInReach, InReach, EdgesInReach, Seeded
  <2> QED
    BY <1>2, <2>1, <2>4, LeftOutNextIs
<1> QED
  BY <1>5, <1>6

LEMMA OtherStepsReport ==
  ASSUME LeftOutIsReported, [QueryNext]_queryVars, ~Related, ~Export, ~Query, ~List
  PROVE  LeftOutIsReported'
<1>1. graph' = graph /\ request' = request /\ seed' = seed
  BY GraphIsFixed
<1>2. CASE reply' = reply
  BY <1>1, <1>2, LeftOutIs, LeftOutNextIs
<1>3. CASE Expanded \/ ShowCommunities
  <2>1. request.kind \notin Questions
    BY <1>3 DEF Expanded, ShowCommunities, Expansion, Questions
  <2> QED
    BY <1>1, <2>1, LeftOutNextIs
<1>4. CASE \/ \E s \in seeds : StartSubgraph(s)
           \/ Expand \/ StopFull \/ StartCommunity \/ LabelNext \/ UNCHANGED queryVars
  BY <1>2, <1>4 DEF StartSubgraph, Expand, StopFull, StartCommunity, LabelNext, queryVars
<1> QED
  BY <1>3, <1>4 DEF QueryNext

\* A reply of related, query, list or export that is not marked as truncated
\* leaves out nothing of what was asked for, except that a query without a seed
\* (list) may leave out nodes without edges (endpoints/graph.py 1688-1730).
THEOREM RepliesTellWhatTheyLeaveOut == QuerySpec => []LeftOutIsReported
<1>1. QueryInit => LeftOutIsReported
  BY LeftOutIs DEF QueryInit, QueryInitWith
<1>2. Sound(graph) /\ SubgraphInv /\ SeededInv /\ LeftOutIsReported /\ [QueryNext]_queryVars => LeftOutIsReported'
  BY RelatedReports, ExportReports, QueryReports, ListReports, OtherStepsReport
<1> QED
  BY <1>1, <1>2, GraphStaysSound, SubgraphIsInvariant, SearchIsInvariant, PTL DEF QuerySpec

(***************************************************************************)
(* Communities.                                                            *)
(***************************************************************************)
Closed(P) == \A n \in P : Adjacent(n) \subseteq P
LastGroup == groups[Len(groups)]
Rooted(g) == \E root \in g : \A P \in SUBSET Members : Closed(P) /\ root \in P => g \subseteq P

CommunityInv ==
    /\ groups \in Seq(SUBSET Members)
    /\ groups # <<>> => request.kind = "communities" \/ Expansion
    /\ \A i \in 1..Len(groups) - 1 : Closed(groups[i])
    /\ \A i, j \in DOMAIN groups : i # j => groups[i] \cap groups[j] = {}
    /\ \A i \in DOMAIN groups : Rooted(groups[i])
    /\ groups # <<>> => \A n \in LastGroup : Adjacent(n) \subseteq LastGroup \cup queue
    /\ groups # <<>> => \A n \in queue : \E m \in LastGroup : n \in Adjacent(m)
    /\ groups = <<>> => queue = {}
    /\ reply # NoAnswer => queue = {}

LEMMA AdjacentIsSymmetric ==
  ASSUME NEW m, NEW n \in Adjacent(m)
  PROVE  m \in Adjacent(n)
BY DEF Adjacent

LEMMA LabelledAre ==
  ASSUME NEW n
  PROVE  n \in Labelled <=> \E i \in DOMAIN groups : n \in groups[i]
BY DEF Labelled, ToSet

LEMMA AnchorsAreNodes ==
  ASSUME NEW w
  PROVE  Anchors(w) \subseteq NodeIds
<1> DEFINE having == {n \in graph.nodes : w \in n.words /\ n.framework # Missing}
           Of(f) == {n.id : n \in {m \in having : m.framework = f}}
<1>1. \A f \in {n.framework : n \in having} : Of(f) # {} /\ Of(f) \subseteq NodeIds
  BY DEF NodeIds
<1>2. \A f \in {n.framework : n \in having} : FirstOf(Of(f)) \in Of(f)
  <2> HIDE DEF Of, having
  <2> QED
    BY <1>1 DEF FirstOf
<1>3. Anchors(w) = {FirstOf(Of(f)) : f \in {n.framework : n \in having}}
  BY Zenon DEF Anchors
<1> HIDE DEF Of, having
<1> QED
  BY <1>1, <1>2, <1>3

LEMMA LinksAreBetweenMembers ==
  ASSUME Sound(graph), NEW l \in Links
  PROVE  l \subseteq Members
<1>1. CASE request.kind = "expand"
  BY <1>1 DEF Links, Members
<1>2. CASE request.kind # "expand" /\ l \in {{e.from, e.to} : e \in {f \in graph.edges : f.type \notin Structural}}
  BY <1>2 DEF Sound, Members, NodeIds
<1>3. CASE request.kind # "expand" /\ l \in UNION {Bridges(w) : w \in Words}
  <2>1. PICK w \in Words : l \in Bridges(w)
    BY <1>3
  <2>2. PICK a \in Anchors(w) : l = {FirstOf(Anchors(w)), a}
    BY <2>1 DEF Bridges
  <2>3. FirstOf(Anchors(w)) \in Anchors(w)
    BY <2>2 DEF FirstOf
  <2> QED
    BY <1>3, <2>2, <2>3, AnchorsAreNodes DEF Members
<1> QED
  BY <1>1, <1>2, <1>3 DEF Links, MeaningfulLinks

LEMMA AdjacentAreMembers ==
  ASSUME Sound(graph), NEW n
  PROVE  Adjacent(n) \subseteq Members
BY LinksAreBetweenMembers DEF Adjacent

LEMMA CommunityInit ==
  ASSUME QueryInit
  PROVE  CommunityInv
BY DEF QueryInit, QueryInitWith, CommunityInv

\* Once there is a group, what is linked does not change.


LEMMA MembersAreFixed ==
  ASSUME CommunityInv, [QueryNext]_queryVars, groups # <<>> \/ merged' = merged
  PROVE  Members' = Members /\ (\A n : Adjacent(n)' = Adjacent(n))
<1>1. graph' = graph /\ request' = request
  BY GraphIsFixed
<1>2. CASE request.kind # "expand"
  <2>1. Members' = Members
    BY <1>1, <1>2 DEF Members, NodeIds
  <2>2. Links' = Links
    BY <1>1, <1>2 DEF Links, MeaningfulLinks, Words, Bridges, Anchors
  <2> QED
    BY <2>1, <2>2 DEF Adjacent
<1>3. CASE request.kind = "expand" /\ merged' = merged
  BY <1>1, <1>3 DEF Members, Links, Reached, Adjacent
<1>4. CASE request.kind = "expand" /\ groups # <<>>
  <2>1. Expansion
    BY <1>4 DEF CommunityInv
  <2>2. merged' = merged
    BY <1>4, <2>1 DEF QueryNext, queryVars, StartSubgraph, Expand, StopFull, Related, Expanded, Export, Query, List, Filter,
             Answer, StartCommunity, LabelNext, ShowCommunities, Expansion
  <2> QED
    BY <1>3, <1>4, <2>2
<1> QED
  BY <1>2, <1>3, <1>4
LEMMA CommunityFrame ==
  ASSUME CommunityInv, [QueryNext]_queryVars, groups' = groups, queue' = queue,
         groups # <<>> => request.kind = "communities" \/ Expansion',
         reply' # NoAnswer => queue = {}
  PROVE  CommunityInv'
<1>1. request' = request
  BY GraphIsFixed
<1>2. CASE groups = <<>>
  BY <1>2 DEF CommunityInv
<1>3. CASE groups # <<>>
  <2>1. Members' = Members /\ (\A n : Adjacent(n)' = Adjacent(n))
    BY <1>3, MembersAreFixed
  <2>2. \A P : Closed(P)' <=> Closed(P)
    BY <2>1 DEF Closed
  <2>3. \A g : Rooted(g)' <=> Rooted(g)
    BY <2>1, <2>2 DEF Rooted
  <2>4. LastGroup' = LastGroup
    BY DEF LastGroup
  <2> QED
    BY <1>1, <2>1, <2>2, <2>3, <2>4 DEF CommunityInv
<1> QED
  BY <1>2, <1>3

LEMMA OtherStepsKeepCommunities ==
  ASSUME CommunityInv,
         \/ \E s \in seeds : StartSubgraph(s)
         \/ Expand \/ StopFull \/ Related \/ Expanded \/ Export \/ Query \/ List \/ ShowCommunities
         \/ UNCHANGED queryVars,
         Budget \in Int
  PROVE  CommunityInv'
<1>1. [QueryNext]_queryVars
  BY DEF QueryNext
<1>2. groups' = groups /\ queue' = queue /\ request' = request
  BY DEF StartSubgraph, Expand, StopFull, Related, Expanded, Export, Query, List, Filter, Answer, ShowCommunities, queryVars
<1>3. CASE \E s \in seeds : StartSubgraph(s)
  <2>1. request.kind # "communities" /\ ~Expansion
    BY <1>3 DEF StartSubgraph, Seeded, Expansion
  <2> QED
    BY <1>1, <1>2, <1>3, <2>1, CommunityFrame DEF CommunityInv, StartSubgraph
<1>4. CASE Expand \/ StopFull
  <2>1. groups # <<>> => request.kind = "communities"
    BY <1>4 DEF CommunityInv, Expand, StopFull, Expansion
  <2>2. reply' = reply
    BY <1>4 DEF Expand, StopFull
  <2> QED
    BY <1>1, <1>2, <2>1, <2>2, CommunityFrame DEF CommunityInv
<1>5. CASE UNCHANGED <<graph, request, seed, seeds, seen, frontier, merged, groups, queue>> /\ (reply' # reply => queue = {})
  <2>1. Expansion' <=> Expansion
    BY <1>5 DEF Expansion, Budget
  <2> QED
    BY <1>1, <1>5, <2>1, CommunityFrame DEF CommunityInv
<1>6. CASE Related \/ Export \/ Query \/ List
  <2>1. groups = <<>>
    BY <1>6 DEF CommunityInv, Related, Export, Query, List, Expansion
  <2>2. queue = {}
    BY <2>1 DEF CommunityInv
  <2> QED
    BY <1>5, <1>6, <2>2 DEF Related, Export, Query, List, Filter, Answer
<1>7. CASE Expanded \/ ShowCommunities
  BY <1>5, <1>7 DEF Expanded, ShowCommunities, Answer
<1>8. CASE UNCHANGED queryVars
  BY <1>5, <1>8 DEF queryVars
<1> QED
  BY <1>3, <1>4, <1>6, <1>7, <1>8

LEMMA StartKeepsCommunities ==
  ASSUME Sound(graph), CommunityInv, StartCommunity
  PROVE  CommunityInv'
<1> DEFINE n == FirstOf(Members \ Labelled)
<1>1. /\ groups' = Append(groups, {n}) /\ queue' = Adjacent(n) \ (Labelled \cup {n})
      /\ UNCHANGED <<graph, request, seed, seeds, seen, frontier, merged, reply>>
      /\ reply = NoAnswer /\ queue = {} /\ Members # Labelled
      /\ request.kind = "communities" \/ Expansion
  BY DEF StartCommunity
<1>2. groups \in Seq(SUBSET Members)
  BY DEF CommunityInv
<1>3. Labelled \subseteq Members
  BY <1>2, LabelledAre
<1>4. n \in Members /\ n \notin Labelled
  <2>1. Members \ Labelled # {}
    BY <1>1, <1>3
  <2> QED
    BY <2>1 DEF FirstOf
<1>5. Members' = Members /\ (\A x : Adjacent(x)' = Adjacent(x))
  <2>1. [QueryNext]_queryVars
    BY DEF QueryNext
  <2> QED
    BY <1>1, <2>1, MembersAreFixed
<1>6. \A P : Closed(P)' <=> Closed(P)
  BY <1>5 DEF Closed
<1>7. \A g : Rooted(g)' <=> Rooted(g)
  BY <1>5, <1>6 DEF Rooted
<1> HIDE DEF n
<1>8. /\ Len(groups) \in Nat /\ DOMAIN groups = 1..Len(groups)
      /\ groups' \in Seq(SUBSET Members)
      /\ Len(groups') = Len(groups) + 1 /\ DOMAIN groups' = 1..(Len(groups) + 1)
      /\ \A i \in 1..Len(groups) : groups'[i] = groups[i]
      /\ groups'[Len(groups) + 1] = {n}
      /\ groups' # <<>>
  BY <1>1, <1>2, <1>4
<1>9. LastGroup' = {n}
  BY <1>8 DEF LastGroup
<1>10. \A i \in 1..Len(groups) : Closed(groups[i])
  <2>1. CASE groups = <<>>
    BY <2>1
  <2>2. CASE groups # <<>>
    <3>1. Closed(LastGroup)
      BY <1>1, <2>2 DEF CommunityInv, Closed
    <3> QED
      BY <1>8, <3>1 DEF CommunityInv, LastGroup
  <2> QED
    BY <2>1, <2>2
<1>11. \A i \in 1..Len(groups) : n \notin groups[i]
  BY <1>4, <1>8, LabelledAre
<1>12. \A i \in 1..Len(groups') - 1 : Closed(groups'[i])
  BY <1>8, <1>10
<1>13. \A i, j \in DOMAIN groups' : i # j => groups'[i] \cap groups'[j] = {}
  <2>1. \A i, j \in 1..Len(groups) : i # j => groups[i] \cap groups[j] = {}
    BY <1>8 DEF CommunityInv
  <2> QED
    BY <1>8, <1>11, <2>1
<1>14. \A i \in DOMAIN groups' : Rooted(groups'[i])
  <2>1. Rooted({n})
    BY DEF Rooted
  <2>2. \A i \in 1..Len(groups) : Rooted(groups[i])
    BY <1>8 DEF CommunityInv
  <2> HIDE DEF Rooted
  <2>3. \A i \in 1..Len(groups) : Rooted(groups'[i])
    BY <1>8, <2>2
  <2>4. Rooted(groups'[Len(groups) + 1])
    BY <1>8, <2>1
  <2>5. \A i \in DOMAIN groups' : i \in 1..Len(groups) \/ i = Len(groups) + 1
    BY <1>8
  <2> QED
    BY <2>3, <2>4, <2>5
<1>15. Adjacent(n) \subseteq {n} \cup queue'
  <2>1. \A m \in Adjacent(n) : m \notin Labelled
    <3> SUFFICES ASSUME NEW m \in Adjacent(n), m \in Labelled PROVE FALSE
      OBVIOUS
    <3>1. PICK i \in DOMAIN groups : m \in groups[i]
      BY LabelledAre
    <3>2. n \in Adjacent(m)
      BY AdjacentIsSymmetric
    <3> QED
      BY <1>8, <1>10, <1>11, <3>1, <3>2 DEF Closed
  <2> QED
    BY <1>1, <2>1 DEF n
<1>16. \A x \in queue' : \E m \in {n} : x \in Adjacent(m)
  BY <1>1 DEF n
<1>17. request.kind' = "communities" \/ Expansion'
  BY <1>1 DEF Expansion, Budget
<1>18. (\A i \in 1..Len(groups) - 1 : Closed(groups[i]))' /\ (\A i \in DOMAIN groups : Rooted(groups[i]))'
  BY <1>6, <1>7, <1>12, <1>14
<1> QED
  BY <1>1, <1>5, <1>8, <1>9, <1>13, <1>15, <1>16, <1>17, <1>18 DEF CommunityInv

LEMMA LabelKeepsCommunities ==
  ASSUME Sound(graph), CommunityInv, LabelNext
  PROVE  CommunityInv'
<1> DEFINE n == FirstOf(queue)
           size == Len(groups)
<1>1. /\ UNCHANGED <<graph, request, seed, seeds, seen, frontier, merged, reply>>
      /\ queue # {}
      /\ IF n \in Labelled
         THEN groups' = groups /\ queue' = queue \ {n}
         ELSE /\ groups' = [groups EXCEPT ![size] = @ \cup {n}]
              /\ queue' = (queue \ {n}) \cup (Adjacent(n) \ (Labelled \cup {n}))
  BY DEF LabelNext
<1>2. n \in queue
  BY <1>1 DEF FirstOf
<1>3. groups # <<>> /\ groups \in Seq(SUBSET Members) /\ reply = NoAnswer
  BY <1>1 DEF CommunityInv
<1>4. size \in Nat \ {0} /\ DOMAIN groups = 1..size /\ LastGroup = groups[size]
  BY <1>3 DEF LastGroup
<1>5. PICK m \in LastGroup : n \in Adjacent(m)
  BY <1>2, <1>3 DEF CommunityInv
<1>6. n \in Members
  BY <1>5, AdjacentAreMembers
<1>7. Members' = Members /\ (\A x : Adjacent(x)' = Adjacent(x))
  <2>1. [QueryNext]_queryVars
    BY DEF QueryNext
  <2> QED
    BY <1>1, <2>1, MembersAreFixed
<1>8. \A P : Closed(P)' <=> Closed(P)
  BY <1>7 DEF Closed
<1>9. \A g : Rooted(g)' <=> Rooted(g)
  BY <1>7, <1>8 DEF Rooted
<1>10. request.kind' = "communities" \/ Expansion'
  <2>1. request.kind = "communities" \/ Expansion
    BY <1>3 DEF CommunityInv
  <2> QED
    BY <1>1, <2>1 DEF Expansion, Budget
<1>11. \A i \in 1..size - 1 : n \notin groups[i]
  <2> SUFFICES ASSUME NEW i \in 1..size - 1, n \in groups[i] PROVE FALSE
    OBVIOUS
  <2>1. m \in groups[i]
    BY AdjacentIsSymmetric, <1>5 DEF CommunityInv, Closed
  <2>2. groups[i] \cap groups[size] = {}
    BY <1>4 DEF CommunityInv
  <2> QED
    BY <1>4, <2>1, <2>2
<1> HIDE DEF n, size
<1>12. CASE n \in Labelled
  <2>1. groups' = groups /\ queue' = queue \ {n}
    BY <1>1, <1>12
  <2>2. n \in LastGroup
    <3>1. PICK i \in DOMAIN groups : n \in groups[i]
      BY <1>12, LabelledAre
    <3> QED
      BY <1>4, <1>11, <3>1
  <2>3. LastGroup' = LastGroup
    BY <2>1 DEF LastGroup
  <2>4. \A x \in LastGroup : Adjacent(x) \subseteq LastGroup \cup queue'
    BY <1>3, <2>1, <2>2 DEF CommunityInv
  <2> QED
    BY <1>1, <1>3, <1>7, <1>8, <1>9, <1>10, <2>1, <2>3, <2>4 DEF CommunityInv
<1>13. CASE n \notin Labelled
  <2>1. /\ groups' = [groups EXCEPT ![size] = @ \cup {n}]
        /\ queue' = (queue \ {n}) \cup (Adjacent(n) \ (Labelled \cup {n}))
    BY <1>1, <1>13
  <2>2. /\ groups' \in Seq(SUBSET Members)
        /\ Len(groups') = size /\ DOMAIN groups' = 1..size
        /\ \A i \in 1..size - 1 : groups'[i] = groups[i]
        /\ groups'[size] = LastGroup \cup {n}
        /\ groups' # <<>>
    <3>1. LastGroup \cup {n} \in SUBSET Members
      BY <1>3, <1>4, <1>6
    <3>2. groups' = [groups EXCEPT ![size] = LastGroup \cup {n}]
      BY <1>4, <2>1
    <3>3. groups' \in Seq(SUBSET Members)
      BY <1>3, <1>4, <3>1, <3>2
    <3>4. DOMAIN groups' = 1..size /\ groups'[size] = LastGroup \cup {n} /\ \A i \in 1..size - 1 : groups'[i] = groups[i]
      BY <1>4, <3>2
    <3>5. Len(groups') = size
      BY <1>4, <3>3, <3>4
    <3>6. groups' # <<>>
      BY <1>4, <3>5
    <3> QED
      BY <3>3, <3>4, <3>5, <3>6
  <2>3. LastGroup' = LastGroup \cup {n}
    BY <2>2 DEF LastGroup
  <2>4. \A i \in 1..size - 1 : Closed(groups'[i])
    BY <2>2 DEF CommunityInv, size
  <2>5. \A i, j \in DOMAIN groups' : i # j => groups'[i] \cap groups'[j] = {}
    <3>1. \A i, j \in 1..size : i # j => groups[i] \cap groups[j] = {}
      BY <1>4 DEF CommunityInv
    <3> QED
      BY <1>4, <1>11, <2>2, <3>1
  <2>6. Rooted(LastGroup \cup {n})
    <3>1. PICK root \in LastGroup : \A P \in SUBSET Members : Closed(P) /\ root \in P => LastGroup \subseteq P
      BY <1>4 DEF CommunityInv, Rooted
    <3>2. \A P \in SUBSET Members : Closed(P) /\ root \in P => LastGroup \cup {n} \subseteq P
      BY <1>5, <3>1 DEF Closed
    <3> QED
      BY <3>2 DEF Rooted
  <2>7. \A i \in 1..size : Rooted(groups'[i])
    <3>1. \A i \in 1..size : Rooted(groups[i])
      BY <1>4 DEF CommunityInv
    <3> HIDE DEF Rooted
    <3>2. \A i \in 1..size : i \in 1..size - 1 \/ i = size
      BY <1>4
    <3> QED
      BY <2>2, <2>6, <3>1, <3>2
  <2>8. Adjacent(n) \subseteq LastGroup \cup {n} \cup queue'
    <3> SUFFICES ASSUME NEW x \in Adjacent(n), x \in Labelled PROVE x \in LastGroup
      BY <2>1
    <3>1. PICK i \in DOMAIN groups : x \in groups[i]
      BY LabelledAre
    <3>2. n \in Adjacent(x)
      BY AdjacentIsSymmetric
    <3>3. i \notin 1..size - 1
      BY <1>11, <3>1, <3>2 DEF CommunityInv, Closed, size
    <3> QED
      BY <1>4, <3>1, <3>3
  <2>9. \A x \in LastGroup \cup {n} : Adjacent(x) \subseteq (LastGroup \cup {n}) \cup queue'
    BY <1>3, <2>1, <2>8 DEF CommunityInv
  <2>10. \A x \in queue' : \E y \in LastGroup \cup {n} : x \in Adjacent(y)
    BY <1>3, <2>1 DEF CommunityInv
  <2> QED
    BY <1>1, <1>3, <1>7, <1>8, <1>9, <1>10, <2>2, <2>3, <2>4, <2>5, <2>7, <2>9, <2>10 DEF CommunityInv
<1> QED
  BY <1>12, <1>13

LEMMA CommunityIsInvariant == QuerySpec => []CommunityInv
<1>1. QueryInit => CommunityInv
  BY CommunityInit
<1>2. Sound(graph) /\ SubgraphInv /\ CommunityInv /\ [QueryNext]_queryVars => CommunityInv'
  <2>1. Sound(graph) /\ SubgraphInv => Budget \in Int
    BY BudgetIsNumber
  <2> QED
    BY <2>1, OtherStepsKeepCommunities, StartKeepsCommunities, LabelKeepsCommunities DEF QueryNext
<1> QED
  BY <1>1, <1>2, GraphStaysSound, SubgraphIsInvariant, PTL DEF QuerySpec

LEMMA CommunitiesAreParts ==
  ASSUME Sound(graph), CommunityInv
  PROVE  CommunitiesAreComponents
<1> SUFFICES ASSUME reply # NoAnswer, NEW g \in ToSet(groups)
             PROVE  Closed(g) /\ \A part \in SUBSET g : part # {} /\ Closed(part) => part = g
  BY DEF CommunitiesAreComponents, Closed
<1>1. groups \in Seq(SUBSET Members) /\ queue = {}
  BY DEF CommunityInv
<1>2. PICK i \in DOMAIN groups : g = groups[i]
  BY DEF ToSet
<1>3. Len(groups) \in Nat /\ DOMAIN groups = 1..Len(groups) /\ groups # <<>> /\ g \subseteq Members
  BY <1>1, <1>2
<1>4. Closed(g)
  <2>1. CASE i \in 1..Len(groups) - 1
    BY <1>2, <2>1 DEF CommunityInv
  <2>2. CASE i = Len(groups)
    BY <1>1, <1>2, <1>3, <2>2 DEF CommunityInv, Closed, LastGroup
  <2> QED
    BY <1>3, <2>1, <2>2
<1>5. PICK root \in g : \A P \in SUBSET Members : Closed(P) /\ root \in P => g \subseteq P
  BY <1>2 DEF CommunityInv, Rooted
<1>6. ASSUME NEW part \in SUBSET g, part # {}, Closed(part)
      PROVE  part = g
  <2>1. CASE root \in part
    BY <1>3, <1>5, <1>6, <2>1
  <2>2. CASE root \notin part
    <3>1. Closed(g \ part)
      BY <1>4, <1>6, AdjacentIsSymmetric DEF Closed
    <3>2. g \subseteq g \ part
      BY <1>3, <1>5, <2>2, <3>1
    <3> QED
      BY <1>6, <3>2
  <2> QED
    BY <2>1, <2>2
<1> QED
  BY <1>4, <1>6

\* The groups a search returns are the connected parts of what it links:
\* whatever a group has is linked to nothing outside it, and no part of it is
\* cut off from the rest (graph.py _community_groups, rag_pipeline.py
\* _graph_community_groups).
THEOREM CommunitiesAreWhole == QuerySpec => []CommunitiesAreComponents
<1>1. Sound(graph) /\ CommunityInv => CommunitiesAreComponents
  BY CommunitiesAreParts
<1> QED
  BY <1>1, GraphStaysSound, CommunityIsInvariant, PTL
=============================================================================
