--------------------------- MODULE FlowchartLayout ---------------------------
(***************************************************************************)
(* The layout of a flowchart: parseCDRToFlowchart of the VoiceBotService   *)
(* turns the nodes and edges the language model returned into columns and  *)
(* rows.  depth is computed by a breadth-first search from the start node, *)
(* branch by the position of an edge among the edges of its source.  The   *)
(* search is compared with the definition of the distance in a graph.      *)
(***************************************************************************)
EXTENDS Integers, Sequences, FiniteSets, FiniteSetsExt, SequencesExt

CONSTANTS
  Ids,       \* ids of nodes
  Dangling,  \* ids the model's edges name although there is no such node
  MaxEdges   \* bound: edges of the chart

VARIABLES
  rawNodes,  \* the nodes: a sequence of [id, nodeType]
  edges,     \* the edges: a sequence of [from, to]
  laidOut    \* the answer has been sent

vars == <<rawNodes, edges, laidOut>>

\* Ids have an order, the one the model lists the nodes in.
Charts ==
  LET nodes == SetToSeq(Ids)
  IN  [1..Len(nodes) -> {"start", "process"}]

Edges == [from : Ids \cup Dangling, to : Ids \cup Dangling]

Init ==
  /\ \E types \in Charts :
       rawNodes = [i \in DOMAIN types |-> [id |-> SetToSeq(Ids)[i], nodeType |-> types[i]]]
  /\ edges \in UNION {[1..n -> Edges] : n \in 0..MaxEdges}
  /\ laidOut = FALSE

-----------------------------------------------------------------------------
InDegree(id) == Cardinality({i \in DOMAIN edges : edges[i].to = id})

\* The position of the first of some nodes; 0 when there is none.
First(positions) == IF positions = {} THEN 0 ELSE Min(positions)

\* The first node that is a start or, failing that, has no incoming edge.
StartIndex ==
  LET starts == {i \in DOMAIN rawNodes : rawNodes[i].nodeType = "start"}
      sources == {i \in DOMAIN rawNodes : InDegree(rawNodes[i].id) = 0}
  IN  IF starts # {} THEN First(starts) ELSE First(sources)

OutEdges(id) == SelectSeq(edges, LAMBDA e : e.from = id)

\* The entries a visited node appends to the queue: a single edge stays on the branch, the
\* first of several goes left, the second and the third right, a later one further right.
BranchOffset(i) == IF i = 1 THEN -1 ELSE IF i = 2 THEN 1 ELSE i - 2

Successors(entry) ==
  LET out == OutEdges(entry.id)
  IN  [i \in DOMAIN out |->
         [id     |-> out[i].to,
          depth  |-> entry.depth + 1,
          branch |-> IF Len(out) = 1 THEN entry.branch ELSE BranchOffset(i)]]

\* The next entry of the queue, and the queue without it.
ShiftLast(queue) == <<Last(queue), Front(queue)>>
Shift(queue) == <<Head(queue), Tail(queue)>>

\* The visited nodes with their positions.
RECURSIVE Search(_, _)
Search(queue, visited) ==
  IF queue = <<>>
  THEN visited
  ELSE LET entry == Shift(queue)[1]
           rest == Shift(queue)[2]
       IN  IF \E v \in visited : v.id = entry.id
           THEN Search(rest, visited)
           ELSE Search(rest \o Successors(entry), visited \cup {entry})

Visited ==
  IF StartIndex = 0
  THEN {}
  ELSE Search(<<[id |-> rawNodes[StartIndex].id, depth |-> 0, branch |-> 0]>>, {})

\* depthMap.get(n.id) ?? idx and branchMap.get(n.id) ?? 0
Position(i) ==
  LET found == {v \in Visited : v.id = rawNodes[i].id}
  IN  IF found = {}
      THEN [depth |-> i - 1, branch |-> 0]
      ELSE LET v == CHOOSE v \in found : TRUE IN [depth |-> v.depth, branch |-> v.branch]

Nodes == [i \in DOMAIN rawNodes |-> Position(i)]

\* The answer of the model becomes the answer of the request.
LayOut ==
  /\ ~laidOut
  /\ laidOut' = TRUE
  /\ UNCHANGED <<rawNodes, edges>>

Next == LayOut

Spec == Init /\ [][Next]_vars

-----------------------------------------------------------------------------
\* The nodes that can be reached from the start in at most k edges.
Within[k \in Nat] ==
  IF k = 0
  THEN {rawNodes[StartIndex].id}
  ELSE Within[k - 1] \cup {edges[i].to : i \in {j \in DOMAIN edges : edges[j].from \in Within[k - 1]}}

Distance(id) == Min({k \in 0..MaxEdges : id \in Within[k]})

\* The layout has been computed or not.
TypeOK == laidOut \in BOOLEAN

\* The column of every node that can be reached is its distance from the start; a node that
\* cannot keeps the column of its index.
DepthIsDistance ==
  laidOut =>
    \A i \in DOMAIN rawNodes :
      Nodes[i].depth =
        IF StartIndex # 0 /\ rawNodes[i].id \in Within[MaxEdges]
        THEN Distance(rawNodes[i].id)
        ELSE i - 1

\* No two nodes are drawn at the same place.  Branches that meet again, and nodes that
\* cannot be reached, are, so it does not hold.
PlacesAreDistinct == laidOut => \A i, j \in DOMAIN rawNodes : Nodes[i] = Nodes[j] => i = j
=============================================================================
