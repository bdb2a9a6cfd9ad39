----------------------------- MODULE GraphToposort -----------------------------
(***************************************************************************)
(* Graph::toposort (src/cot/src/utils/graph.rs): a depth-first search that *)
(* takes the roots from the last vertex to the first and reverses the      *)
(* order in which vertices are finished.  The recursion of toposort_visit  *)
(* is a stack of frames.  Vertices are counted from 1.                     *)
(***************************************************************************)
EXTENDS Naturals, Sequences

VARIABLES
  vertex_edges,  \* the graph: the successors of each vertex, as added
  visited,       \* VisitedStatus of each vertex
  frames,        \* the calls of toposort_visit that have not returned
  finished,      \* sorted_indices_stack
  root,          \* the loop of toposort has still to visit 1..root
  result         \* "running", "cycle" (CycleDetected) or "sorted"
vars == <<vertex_edges, visited, frames, finished, root, result>>

Vertex == DOMAIN vertex_edges
VisitedStatus == {"NotVisited", "Visiting", "Visited"}
Frame == [vertex : Vertex, neighbor : Nat \ {0}]

TypeOK ==
  /\ vertex_edges \in Seq(Seq(Vertex))
  /\ visited \in [Vertex -> VisitedStatus]
  /\ frames \in Seq(Frame)
  /\ finished \in Seq(Vertex)
  /\ root \in Vertex \cup {0}
  /\ result \in {"running", "cycle", "sorted"}

(* toposort is called on a graph that is complete.                          *)
InitOn(edges) ==
  /\ vertex_edges = edges
  /\ visited = [v \in Vertex |-> "NotVisited"]
  /\ frames = <<>>
  /\ finished = <<>>
  /\ root = Len(vertex_edges)
  /\ result = "running"

(* The same as a step of a caller.                                          *)
CallOn(edges) ==
  /\ vertex_edges' = edges
  /\ visited' = [v \in DOMAIN edges |-> "NotVisited"]
  /\ frames' = <<>>
  /\ finished' = <<>>
  /\ root' = Len(edges)
  /\ result' = "running"

Top == frames[Len(frames)]
Below == SubSeq(frames, 1, Len(frames) - 1)

(* Mutant: a vertex that is being visited is taken for one that was.        *)
VisitIgnoringCycles(v, callers) ==
  \/ /\ visited[v] \in {"Visited", "Visiting"}
     /\ frames' = callers
     /\ UNCHANGED <<visited, result>>
  \/ /\ visited[v] = "NotVisited"
     /\ visited' = [visited EXCEPT ![v] = "Visiting"]
     /\ frames' = Append(callers, [vertex |-> v, neighbor |-> 1])
     /\ UNCHANGED result
(* Mutant: a vertex that was visited is taken for one that is being.        *)
VisitOnce(v, callers) ==
  \/ /\ visited[v] \in {"Visited", "Visiting"}
     /\ result' = "cycle"
     /\ UNCHANGED <<visited, frames>>
  \/ /\ visited[v] = "NotVisited"
     /\ visited' = [visited EXCEPT ![v] = "Visiting"]
     /\ frames' = Append(callers, [vertex |-> v, neighbor |-> 1])
     /\ UNCHANGED result

(* The entry of toposort_visit(v), called from the frames "callers".        *)
Visit(v, callers) ==
  \/ /\ visited[v] = "Visited"
     /\ frames' = callers
     /\ UNCHANGED <<visited, result>>
  \/ /\ visited[v] = "Visiting"
     /\ result' = "cycle"
     /\ UNCHANGED <<visited, frames>>
  \/ /\ visited[v] = "NotVisited"
     /\ visited' = [visited EXCEPT ![v] = "Visiting"]
     /\ frames' = Append(callers, [vertex |-> v, neighbor |-> 1])
     /\ UNCHANGED result

(* One iteration of the loop in toposort.                                   *)
VisitRoot ==
  /\ result = "running"
  /\ frames = <<>>
  /\ root # 0
  /\ Visit(root, frames)
  /\ root' = root - 1
  /\ UNCHANGED <<vertex_edges, finished>>

(* One iteration of the loop over the neighbors of a vertex.                *)
VisitNeighbor ==
  /\ result = "running"
  /\ frames # <<>>
  /\ Top.neighbor <= Len(vertex_edges[Top.vertex])
  /\ Visit(vertex_edges[Top.vertex][Top.neighbor],
           Append(Below, [Top EXCEPT !.neighbor = @ + 1]))
  /\ UNCHANGED <<vertex_edges, finished, root>>

Return ==
  /\ result = "running"
  /\ frames # <<>>
  /\ Top.neighbor > Len(vertex_edges[Top.vertex])
  /\ visited' = [visited EXCEPT ![Top.vertex] = "Visited"]
  /\ finished' = Append(finished, Top.vertex)
  /\ frames' = Below
  /\ UNCHANGED <<vertex_edges, root, result>>

Finish ==
  /\ result = "running"
  /\ frames = <<>>
  /\ root = 0
  /\ result' = "sorted"
  /\ UNCHANGED <<vertex_edges, visited, frames, finished, root>>

Next == VisitRoot \/ VisitNeighbor \/ Return \/ Finish

(* Called on any graph.                                                     *)
Init == \E n \in Nat : \E edges \in Seq(Seq(1..n)) : Len(edges) = n /\ InitOn(edges)
Spec == Init /\ [][Next]_vars

(* sorted_indices_stack.reverse()                                           *)
sorted_indices ==
  [k \in 1..Len(finished) |-> finished[Len(finished) + 1 - k]]

-----------------------------------------------------------------------------
Edge(v, w) == \E k \in 1..Len(vertex_edges[v]) : vertex_edges[v][k] = w

(* Every vertex of some non-empty set has a successor and a predecessor in  *)
(* it.                                                                      *)
HasCycle ==
  \E loop \in SUBSET Vertex :
    loop # {} /\ \A v \in loop : \E w, u \in loop : Edge(v, w) /\ Edge(u, v)

(* toposort lists every vertex exactly once (its assert_eq!, and the        *)
(* precondition of apply_permutation), each before its successors, whatever *)
(* the shape of the graph and the order in which edges were added.          *)
SortedIsTopological ==
  result = "sorted" =>
    /\ \A j, k \in DOMAIN sorted_indices : sorted_indices[j] = sorted_indices[k] => j = k
    /\ \A v \in Vertex : \E k \in DOMAIN sorted_indices : sorted_indices[k] = v
    /\ \A j, k \in DOMAIN sorted_indices :
         Edge(sorted_indices[j], sorted_indices[k]) => j < k

(* CycleDetected is returned only for a graph that has a cycle: never for   *)
(* one in which two paths meet, or an edge was added twice.                 *)
CycleIsReal == result = "cycle" => HasCycle

==============================================================================
