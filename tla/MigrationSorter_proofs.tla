------------------------ MODULE MigrationSorter_proofs ------------------------
(***************************************************************************)
(* For every list of migrations: the sorter returns them in an order in    *)
(* which each comes after all it depends on, or it names a reason that is   *)
(* in the list.                                                            *)
(*                                                                         *)
(* Up to the call of apply_permutation the list is a rearrangement of the   *)
(* input, sorted by name; the lookup table sends each key of a migration it *)
(* has entered to that migration; and the graph has an edge from v to w     *)
(* where w depends on v.  What toposort and apply_permutation do in between *)
(* is that of the first two parts of this module.                           *)
(***************************************************************************)
EXTENDS MigrationSorter, FiniteSetTheorems, SequenceTheorems, WellFoundedInduction, TLAPS

-----------------------------------------------------------------------------
(* Graph::toposort is correct on every graph: a result is a topological    *)
(* order of all vertices, and CycleDetected is reported only for a cycle.  *)
(*                                                                         *)
(* The vertices being visited are those of the frames, each on one frame   *)
(* and a successor of the one below; the visited ones are those finished;  *)
(* the neighbors that a frame has left behind are finished, but for the    *)
(* one that the frame above is visiting; and what is finished was finished *)
(* after all its successors.                                               *)
Depth == 1..Len(frames)
Passed(d) == 1..(frames[d].neighbor - 1)
Neighbor(d, k) == vertex_edges[frames[d].vertex][k]

FramesAreVisiting ==
  /\ \A v \in G!Vertex : visited[v] = "Visiting" => \E d \in Depth : frames[d].vertex = v
  /\ \A d \in Depth : visited[frames[d].vertex] = "Visiting"
  /\ \A d, e \in Depth : frames[d].vertex = frames[e].vertex => d = e

FinishedAreVisited ==
  /\ \A v \in G!Vertex : visited[v] = "Visited" => \E a \in 1..Len(finished) : finished[a] = v
  /\ \A a \in 1..Len(finished) : visited[finished[a]] = "Visited"
  /\ \A a, b \in 1..Len(finished) : finished[a] = finished[b] => a = b

FramesAreLinked ==
  \A d \in 1..(Len(frames) - 1) :
    /\ frames[d].neighbor > 1
    /\ frames[d + 1].vertex = Neighbor(d, frames[d].neighbor - 1)

PassedAreVisited ==
  \A d \in Depth :
    /\ frames[d].neighbor <= Len(vertex_edges[frames[d].vertex]) + 1
    /\ \A k \in Passed(d) :
         \/ visited[Neighbor(d, k)] = "Visited"
         \/ k = frames[d].neighbor - 1 /\ d < Len(frames)

SuccessorsFirst ==
  \A a \in 1..Len(finished) : \A k \in 1..Len(vertex_edges[finished[a]]) :
    \E b \in 1..(a - 1) : finished[b] = vertex_edges[finished[a]][k]

RootsAreVisited ==
  /\ \A v \in G!Vertex : v > root => visited[v] # "NotVisited"
  /\ result = "sorted" => root = 0 /\ frames = <<>>

Searching ==
  /\ G!TypeOK
  /\ FramesAreVisiting
  /\ FinishedAreVisited
  /\ FramesAreLinked
  /\ PassedAreVisited
  /\ SuccessorsFirst
  /\ RootsAreVisited
  /\ G!CycleIsReal

(* The invariant holds when toposort is called.                             *)
LEMMA InitSearching == G!Init => Searching
<1> SUFFICES ASSUME NEW n \in Nat, NEW edges \in Seq(Seq(1..n)), Len(edges) = n, G!InitOn(edges)
             PROVE  Searching
  BY DEF G!Init
<1>1. /\ vertex_edges = edges /\ frames = <<>> /\ finished = <<>> /\ root = n /\ result = "running"
      /\ G!Vertex = 1..n
      /\ visited = [v \in G!Vertex |-> "NotVisited"]
  BY DEF G!InitOn, G!Vertex
<1>2. G!TypeOK
  <2>1. vertex_edges \in Seq(Seq(G!Vertex)) /\ visited \in [G!Vertex -> G!VisitedStatus]
    BY <1>1 DEF G!VisitedStatus
  <2>2. frames \in Seq(G!Frame) /\ finished \in Seq(G!Vertex)
    BY <1>1
  <2>3. root \in G!Vertex \cup {0} /\ result \in {"running", "cycle", "sorted"}
    BY <1>1
  <2> QED
    BY <2>1, <2>2, <2>3 DEF G!TypeOK
<1>3. FramesAreVisiting /\ FinishedAreVisited
  BY <1>1 DEF FramesAreVisiting, FinishedAreVisited, Depth
<1>4. FramesAreLinked /\ PassedAreVisited /\ SuccessorsFirst
  BY <1>1 DEF FramesAreLinked, PassedAreVisited, SuccessorsFirst, Depth
<1>5. RootsAreVisited /\ G!CycleIsReal
  BY <1>1 DEF RootsAreVisited, G!CycleIsReal
<1> QED
  BY <1>2, <1>3, <1>4, <1>5 DEF Searching

(* The same when a caller calls it.                                         *)
LEMMA CallSearching ==
  ASSUME NEW n \in Nat, NEW edges \in Seq(Seq(1..n)), Len(edges) = n, G!CallOn(edges)
  PROVE  Searching'
<1>1. /\ vertex_edges' = edges /\ frames' = <<>> /\ finished' = <<>> /\ root' = n
      /\ result' = "running" /\ G!Vertex' = 1..n
      /\ visited' = [v \in G!Vertex' |-> "NotVisited"]
  BY DEF G!CallOn, G!Vertex
<1>2. G!TypeOK'
  <2>1. vertex_edges' \in Seq(Seq(G!Vertex')) /\ visited' \in [G!Vertex' -> G!VisitedStatus]
    BY <1>1 DEF G!VisitedStatus
  <2>2. frames' \in Seq(G!Frame') /\ finished' \in Seq(G!Vertex')
    BY <1>1
  <2>3. root' \in G!Vertex' \cup {0} /\ result' \in {"running", "cycle", "sorted"}
    BY <1>1
  <2> QED
    BY <2>1, <2>2, <2>3 DEF G!TypeOK, G!VisitedStatus
<1>3. FramesAreVisiting' /\ FinishedAreVisited'
  BY <1>1 DEF FramesAreVisiting, FinishedAreVisited, Depth
<1>4. FramesAreLinked' /\ PassedAreVisited' /\ SuccessorsFirst'
  BY <1>1 DEF FramesAreLinked, PassedAreVisited, SuccessorsFirst, Depth
<1>5. RootsAreVisited' /\ G!CycleIsReal'
  BY <1>1 DEF RootsAreVisited, G!CycleIsReal
<1> QED
  BY <1>2, <1>3, <1>4, <1>5 DEF Searching

(* What the type invariant says of the frames, one by one.                  *)
LEMMA FrameTypes ==
  ASSUME G!TypeOK
  PROVE  /\ Len(vertex_edges) \in Nat /\ G!Vertex = 1..Len(vertex_edges)
         /\ Len(frames) \in Nat
         /\ \A d \in Depth : frames[d] \in G!Frame /\ frames[d].vertex \in G!Vertex
                             /\ frames[d].neighbor \in Nat \ {0}
         /\ \A v \in G!Vertex : /\ Len(vertex_edges[v]) \in Nat
                              /\ \A k \in 1..Len(vertex_edges[v]) : vertex_edges[v][k] \in G!Vertex
         /\ Len(finished) \in Nat
         /\ \A a \in 1..Len(finished) : finished[a] \in G!Vertex
<1>1. /\ vertex_edges \in Seq(Seq(G!Vertex)) /\ frames \in Seq(G!Frame) /\ finished \in Seq(G!Vertex)
  BY DEF G!TypeOK
<1>2. Len(vertex_edges) \in Nat /\ G!Vertex = 1..Len(vertex_edges)
  BY <1>1 DEF G!Vertex
<1>3. \A v \in G!Vertex : vertex_edges[v] \in Seq(G!Vertex)
  BY <1>1, <1>2
<1>4. Len(frames) \in Nat /\ \A d \in Depth : frames[d] \in G!Frame
  BY <1>1 DEF Depth
<1>5. \A f \in G!Frame : f.vertex \in G!Vertex /\ f.neighbor \in Nat \ {0}
  BY DEF G!Frame
<1>6. Len(finished) \in Nat /\ \A a \in 1..Len(finished) : finished[a] \in G!Vertex
  BY <1>1
<1> QED
  BY <1>2, <1>3, <1>4, <1>5, <1>6, SMTT(30)

(* The frames below the top, and those with which a neighbor is visited.    *)
LEMMA BelowFrames ==
  ASSUME G!TypeOK, frames # <<>>
  PROVE  /\ Len(frames) \in Nat \ {0}
         /\ G!Below \in Seq(G!Frame)
         /\ Len(G!Below) = Len(frames) - 1
         /\ \A d \in 1..(Len(frames) - 1) : G!Below[d] = frames[d]
<1>1. frames \in Seq(G!Frame)
  BY DEF G!TypeOK
<1>2. Len(frames) \in Nat /\ Len(frames) # 0
  BY <1>1
<1>3. \A d \in 1..(Len(frames) - 1) : frames[d] \in G!Frame
  BY <1>1
<1> DEFINE L == Len(frames)
<1>4. /\ G!Below \in Seq(G!Frame)
      /\ Len(G!Below) = IF 1 <= L - 1 THEN L - 1 - 1 + 1 ELSE 0
      /\ \A d \in 1..(L - 1 - 1 + 1) : G!Below[d] = frames[1 + d - 1]
  BY <1>2, <1>3, SubSeqProperties DEF G!Below
<1> HIDE DEF L
<1>5. L \in Nat /\ L # 0
  BY <1>2 DEF L
<1>6. Len(G!Below) = L - 1
  BY <1>4, <1>5
<1>7. ASSUME NEW d \in 1..(L - 1) PROVE G!Below[d] = frames[d]
  <2>1. d \in 1..(L - 1 - 1 + 1) /\ 1 + d - 1 = d
    BY <1>5
  <2> QED
    BY <1>4, <2>1
<1> QED
  BY <1>4, <1>5, <1>6, <1>7 DEF L

Callers == Append(G!Below, [G!Top EXCEPT !.neighbor = @ + 1])

LEMMA CallerFrames ==
  ASSUME G!TypeOK, frames # <<>>
  PROVE  /\ Callers \in Seq(G!Frame)
         /\ Len(Callers) = Len(frames)
         /\ \A d \in 1..(Len(frames) - 1) : Callers[d] = frames[d]
         /\ Callers[Len(frames)].vertex = G!Top.vertex
         /\ Callers[Len(frames)].neighbor = G!Top.neighbor + 1
<1> DEFINE top == [G!Top EXCEPT !.neighbor = @ + 1]
<1>1. Len(frames) \in Nat \ {0} /\ G!Below \in Seq(G!Frame) /\ Len(G!Below) = Len(frames) - 1
      /\ \A d \in 1..(Len(frames) - 1) : G!Below[d] = frames[d]
  BY BelowFrames
<1>2. G!Top \in G!Frame
  BY <1>1, FrameTypes DEF G!Top, Depth
<1>3. top \in G!Frame /\ top.vertex = G!Top.vertex /\ top.neighbor = G!Top.neighbor + 1
  BY <1>2 DEF G!Frame
<1> HIDE DEF top
<1>4. Callers = Append(G!Below, top)
  BY DEF top, Callers
<1> QED
  BY <1>1, <1>3, <1>4

(* The frames that call Visit, with the top one past its neighbor.          *)
Calling == IF frames = <<>> THEN frames ELSE Callers

LEMMA CallingFrames ==
  ASSUME G!TypeOK
  PROVE  /\ Calling \in Seq(G!Frame)
         /\ Len(Calling) = Len(frames)
         /\ \A d \in Depth :
              /\ Calling[d].vertex = frames[d].vertex
              /\ d < Len(frames) => Calling[d].neighbor = frames[d].neighbor
              /\ d = Len(frames) => Calling[d].neighbor = frames[d].neighbor + 1
<1>1. CASE frames = <<>>
  BY <1>1 DEF Calling, G!TypeOK, Depth
<1>2. CASE frames # <<>>
  <2>1. Len(frames) \in Nat \ {0}
    BY <1>2, BelowFrames
  <2>2. Calling = Callers
    BY <1>2 DEF Calling
  <2>3. \A d \in Depth : d < Len(frames) => d \in 1..(Len(frames) - 1)
    BY <2>1 DEF Depth
  <2> QED
    BY <1>2, <2>1, <2>2, <2>3, CallerFrames DEF G!Top, Depth
<1> QED
  BY <1>1, <1>2

(* A call of Visit: of a root, with no frames, or of a neighbor of the top. *)
Calls(v) ==
  /\ result = "running"
  /\ v \in G!Vertex
  /\ G!Visit(v, Calling)
  /\ UNCHANGED <<vertex_edges, finished>>
  /\ frames # <<>> => /\ root' = root
                      /\ frames[Len(frames)].neighbor
                           <= Len(vertex_edges[frames[Len(frames)].vertex])
                      /\ v = Neighbor(Len(frames), frames[Len(frames)].neighbor)
  /\ frames = <<>> => root = v /\ root' = root - 1

(* A vertex that is being visited is on a frame, so the frames from there   *)
(* up to the top close a cycle.                                             *)
LEMMA VisitingIsCycle ==
  ASSUME Searching, NEW v \in G!Vertex, visited[v] = "Visiting", Calls(v)
  PROVE  G!HasCycle
<1>0. G!TypeOK
  BY DEF Searching
<1>1. PICK d \in Depth : frames[d].vertex = v
  BY DEF Searching, FramesAreVisiting
<1>2. Len(frames) \in Nat \ {0} /\ d \in 1..Len(frames) /\ frames # <<>>
  BY <1>0, <1>1, FrameTypes DEF Depth
<1> DEFINE loop == {frames[e].vertex : e \in d..Len(frames)}
<1>3. loop \in SUBSET G!Vertex /\ loop # {}
  BY <1>0, <1>1, <1>2, FrameTypes DEF Depth
<1>4. ASSUME NEW x \in loop PROVE \E y \in loop : G!Edge(x, y)
  <2>1. PICK e \in d..Len(frames) : x = frames[e].vertex
    OBVIOUS
  <2>2. e \in Depth /\ frames[e].neighbor \in Nat \ {0}
    BY <1>0, <1>2, <2>1, FrameTypes DEF Depth
  <2>3. CASE e = Len(frames)
    <3>1. v \in loop
      BY <1>1, <1>2
    <3>2. /\ frames[e].neighbor \in 1..Len(vertex_edges[x])
          /\ vertex_edges[x][frames[e].neighbor] = v
      BY <1>0, <1>2, <2>1, <2>2, <2>3, FrameTypes, SMTT(30) DEF Calls, Neighbor, Depth
    <3> QED
      BY <3>1, <3>2 DEF G!Edge
  <2>4. CASE e # Len(frames)
    <3>1. e \in 1..(Len(frames) - 1) /\ e + 1 \in d..Len(frames)
      BY <1>2, <2>1, <2>4
    <3>2. frames[e + 1].vertex \in loop
      BY <3>1
    <3>3. /\ frames[e].neighbor > 1
          /\ frames[e + 1].vertex = vertex_edges[x][frames[e].neighbor - 1]
      BY <2>1, <3>1 DEF Searching, FramesAreLinked, Neighbor
    <3>4. frames[e].neighbor - 1 \in 1..Len(vertex_edges[x])
      <4>1. frames[e].neighbor <= Len(vertex_edges[x]) + 1
        BY <2>1, <2>2 DEF Searching, PassedAreVisited
      <4>2. Len(vertex_edges[x]) \in Nat
        BY <1>0, <2>1, <2>2, FrameTypes
      <4> QED
        BY <2>2, <3>3, <4>1, <4>2, SMTT(30)
    <3> QED
      BY <3>2, <3>3, <3>4 DEF G!Edge
  <2> QED
    BY <2>3, <2>4
<1>5. ASSUME NEW x \in loop PROVE \E u \in loop : G!Edge(u, x)
  <2>1. PICK e \in d..Len(frames) : x = frames[e].vertex
    OBVIOUS
  <2>2. CASE e = d
    <3>1. frames[Len(frames)].vertex \in loop
      BY <1>2
    <3>2. LET t == Len(frames)
          IN  /\ frames[t].neighbor \in 1..Len(vertex_edges[frames[t].vertex])
              /\ vertex_edges[frames[t].vertex][frames[t].neighbor] = v
      BY <1>0, <1>2, FrameTypes, SMTT(30) DEF Calls, Neighbor, Depth
    <3> QED
      BY <1>1, <2>1, <2>2, <3>1, <3>2 DEF G!Edge
  <2>3. CASE e # d
    <3> DEFINE c == e - 1
               u == frames[c].vertex
    <3>1. c \in 1..(Len(frames) - 1) /\ c \in d..Len(frames) /\ c + 1 = e
      BY <1>2, <2>1, <2>3
    <3>2. u \in loop
      BY <3>1
    <3>3. frames[c].neighbor > 1 /\ x = vertex_edges[u][frames[c].neighbor - 1]
      <4> HIDE DEF c
      <4> QED
        BY <2>1, <3>1 DEF Searching, FramesAreLinked, Neighbor
    <3>4. frames[c].neighbor - 1 \in 1..Len(vertex_edges[u])
      <4>1. c \in Depth
        BY <1>2, <3>1 DEF Depth
      <4> HIDE DEF c
      <4>2. frames[c].neighbor <= Len(vertex_edges[u]) + 1
        BY <4>1 DEF Searching, PassedAreVisited
      <4>3. Len(vertex_edges[u]) \in Nat /\ frames[c].neighbor \in Nat
        BY <1>0, <4>1, FrameTypes
      <4> QED
        BY <3>3, <4>2, <4>3, SMTT(30)
    <3> QED
      BY <3>2, <3>3, <3>4 DEF G!Edge
  <2> QED
    BY <2>2, <2>3
<1>6. \A x \in loop : \E w, u \in loop : G!Edge(x, w) /\ G!Edge(u, x)
  BY <1>4, <1>5
<1> HIDE DEF loop
<1> QED
  BY <1>3, <1>6 DEF G!HasCycle

(* A call of Visit preserves the invariant.                                 *)
LEMMA VisitSearching ==
  ASSUME Searching, NEW v \in G!Vertex, Calls(v)
  PROVE  Searching'
<1>0. G!TypeOK /\ vertex_edges' = vertex_edges /\ finished' = finished /\ G!Vertex' = G!Vertex
  BY DEF Searching, Calls, G!Vertex
<1>1. /\ Len(frames) \in Nat /\ Depth = 1..Len(frames)
      /\ Calling \in Seq(G!Frame) /\ Len(Calling) = Len(frames)
  BY <1>0, FrameTypes, CallingFrames DEF Depth
<1>2. G!Frame' = G!Frame
  BY <1>0 DEF G!Frame
<1>3. root' \in G!Vertex \cup {0}
  <2>1. root \in G!Vertex \cup {0} /\ G!Vertex = 1..Len(vertex_edges) /\ Len(vertex_edges) \in Nat
    BY <1>0, FrameTypes DEF G!TypeOK
  <2> QED
    BY <2>1 DEF Calls
<1>4. root' = root \/ (root = v /\ root' = root - 1)
  BY DEF Calls
<1>5. SuccessorsFirst'
  BY <1>0 DEF Searching, SuccessorsFirst
<1>6. \A w \in G!Vertex : w > root' /\ w # v => visited[w] # "NotVisited"
  <2>1. root \in Nat /\ G!Vertex \subseteq Nat
    BY <1>0, FrameTypes DEF G!TypeOK
  <2> QED
    BY <1>4, <2>1 DEF Searching, RootsAreVisited
(* What the caller has passed now includes v.                               *)
<1>7. \A d \in Depth :
        /\ Calling[d].neighbor <= Len(vertex_edges[frames[d].vertex]) + 1
        /\ \A k \in 1..(Calling[d].neighbor - 1) :
             \/ visited[Neighbor(d, k)] = "Visited"
             \/ k = Calling[d].neighbor - 1 /\ d < Len(frames)
             \/ k = Calling[d].neighbor - 1 /\ d = Len(frames) /\ Neighbor(d, k) = v
  <2> SUFFICES ASSUME NEW d \in Depth
               PROVE  /\ Calling[d].neighbor <= Len(vertex_edges[frames[d].vertex]) + 1
                      /\ \A k \in 1..(Calling[d].neighbor - 1) :
                           \/ visited[Neighbor(d, k)] = "Visited"
                           \/ k = Calling[d].neighbor - 1 /\ d < Len(frames)
                           \/ k = Calling[d].neighbor - 1 /\ d = Len(frames) /\ Neighbor(d, k) = v
    OBVIOUS
  <2>1. /\ frames[d].neighbor \in Nat \ {0}
        /\ Len(vertex_edges[frames[d].vertex]) \in Nat
        /\ frames[d].neighbor <= Len(vertex_edges[frames[d].vertex]) + 1
        /\ \A k \in 1..(frames[d].neighbor - 1) :
             visited[Neighbor(d, k)] = "Visited" \/ (k = frames[d].neighbor - 1 /\ d < Len(frames))
    BY <1>0, FrameTypes DEF Searching, PassedAreVisited, Passed
  <2>2. CASE d < Len(frames)
    BY <1>0, <2>1, <2>2, CallingFrames
  <2>3. CASE d = Len(frames)
    <3>1. frames # <<>>
      BY <1>1, <2>3
    <3>2. Calling[d].neighbor = frames[d].neighbor + 1
      BY <1>0, <2>3, CallingFrames
    <3>3. /\ frames[d].neighbor <= Len(vertex_edges[frames[d].vertex])
          /\ v = Neighbor(d, frames[d].neighbor)
      BY <2>3, <3>1 DEF Calls
    <3> QED
      BY <2>1, <2>3, <3>2, <3>3
  <2> QED
    BY <1>1, <2>2, <2>3
(* The three outcomes of Visit.                                             *)
<1>8. CASE visited[v] = "Visited" /\ frames' = Calling /\ UNCHANGED <<visited, result>>
  <2>1. Depth' = Depth /\ Len(frames') = Len(frames)
    BY <1>1, <1>8 DEF Depth
  <2>2. \A d \in Depth : frames'[d].vertex = frames[d].vertex
    BY <1>0, <1>8, CallingFrames
  <2>3. G!TypeOK'
    BY <1>0, <1>1, <1>2, <1>3, <1>8 DEF G!TypeOK
  <2>4. FramesAreVisiting' /\ FinishedAreVisited'
    BY <1>0, <1>8, <2>1, <2>2 DEF Searching, FramesAreVisiting, FinishedAreVisited
  <2>5. FramesAreLinked'
    <3> SUFFICES ASSUME NEW d \in 1..(Len(frames) - 1)
                 PROVE  /\ frames'[d].neighbor > 1
                        /\ frames'[d + 1].vertex = vertex_edges[frames'[d].vertex][frames'[d].neighbor - 1]
      BY <1>0, <2>1 DEF FramesAreLinked, Neighbor
    <3>1. d \in Depth /\ d + 1 \in Depth /\ d < Len(frames)
      BY <1>1
    <3>2. frames'[d].neighbor = frames[d].neighbor
      BY <1>0, <1>8, <3>1, CallingFrames
    <3> QED
      BY <1>0, <2>2, <3>1, <3>2 DEF Searching, FramesAreLinked, Neighbor
  <2>6. PassedAreVisited'
    BY <1>0, <1>7, <1>8, <2>1, <2>2 DEF PassedAreVisited, Passed, Neighbor
  <2>7. RootsAreVisited'
    BY <1>0, <1>6, <1>8 DEF RootsAreVisited, Calls
  <2>8. G!CycleIsReal'
    BY <1>8 DEF G!CycleIsReal, Calls
  <2> QED
    BY <1>5, <2>3, <2>4, <2>5, <2>6, <2>7, <2>8 DEF Searching
<1>9. CASE visited[v] = "Visiting" /\ result' = "cycle" /\ UNCHANGED <<visited, frames>>
  <2>1. G!TypeOK'
    BY <1>0, <1>2, <1>3, <1>9 DEF G!TypeOK
  <2>2. FramesAreVisiting' /\ FinishedAreVisited' /\ FramesAreLinked' /\ PassedAreVisited'
    BY <1>0, <1>9 DEF Searching, FramesAreVisiting, FinishedAreVisited, FramesAreLinked,
                      PassedAreVisited, Depth, Passed, Neighbor
  <2>3. RootsAreVisited'
    BY <1>0, <1>6, <1>9 DEF RootsAreVisited
  <2>4. G!HasCycle
    BY <1>9, VisitingIsCycle
  <2>5. G!CycleIsReal'
    <3>1. vertex_edges' = vertex_edges /\ G!Vertex' = G!Vertex
      BY <1>0
    <3>2. \A x, y : G!Edge(x, y)' <=> G!Edge(x, y)
      BY <3>1 DEF G!Edge
    <3>3. PICK loop \in SUBSET G!Vertex :
            loop # {} /\ \A x \in loop : \E w, u \in loop : G!Edge(x, w) /\ G!Edge(u, x)
      BY <2>4 DEF G!HasCycle
    <3>4. \A x \in loop : \E w, u \in loop : G!Edge(x, w)' /\ G!Edge(u, x)'
      BY <3>2, <3>3
    <3>5. G!HasCycle'
      BY <3>1, <3>3, <3>4 DEF G!HasCycle
    <3> QED
      BY <3>5 DEF G!CycleIsReal
  <2> QED
    BY <1>5, <2>1, <2>2, <2>3, <2>5 DEF Searching
<1>10. CASE /\ visited[v] = "NotVisited"
            /\ visited' = [visited EXCEPT ![v] = "Visiting"]
            /\ frames' = Append(Calling, [vertex |-> v, neighbor |-> 1])
            /\ UNCHANGED result
  <2> DEFINE new == [vertex |-> v, neighbor |-> 1]
             L == Len(frames)
  <2>1. new \in G!Frame /\ new.vertex = v /\ new.neighbor = 1
    BY DEF G!Frame
  <2> HIDE DEF new
  <2>2. /\ L \in Nat /\ Len(frames') = L + 1 /\ frames' \in Seq(G!Frame)
        /\ frames'[L + 1] = new
        /\ \A d \in 1..L : frames'[d] = Calling[d]
    <3>1. frames' = Append(Calling, new)
      BY <1>10 DEF new
    <3> QED
      BY <1>1, <2>1, <3>1
  <2> HIDE DEF L
  <2>3. Depth = 1..L /\ Depth' = 1..(L + 1) /\ Len(frames) = L
    BY <1>1, <2>2 DEF Depth, L
  <2>4. \A d \in 1..L : frames'[d].vertex = frames[d].vertex
    BY <1>0, <2>2, <2>3, CallingFrames
  <2>5. visited \in [G!Vertex -> G!VisitedStatus] /\ "Visiting" \in G!VisitedStatus
    BY <1>0 DEF G!TypeOK, G!VisitedStatus
  <2>6. \A w \in G!Vertex : visited'[w] = IF w = v THEN "Visiting" ELSE visited[w]
    BY <1>10, <2>5
  <2>7. G!TypeOK'
    <3>1. visited' \in [G!Vertex -> G!VisitedStatus]
      BY <1>10, <2>5
    <3> QED
      BY <1>0, <1>2, <1>3, <1>10, <2>2, <3>1 DEF G!TypeOK
  <2>8. FramesAreVisiting'
    <3>1. ASSUME NEW w \in G!Vertex, visited'[w] = "Visiting"
          PROVE  \E d \in Depth' : frames'[d].vertex = w
      <4>1. CASE w = v
        BY <2>1, <2>2, <2>3, <4>1
      <4>2. CASE w # v
        <5>1. PICK d \in 1..L : frames[d].vertex = w
          BY <2>3, <2>6, <3>1, <4>2 DEF Searching, FramesAreVisiting
        <5>2. d \in Depth'
          BY <2>2, <2>3
        <5> QED
          BY <2>4, <5>1, <5>2
      <4> QED
        BY <4>1, <4>2
    <3>2. \A d \in 1..L : visited[frames[d].vertex] = "Visiting" /\ frames[d].vertex \in G!Vertex
      BY <1>0, <2>3, FrameTypes DEF Searching, FramesAreVisiting
    <3>3. \A d \in 1..L : frames[d].vertex # v
      BY <1>10, <3>2
    <3>4. \A d \in Depth' : d = L + 1 \/ d \in 1..L
      BY <2>2, <2>3
    <3>5. \A d \in Depth' : visited'[frames'[d].vertex] = "Visiting"
      BY <2>1, <2>2, <2>4, <2>6, <3>2, <3>4
    <3>6. \A d, e \in Depth' : frames'[d].vertex = frames'[e].vertex => d = e
      BY <2>1, <2>2, <2>3, <2>4, <3>3, <3>4 DEF Searching, FramesAreVisiting
    <3> QED
      BY <1>0, <3>1, <3>5, <3>6 DEF FramesAreVisiting
  <2>9. FinishedAreVisited'
    <3>1. \A a \in 1..Len(finished) : finished[a] \in G!Vertex /\ finished[a] # v
      BY <1>0, <1>10, FrameTypes DEF Searching, FinishedAreVisited
    <3> QED
      BY <1>0, <2>6, <3>1 DEF Searching, FinishedAreVisited
  <2>10. FramesAreLinked'
    <3> SUFFICES ASSUME NEW d \in 1..L
                 PROVE  /\ frames'[d].neighbor > 1
                        /\ frames'[d + 1].vertex = vertex_edges[frames'[d].vertex][frames'[d].neighbor - 1]
      BY <1>0, <2>2 DEF FramesAreLinked, Neighbor
    <3>0. frames'[d].neighbor = Calling[d].neighbor /\ frames'[d].vertex = frames[d].vertex
      BY <2>2, <2>4
    <3>1. CASE d = L
      <4>1. frames # <<>>
        BY <1>1, <2>3, <3>1 DEF L
      <4>2. /\ Calling[d].neighbor = frames[d].neighbor + 1
            /\ frames[d].neighbor \in Nat \ {0}
        BY <1>0, <2>3, <3>1, CallingFrames, FrameTypes
      <4>3. v = Neighbor(d, frames[d].neighbor)
        BY <2>3, <3>1, <4>1 DEF Calls
      <4>4. frames'[d].neighbor > 1 /\ frames'[d].neighbor - 1 = frames[d].neighbor
        BY <3>0, <4>2
      <4> QED
        BY <1>0, <2>1, <2>2, <3>0, <3>1, <4>3, <4>4 DEF Neighbor
    <3>2. CASE d # L
      <4>1. d \in Depth /\ d < Len(frames) /\ d \in 1..(Len(frames) - 1) /\ d + 1 \in 1..L
        BY <2>2, <2>3, <3>2
      <4>2. Calling[d].neighbor = frames[d].neighbor
        BY <1>0, <4>1, CallingFrames
      <4> QED
        BY <1>0, <2>4, <3>0, <4>1, <4>2 DEF Searching, FramesAreLinked, Neighbor
    <3> QED
      BY <3>1, <3>2
  <2>11. PassedAreVisited'
    <3> SUFFICES ASSUME NEW d \in 1..(L + 1)
                 PROVE  /\ frames'[d].neighbor <= Len(vertex_edges[frames'[d].vertex]) + 1
                        /\ \A k \in 1..(frames'[d].neighbor - 1) :
                             \/ visited'[Neighbor(d, k)'] = "Visited"
                             \/ k = frames'[d].neighbor - 1 /\ d < L + 1
      BY <1>0, <2>2, <2>3 DEF PassedAreVisited, Passed
    <3>1. CASE d = L + 1
      <4>1. Len(vertex_edges[v]) \in Nat
        BY <1>0, FrameTypes
      <4> QED
        BY <2>1, <2>2, <3>1, <4>1
    <3>2. CASE d # L + 1
      <4>1. /\ d \in Depth /\ d \in 1..L /\ d < L + 1
            /\ frames'[d].neighbor = Calling[d].neighbor /\ frames'[d].vertex = frames[d].vertex
        BY <2>2, <2>3, <2>4, <3>2
      <4>2. frames'[d].neighbor <= Len(vertex_edges[frames'[d].vertex]) + 1
        BY <1>7, <4>1
      <4>3. ASSUME NEW k \in 1..(frames'[d].neighbor - 1)
            PROVE  \/ visited'[Neighbor(d, k)'] = "Visited"
                   \/ k = frames'[d].neighbor - 1 /\ d < L + 1
        <5>1. Neighbor(d, k)' = Neighbor(d, k)
          BY <1>0, <4>1 DEF Neighbor
        <5>2. CASE visited[Neighbor(d, k)] = "Visited"
          <6>1. frames[d].vertex \in G!Vertex /\ Calling[d].neighbor \in Nat
                /\ Len(vertex_edges[frames[d].vertex]) \in Nat
            <7>1. Calling[d] \in G!Frame
              BY <1>1, <4>1
            <7> QED
              BY <1>0, <4>1, <7>1, FrameTypes DEF G!Frame
          <6>2. k \in 1..Len(vertex_edges[frames[d].vertex])
            BY <4>1, <4>2, <6>1
          <6>3. Neighbor(d, k) \in G!Vertex
            BY <1>0, <6>1, <6>2, FrameTypes DEF Neighbor
          <6> QED
            BY <1>10, <2>6, <5>1, <5>2, <6>3
        <5>3. CASE visited[Neighbor(d, k)] # "Visited"
          BY <1>7, <4>1, <5>3
        <5> QED
          BY <5>2, <5>3
      <4> QED
        BY <4>2, <4>3
    <3> QED
      BY <3>1, <3>2
  <2>12. RootsAreVisited'
    BY <1>0, <1>6, <1>10, <2>6 DEF RootsAreVisited, Calls
  <2>13. G!CycleIsReal'
    BY <1>10 DEF G!CycleIsReal, Calls
  <2> QED
    BY <1>5, <2>7, <2>8, <2>9, <2>10, <2>11, <2>12, <2>13 DEF Searching
<1> QED
  BY <1>8, <1>9, <1>10 DEF Calls, G!Visit

(* Leaving a vertex, all of whose successors are finished.                  *)
LEMMA ReturnSearching == Searching /\ G!Return => Searching'
<1> SUFFICES ASSUME Searching, G!Return PROVE Searching'
  OBVIOUS
<1> DEFINE L == Len(frames)
           v == G!Top.vertex
<1>0. /\ G!TypeOK /\ vertex_edges' = vertex_edges /\ G!Vertex' = G!Vertex /\ G!Frame' = G!Frame
      /\ root' = root /\ result' = "running" /\ frames # <<>>
  BY DEF Searching, G!Return, G!Vertex, G!Frame
<1>1. /\ L \in Nat /\ L # 0 /\ Depth = 1..L
      /\ frames' \in Seq(G!Frame) /\ Len(frames') = L - 1 /\ Depth' = 1..(L - 1)
      /\ \A d \in 1..(L - 1) : frames'[d] = frames[d]
  BY <1>0, BelowFrames DEF G!Return, Depth
<1>2. v = frames[L].vertex /\ v \in G!Vertex /\ visited[v] = "Visiting"
      /\ frames[L].neighbor \in Nat \ {0} /\ Len(vertex_edges[v]) \in Nat
      /\ frames[L].neighbor > Len(vertex_edges[v])
  <2>1. L \in Depth
    BY <1>1
  <2> QED
    BY <1>0, <2>1, FrameTypes DEF Searching, FramesAreVisiting, G!Return, G!Top
<1>3. visited' = [visited EXCEPT ![v] = "Visited"] /\ finished' = Append(finished, v)
  BY DEF G!Return
<1> HIDE DEF v
<1>4. visited \in [G!Vertex -> G!VisitedStatus] /\ "Visited" \in G!VisitedStatus
  BY <1>0 DEF G!TypeOK, G!VisitedStatus
<1>5. \A w \in G!Vertex : visited'[w] = IF w = v THEN "Visited" ELSE visited[w]
  BY <1>3, <1>4
<1> DEFINE F == Len(finished)
<1>6. /\ F \in Nat /\ Len(finished') = F + 1 /\ finished' \in Seq(G!Vertex)
      /\ finished'[F + 1] = v
      /\ \A a \in 1..F : finished'[a] = finished[a] /\ finished[a] \in G!Vertex
  BY <1>0, <1>2, <1>3 DEF G!TypeOK
<1> HIDE DEF L, F
<1>7. G!TypeOK'
  <2>1. visited' \in [G!Vertex -> G!VisitedStatus]
    BY <1>3, <1>4
  <2> QED
    BY <1>0, <1>1, <1>6, <2>1 DEF G!TypeOK
<1>8. \A d \in 1..(L - 1) : d \in Depth /\ frames[d].vertex # v /\ frames[d].vertex \in G!Vertex
  <2>1. \A d \in 1..(L - 1) : d \in Depth /\ L \in Depth /\ d # L
    BY <1>1
  <2> QED
    BY <1>0, <1>2, <2>1, FrameTypes DEF Searching, FramesAreVisiting
<1>9. FramesAreVisiting'
  <2>1. ASSUME NEW w \in G!Vertex, visited'[w] = "Visiting"
        PROVE  \E d \in Depth' : frames'[d].vertex = w
    <3>1. w # v /\ visited[w] = "Visiting"
      BY <1>5, <2>1
    <3>2. PICK d \in Depth : frames[d].vertex = w
      BY <3>1 DEF Searching, FramesAreVisiting
    <3>3. d \in 1..(L - 1)
      BY <1>1, <1>2, <3>1, <3>2
    <3> QED
      BY <1>1, <3>2, <3>3
  <2>2. \A d \in Depth' : visited'[frames'[d].vertex] = "Visiting"
    BY <1>1, <1>5, <1>8 DEF Searching, FramesAreVisiting
  <2>3. \A d, e \in Depth' : frames'[d].vertex = frames'[e].vertex => d = e
    BY <1>1, <1>8 DEF Searching, FramesAreVisiting
  <2> QED
    BY <1>0, <2>1, <2>2, <2>3 DEF FramesAreVisiting
<1>10. \A a \in 1..F : finished[a] # v
  BY <1>2 DEF Searching, FinishedAreVisited, F
<1>11. FinishedAreVisited'
  <2>1. ASSUME NEW w \in G!Vertex, visited'[w] = "Visited"
        PROVE  \E a \in 1..(F + 1) : finished'[a] = w
    <3>1. CASE w = v
      BY <1>6, <3>1
    <3>2. CASE w # v
      <4>1. PICK a \in 1..F : finished[a] = w
        BY <1>5, <2>1, <3>2 DEF Searching, FinishedAreVisited, F
      <4> QED
        BY <1>6, <4>1
    <3> QED
      BY <3>1, <3>2
  <2>2. \A a \in 1..(F + 1) : a = F + 1 \/ a \in 1..F
    BY <1>6
  <2>3. \A a \in 1..(F + 1) : visited'[finished'[a]] = "Visited"
    BY <1>2, <1>5, <1>6, <2>2 DEF Searching, FinishedAreVisited, F
  <2>4. \A a, b \in 1..(F + 1) : finished'[a] = finished'[b] => a = b
    BY <1>6, <1>10, <2>2 DEF Searching, FinishedAreVisited, F
  <2> QED
    BY <1>0, <1>6, <2>1, <2>3, <2>4 DEF FinishedAreVisited
<1>12. FramesAreLinked'
  <2> SUFFICES ASSUME NEW d \in 1..(L - 1 - 1)
               PROVE  /\ frames'[d].neighbor > 1
                      /\ frames'[d + 1].vertex
                           = vertex_edges[frames'[d].vertex][frames'[d].neighbor - 1]
    BY <1>0, <1>1 DEF FramesAreLinked, Neighbor
  <2>1. d \in 1..(L - 1) /\ d + 1 \in 1..(L - 1)
    BY <1>1
  <2> QED
    BY <1>1, <2>1 DEF Searching, FramesAreLinked, Neighbor, L
<1>13. PassedAreVisited'
  <2> SUFFICES ASSUME NEW d \in 1..(L - 1)
               PROVE  /\ frames'[d].neighbor <= Len(vertex_edges[frames'[d].vertex]) + 1
                      /\ \A k \in 1..(frames'[d].neighbor - 1) :
                           \/ visited'[vertex_edges[frames'[d].vertex][k]] = "Visited"
                           \/ k = frames'[d].neighbor - 1 /\ d < L - 1
    BY <1>0, <1>1 DEF PassedAreVisited, Passed, Neighbor
  <2>1. d \in Depth /\ d < L /\ frames'[d] = frames[d] /\ L = Len(frames)
    BY <1>1 DEF L
  <2>2. /\ frames[d].neighbor \in Nat \ {0} /\ frames[d].vertex \in G!Vertex
        /\ Len(vertex_edges[frames[d].vertex]) \in Nat
        /\ frames[d].neighbor <= Len(vertex_edges[frames[d].vertex]) + 1
    BY <1>0, <2>1, FrameTypes DEF Searching, PassedAreVisited
  <2>3. ASSUME NEW k \in 1..(frames[d].neighbor - 1)
        PROVE  \/ visited'[vertex_edges[frames[d].vertex][k]] = "Visited"
               \/ k = frames[d].neighbor - 1 /\ d < L - 1
    <3>1. k \in 1..Len(vertex_edges[frames[d].vertex])
      BY <2>2
    <3>2. vertex_edges[frames[d].vertex][k] \in G!Vertex
      BY <1>0, <2>2, <3>1, FrameTypes
    <3>3. \/ visited[vertex_edges[frames[d].vertex][k]] = "Visited"
          \/ k = frames[d].neighbor - 1
      BY <2>1 DEF Searching, PassedAreVisited, Passed, Neighbor
    <3>4. CASE visited[vertex_edges[frames[d].vertex][k]] = "Visited"
      BY <1>5, <3>2, <3>4
    <3>5. CASE k = frames[d].neighbor - 1 /\ d = L - 1
      <4>1. d \in 1..(Len(frames) - 1) /\ d + 1 = L
        BY <1>1, <2>1, <3>5
      <4>2. vertex_edges[frames[d].vertex][k] = v
        BY <1>2, <3>5, <4>1 DEF Searching, FramesAreLinked, Neighbor
      <4> QED
        BY <1>2, <1>5, <4>2
    <3>6. CASE k = frames[d].neighbor - 1 /\ d # L - 1
      BY <1>1, <3>6
    <3> QED
      BY <3>3, <3>4, <3>5, <3>6
  <2> QED
    BY <2>1, <2>2, <2>3
<1>14. SuccessorsFirst'
  <2> SUFFICES ASSUME NEW a \in 1..(F + 1), NEW k \in 1..Len(vertex_edges[finished'[a]])
               PROVE  \E b \in 1..(a - 1) : finished'[b] = vertex_edges[finished'[a]][k]
    BY <1>0, <1>6 DEF SuccessorsFirst
  <2>1. CASE a = F + 1
    <3>1. finished'[a] = v /\ k \in Passed(L) /\ L \in Depth /\ ~(L < Len(frames))
      BY <1>1, <1>2, <1>6, <2>1 DEF Passed, L
    <3>2. visited[vertex_edges[v][k]] = "Visited"
      BY <1>2, <3>1 DEF Searching, PassedAreVisited, Neighbor
    <3>3. vertex_edges[v][k] \in G!Vertex
      BY <1>0, <1>2, <3>1, FrameTypes
    <3>4. PICK b \in 1..F : finished[b] = vertex_edges[v][k]
      BY <3>2, <3>3 DEF Searching, FinishedAreVisited, F
    <3> QED
      BY <1>6, <2>1, <3>1, <3>4
  <2>2. CASE a \in 1..F
    <3>1. finished'[a] = finished[a]
      BY <1>6, <2>2
    <3>2. PICK b \in 1..(a - 1) : finished[b] = vertex_edges[finished[a]][k]
      BY <2>2, <3>1 DEF Searching, SuccessorsFirst, F
    <3>3. b \in 1..F
      BY <1>6, <2>2
    <3> QED
      BY <1>6, <3>1, <3>2, <3>3
  <2> QED
    BY <1>6, <2>1, <2>2
<1>15. RootsAreVisited' /\ G!CycleIsReal'
  BY <1>0, <1>5 DEF Searching, RootsAreVisited, G!CycleIsReal
<1> QED
  BY <1>7, <1>9, <1>11, <1>12, <1>13, <1>14, <1>15 DEF Searching

(* Every step preserves the invariant.                                      *)
LEMMA NextSearching == Searching /\ [G!Next]_(G!vars) => Searching'
<1> SUFFICES ASSUME Searching, [G!Next]_(G!vars) PROVE Searching'
  OBVIOUS
<1>0. G!TypeOK
  BY DEF Searching
<1>1. CASE G!VisitRoot
  <2>1. root \in G!Vertex
    BY <1>0, <1>1 DEF G!VisitRoot, G!TypeOK
  <2>2. Calls(root)
    BY <1>1, <2>1 DEF G!VisitRoot, Calls, Calling
  <2> QED
    BY <2>1, <2>2, VisitSearching
<1>2. CASE G!VisitNeighbor
  <2> DEFINE v == vertex_edges[G!Top.vertex][G!Top.neighbor]
  <2>1. Len(frames) \in Depth
    BY <1>0, <1>2, BelowFrames DEF G!VisitNeighbor, Depth
  <2>2. v \in G!Vertex
    BY <1>0, <1>2, <2>1, FrameTypes DEF G!VisitNeighbor, G!Top
  <2>3. Calls(v)
    BY <1>2, <2>2 DEF G!VisitNeighbor, Calls, Calling, Callers, G!Top, Neighbor
  <2> QED
    BY <2>2, <2>3, VisitSearching
<1>3. CASE G!Return
  BY <1>3, ReturnSearching
<1>4. CASE G!Finish
  BY <1>4 DEF G!Finish, Searching, G!TypeOK, G!Vertex, G!Frame, FramesAreVisiting, FinishedAreVisited,
              FramesAreLinked, PassedAreVisited, SuccessorsFirst, RootsAreVisited, G!CycleIsReal,
              Depth, Passed, Neighbor
<1>5. CASE UNCHANGED G!vars
  <2>1. /\ vertex_edges' = vertex_edges /\ visited' = visited /\ frames' = frames
        /\ finished' = finished /\ root' = root /\ result' = result
    BY <1>5 DEF G!vars
  <2>2. G!TypeOK'
    BY <1>0, <2>1 DEF G!TypeOK, G!Vertex, G!Frame
  <2>3. FramesAreVisiting' /\ FinishedAreVisited' /\ FramesAreLinked'
    BY <2>1 DEF Searching, G!Vertex, Depth, Neighbor, FramesAreVisiting, FinishedAreVisited,
                FramesAreLinked
  <2>4. PassedAreVisited' /\ SuccessorsFirst' /\ RootsAreVisited'
    BY <2>1 DEF Searching, G!Vertex, Depth, Passed, Neighbor, PassedAreVisited, SuccessorsFirst,
                RootsAreVisited
  <2>5. G!HasCycle' <=> G!HasCycle
    BY <2>1 DEF G!HasCycle, G!Edge, G!Vertex
  <2>6. G!CycleIsReal'
    BY <2>1, <2>5 DEF Searching, G!CycleIsReal
  <2> QED
    BY <2>2, <2>3, <2>4, <2>6 DEF Searching
<1> QED
  BY <1>1, <1>2, <1>3, <1>4, <1>5 DEF G!Next

LEMMA SearchingAlways == G!Spec => []Searching
BY InitSearching, NextSearching, PTL DEF G!Spec

(* toposort reports CycleDetected only for a graph that has a cycle.        *)
THEOREM ToposortCycleIsReal == G!Spec => []G!CycleIsReal
<1>1. Searching => G!CycleIsReal
  BY DEF Searching
<1> QED
  BY <1>1, SearchingAlways, PTL

(* When toposort has returned, the stack of finished vertices, reversed, is *)
(* a topological order of all of them.                                      *)
LEMMA ResultIsTopological == Searching => G!SortedIsTopological
<1> SUFFICES ASSUME Searching, result = "sorted"
             PROVE  /\ \A j, k \in DOMAIN G!sorted_indices :
                         G!sorted_indices[j] = G!sorted_indices[k] => j = k
                    /\ \A v \in G!Vertex : \E k \in DOMAIN G!sorted_indices : G!sorted_indices[k] = v
                    /\ \A j, k \in DOMAIN G!sorted_indices :
                         G!Edge(G!sorted_indices[j], G!sorted_indices[k]) => j < k
  BY DEF G!SortedIsTopological
<1> DEFINE F == Len(finished)
<1>0. G!TypeOK
  BY DEF Searching
<1>1. F \in Nat /\ G!Vertex \subseteq Nat \ {0} /\ \A a \in 1..F : finished[a] \in G!Vertex
  BY <1>0, FrameTypes
<1> HIDE DEF F
<1>2. DOMAIN G!sorted_indices = 1..F
      /\ \A k \in 1..F : G!sorted_indices[k] = finished[F + 1 - k] /\ F + 1 - k \in 1..F
  BY <1>1 DEF G!sorted_indices, F
<1>3. \A j, k \in 1..F : G!sorted_indices[j] = G!sorted_indices[k] => j = k
  <2> SUFFICES ASSUME NEW j \in 1..F, NEW k \in 1..F, G!sorted_indices[j] = G!sorted_indices[k]
               PROVE  j = k
    OBVIOUS
  <2> DEFINE a == F + 1 - j
             b == F + 1 - k
  <2>1. a \in 1..F /\ b \in 1..F /\ finished[a] = finished[b]
    BY <1>2
  <2> HIDE DEF a, b
  <2>2. a = b
    BY <2>1 DEF Searching, FinishedAreVisited, F
  <2> QED
    BY <1>1, <2>2 DEF a, b
<1>4. ASSUME NEW v \in G!Vertex PROVE \E k \in 1..F : G!sorted_indices[k] = v
  <2>1. visited[v] # "NotVisited" /\ frames = <<>>
    BY <1>1 DEF Searching, RootsAreVisited
  <2>2. visited[v] # "Visiting"
    BY <2>1 DEF Searching, FramesAreVisiting, Depth
  <2>3. visited[v] = "Visited"
    BY <1>0, <2>1, <2>2 DEF G!TypeOK, G!VisitedStatus
  <2>4. PICK a \in 1..F : finished[a] = v
    BY <2>3 DEF Searching, FinishedAreVisited, F
  <2>5. F + 1 - a \in 1..F /\ F + 1 - (F + 1 - a) = a
    BY <1>1
  <2> QED
    BY <1>2, <2>4, <2>5
<1>5. ASSUME NEW j \in 1..F, NEW k \in 1..F, G!Edge(G!sorted_indices[j], G!sorted_indices[k])
      PROVE  j < k
  <2> DEFINE a == F + 1 - j
             b == F + 1 - k
  <2>1. a \in 1..F /\ b \in 1..F /\ G!Edge(finished[a], finished[b])
    BY <1>2, <1>5
  <2> HIDE DEF a, b
  <2>2. PICK c \in 1..(a - 1) : finished[c] = finished[b]
    BY <2>1 DEF G!Edge, Searching, SuccessorsFirst, F
  <2>3. c \in 1..F
    BY <1>1, <2>1
  <2>4. c = b
    BY <2>1, <2>2, <2>3 DEF Searching, FinishedAreVisited, F
  <2> QED
    BY <1>1, <2>1, <2>2, <2>4 DEF a, b
<1> QED
  BY <1>2, <1>3, <1>4, <1>5

(* What toposort returns lists every vertex once, before its successors.    *)
THEOREM ToposortIsTopological == G!Spec => []G!SortedIsTopological
BY ResultIsTopological, SearchingAlways, PTL

-----------------------------------------------------------------------------
(* Without edges every root is finished as soon as it is visited, from the  *)
(* last to the first.                                                       *)
NoEdges == \A v \in G!Vertex : vertex_edges[v] = <<>>

RootByRoot ==
  NoEdges =>
    /\ result # "cycle"
    /\ \A a \in 1..Len(finished) : finished[a] = Len(vertex_edges) + 1 - a
    /\ frames = <<>> => Len(finished) = Len(vertex_edges) - root
    /\ frames # <<>> => /\ Len(frames) = 1
                        /\ frames[1].vertex = root + 1
                        /\ Len(finished) = Len(vertex_edges) - root - 1

LEMMA CallRootByRoot ==
  ASSUME NEW n \in Nat, NEW edges \in Seq(Seq(1..n)), Len(edges) = n, G!CallOn(edges)
  PROVE  RootByRoot'
BY DEF G!CallOn, RootByRoot

LEMMA NextRootByRoot == Searching /\ RootByRoot /\ [G!Next]_(G!vars) => RootByRoot'
<1> SUFFICES ASSUME Searching, RootByRoot, [G!Next]_(G!vars) PROVE RootByRoot'
  OBVIOUS
<1>0. G!TypeOK /\ vertex_edges' = vertex_edges
  BY DEF G!Next, G!VisitRoot, G!VisitNeighbor, G!Return, G!Finish, G!vars, Searching
<1> SUFFICES ASSUME NoEdges' PROVE
               /\ result' # "cycle"
               /\ \A a \in 1..Len(finished') : finished'[a] = Len(vertex_edges) + 1 - a
               /\ frames' = <<>> => Len(finished') = Len(vertex_edges) - root'
               /\ frames' # <<>> => /\ Len(frames') = 1
                                    /\ frames'[1].vertex = root' + 1
                                    /\ Len(finished') = Len(vertex_edges) - root' - 1
  BY <1>0 DEF RootByRoot
<1>1. NoEdges
  BY <1>0 DEF NoEdges, G!Vertex
<1> DEFINE V == Len(vertex_edges)
<1>2. /\ V \in Nat /\ G!Vertex = 1..V /\ root \in Nat /\ Len(finished) \in Nat
      /\ finished \in Seq(G!Vertex) /\ frames \in Seq(G!Frame)
  BY <1>0, FrameTypes DEF G!TypeOK
<1>3. /\ result # "cycle"
      /\ \A a \in 1..Len(finished) : finished[a] = V + 1 - a
      /\ frames = <<>> => Len(finished) = V - root
      /\ frames # <<>> => /\ Len(frames) = 1
                          /\ frames[1].vertex = root + 1
                          /\ Len(finished) = V - root - 1
  BY <1>1 DEF RootByRoot
<1>4. CASE G!VisitRoot
  <2>1. frames = <<>> /\ root # 0 /\ root \in G!Vertex /\ result = "running"
    BY <1>0, <1>4 DEF G!VisitRoot, G!TypeOK
  <2>2. visited[root] # "Visiting"
    BY <2>1 DEF Searching, FramesAreVisiting, Depth
  <2>3. visited[root] # "Visited"
    <3>1. SUFFICES ASSUME visited[root] = "Visited" PROVE FALSE
      OBVIOUS
    <3>2. PICK a \in 1..Len(finished) : finished[a] = root
      BY <2>1, <3>1 DEF Searching, FinishedAreVisited
    <3> QED
      BY <1>2, <1>3, <2>1, <3>2
  <2>4. /\ frames' = Append(<<>>, [vertex |-> root, neighbor |-> 1])
        /\ root' = root - 1 /\ finished' = finished /\ result' = result
    BY <1>4, <2>1, <2>2, <2>3 DEF G!VisitRoot, G!Visit
  <2>5. frames' # <<>> /\ Len(frames') = 1 /\ frames'[1].vertex = root
    BY <2>4
  <2> QED
    BY <1>2, <1>3, <2>1, <2>4, <2>5
<1>5. CASE G!VisitNeighbor
  <2>0. frames # <<>> /\ Len(frames) = 1
    BY <1>3, <1>5 DEF G!VisitNeighbor
  <2>1. G!Top = frames[1] /\ 1 \in Depth
    BY <2>0 DEF G!Top, Depth
  <2>3. G!Top.vertex \in G!Vertex /\ G!Top.neighbor \in Nat \ {0}
    BY <1>0, <2>1, FrameTypes
  <2>2. Len(vertex_edges[G!Top.vertex]) = 0
    BY <1>1, <2>3 DEF NoEdges
  <2> QED
    BY <1>5, <2>2, <2>3 DEF G!VisitNeighbor
<1>6. CASE G!Return
  <2>0. frames # <<>> /\ Len(frames) = 1
    BY <1>3, <1>6 DEF G!Return
  <2>7. G!Top = frames[1] /\ 1 \in Depth
    BY <2>0 DEF G!Top, Depth
  <2>1. G!Top.vertex = root + 1 /\ root + 1 \in G!Vertex
    BY <1>0, <1>3, <2>0, <2>7, FrameTypes
  <2>2. /\ frames' = G!Below /\ finished' = Append(finished, root + 1)
        /\ root' = root /\ result' = result
    BY <1>6, <2>1 DEF G!Return
  <2>3. Len(G!Below) = 0 /\ G!Below \in Seq(G!Frame)
    BY <1>0, <2>0, BelowFrames
  <2>4. frames' = <<>>
    BY <2>2, <2>3
  <2>5. Len(finished') = V - root
    BY <1>2, <1>3, <2>0, <2>1, <2>2
  <2>6. ASSUME NEW a \in 1..Len(finished') PROVE finished'[a] = V + 1 - a
    BY <1>2, <1>3, <2>0, <2>1, <2>2, <2>5, <2>6
  <2> QED
    BY <1>3, <2>2, <2>4, <2>5, <2>6
<1>7. CASE G!Finish
  BY <1>3, <1>7 DEF G!Finish
<1>8. CASE UNCHANGED G!vars
  BY <1>3, <1>8 DEF G!vars
<1> QED
  BY <1>4, <1>5, <1>6, <1>7, <1>8 DEF G!Next

(* A graph without edges keeps its order.                                   *)
LEMMA NoEdgesKeepsOrder ==
  ASSUME Searching, RootByRoot, NoEdges, result = "sorted"
  PROVE  /\ DOMAIN G!sorted_indices = 1..Len(vertex_edges)
         /\ \A k \in 1..Len(vertex_edges) : G!sorted_indices[k] = k
<1> DEFINE V == Len(vertex_edges)
<1>1. G!TypeOK /\ V \in Nat /\ Len(finished) = V - root /\ root = 0
  BY FrameTypes DEF Searching, RootsAreVisited, RootByRoot
<1>2. \A a \in 1..V : finished[a] = V + 1 - a
  BY <1>1 DEF RootByRoot
<1>3. Len(finished) = V
  BY <1>1
<1> HIDE DEF V
<1>4. DOMAIN G!sorted_indices = 1..V
  BY <1>3 DEF G!sorted_indices
<1>5. ASSUME NEW k \in 1..V PROVE G!sorted_indices[k] = k
  <2>1. V + 1 - k \in 1..V /\ V + 1 - (V + 1 - k) = k
    BY <1>1
  <2> QED
    BY <1>2, <1>3, <2>1 DEF G!sorted_indices
<1> QED
  BY <1>4, <1>5 DEF V

-----------------------------------------------------------------------------
(* apply_permutation puts every item where the order wants it, for every   *)
(* number of items and every permutation.                                  *)
(*                                                                         *)
(* A place k is done when order[k] = k.  Between two cycles a place that   *)
(* is not done holds its own item and wants one whose place is not done    *)
(* either (Untouched).  Within a cycle that is so but for two places: the  *)
(* first, i, which is done although its item has not arrived at its place  *)
(* yet, and the current one, which holds item i (Moving).                  *)
Open(k) == order[k] # k

Untouched == \A k \in P!Index : Open(k) => items[k] = k /\ Open(target[k])

Moving ==
  /\ Open(current)
  /\ ~Open(i)
  /\ items[current] = i
  /\ \A k \in P!Index :
       Open(k) => /\ k # current => items[k] = k
                  /\ Open(target[k]) \/ target[k] = i
                  /\ target[k] # current

Permuting ==
  /\ P!TypeOK
  /\ \A k \in P!Index : order[k] = k \/ order[k] = target[k]
  /\ \A k \in P!Index : ~Open(k) => items[k] = target[k]
  /\ \A k \in 1..(i - 1) : ~Open(k)
  /\ inner => i \in P!Index /\ current \in P!Index
  /\ ~inner \/ current = i => Untouched
  /\ inner /\ current # i => Moving

(* A permutation is a sequence.                                             *)
LEMMA PermutationIsSeq ==
  ASSUME NEW n \in Nat, NEW p \in P!Permutation(n)
  PROVE  /\ p \in Seq(Nat) /\ Len(p) = n /\ DOMAIN p = 1..n
         /\ p \in [1..n -> 1..n]
         /\ \A j, k \in 1..n : p[j] = p[k] => j = k
<1>1. p \in [1..n -> 1..n] /\ \A j, k \in 1..n : p[j] = p[k] => j = k
  BY DEF P!Permutation
<1> QED
  BY <1>1

(* What is done to "items" keeps it a permutation: first the identity.      *)
LEMMA IdentityIsPermutation ==
  ASSUME NEW n \in Nat PROVE [k \in 1..n |-> k] \in P!Permutation(n)
<1> DEFINE identity == [k \in 1..n |-> k]
<1>1. identity \in [1..n -> 1..n] /\ \A j, k \in 1..n : identity[j] = identity[k] => j = k
  OBVIOUS
<1> QED
  BY <1>1 DEF P!Permutation

(* The invariant holds of the arguments.                                    *)
LEMMA InitPermuting == P!Init => Permuting
<1> SUFFICES ASSUME NEW n \in Nat, NEW p \in P!Permutation(n), P!InitOn(p) PROVE Permuting
  BY DEF P!Init
<1>1. /\ p \in [1..n -> 1..n] /\ Len(p) = n /\ DOMAIN p = 1..n /\ P!Index = 1..n
      /\ \A j, k \in 1..n : p[j] = p[k] => j = k
  BY PermutationIsSeq DEF P!InitOn, P!Index
<1>2. /\ target = p /\ order = p /\ i = 1 /\ current = 0 /\ inner = FALSE
      /\ items = [k \in 1..n |-> k]
  BY <1>1 DEF P!InitOn
<1>3. P!TypeOK
  <2>1. p \in Seq(Nat) /\ items \in P!Permutation(n)
    BY <1>1, <1>2, IdentityIsPermutation, PermutationIsSeq
  <2>2. i \in 1..(n + 1)
    BY <1>2
  <2>5. inner \in BOOLEAN
    BY <1>2
  <2>3. Len(target) = n /\ target \in P!Permutation(Len(target))
    BY <1>1, <1>2
  <2>4. order \in [P!Index -> P!Index] /\ current \in P!Index \cup {0}
    BY <1>1, <1>2
  <2> QED
    BY <1>2, <2>1, <2>2, <2>3, <2>4, <2>5 DEF P!TypeOK
<1>4. Untouched
  BY <1>1, <1>2 DEF Untouched, Open
<1>5. \A k \in P!Index : ~Open(k) => items[k] = target[k]
  BY <1>1, <1>2 DEF Open
<1> QED
  BY <1>1, <1>2, <1>3, <1>4, <1>5 DEF Permuting

(* And when a caller calls it.                                              *)
LEMMA CallPermuting ==
  ASSUME NEW n \in Nat, NEW p \in P!Permutation(n), P!CallOn(p)
  PROVE  Permuting'
<1>1. /\ p \in [1..n -> 1..n] /\ Len(p) = n /\ DOMAIN p = 1..n /\ P!Index' = 1..n
      /\ \A j, k \in 1..n : p[j] = p[k] => j = k
  BY PermutationIsSeq DEF P!CallOn, P!Index
<1>2. /\ target' = p /\ order' = p /\ i' = 1 /\ current' = 0 /\ inner' = FALSE
      /\ items' = [k \in 1..n |-> k]
  BY <1>1 DEF P!CallOn
<1>3. P!TypeOK'
  <2>1. p \in Seq(Nat) /\ items' \in P!Permutation(n)
    BY <1>1, <1>2, IdentityIsPermutation, PermutationIsSeq
  <2>2. i' \in 1..(n + 1)
    BY <1>2
  <2>3. Len(target') = n /\ target' \in P!Permutation(Len(target'))
    BY <1>1, <1>2
  <2>4. order' \in [P!Index' -> P!Index'] /\ current' \in P!Index' \cup {0}
    BY <1>1, <1>2
  <2>5. inner' \in BOOLEAN
    BY <1>2
  <2> QED
    BY <1>2, <2>1, <2>2, <2>3, <2>4, <2>5 DEF P!TypeOK
<1>4. Untouched'
  BY <1>1, <1>2 DEF Untouched, Open
<1>5. \A k \in P!Index' : ~Open(k)' => items'[k] = target'[k]
  BY <1>1, <1>2 DEF Open
<1> QED
  BY <1>1, <1>2, <1>3, <1>4, <1>5 DEF Permuting

(* Swapping two items of a permutation gives a permutation.                 *)
LEMMA SwapIsPermutation ==
  ASSUME NEW n \in Nat, NEW p \in P!Permutation(n), NEW j \in 1..n, NEW k \in 1..n
  PROVE  [p EXCEPT ![j] = p[k], ![k] = p[j]] \in P!Permutation(n)
<1> DEFINE q == [p EXCEPT ![j] = p[k], ![k] = p[j]]
<1>1. q \in [1..n -> 1..n]
  BY DEF P!Permutation
<1>2. ASSUME NEW x \in 1..n, NEW y \in 1..n, q[x] = q[y]
      PROVE  x = y
  BY <1>2, SMTT(30) DEF P!Permutation
<1> QED
  BY <1>1, <1>2 DEF P!Permutation

(* Every step preserves it.                                                 *)
LEMMA NextPermuting == Permuting /\ [P!Next]_(P!vars) => Permuting'
<1> SUFFICES ASSUME Permuting, [P!Next]_(P!vars) PROVE Permuting'
  OBVIOUS
<1>a. Len(target) \in Nat /\ P!Index = 1..Len(target)
  BY DEF Permuting, P!TypeOK, P!Index
<1>b. target' = target /\ P!Index' = P!Index
  BY DEF P!Next, P!StartCycle, P!SwapNext, P!EndCycle, P!vars, P!Index
<1>0. /\ target \in [P!Index -> P!Index]
      /\ \A j, k \in P!Index : target[j] = target[k] => j = k
      /\ items \in [P!Index -> P!Index]
      /\ order \in [P!Index -> P!Index]
  BY <1>a DEF Permuting, P!TypeOK, P!Permutation
<1>1. CASE P!StartCycle
  <2>1. i \in P!Index
    BY <1>a, <1>b, <1>1 DEF P!StartCycle, Permuting, P!TypeOK, P!Index
  <2> QED
    BY <1>a, <1>b, <1>1, <2>1 DEF P!StartCycle, Permuting, P!TypeOK, Open, Untouched
<1>2. CASE P!SwapNext
  <2> DEFINE n == order[current]
  <2>0. inner /\ n # i /\ current \in P!Index /\ i \in P!Index /\ n \in P!Index
    BY <1>a, <1>b, <1>0, <1>2 DEF P!SwapNext, Permuting
  <2>1. Open(current)
    BY <1>a, <1>b, <2>0 DEF Permuting, Moving, Open
  <2>2. n = target[current] /\ n # current
    BY <1>a, <1>b, <2>0, <2>1 DEF Permuting, Open
  <2>3. Open(n) /\ items[n] = n
    BY <1>a, <1>b, <2>0, <2>1, <2>2 DEF Permuting, Moving, Untouched
  <2>4. items[current] = i
    BY <1>a, <1>b, <2>0, <2>1 DEF Permuting, Moving, Untouched
  <2>5. /\ order' = [order EXCEPT ![current] = current]
        /\ items' = [items EXCEPT ![current] = n, ![n] = i]
        /\ current' = n
        /\ UNCHANGED <<target, i, inner>>
    BY <1>a, <1>b, <1>2, <2>3, <2>4 DEF P!SwapNext
  <2> HIDE DEF n
  <2>6. items' \in P!Permutation(Len(target))
    BY <1>a, <1>b, <1>2, <2>0, SwapIsPermutation DEF P!SwapNext, Permuting, P!TypeOK
  <2>7. P!TypeOK'
    BY <1>a, <1>b, <1>0, <2>0, <2>5, <2>6 DEF Permuting, P!TypeOK
  <2>8. \A k \in P!Index : (Open(k)' <=> Open(k) /\ k # current)
    BY <1>a, <1>b, <1>0, <2>0, <2>5 DEF Open
  <2>9. \A k \in P!Index : items'[k] = IF k = n THEN i ELSE IF k = current THEN n ELSE items[k]
    BY <1>a, <1>b, <1>0, <2>0, <2>5
  <2>10. \A k \in P!Index : order'[k] = k \/ order'[k] = target'[k]
    BY <1>a, <1>b, <1>0, <2>0, <2>5 DEF Permuting
  <2>11. \A k \in P!Index : ~Open(k)' => items'[k] = target'[k]
    <3> SUFFICES ASSUME NEW k \in P!Index, ~Open(k)' PROVE items'[k] = target[k]
      BY <1>b
    <3>1. CASE k = current
      BY <2>2, <2>9, <3>1
    <3>2. CASE k # current
      <4>1. ~Open(k) /\ k # n
        BY <2>3, <2>8, <3>2
      <4> QED
        BY <2>9, <3>2, <4>1 DEF Permuting
    <3> QED
      BY <3>1, <3>2
  <2>12. \A k \in 1..(i' - 1) : ~Open(k)'
    BY <1>a, <1>b, <2>0, <2>5, <2>8 DEF Permuting, P!TypeOK, P!Index
  <2>13. ~Open(i)
           \/ current = i
    BY <1>a, <1>b, <2>0 DEF Permuting, Moving
  <2>14. Moving'
    <3>1. Open(current)' /\ ~Open(i)' /\ items'[current'] = i'
      BY <1>a, <1>b, <2>0, <2>2, <2>3, <2>5, <2>8, <2>9, <2>13, ZenonT(30) DEF Open
    <3>2. ASSUME NEW k \in P!Index, Open(k)'
          PROVE  /\ k # current' => items'[k] = k
                 /\ Open(target[k])' \/ target[k] = i
                 /\ target[k] # current'
      <4>1. Open(k) /\ k # current
        BY <1>a, <1>b, <2>8, <3>2
      <4>2. k # current' => items'[k] = k
        BY <1>a, <1>b, <2>0, <2>5, <2>9, <4>1 DEF Permuting, Moving, Untouched
      <4>3. target[k] # n
        BY <1>a, <1>b, <1>0, <2>0, <2>2, <4>1
      <4>4. (Open(target[k]) \/ target[k] = i) /\ (target[k] = current => current = i)
        BY <1>a, <1>b, <2>0, <4>1 DEF Permuting, Moving, Untouched
      <4> QED
        BY <1>a, <1>b, <1>0, <2>5, <2>8, <4>2, <4>3, <4>4
    <3> QED
      BY <1>a, <1>b, <2>5, <3>1, <3>2 DEF Moving
  <2> QED
    BY <1>a, <1>b, <2>0, <2>5, <2>7, <2>10, <2>11, <2>12, <2>14 DEF Permuting
<1>3. CASE P!EndCycle
  <2>0. inner /\ order[current] = i /\ current \in P!Index /\ i \in P!Index
    BY <1>a, <1>b, <1>3 DEF P!EndCycle, Permuting
  <2>1. /\ order' = [order EXCEPT ![current] = current]
        /\ i' = i + 1
        /\ inner' = FALSE
        /\ UNCHANGED <<target, items, current>>
    BY <1>a, <1>b, <1>3 DEF P!EndCycle
  <2>2. \A k \in P!Index : (Open(k)' <=> Open(k) /\ k # current)
    BY <1>a, <1>b, <1>0, <2>0, <2>1 DEF Open
  <2>3. order'[i] = i
    BY <1>a, <1>b, <1>0, <2>0, <2>1, <2>2 DEF Permuting, Moving, Open
  <2>4. P!TypeOK'
    <3>1. order' \in [P!Index -> P!Index]
      BY <1>0, <2>0, <2>1
    <3>2. i' \in 1..(Len(target) + 1)
      BY <1>a, <2>0, <2>1
    <3> QED
      BY <1>a, <1>b, <2>1, <3>1, <3>2 DEF Permuting, P!TypeOK
  <2>5. \A k \in P!Index : order'[k] = k \/ order'[k] = target'[k]
    BY <1>a, <1>b, <1>0, <2>0, <2>1 DEF Permuting
  <2>6. items[current] = target[current]
    BY <1>a, <1>b, <2>0 DEF Permuting, Moving, Open
  <2>7. \A k \in P!Index : ~Open(k)' => items'[k] = target'[k]
    BY <1>a, <1>b, <2>1, <2>2, <2>6 DEF Permuting
  <2>8. \A k \in 1..(i' - 1) : ~Open(k)'
    <3> SUFFICES ASSUME NEW k \in 1..i PROVE ~Open(k)'
      BY <1>a, <2>0, <2>1
    <3>1. CASE k = i
      BY <2>3, <3>1 DEF Open
    <3>2. CASE k # i
      BY <1>a, <2>0, <2>2, <3>2 DEF Permuting
    <3> QED
      BY <3>1, <3>2
  <2>9. Untouched'
    <3> SUFFICES ASSUME NEW k \in P!Index, Open(k)' PROVE items[k] = k /\ Open(target[k])'
      BY <1>a, <1>b, <2>1 DEF Untouched
    <3>1. Open(k) /\ k # current
      BY <1>a, <1>b, <2>2
    <3>2. CASE current = i
      BY <1>a, <1>b, <1>0, <2>0, <2>1, <2>2, <3>1, <3>2 DEF Permuting, Untouched, Open
    <3>3. CASE current # i
      <4>1. target[current] = i
        BY <1>a, <1>b, <2>0, <3>3 DEF Permuting, Moving, Open
      <4>2. target[k] # i
        BY <1>a, <1>b, <1>0, <2>0, <3>1, <4>1
      <4> QED
        BY <1>a, <1>b, <1>0, <2>0, <2>2, <3>1, <3>3, <4>2 DEF Permuting, Moving
    <3> QED
      BY <1>a, <1>b, <3>2, <3>3
  <2> QED
    BY <1>a, <1>b, <2>1, <2>4, <2>5, <2>7, <2>8, <2>9 DEF Permuting
<1>4. CASE UNCHANGED P!vars
  BY <1>a, <1>b, <1>4 DEF P!vars, Permuting, P!TypeOK, Open, Untouched, Moving
<1> QED
  BY <1>a, <1>b, <1>1, <1>2, <1>3, <1>4 DEF P!Next

LEMMA PermutingAlways == P!Spec => []Permuting
BY InitPermuting, NextPermuting, PTL DEF P!Spec

(* At the end the items are where "order" wanted them.                      *)
LEMMA ResultIsOrdered == Permuting => P!ItemsAsOrdered
BY DEF Permuting, P!TypeOK, P!ItemsAsOrdered, P!Done, P!Index, P!Permutation

(* Each place ends up with the item that "order" named for it.              *)
THEOREM AllItemsAsOrdered == P!Spec => []P!ItemsAsOrdered
BY ResultIsOrdered, PermutingAlways, PTL

(* What a cycle has placed no later cycle moves.                            *)
THEOREM PlacedIsFinal == P!Spec => []P!PlacedStaysPlaced
<1>1. Permuting => P!PlacedStaysPlaced
  BY DEF Permuting, P!TypeOK, P!PlacedStaysPlaced, P!Index, Open
<1> QED
  BY <1>1, PermutingAlways, PTL

-----------------------------------------------------------------------------
(* The keys under which a migration is in the lookup table.                 *)
Keys(m) == {ByAppAndName(m)} \cup {ByAppAndModel(m, m.creates[k]) : k \in DOMAIN m.creates}

Onto(p, f, n) ==
  /\ p \in [1..f -> 1..n]
  /\ \A j, k \in 1..f : p[j] = p[k] => j = k
  /\ \A k \in 1..n : \E j \in 1..f : p[j] = k

Bijective(p, n) ==
  /\ p \in [1..n -> 1..n]
  /\ \A j, k \in 1..n : p[j] = p[k] => j = k
  /\ \A k \in 1..n : \E j \in 1..n : p[j] = k

N == Len(input)

Rearranged == \E p : Bijective(p, N) /\ migrations = Permuted(input, p)

SortedByName ==
  \A j, k \in 1..N : j < k => ~Before(migrations[k], migrations[j])

LookupTo(n) ==
  /\ \A key \in DOMAIN lookup : lookup[key] \in 1..n /\ key \in Keys(migrations[lookup[key]])
  /\ \A j \in 1..n : \A key \in Keys(migrations[j]) : key \in DOMAIN lookup /\ lookup[key] = j
  /\ \A j \in 1..n : \A a, b \in DOMAIN migrations[j].creates :
       migrations[j].creates[a] = migrations[j].creates[b] => a = b

ResolvedTo(n) == \A k \in 1..n : DependenciesOf(k) \subseteq DOMAIN lookup

(* v is listed in s; w depends on v.                                        *)
Lists(s, v) == \E e \in 1..Len(s) : s[e] = v
Needs(w, v) == \E d \in DependenciesOf(w) : lookup[d] = v

EdgesTo(n) ==
  /\ vertex_edges \in Seq(Seq(1..N))
  /\ Len(vertex_edges) = N
  /\ \A v, w \in 1..N : Lists(vertex_edges[v], w) <=> w <= n /\ Needs(w, v)

Where ==
  /\ pc \in {"sort", "create_lookup_table", "add_edges", "toposort", "apply", "sorted", "failed"}
  /\ pc \in {"sort", "create_lookup_table", "add_edges"} => result = "running" /\ at \in 1..(N + 1)
  /\ pc = "sort" => at = 1 /\ lookup = <<>>
  /\ pc \in {"create_lookup_table", "add_edges", "toposort", "apply"} => SortedByName
  /\ pc = "create_lookup_table" => LookupTo(at - 1)
  /\ pc \in {"add_edges", "toposort", "apply"} => LookupTo(N)
  /\ pc = "add_edges" => EdgesTo(at - 1) /\ ResolvedTo(at - 1)
  /\ pc \in {"toposort", "apply"} => EdgesTo(N) /\ ResolvedTo(N) /\ RootByRoot
  /\ pc \in {"toposort", "apply", "sorted"} => Searching
  /\ pc = "apply" => result = "sorted" /\ Permuting /\ target = G!sorted_indices
  /\ error # "none" <=> pc = "failed"

IInv ==
  /\ input \in Seq(Migration)
  /\ Rearranged
  /\ Where
  /\ result = "running" \/ Searching
  /\ DependenciesFirst
  /\ RefusedForAReason
  /\ IndependentByName

-----------------------------------------------------------------------------
(* Facts about numbers and rearrangements.                                  *)
LEMMA Least ==
  ASSUME NEW S, S \subseteq Nat, S # {}
  PROVE  \E m \in S : \A k \in S : m <= k
<1> DEFINE R == {ss \in Nat \X Nat : ss[1] < ss[2]}
<1>1. IsWellFoundedOn(R, Nat)
  BY NatLessThanWellFounded DEF OpToRel
<1>2. \A x, y \in Nat : <<x, y>> \in R <=> x < y
  OBVIOUS
<1> HIDE DEF R
<1>3. PICK m \in S : \A k \in S : <<k, m>> \notin R
  BY <1>1, WFMin
<1>4. \A k \in S : ~(k < m)
  BY <1>2, <1>3
<1> QED
  BY <1>4

(* One-to-one on 1..n is also onto it.                                      *)
LEMMA InjectiveIsBijective ==
  ASSUME NEW n \in Nat, NEW p \in [1..n -> 1..n],
         \A j, k \in 1..n : p[j] = p[k] => j = k
  PROVE  Bijective(p, n)
<1>1. IsFiniteSet(1..n)
  BY FS_Interval
<1>2. p \in Injection(1..n, 1..n)
  BY DEF Injection, IsInjective
<1>3. p \in Surjection(1..n, 1..n)
  BY <1>1, <1>2, FS_Injection
<1> QED
  BY <1>3 DEF Surjection, Bijective

(* One-to-one from 1..f onto 1..n: as many.                                 *)
LEMMA BijectionLength ==
  ASSUME NEW f \in Nat, NEW n \in Nat, NEW p, Onto(p, f, n) PROVE f = n
<1>1. IsFiniteSet(1..n) /\ Cardinality(1..n) = n /\ Cardinality(1..f) = f
  BY FS_Interval
<1>2. p \in Injection(1..f, 1..n)
  BY DEF Onto, Injection, IsInjective
<1>3. p \in Surjection(1..f, 1..n)
  BY DEF Onto, Surjection
<1> QED
  BY <1>1, <1>2, <1>3, FS_Injection

(* Rearranging twice is rearranging.                                        *)
LEMMA RearrangedTwice ==
  ASSUME NEW n \in Nat, NEW list, DOMAIN list = 1..n, NEW p, NEW q, Bijective(p, n), Bijective(q, n)
  PROVE  \E r : /\ Bijective(r, n)
                /\ Permuted(Permuted(list, p), q) = Permuted(list, r)
                /\ \A k \in 1..n : r[k] = p[q[k]]
<1> DEFINE r == [k \in 1..n |-> p[q[k]]]
<1>1. p \in [1..n -> 1..n] /\ q \in [1..n -> 1..n]
  BY DEF Bijective
<1>2. r \in [1..n -> 1..n]
  BY <1>1
<1>3. \A j, k \in 1..n : r[j] = r[k] => j = k
  BY <1>1 DEF Bijective
<1>4. Bijective(r, n)
  BY <1>2, <1>3, InjectiveIsBijective
<1>5. Permuted(Permuted(list, p), q) = Permuted(list, r)
  BY <1>1 DEF Permuted
<1>6. \A k \in 1..n : r[k] = p[q[k]]
  OBVIOUS
<1> HIDE DEF r
<1> QED
  BY <1>4, <1>5, <1>6

(* A dependency names a migration or a model, never both.                   *)
LEMMA KeysDiffer ==
  /\ \A a, b, c, d : [app |-> a, name |-> b] # [app |-> c, model |-> d]
  /\ \A a, b, c, d : [app |-> a, name |-> b] = [app |-> c, name |-> d] => a = c /\ b = d
  /\ \A a, b, c, d : [app |-> a, model |-> b] = [app |-> c, model |-> d] => a = c /\ b = d
<1>1. ASSUME NEW a, NEW b, NEW c, NEW d, [app |-> a, name |-> b] = [app |-> c, model |-> d]
      PROVE  FALSE
  <2>1. DOMAIN [app |-> a, name |-> b] = {"app", "name"}
    OBVIOUS
  <2>2. DOMAIN [app |-> c, model |-> d] = {"app", "model"}
    OBVIOUS
  <2> QED
    BY <1>1, <2>1, <2>2
<1>2. ASSUME NEW a, NEW b, NEW c, NEW d, [app |-> a, name |-> b] = [app |-> c, name |-> d]
      PROVE  a = c /\ b = d
  BY <1>2
<1>3. ASSUME NEW a, NEW b, NEW c, NEW d, [app |-> a, model |-> b] = [app |-> c, model |-> d]
      PROVE  a = c /\ b = d
  BY <1>3
<1> QED
  BY <1>1, <1>2, <1>3

LEMMA ProvidesIsKey == \A m, d : Provides(m, d) <=> d \in Keys(m)
BY DEF Provides, Keys

-----------------------------------------------------------------------------
(* The input and the list, as sequences.                                    *)
LEMMA ListTypes ==
  ASSUME input \in Seq(Migration), Rearranged
  PROVE  /\ N \in Nat /\ DOMAIN input = 1..N /\ DOMAIN migrations = 1..N
         /\ Len(migrations) = N
         /\ \A k \in 1..N : input[k] \in Migration /\ migrations[k] \in Migration
<1>1. N \in Nat /\ DOMAIN input = 1..N /\ \A k \in 1..N : input[k] \in Migration
  BY DEF N
<1>2. PICK p : Bijective(p, N) /\ migrations = Permuted(input, p)
  BY DEF Rearranged
<1>3. p \in [1..N -> 1..N] /\ migrations = [k \in 1..N |-> input[p[k]]]
  BY <1>1, <1>2 DEF Bijective, Permuted
<1>4. migrations \in [1..N -> Migration]
  BY <1>1, <1>3
<1>5. migrations \in Seq(Migration) /\ Len(migrations) = N
  BY <1>1, <1>4
<1> QED
  BY <1>1, <1>4, <1>5

LEMMA MigrationFields ==
  ASSUME NEW m \in Migration
  PROVE  /\ m.app \in Nat /\ m.name \in Nat
         /\ m.dependencies \in Seq(Lookup) /\ m.creates \in Seq(Model)
         /\ Len(m.dependencies) \in Nat /\ DOMAIN m.dependencies = 1..Len(m.dependencies)
         /\ DOMAIN m.creates = 1..Len(m.creates) /\ Len(m.creates) \in Nat
<1>1. /\ m.app \in App /\ m.name \in Name
      /\ m.dependencies \in Seq(Lookup) /\ m.creates \in Seq(Model)
  BY DEF Migration
<1>2. m.app \in Nat /\ m.name \in Nat
  BY <1>1, NamesAreOrdered
<1>3. /\ Len(m.dependencies) \in Nat /\ DOMAIN m.dependencies = 1..Len(m.dependencies)
      /\ DOMAIN m.creates = 1..Len(m.creates) /\ Len(m.creates) \in Nat
  BY <1>1
<1> QED
  BY <1>1, <1>2, <1>3

LEMMA InitIInv == Init => IInv
<1> SUFFICES ASSUME Init PROVE IInv
  OBVIOUS
<1>1. input \in Seq(Migration) /\ N \in Nat /\ DOMAIN input = 1..N
  BY InputsType DEF Init, N
<1>2. Rearranged
  <2> DEFINE p == [k \in 1..N |-> k]
  <2>1. p \in [1..N -> 1..N] /\ \A j, k \in 1..N : p[j] = p[k] => j = k
    BY <1>1
  <2>2. Bijective(p, N)
    BY <1>1, <2>1, InjectiveIsBijective
  <2>3. migrations = Permuted(input, p)
    BY <1>1 DEF Init, Permuted
  <2> QED
    BY <2>2, <2>3 DEF Rearranged
<1>3. result = "running"
  BY DEF Init, G!InitOn
<1>4. Where
  BY <1>1, <1>3 DEF Init, Where
<1>5. DependenciesFirst /\ RefusedForAReason /\ IndependentByName
  BY DEF Init, DependenciesFirst, RefusedForAReason, IndependentByName
<1> QED
  BY <1>1, <1>2, <1>3, <1>4, <1>5 DEF IInv

(* A step within a function: what is promised of the end is not due yet.    *)
LEMMA NotYetDue ==
  ASSUME pc' \notin {"sorted", "failed"}, error' = "none"
  PROVE  (DependenciesFirst /\ RefusedForAReason /\ IndependentByName)'
BY DEF DependenciesFirst, RefusedForAReason, IndependentByName

(* What a step leaves alone.                                                *)
LEMMA GraphKept ==
  ASSUME UNCHANGED graph
  PROVE  /\ Searching => Searching'
         /\ Searching /\ RootByRoot => RootByRoot'
BY NextSearching, NextRootByRoot DEF graph, G!vars

LEMMA PermutationKept ==
  ASSUME UNCHANGED permutation, Permuting PROVE Permuting'
BY NextPermuting DEF permutation, P!vars

(* A refusal has to give its reason.                                        *)
LEMMA Refused ==
  ASSUME IInv, pc' = "failed", UNCHANGED <<input, migrations, graph>>, error' # "none",
         error' \in {"DuplicateMigration", "DuplicateModel", "InvalidDependency", "CycleDetected"},
         error' \in {"DuplicateMigration", "DuplicateModel"} => Duplicate(error)',
         error' = "InvalidDependency" => Unresolved',
         error' = "CycleDetected" => Cyclic'
  PROVE  IInv'
<1>1. DependenciesFirst' /\ IndependentByName'
  BY DEF DependenciesFirst, IndependentByName
<1>2. RefusedForAReason'
  BY DEF RefusedForAReason
<1>3. input' \in Seq(Migration) /\ Rearranged'
  BY DEF IInv, Rearranged, N
<1>4. Where'
  BY DEF Where
<1>5. (result = "running" \/ Searching)'
  BY GraphKept DEF IInv, graph
<1> QED
  BY <1>1, <1>2, <1>3, <1>4, <1>5 DEF IInv

LEMMA Places ==
  ASSUME input \in Seq(Migration), Rearranged
  PROVE  \E p : /\ Bijective(p, N) /\ migrations = Permuted(input, p)
                /\ \A k \in 1..N : p[k] \in 1..N /\ migrations[k] = input[p[k]]
                /\ \A j, k \in 1..N : p[j] = p[k] => j = k
                /\ \A k \in 1..N : \E j \in 1..N : p[j] = k
<1>1. PICK p : Bijective(p, N) /\ migrations = Permuted(input, p)
  BY DEF Rearranged
<1>2. p \in [1..N -> 1..N] /\ DOMAIN input = 1..N
  BY <1>1, ListTypes DEF Bijective
<1>3. \A k \in 1..N : p[k] \in 1..N /\ migrations[k] = input[p[k]]
  BY <1>1, <1>2 DEF Permuted
<1> QED
  BY <1>1, <1>3 DEF Bijective

LEMMA SortByNameIInv == ASSUME IInv, SortByName PROVE IInv'
<1>0. /\ pc = "sort" /\ pc' = "create_lookup_table"
      /\ UNCHANGED <<input, lookup, at, error, graph, permutation>>
  BY DEF SortByName
<1>1. /\ N \in Nat /\ DOMAIN input = 1..N /\ DOMAIN migrations = 1..N
      /\ \A k \in 1..N : migrations[k] \in Migration
  BY ListTypes DEF IInv
<1>2. PICK p \in StableSorts(migrations) : migrations' = Permuted(migrations, p)
  BY DEF SortByName
<1>3. p \in [1..N -> 1..N]
  BY <1>1, <1>2 DEF StableSorts
<1>4. \A j, k \in 1..N : j < k =>
        \/ Before(migrations[p[j]], migrations[p[k]])
        \/ ~Before(migrations[p[k]], migrations[p[j]]) /\ p[j] < p[k]
  BY <1>1, <1>2 DEF StableSorts
<1>5. ASSUME NEW m \in Migration, NEW n \in Migration, Before(m, n) PROVE ~Before(n, m)
  BY <1>5, MigrationFields DEF Before
<1>6. ASSUME NEW j \in 1..N, NEW k \in 1..N, j < k
      PROVE  p[j] # p[k] /\ ~Before(migrations[p[k]], migrations[p[j]])
  <2>1. /\ p[j] \in 1..N /\ p[k] \in 1..N
        /\ migrations[p[j]] \in Migration /\ migrations[p[k]] \in Migration
    BY <1>1, <1>3
  <2>2. CASE Before(migrations[p[j]], migrations[p[k]])
    BY <1>5, <2>1, <2>2
  <2>3. CASE ~Before(migrations[p[k]], migrations[p[j]]) /\ p[j] < p[k]
    BY <1>1, <2>1, <2>3
  <2> QED
    BY <1>4, <1>6, <2>2, <2>3
<1>7. Bijective(p, N)
  <2>1. ASSUME NEW j \in 1..N, NEW k \in 1..N, p[j] = p[k] PROVE j = k
    BY <1>1, <1>6, <2>1
  <2> QED
    BY <1>1, <1>3, <2>1, InjectiveIsBijective
<1>8. Rearranged'
  <2>1. PICK q : Bijective(q, N) /\ migrations = Permuted(input, q)
    BY DEF IInv, Rearranged
  <2>2. PICK r : Bijective(r, N) /\ Permuted(Permuted(input, q), p) = Permuted(input, r)
    BY <1>1, <1>7, <2>1, RearrangedTwice
  <2>3. Bijective(r, N) /\ migrations' = Permuted(input, r)
    BY <1>2, <2>1, <2>2
  <2> QED
    BY <1>0, <2>3 DEF Rearranged, N
<1>9. SortedByName'
  <2>1. \A k \in 1..N : migrations'[k] = migrations[p[k]]
    BY <1>1, <1>2 DEF Permuted
  <2>2. \A j, k \in 1..N : j < k => ~Before(migrations'[k], migrations'[j])
    BY <1>6, <2>1
  <2> QED
    BY <1>0, <2>2 DEF SortedByName, N, Before
<1>10. LookupTo(0)'
  BY <1>0 DEF LookupTo, IInv, Where
<1>11. result' = "running" /\ at' = 1 /\ error' = "none"
  BY <1>0 DEF IInv, Where, graph
<1>12. Where'
  BY <1>0, <1>1, <1>9, <1>10, <1>11 DEF Where, N
<1> QED
  BY <1>0, <1>8, <1>11, <1>12, NotYetDue DEF IInv

(* A key that is in the table is that of a migration before.                *)
LEMMA Clash ==
  ASSUME IInv, pc = "create_lookup_table", at <= N, NEW key \in Keys(migrations[at]),
         key \in DOMAIN lookup
  PROVE  \E j, k \in 1..N : /\ j # k
                            /\ key \in Keys(input[j]) /\ key \in Keys(input[k])
                            /\ input[k] = migrations[at]
<1>1. N \in Nat /\ at \in 1..N
  BY ListTypes DEF IInv, Where
<1>2. PICK p : /\ \A k \in 1..N : p[k] \in 1..N /\ migrations[k] = input[p[k]]
               /\ \A j, k \in 1..N : p[j] = p[k] => j = k
  BY Places DEF IInv
<1> DEFINE b == lookup[key]
<1>3. b \in 1..(at - 1) /\ key \in Keys(migrations[b])
  BY DEF IInv, Where, LookupTo
<1> HIDE DEF b
<1>4. b \in 1..N /\ b # at
  BY <1>1, <1>3
<1>5. /\ p[b] \in 1..N /\ p[at] \in 1..N /\ p[b] # p[at]
      /\ key \in Keys(input[p[b]]) /\ key \in Keys(input[p[at]]) /\ input[p[at]] = migrations[at]
  BY <1>1, <1>2, <1>3, <1>4
<1> QED
  BY <1>5

LEMMA DuplicateModel ==
  ASSUME DOMAIN input = 1..N, NEW j \in 1..N, NEW k \in 1..N, input[j].app = input[k].app,
         NEW a \in DOMAIN input[j].creates, NEW b \in DOMAIN input[k].creates,
         j # k \/ a # b, input[j].creates[a] = input[k].creates[b]
  PROVE  Duplicate("DuplicateModel")
<1>1. <<j, a>> # <<k, b>>
  OBVIOUS
<1>2. \E x \in DOMAIN input[j].creates, y \in DOMAIN input[k].creates :
        <<j, x>> # <<k, y>> /\ input[j].creates[x] = input[k].creates[y]
  BY <1>1
<1> QED
  BY <1>2 DEF Duplicate

LEMMA EnterIInv == ASSUME IInv, Enter PROVE IInv'
<1> DEFINE m == migrations[at]
           models == {ByAppAndModel(m, m.creates[k]) : k \in DOMAIN m.creates}
<1>0. /\ pc = "create_lookup_table" /\ at <= N
      /\ UNCHANGED <<input, migrations, graph, permutation>>
      /\ result = "running" /\ at \in 1..(N + 1) /\ error = "none"
      /\ LookupTo(at - 1) /\ SortedByName
  BY ListTypes DEF Enter, IInv, Where
<1>1. /\ N \in Nat /\ DOMAIN input = 1..N /\ DOMAIN migrations = 1..N /\ at \in 1..N
      /\ \A k \in 1..N : migrations[k] \in Migration /\ input[k] \in Migration
  BY <1>0, ListTypes DEF IInv
<1>2. Keys(m) = {ByAppAndName(m)} \cup models
  BY DEF Keys
<1>3. CASE ByAppAndName(m) \in DOMAIN lookup /\ Fail("DuplicateMigration")
  <2>1. PICK j \in 1..N, k \in 1..N :
          j # k /\ ByAppAndName(m) \in Keys(input[j]) /\ input[k] = m
    BY <1>0, <1>2, <1>3, Clash
  <2>2. ByAppAndName(input[j]) = ByAppAndName(input[k])
    BY <2>1, KeysDiffer DEF Keys, ByAppAndName, ByAppAndModel
  <2>3. Duplicate("DuplicateMigration")
    BY <1>1, <2>1, <2>2 DEF Duplicate
  <2>4. Duplicate(error)'
    BY <1>0, <1>3, <2>3 DEF Duplicate, Fail
  <2> QED
    BY <1>0, <1>3, <2>4, Refused DEF Fail
<1>4. CASE /\ \/ models \cap DOMAIN lookup # {}
              \/ \E j, k \in DOMAIN m.creates : j # k /\ m.creates[j] = m.creates[k]
           /\ Fail("DuplicateModel")
  <2>1. ASSUME models \cap DOMAIN lookup # {} PROVE Duplicate("DuplicateModel")
    <3>1. PICK b \in DOMAIN m.creates : ByAppAndModel(m, m.creates[b]) \in DOMAIN lookup
      BY <2>1
    <3>2. PICK j \in 1..N, k \in 1..N :
            j # k /\ ByAppAndModel(m, m.creates[b]) \in Keys(input[j]) /\ input[k] = m
      BY <1>0, <1>2, <3>1, Clash
    <3>3. PICK a \in DOMAIN input[j].creates :
            ByAppAndModel(input[j], input[j].creates[a]) = ByAppAndModel(m, m.creates[b])
      BY <3>2, KeysDiffer DEF Keys, ByAppAndName, ByAppAndModel
    <3>4. input[j].app = input[k].app /\ input[j].creates[a] = input[k].creates[b]
      BY <3>2, <3>3, KeysDiffer DEF ByAppAndModel
    <3> QED
      BY <1>1, <3>1, <3>2, <3>3, <3>4, DuplicateModel
  <2>2. ASSUME \E j, k \in DOMAIN m.creates : j # k /\ m.creates[j] = m.creates[k]
        PROVE  Duplicate("DuplicateModel")
    <3>1. PICK a \in DOMAIN m.creates, b \in DOMAIN m.creates :
            a # b /\ m.creates[a] = m.creates[b]
      BY <2>2
    <3>2. PICK k \in 1..N : input[k] = m
      BY <1>1, Places DEF IInv
    <3> QED
      BY <1>1, <3>1, <3>2, DuplicateModel
  <2>3. Duplicate("DuplicateModel")
    BY <1>4, <2>1, <2>2
  <2>4. Duplicate(error)'
    BY <1>0, <1>4, <2>3 DEF Duplicate, Fail
  <2> QED
    BY <1>0, <1>4, <2>4, Refused DEF Fail
<1>5. CASE /\ ByAppAndName(m) \notin DOMAIN lookup
           /\ models \cap DOMAIN lookup = {}
           /\ \A j, k \in DOMAIN m.creates : m.creates[j] = m.creates[k] => j = k
           /\ lookup' = [key \in DOMAIN lookup \cup {ByAppAndName(m)} \cup models |->
                           IF key \in DOMAIN lookup THEN lookup[key] ELSE at]
           /\ at' = at + 1
           /\ UNCHANGED <<pc, error>>
  <2>1. \A key \in Keys(m) : key \notin DOMAIN lookup
    BY <1>2, <1>5
  <2>2. DOMAIN lookup' = DOMAIN lookup \cup Keys(m)
    BY <1>2, <1>5
  <2>3. \A key \in DOMAIN lookup' :
          lookup'[key] = IF key \in DOMAIN lookup THEN lookup[key] ELSE at
    BY <1>5
  <2> HIDE DEF m, models
  <2>4. ASSUME NEW key \in DOMAIN lookup'
        PROVE  lookup'[key] \in 1..at /\ key \in Keys(migrations[lookup'[key]])
    <3>1. CASE key \in DOMAIN lookup
      <4>1. lookup'[key] = lookup[key] /\ lookup[key] \in 1..(at - 1)
            /\ key \in Keys(migrations[lookup[key]])
        BY <1>0, <2>3, <2>4, <3>1 DEF LookupTo
      <4> QED
        BY <1>1, <4>1
    <3>2. CASE key \notin DOMAIN lookup
      BY <1>1, <2>2, <2>3, <2>4, <3>2 DEF m
    <3> QED
      BY <3>1, <3>2
  <2>5. ASSUME NEW j \in 1..at, NEW key \in Keys(migrations[j])
        PROVE  key \in DOMAIN lookup' /\ lookup'[key] = j
    <3>1. CASE j = at
      BY <2>1, <2>2, <2>3, <2>5, <3>1 DEF m
    <3>2. CASE j # at
      <4>1. j \in 1..(at - 1)
        BY <1>1, <3>2
      <4> QED
        BY <1>0, <2>2, <2>3, <2>5, <4>1 DEF LookupTo
    <3> QED
      BY <3>1, <3>2
  <2>6. \A j \in 1..at : \A a, b \in DOMAIN migrations[j].creates :
          migrations[j].creates[a] = migrations[j].creates[b] => a = b
    <3>1. \A j \in 1..at : j = at \/ j \in 1..(at - 1)
      BY <1>1
    <3> QED
      BY <1>0, <1>5, <3>1 DEF LookupTo, m
  <2>7. at' - 1 = at /\ at' \in 1..(N + 1)
    BY <1>1, <1>5
  <2>8. migrations' = migrations
    BY <1>0
  <2>9. LookupTo(at - 1)'
    BY <2>4, <2>5, <2>6, <2>7, <2>8 DEF LookupTo
  <2>10. SortedByName'
    BY <1>0 DEF SortedByName, N
  <2>11. Where'
    BY <1>0, <1>5, <2>7, <2>9, <2>10 DEF Where, N, graph
  <2>12. Rearranged' /\ input' \in Seq(Migration) /\ result' = "running"
    BY <1>0 DEF IInv, Rearranged, N, graph
  <2> QED
    BY <1>0, <1>5, <2>11, <2>12, NotYetDue DEF IInv
<1> QED
  BY <1>3, <1>4, <1>5 DEF Enter

LEMMA NewGraphIInv == ASSUME IInv, NewGraph PROVE IInv'
<1>0. /\ pc = "create_lookup_table" /\ pc' = "add_edges" /\ at' = 1
      /\ UNCHANGED <<input, migrations, lookup, error, result>>
      /\ result = "running" /\ at \in 1..(N + 1) /\ at > Len(migrations) /\ error = "none"
      /\ LookupTo(at - 1) /\ SortedByName
  BY DEF NewGraph, IInv, Where
<1>1. /\ N \in Nat /\ DOMAIN migrations = 1..N /\ Len(migrations) = N
  BY ListTypes DEF IInv
<1>2. at - 1 = N /\ N' = N
  BY <1>0, <1>1 DEF N
<1>3. LookupTo(N)' /\ SortedByName'
  BY <1>0, <1>2 DEF LookupTo, SortedByName
<1>4. vertex_edges' = [k \in 1..N |-> <<>>]
  BY <1>1 DEF NewGraph
<1>5. vertex_edges' \in Seq(Seq(1..N)) /\ Len(vertex_edges') = N
  BY <1>1, <1>4
<1>6. at' - 1 = 0 /\ at' \in 1..(N + 1)
  BY <1>0, <1>1
<1>7. \A v, w \in 1..N : ~Lists(vertex_edges'[v], w) /\ ~(w <= 0)
  BY <1>4 DEF Lists
<1>8. EdgesTo(at - 1)'
  BY <1>2, <1>5, <1>6, <1>7 DEF EdgesTo, Lists
<1>9. ResolvedTo(at - 1)'
  BY <1>6 DEF ResolvedTo
<1>10. Where'
  BY <1>0, <1>2, <1>3, <1>6, <1>8, <1>9 DEF Where
<1>11. Rearranged' /\ input' \in Seq(Migration) /\ result' = "running"
  BY <1>0 DEF IInv, Rearranged, N
<1> QED
  BY <1>0, <1>10, <1>11, NotYetDue DEF IInv

(* A concatenation lists what its parts list.                               *)
LEMMA ListsConcat ==
  ASSUME NEW S, NEW s \in Seq(S), NEW r \in Seq(S)
  PROVE  /\ s \o r \in Seq(S)
         /\ \A w : Lists(s \o r, w) <=> Lists(s, w) \/ Lists(r, w)
<1> DEFINE t == s \o r
<1>1. /\ t \in Seq(S) /\ Len(t) = Len(s) + Len(r) /\ Len(s) \in Nat /\ Len(r) \in Nat
      /\ \A e \in 1..Len(s) : t[e] = s[e]
      /\ \A e \in 1..Len(r) : t[Len(s) + e] = r[e]
  OBVIOUS
<1> HIDE DEF t
<1>2. ASSUME NEW w, Lists(t, w) PROVE Lists(s, w) \/ Lists(r, w)
  <2>1. PICK e \in 1..Len(t) : t[e] = w
    BY <1>2 DEF Lists
  <2>2. CASE e <= Len(s)
    BY <1>1, <2>1, <2>2 DEF Lists
  <2>3. CASE e > Len(s)
    <3>1. e - Len(s) \in 1..Len(r) /\ Len(s) + (e - Len(s)) = e
      BY <1>1, <2>3
    <3>2. r[e - Len(s)] = w
      BY <1>1, <2>1, <3>1
    <3> QED
      BY <3>1, <3>2 DEF Lists
  <2> QED
    BY <1>1, <2>2, <2>3
<1>3. ASSUME NEW w, Lists(s, w) PROVE Lists(t, w)
  BY <1>1, <1>3 DEF Lists
<1>4. ASSUME NEW w, Lists(r, w) PROVE Lists(t, w)
  <2>1. PICK e \in 1..Len(r) : r[e] = w
    BY <1>4 DEF Lists
  <2>2. Len(s) + e \in 1..Len(t)
    BY <1>1
  <2> QED
    BY <1>1, <2>1, <2>2 DEF Lists
<1> QED
  BY <1>1, <1>2, <1>3, <1>4 DEF t

(* One iteration adds the edges to k that its dependencies ask for.         *)
LEMMA EdgesFromIs ==
  ASSUME NEW k \in DOMAIN migrations, migrations[k] \in Migration, NEW S, k \in S,
         NEW v \in DOMAIN vertex_edges, vertex_edges[v] \in Seq(S)
  PROVE  /\ EdgesFrom(v, k) \in Seq(S)
         /\ \A w : Lists(EdgesFrom(v, k), w)
                    <=> Lists(vertex_edges[v], w) \/ (w = k /\ Needs(k, v))
<1> DEFINE deps == migrations[k].dependencies
           on == {d \in DOMAIN deps : lookup[deps[d]] = v}
           c == Cardinality(on)
<1>1. DOMAIN deps = 1..Len(deps) /\ Len(deps) \in Nat
  BY MigrationFields
<1>2. IsFiniteSet(on)
  <2>1. IsFiniteSet(DOMAIN deps)
    <3> HIDE DEF deps
    <3>1. \A n \in Nat : IsFiniteSet(1..n)
      BY FS_Interval
    <3> QED
      BY <1>1, <3>1
  <2>2. on \in SUBSET DOMAIN deps
    OBVIOUS
  <2> QED
    BY <2>1, <2>2, FS_Subset
<1>3. c \in Nat /\ (c = 0 <=> on = {})
  BY <1>2, FS_CardinalityType, FS_EmptySet
<1>4. c # 0 <=> Needs(k, v)
  BY <1>3 DEF DependenciesOf, Needs
<1>5. EdgesFrom(v, k) = vertex_edges[v] \o [e \in 1..c |-> k]
  BY DEF EdgesFrom
<1> DEFINE copies == [e \in 1..c |-> k]
<1>8. EdgesFrom(v, k) = vertex_edges[v] \o copies
  BY <1>5
<1> HIDE DEF c
<1>6. copies \in Seq(S) /\ Len(copies) = c /\ \A e \in 1..c : copies[e] = k
  BY <1>3
<1> HIDE DEF copies
<1>7. \A w : Lists(copies, w) <=> w = k /\ Needs(k, v)
  BY <1>3, <1>4, <1>6 DEF Lists
<1> QED
  BY <1>6, <1>7, <1>8, ListsConcat

LEMMA AddEdgesIInv == ASSUME IInv, AddEdges PROVE IInv'
<1>0. /\ pc = "add_edges" /\ at <= N
      /\ UNCHANGED <<input, migrations, lookup, visited, frames, finished, root, result>>
      /\ result = "running" /\ at \in 1..(N + 1) /\ error = "none"
      /\ LookupTo(N) /\ SortedByName /\ EdgesTo(at - 1) /\ ResolvedTo(at - 1)
  BY ListTypes DEF AddEdges, IInv, Where
<1>1. /\ N \in Nat /\ DOMAIN input = 1..N /\ DOMAIN migrations = 1..N /\ at \in 1..N /\ N' = N
      /\ \A k \in 1..N : migrations[k] \in Migration /\ input[k] \in Migration
  BY <1>0, ListTypes DEF IInv, N
<1>2. CASE ~(DependenciesOf(at) \subseteq DOMAIN lookup) /\ Fail("InvalidDependency")
                /\ UNCHANGED <<vertex_edges, at>>
  <2>1. PICK p : /\ \A k \in 1..N : p[k] \in 1..N /\ migrations[k] = input[p[k]]
                 /\ \A k \in 1..N : \E j \in 1..N : p[j] = k
    BY Places DEF IInv
  <2>2. PICK d \in DOMAIN migrations[at].dependencies :
          migrations[at].dependencies[d] \notin DOMAIN lookup
    BY <1>2 DEF DependenciesOf
  <2> DEFINE key == migrations[at].dependencies[d]
  <2>3. \A j \in 1..N : key \notin Keys(migrations[j])
    BY <1>0, <2>2 DEF LookupTo
  <2> HIDE DEF key
  <2>4. \A j \in 1..N : key \notin Keys(input[j])
    BY <2>1, <2>3
  <2>5. /\ p[at] \in 1..N /\ d \in DOMAIN input[p[at]].dependencies
        /\ key = input[p[at]].dependencies[d]
    BY <1>1, <2>1 DEF key
  <2>6. Unresolved
    BY <1>1, <2>4, <2>5, ProvidesIsKey DEF Unresolved
  <2>7. Unresolved'
    BY <1>0, <2>6 DEF Unresolved, Provides, ByAppAndName, ByAppAndModel
  <2> QED
    BY <1>0, <1>2, <2>7, Refused DEF Fail, graph
<1>3. CASE /\ DependenciesOf(at) \subseteq DOMAIN lookup
           /\ vertex_edges' = [v \in DOMAIN migrations |-> EdgesFrom(v, at)]
           /\ at' = at + 1
           /\ UNCHANGED <<pc, error>>
  <2>1. /\ vertex_edges \in Seq(Seq(1..N)) /\ Len(vertex_edges) = N
        /\ \A v, w \in 1..N :
             Lists(vertex_edges[v], w) <=> w <= at - 1 /\ Needs(w, v)
    BY <1>0 DEF EdgesTo
  <2>2. DOMAIN vertex_edges = 1..N /\ \A v \in 1..N : vertex_edges[v] \in Seq(1..N)
    BY <2>1
  <2>3. ASSUME NEW v \in 1..N
        PROVE  /\ EdgesFrom(v, at) \in Seq(1..N)
               /\ \A w : Lists(EdgesFrom(v, at), w)
                          <=> Lists(vertex_edges[v], w) \/ (w = at /\ Needs(at, v))
    <3>1. /\ at \in DOMAIN migrations /\ migrations[at] \in Migration /\ at \in 1..N
          /\ v \in DOMAIN vertex_edges /\ vertex_edges[v] \in Seq(1..N)
      BY <1>1, <2>2
    <3> QED
      BY <3>1, EdgesFromIs
  <2>4. vertex_edges' \in Seq(Seq(1..N)) /\ Len(vertex_edges') = N
        /\ \A v \in 1..N : vertex_edges'[v] = EdgesFrom(v, at)
    BY <1>1, <1>3, <2>3
  <2>5. at' - 1 = at /\ at' \in 1..(N + 1)
    BY <1>1, <1>3
  <2>6. \A v, w : Needs(w, v)' <=> Needs(w, v)
    BY <1>0 DEF Needs, DependenciesOf
  <2>7. ASSUME NEW v \in 1..N, NEW w \in 1..N
        PROVE  Lists(vertex_edges'[v], w) <=> w <= at /\ Needs(w, v)
    <3>1. Lists(vertex_edges'[v], w) <=> Lists(vertex_edges[v], w) \/ (w = at /\ Needs(at, v))
      BY <2>3, <2>4
    <3>2. w <= at <=> w <= at - 1 \/ w = at
      BY <1>1
    <3> QED
      BY <2>1, <3>1, <3>2
  <2>8. EdgesTo(at - 1)'
    <3>1. \A v, w \in 1..N : Lists(vertex_edges'[v], w) <=> w <= at' - 1 /\ Needs(w, v)'
      BY <2>5, <2>6, <2>7
    <3> QED
      BY <1>1, <2>4, <3>1 DEF EdgesTo, Lists
  <2>9. ResolvedTo(at - 1)'
    <3>1. \A k \in 1..at : k = at \/ k \in 1..(at - 1)
      BY <1>1
    <3>2. \A k \in 1..at : DependenciesOf(k) \subseteq DOMAIN lookup
      BY <1>0, <1>3, <3>1 DEF ResolvedTo
    <3>3. \A k \in 1..at : DependenciesOf(k)' = DependenciesOf(k)
      BY <1>0 DEF DependenciesOf
    <3> QED
      BY <1>0, <2>5, <3>2, <3>3 DEF ResolvedTo
  <2>10. SortedByName' /\ LookupTo(N)'
    BY <1>0, <1>1 DEF SortedByName, LookupTo
  <2>11. Where'
    BY <1>0, <1>1, <1>3, <2>5, <2>8, <2>9, <2>10 DEF Where
  <2>12. Rearranged' /\ input' \in Seq(Migration) /\ result' = "running"
    BY <1>0 DEF IInv, Rearranged, N
  <2> QED
    BY <1>0, <1>3, <2>11, <2>12, NotYetDue DEF IInv
<1> QED
  BY <1>2, <1>3 DEF AddEdges

LEMMA EdgeIsListed == \A v, w : G!Edge(v, w) <=> Lists(vertex_edges[v], w)
BY DEF G!Edge, Lists

LEMMA CallToposortIInv == ASSUME IInv, CallToposort PROVE IInv'
<1>0. /\ pc = "add_edges" /\ pc' = "toposort"
      /\ G!CallOn(vertex_edges)
      /\ UNCHANGED <<input, migrations, lookup, error>>
      /\ at \in 1..(N + 1) /\ at > Len(migrations) /\ error = "none"
      /\ LookupTo(N) /\ SortedByName /\ EdgesTo(at - 1) /\ ResolvedTo(at - 1)
  BY DEF CallToposort, IInv, Where
<1>1. N \in Nat /\ Len(migrations) = N /\ N' = N
  BY <1>0, ListTypes DEF IInv, N
<1>2. at - 1 = N /\ vertex_edges' = vertex_edges /\ result' = "running"
  BY <1>0, <1>1 DEF G!CallOn
<1>3. EdgesTo(N) /\ ResolvedTo(N)
  BY <1>0, <1>2
<1>4. vertex_edges \in Seq(Seq(1..N)) /\ Len(vertex_edges) = N
  BY <1>3 DEF EdgesTo
<1>5. Searching' /\ RootByRoot'
  BY <1>0, <1>1, <1>4, CallSearching, CallRootByRoot
<1>6. LookupTo(N)' /\ SortedByName' /\ ResolvedTo(N)'
  BY <1>0, <1>1, <1>3 DEF LookupTo, SortedByName, ResolvedTo, DependenciesOf
<1>7. EdgesTo(N)'
  <2>1. \A v, w : Needs(w, v)' <=> Needs(w, v)
    BY <1>0 DEF Needs, DependenciesOf
  <2> QED
    BY <1>1, <1>2, <1>3, <2>1 DEF EdgesTo, Lists
<1>8. Where'
  BY <1>0, <1>5, <1>6, <1>7 DEF Where
<1>9. Rearranged' /\ input' \in Seq(Migration)
  BY <1>0 DEF IInv, Rearranged, N
<1> QED
  BY <1>0, <1>2, <1>8, <1>9, NotYetDue DEF IInv

LEMMA ToposortIInv == ASSUME IInv, Toposort PROVE IInv'
<1>0. /\ pc = "toposort" /\ pc' = "toposort" /\ error = "none"
      /\ UNCHANGED <<input, migrations, lookup, error>>
      /\ LookupTo(N) /\ SortedByName /\ EdgesTo(N) /\ ResolvedTo(N) /\ Searching /\ RootByRoot
  BY DEF Toposort, IInv, Where
<1>1. G!Next /\ vertex_edges' = vertex_edges
  BY DEF Toposort, G!Next, G!VisitRoot, G!VisitNeighbor, G!Return, G!Finish
<1>2. Searching' /\ RootByRoot'
  BY <1>0, <1>1, NextSearching, NextRootByRoot
<1>3. N' = N
  BY <1>0 DEF N
<1>4. LookupTo(N)' /\ SortedByName' /\ ResolvedTo(N)'
  BY <1>0, <1>3 DEF LookupTo, SortedByName, ResolvedTo, DependenciesOf
<1>5. EdgesTo(N)'
  BY <1>0, <1>1, <1>3 DEF EdgesTo, Lists, Needs, DependenciesOf
<1>6. Where'
  BY <1>0, <1>2, <1>4, <1>5 DEF Where
<1>7. Rearranged' /\ input' \in Seq(Migration)
  BY <1>0 DEF IInv, Rearranged, N
<1> QED
  BY <1>0, <1>2, <1>6, <1>7, NotYetDue DEF IInv

(* A cycle of the graph, back in the input.                                 *)
LEMMA RefuseIInv == ASSUME IInv, Refuse PROVE IInv'
<1>0. /\ pc = "toposort" /\ result = "cycle" /\ Fail("CycleDetected")
      /\ UNCHANGED <<input, migrations, lookup, at, graph, permutation>>
      /\ LookupTo(N) /\ EdgesTo(N) /\ ResolvedTo(N) /\ Searching
  BY DEF Refuse, IInv, Where
<1>1. N \in Nat /\ DOMAIN input = 1..N /\ DOMAIN migrations = 1..N
  BY ListTypes DEF IInv
<1>2. PICK p : \A k \in 1..N : p[k] \in 1..N /\ migrations[k] = input[p[k]]
  BY Places DEF IInv
<1>3. G!HasCycle /\ G!Vertex = 1..N
  BY <1>0, <1>1 DEF Searching, G!CycleIsReal, G!Vertex, EdgesTo
<1>4. PICK loop \in SUBSET (1..N) :
        loop # {} /\ \A v \in loop : \E u \in loop : Lists(vertex_edges[u], v)
  <2>1. \A v, w : G!Edge(v, w) <=> Lists(vertex_edges[v], w)
    BY DEF G!Edge, Lists
  <2>2. PICK loop \in SUBSET G!Vertex :
          loop # {} /\ \A v \in loop : \E w, u \in loop : G!Edge(v, w) /\ G!Edge(u, v)
    BY <1>3 DEF G!HasCycle
  <2>3. \A v \in loop : \E u \in loop : Lists(vertex_edges[u], v)
    BY <2>1, <2>2
  <2>4. loop \in SUBSET (1..N)
    BY <1>3, <2>2
  <2> QED
    BY <2>2, <2>3, <2>4
<1> DEFINE image == {p[v] : v \in loop}
<1>5. image \in SUBSET (1..N) /\ image # {}
  BY <1>2, <1>4, ZenonT(30)
<1>6. ASSUME NEW v \in loop PROVE \E k \in image : DependsOn(input[p[v]], input[k])
  <2>1. PICK u \in loop : Lists(vertex_edges[u], v)
    BY <1>4
  <2>2. u \in 1..N /\ v \in 1..N
    BY <1>4, <2>1
  <2>3. Needs(v, u)
    BY <1>0, <2>1, <2>2 DEF EdgesTo
  <2>4. PICK d \in DependenciesOf(v) : lookup[d] = u
    BY <2>3 DEF Needs
  <2>5. d \in DOMAIN lookup
    BY <1>0, <2>2, <2>4 DEF ResolvedTo
  <2>6. d \in Keys(migrations[u])
    BY <1>0, <2>4, <2>5 DEF LookupTo
  <2>7. DependsOn(migrations[v], migrations[u])
    BY <2>4, <2>6, ProvidesIsKey DEF DependsOn, DependenciesOf
  <2> QED
    BY <1>2, <2>1, <2>2, <2>7
<1>7. \A j \in image : \E k \in image : DependsOn(input[j], input[k])
  BY <1>6
<1> HIDE DEF image
<1>8. input' = input
  BY <1>0
<1>9. Cyclic'
  <2>1. \A j \in image : \E k \in image : DependsOn(input[j], input[k])'
    BY <1>7, <1>8 DEF DependsOn, Provides, ByAppAndName, ByAppAndModel
  <2> QED
    BY <1>1, <1>5, <1>8, <2>1 DEF Cyclic
<1> QED
  BY <1>0, <1>9, Refused DEF Fail

(* The result of toposort, as a permutation of the migrations.              *)
LEMMA OrderIsPermutation ==
  ASSUME input \in Seq(Migration), Searching, EdgesTo(N), result = "sorted"
  PROVE  /\ Bijective(G!sorted_indices, N)
         /\ \A j, k \in 1..N :
              Lists(vertex_edges[G!sorted_indices[j]], G!sorted_indices[k]) => j < k
<1> DEFINE F == Len(finished)
           t == G!sorted_indices
<1>1. N \in Nat /\ G!Vertex = 1..N /\ finished \in Seq(1..N) /\ F \in Nat
  BY DEF N, EdgesTo, G!Vertex, Searching, G!TypeOK
<1>2. G!SortedIsTopological
  BY ResultIsTopological
<1>3. t \in [1..F -> 1..N]
  <2>1. \A k \in 1..F : F + 1 - k \in 1..F
    BY <1>1
  <2>2. \A k \in 1..F : finished[k] \in 1..N
    BY <1>1
  <2>3. t = [k \in 1..F |-> finished[F + 1 - k]]
    BY DEF G!sorted_indices
  <2> HIDE DEF F, t
  <2> QED
    BY <2>1, <2>2, <2>3
<1> HIDE DEF F
<1>4. /\ \A j, k \in 1..F : t[j] = t[k] => j = k
      /\ \A v \in 1..N : \E k \in 1..F : t[k] = v
      /\ \A j, k \in 1..F : Lists(vertex_edges[t[j]], t[k]) => j < k
  BY <1>1, <1>2, <1>3, EdgeIsListed DEF G!SortedIsTopological
<1> HIDE DEF t
<1>5. F = N
  <2>1. F \in Nat /\ N \in Nat /\ t \in [1..F -> 1..N]
    BY <1>1, <1>3
  <2>2. Onto(t, F, N)
    BY <1>3, <1>4 DEF Onto
  <2> QED
    BY <2>1, <2>2, BijectionLength
<1>6. t \in [1..N -> 1..N]
  BY <1>3, <1>5
<1> QED
  BY <1>4, <1>5, <1>6 DEF Bijective, t

LEMMA CallApplyIInv == ASSUME IInv, CallApply PROVE IInv'
<1> DEFINE t == G!sorted_indices
<1>0. /\ pc = "toposort" /\ pc' = "apply" /\ error = "none" /\ result = "sorted"
      /\ P!CallOn(t)
      /\ UNCHANGED <<input, migrations, lookup, at, error, graph>>
      /\ LookupTo(N) /\ SortedByName /\ EdgesTo(N) /\ ResolvedTo(N) /\ Searching /\ RootByRoot
  BY DEF CallApply, IInv, Where
<1>1. N \in Nat /\ N' = N
  BY <1>0, ListTypes DEF IInv, N
<1>2. Bijective(t, N)
  BY <1>0, OrderIsPermutation DEF IInv
<1>3. t \in P!Permutation(N)
  BY <1>2 DEF Bijective, P!Permutation
<1>4. P!CallOn(t) /\ target' = t
  BY <1>0 DEF P!CallOn
<1>5. t' = t
  BY <1>0 DEF G!sorted_indices, graph
<1> HIDE DEF t
<1>6. Permuting'
  BY <1>1, <1>3, <1>4, CallPermuting
<1>7. target' = G!sorted_indices'
  BY <1>4, <1>5 DEF t
<1>8. Searching' /\ RootByRoot' /\ result' = "sorted" /\ vertex_edges' = vertex_edges
  BY <1>0, GraphKept DEF graph
<1>9. LookupTo(N)' /\ SortedByName' /\ ResolvedTo(N)'
  BY <1>0, <1>1 DEF LookupTo, SortedByName, ResolvedTo, DependenciesOf
<1>10. EdgesTo(N)'
  <2>1. \A v, w : Needs(w, v)' <=> Needs(w, v)
    BY <1>0 DEF Needs, DependenciesOf
  <2> QED
    BY <1>0, <1>1, <1>8, <2>1 DEF EdgesTo, Lists
<1>11. Where'
  BY <1>0, <1>6, <1>7, <1>8, <1>9, <1>10 DEF Where
<1>12. Rearranged' /\ input' \in Seq(Migration)
  BY <1>0 DEF IInv, Rearranged, N
<1> QED
  BY <1>0, <1>8, <1>11, <1>12, NotYetDue DEF IInv

LEMMA PermuteIInv == ASSUME IInv, Permute PROVE IInv'
<1>0. /\ pc = "apply" /\ pc' = "apply" /\ error = "none" /\ result = "sorted"
      /\ UNCHANGED <<input, migrations, lookup, at, error, graph>>
      /\ LookupTo(N) /\ SortedByName /\ EdgesTo(N) /\ ResolvedTo(N) /\ Searching /\ RootByRoot
      /\ Permuting /\ target = G!sorted_indices
  BY DEF Permute, IInv, Where
<1>1. P!Next /\ target' = target
  BY DEF Permute, P!Next, P!StartCycle, P!SwapNext, P!EndCycle
<1>2. Permuting'
  BY <1>0, <1>1, NextPermuting
<1>3. N' = N
  BY <1>0 DEF N
<1>4. G!sorted_indices' = G!sorted_indices
  BY <1>0 DEF G!sorted_indices, graph
<1>5. Searching' /\ RootByRoot' /\ result' = "sorted" /\ vertex_edges' = vertex_edges
  BY <1>0, GraphKept DEF graph
<1>6. LookupTo(N)' /\ SortedByName' /\ ResolvedTo(N)'
  BY <1>0, <1>3 DEF LookupTo, SortedByName, ResolvedTo, DependenciesOf
<1>7. EdgesTo(N)'
  BY <1>0, <1>3, <1>5 DEF EdgesTo, Lists, Needs, DependenciesOf
<1>8. Where'
  BY <1>0, <1>1, <1>2, <1>4, <1>5, <1>6, <1>7 DEF Where
<1>9. Rearranged' /\ input' \in Seq(Migration)
  BY <1>0 DEF IInv, Rearranged, N
<1> QED
  BY <1>0, <1>5, <1>8, <1>9, NotYetDue DEF IInv

-----------------------------------------------------------------------------
(* What holds of the list when apply_permutation has run.                   *)

(* An input that got this far has no duplicate.                             *)
LEMMA NoDuplicate ==
  ASSUME IInv, pc = "apply"
  PROVE  ~Duplicate("DuplicateMigration") /\ ~Duplicate("DuplicateModel")
<1>0. LookupTo(N) /\ N \in Nat /\ DOMAIN input = 1..N
  BY ListTypes DEF IInv, Where
<1>1. PICK p : /\ \A k \in 1..N : p[k] \in 1..N /\ migrations[k] = input[p[k]]
               /\ \A k \in 1..N : \E j \in 1..N : p[j] = k
  BY Places DEF IInv
<1>2. ASSUME NEW j \in 1..N, NEW k \in 1..N, NEW key, key \in Keys(input[j]), key \in Keys(input[k])
      PROVE  j = k
  <2>1. PICK a \in 1..N, b \in 1..N : p[a] = j /\ p[b] = k
    BY <1>1
  <2>2. key \in Keys(migrations[a]) /\ key \in Keys(migrations[b])
    BY <1>1, <1>2, <2>1
  <2>3. a = b
    BY <1>0, <2>2 DEF LookupTo
  <2> QED
    BY <2>1, <2>3
<1>3. ASSUME Duplicate("DuplicateMigration") PROVE FALSE
  <2>1. PICK j \in 1..N, k \in 1..N : j # k /\ ByAppAndName(input[j]) = ByAppAndName(input[k])
    BY <1>0, <1>3 DEF Duplicate
  <2>2. ByAppAndName(input[j]) \in Keys(input[j]) /\ ByAppAndName(input[j]) \in Keys(input[k])
    BY <2>1 DEF Keys
  <2> QED
    BY <1>2, <2>1, <2>2
<1>4. ASSUME Duplicate("DuplicateModel") PROVE FALSE
  <2>1. PICK j \in 1..N, k \in 1..N :
          /\ input[j].app = input[k].app
          /\ \E a \in DOMAIN input[j].creates, b \in DOMAIN input[k].creates :
               <<j, a>> # <<k, b>> /\ input[j].creates[a] = input[k].creates[b]
    BY <1>0, <1>4 DEF Duplicate
  <2>2. PICK a \in DOMAIN input[j].creates, b \in DOMAIN input[k].creates :
          <<j, a>> # <<k, b>> /\ input[j].creates[a] = input[k].creates[b]
    BY <2>1
  <2> DEFINE key == ByAppAndModel(input[j], input[j].creates[a])
  <2>3. key \in Keys(input[j])
    BY DEF Keys
  <2>4. key = ByAppAndModel(input[k], input[k].creates[b])
    BY <2>1, <2>2 DEF ByAppAndModel
  <2> HIDE DEF key
  <2>5. key \in Keys(input[k])
    BY <2>4 DEF Keys
  <2>6. j = k
    BY <1>2, <2>3, <2>5
  <2>7. PICK c \in 1..N : p[c] = j
    BY <1>1
  <2>8. migrations[c] = input[j]
    BY <1>1, <2>7
  <2>9. a = b
    BY <1>0, <2>2, <2>6, <2>8 DEF LookupTo
  <2> QED
    BY <2>2, <2>6, <2>9
<1> QED
  BY <1>3, <1>4

LEMMA NoneUnresolved == ASSUME IInv, pc = "apply" PROVE ~Unresolved
<1>0. LookupTo(N) /\ ResolvedTo(N) /\ N \in Nat /\ DOMAIN input = 1..N
  BY ListTypes DEF IInv, Where
<1>1. PICK p : /\ \A k \in 1..N : p[k] \in 1..N /\ migrations[k] = input[p[k]]
               /\ \A k \in 1..N : \E j \in 1..N : p[j] = k
  BY Places DEF IInv
<1>2. ASSUME NEW k \in 1..N, NEW d \in DOMAIN input[k].dependencies
      PROVE  \E j \in 1..N : Provides(input[j], input[k].dependencies[d])
  <2>1. PICK a \in 1..N : p[a] = k
    BY <1>1
  <2>2. migrations[a] = input[k]
    BY <1>1, <2>1
  <2> DEFINE key == input[k].dependencies[d]
  <2>3. key \in DependenciesOf(a)
    BY <2>2 DEF DependenciesOf
  <2> HIDE DEF key
  <2>4. key \in DOMAIN lookup
    BY <1>0, <2>3 DEF ResolvedTo
  <2>5. lookup[key] \in 1..N /\ key \in Keys(migrations[lookup[key]])
    BY <1>0, <2>4 DEF LookupTo
  <2>6. p[lookup[key]] \in 1..N /\ key \in Keys(input[p[lookup[key]]])
    BY <1>1, <2>5
  <2> QED
    BY <2>6, ProvidesIsKey DEF key
<1> QED
  BY <1>0, <1>2 DEF Unresolved

(* On a cycle, the first migration would come after one it depends on.      *)
LEMMA NoneCyclic == ASSUME IInv, pc = "apply" PROVE ~Cyclic
<1> DEFINE t == G!sorted_indices
<1>0. /\ LookupTo(N) /\ EdgesTo(N) /\ N \in Nat /\ DOMAIN input = 1..N /\ DOMAIN migrations = 1..N
      /\ Searching /\ result = "sorted" /\ input \in Seq(Migration)
  BY ListTypes DEF IInv, Where
<1>1. /\ Bijective(t, N)
      /\ \A j, k \in 1..N : Lists(vertex_edges[t[j]], t[k]) => j < k
  BY <1>0, OrderIsPermutation
<1>2. PICK p : /\ \A k \in 1..N : p[k] \in 1..N /\ migrations[k] = input[p[k]]
               /\ \A k \in 1..N : \E j \in 1..N : p[j] = k
  BY Places DEF IInv
<1> HIDE DEF t
<1>3. /\ \A k \in 1..N : t[k] \in 1..N
      /\ \A k \in 1..N : \E j \in 1..N : t[j] = k
  BY <1>1 DEF Bijective
<1>4. SUFFICES ASSUME NEW loop \in SUBSET (1..N), loop # {},
                      \A j \in loop : \E k \in loop : DependsOn(input[j], input[k])
               PROVE  FALSE
  BY <1>0 DEF Cyclic
<1> DEFINE S == {j \in 1..N : p[t[j]] \in loop}
<1>5. S \subseteq Nat
  BY <1>0
<1>6. S # {}
  <2>1. PICK k \in loop : k \in 1..N
    BY <1>4
  <2>2. PICK a \in 1..N : p[a] = k
    BY <1>2, <2>1
  <2>3. PICK j \in 1..N : t[j] = a
    BY <1>3, <2>2
  <2>4. j \in S
    BY <2>1, <2>2, <2>3
  <2> QED
    BY <2>4
<1>7. PICK m \in S : \A k \in S : m <= k
  <2> HIDE DEF S
  <2> QED
    BY <1>5, <1>6, Least
<1>8. m \in 1..N /\ p[t[m]] \in loop
  BY <1>7
<1>9. PICK k \in loop : DependsOn(input[p[t[m]]], input[k])
  BY <1>4, <1>8
<1>10. PICK a \in 1..N : p[a] = k
  BY <1>2, <1>4, <1>9
<1>11. PICK j \in 1..N : t[j] = a
  BY <1>3, <1>10
<1>12. j \in S
  BY <1>9, <1>10, <1>11
<1>13. t[m] \in 1..N /\ migrations[t[m]] = input[p[t[m]]] /\ migrations[a] = input[k]
  BY <1>2, <1>3, <1>8, <1>10
<1>14. DependsOn(migrations[t[m]], migrations[a])
  BY <1>9, <1>13
<1>15. PICK d \in DependenciesOf(t[m]) : d \in Keys(migrations[a])
  BY <1>14, ProvidesIsKey DEF DependsOn, DependenciesOf
<1>16. lookup[d] = a
  BY <1>0, <1>10, <1>15 DEF LookupTo
<1>17. Needs(t[m], t[j])
  BY <1>11, <1>15, <1>16 DEF Needs
<1>18. Lists(vertex_edges[t[j]], t[m])
  <2>1. t[m] \in 1..N /\ t[j] \in 1..N /\ t[m] <= N
    BY <1>0, <1>10, <1>11, <1>13
  <2> QED
    BY <1>0, <1>17, <2>1 DEF EdgesTo
<1>19. j < m
  BY <1>1, <1>8, <1>18
<1>20. m <= j /\ m \in Nat /\ j \in Nat
  BY <1>5, <1>7, <1>12
<1> QED
  BY <1>19, <1>20

(* Every migration's dependencies are taken before it.                      *)
LEMMA TakenBefore ==
  ASSUME IInv, pc = "apply", NEW k \in 1..N, NEW d \in DependenciesOf(G!sorted_indices[k])
  PROVE  \E j \in 1..(k - 1) : d \in Keys(migrations[G!sorted_indices[j]])
<1> DEFINE t == G!sorted_indices
<1>0. /\ LookupTo(N) /\ EdgesTo(N) /\ ResolvedTo(N) /\ N \in Nat
      /\ Searching /\ result = "sorted" /\ input \in Seq(Migration)
  BY ListTypes DEF IInv, Where
<1>1. /\ Bijective(t, N)
      /\ \A j, l \in 1..N : Lists(vertex_edges[t[j]], t[l]) => j < l
  BY <1>0, OrderIsPermutation
<1>7. d \in DependenciesOf(t[k])
  OBVIOUS
<1> HIDE DEF t
<1>2. t[k] \in 1..N /\ t[k] <= N
  BY <1>0, <1>1 DEF Bijective
<1>3. d \in DOMAIN lookup
  BY <1>0, <1>2, <1>7 DEF ResolvedTo
<1>4. lookup[d] \in 1..N /\ d \in Keys(migrations[lookup[d]])
  BY <1>0, <1>3 DEF LookupTo
<1>5. PICK j \in 1..N : t[j] = lookup[d]
  BY <1>1, <1>4 DEF Bijective
<1>6. Needs(t[k], t[j])
  BY <1>5, <1>7 DEF Needs
<1>8. Lists(vertex_edges[t[j]], t[k])
  BY <1>0, <1>2, <1>4, <1>5, <1>6 DEF EdgesTo
<1>9. j < k
  BY <1>1, <1>8
<1>10. j \in 1..(k - 1)
  BY <1>0, <1>9
<1> QED
  BY <1>4, <1>5, <1>10 DEF t

LEMMA EmptyList ==
  ASSUME NEW S, NEW s \in Seq(S), \A e \in 1..Len(s) : s[e] \notin S PROVE s = <<>>
<1>1. Len(s) \in Nat /\ \A e \in 1..Len(s) : s[e] \in S
  OBVIOUS
<1>2. Len(s) = 0
  BY <1>1
<1> QED
  BY <1>2

(* Without dependencies, toposort keeps the list as it is.                  *)
LEMMA IndependentStayInPlace ==
  ASSUME IInv, pc = "apply", \A k \in DOMAIN input : input[k].dependencies = <<>>
  PROVE  /\ \A k \in 1..N : G!sorted_indices[k] = k
         /\ \A j, k \in 1..N : j < k => Before(migrations[j], migrations[k])
<1>0. /\ LookupTo(N) /\ EdgesTo(N) /\ SortedByName /\ N \in Nat /\ DOMAIN input = 1..N
      /\ Searching /\ RootByRoot /\ result = "sorted"
      /\ \A k \in 1..N : migrations[k] \in Migration
  BY ListTypes DEF IInv, Where
<1>1. PICK p : \A k \in 1..N : p[k] \in 1..N /\ migrations[k] = input[p[k]]
  BY Places DEF IInv
<1>2. \A k \in 1..N : migrations[k].dependencies = <<>>
  BY <1>0, <1>1
<1>3. \A v, w \in 1..N : ~Needs(w, v)
  BY <1>2 DEF Needs, DependenciesOf
<1>4. ASSUME NEW v \in 1..N PROVE vertex_edges[v] = <<>>
  <2>1. vertex_edges \in Seq(Seq(1..N)) /\ Len(vertex_edges) = N
    BY <1>0 DEF EdgesTo
  <2>2. vertex_edges[v] \in Seq(1..N)
    BY <2>1
  <2>3. \A w \in 1..N : ~Lists(vertex_edges[v], w)
    BY <1>0, <1>3 DEF EdgesTo
  <2>4. \A e \in 1..Len(vertex_edges[v]) : vertex_edges[v][e] \notin 1..N
    BY <2>3 DEF Lists
  <2> QED
    BY <2>2, <2>4, EmptyList
<1>5. Len(vertex_edges) = N /\ G!Vertex = 1..N
  BY <1>0 DEF EdgesTo, G!Vertex
<1>6. NoEdges
  BY <1>4, <1>5 DEF NoEdges
<1>7. \A k \in 1..N : G!sorted_indices[k] = k
  BY <1>0, <1>5, <1>6, NoEdgesKeepsOrder
<1>8. ASSUME NEW j \in 1..N, NEW k \in 1..N, j < k
      PROVE  Before(migrations[j], migrations[k])
  <2>1. ~Before(migrations[k], migrations[j])
    BY <1>0, <1>8 DEF SortedByName
  <2>2. /\ migrations[j].app \in Nat /\ migrations[j].name \in Nat
        /\ migrations[k].app \in Nat /\ migrations[k].name \in Nat
    BY <1>0, MigrationFields
  <2>3. CASE migrations[j].app = migrations[k].app /\ migrations[j].name = migrations[k].name
    <3>1. ByAppAndName(migrations[j]) = ByAppAndName(migrations[k])
      BY <2>3 DEF ByAppAndName
    <3>2. /\ ByAppAndName(migrations[j]) \in Keys(migrations[j])
          /\ ByAppAndName(migrations[j]) \in Keys(migrations[k])
      BY <3>1 DEF Keys
    <3>3. j = k
      BY <1>0, <3>2 DEF LookupTo
    <3> QED
      BY <1>0, <1>8, <3>3
  <2>4. CASE migrations[j].app # migrations[k].app \/ migrations[j].name # migrations[k].name
    BY <2>1, <2>2, <2>4 DEF Before
  <2> QED
    BY <2>3, <2>4
<1> QED
  BY <1>7, <1>8

LEMMA ReturnIInv == ASSUME IInv, Return PROVE IInv'
<1> DEFINE t == G!sorted_indices
<1>0. /\ pc = "apply" /\ pc' = "sorted" /\ error = "none" /\ result = "sorted"
      /\ UNCHANGED <<input, lookup, at, error, graph, permutation>>
      /\ Searching /\ EdgesTo(N) /\ Permuting /\ target = t /\ migrations' = Permuted(migrations, items)
  BY DEF Return, IInv, Where
<1>1. N \in Nat /\ DOMAIN input = 1..N /\ DOMAIN migrations = 1..N /\ N' = N
  BY <1>0, ListTypes DEF IInv, N
<1>2. items = t
  BY <1>0, ResultIsOrdered DEF Return, P!Done, P!ItemsAsOrdered
<1>3. Bijective(t, N)
  BY <1>0, OrderIsPermutation DEF IInv
<1>4. \A k \in 1..N : \A d \in DependenciesOf(t[k]) :
        \E j \in 1..(k - 1) : d \in Keys(migrations[t[j]])
  BY <1>0, TakenBefore
<1>5. (\A k \in DOMAIN input : input[k].dependencies = <<>>)
        => /\ \A k \in 1..N : t[k] = k
           /\ \A j, k \in 1..N : j < k => Before(migrations[j], migrations[k])
  BY <1>0, IndependentStayInPlace
<1> HIDE DEF t
<1>6. migrations' = [k \in 1..N |-> migrations[t[k]]]
  BY <1>0, <1>1, <1>2 DEF Permuted
<1>7. DOMAIN migrations' = 1..N /\ \A k \in 1..N : migrations'[k] = migrations[t[k]]
  BY <1>6
<1>8. PICK r : Bijective(r, N) /\ migrations' = Permuted(input, r)
  <2>1. PICK q : Bijective(q, N) /\ migrations = Permuted(input, q)
    BY DEF IInv, Rearranged
  <2>2. PICK r : Bijective(r, N) /\ Permuted(Permuted(input, q), t) = Permuted(input, r)
    BY <1>1, <1>3, <2>1, RearrangedTwice
  <2> QED
    BY <1>0, <1>2, <2>1, <2>2
<1>9. Rearranged'
  BY <1>0, <1>1, <1>8 DEF Rearranged
<1>10. DependenciesFirst'
  <2>1. \E q \in [DOMAIN input -> DOMAIN input] :
          /\ \A j, k \in DOMAIN input : q[j] = q[k] => j = k
          /\ migrations' = Permuted(input, q)
    BY <1>1, <1>8 DEF Bijective
  <2>2. ASSUME NEW k \in 1..N, NEW d \in DependenciesOf(k)'
        PROVE  \E j \in 1..(k - 1) : Provides(migrations'[j], d)
    <3>1. d \in DependenciesOf(t[k])
      BY <1>7, <2>2 DEF DependenciesOf
    <3>2. PICK j \in 1..(k - 1) : d \in Keys(migrations[t[j]])
      BY <1>4, <3>1
    <3>3. j \in 1..N
      BY <1>1, <3>2
    <3>4. d \in Keys(migrations'[j])
      BY <1>7, <3>2, <3>3
    <3> QED
      BY <3>2, <3>4, ProvidesIsKey
  <2> QED
    BY <1>0, <1>7, <2>1, <2>2 DEF DependenciesFirst, Provides, ByAppAndName, ByAppAndModel
<1>11. RefusedForAReason'
  <2>1. ~Duplicate("DuplicateMigration") /\ ~Duplicate("DuplicateModel") /\ ~Unresolved /\ ~Cyclic
    BY <1>0, NoDuplicate, NoneUnresolved, NoneCyclic
  <2>2. input' = input
    BY <1>0
  <2>3. ~Duplicate("DuplicateMigration")' /\ ~Duplicate("DuplicateModel")'
    BY <2>1, <2>2 DEF Duplicate, ByAppAndName
  <2>4. ~Unresolved'
    BY <2>1, <2>2 DEF Unresolved, Provides, ByAppAndName, ByAppAndModel
  <2>5. ~Cyclic'
    <3>1. \A j, k : DependsOn(input[j], input[k])' <=> DependsOn(input[j], input[k])
      BY <2>2 DEF DependsOn, Provides, ByAppAndName, ByAppAndModel
    <3> QED
      BY <2>1, <2>2, <3>1 DEF Cyclic
  <2> QED
    BY <1>0, <2>3, <2>4, <2>5 DEF RefusedForAReason
<1>12. IndependentByName'
  <2> SUFFICES ASSUME \A k \in DOMAIN input' : input'[k].dependencies = <<>>
               PROVE  \A j, k \in 1..N : j < k => Before(migrations'[j], migrations'[k])
    BY <1>7 DEF IndependentByName, Before
  <2>1. \A k \in DOMAIN input : input[k].dependencies = <<>>
    BY <1>0
  <2> QED
    BY <1>5, <1>7, <2>1
<1>13. Where' /\ (result = "running" \/ Searching)'
  BY <1>0, GraphKept DEF Where
<1>14. input' \in Seq(Migration)
  BY <1>0 DEF IInv
<1> QED
  BY <1>9, <1>10, <1>11, <1>12, <1>13, <1>14 DEF IInv

LEMMA StutterIInv == ASSUME IInv, UNCHANGED vars PROVE IInv'
<1>0. UNCHANGED <<input, migrations, lookup, pc, at, error, graph, permutation>>
  BY DEF vars
<1>1. N' = N /\ Rearranged' /\ input' \in Seq(Migration)
  BY <1>0 DEF N, IInv, Rearranged
<1>2. DependenciesFirst'
  BY <1>0 DEF IInv, DependenciesFirst, DependenciesOf, Provides, ByAppAndName, ByAppAndModel
<1>3. IndependentByName'
  BY <1>0 DEF IInv, IndependentByName, Before
<1>4. RefusedForAReason'
  <2>1. Duplicate("DuplicateMigration")' <=> Duplicate("DuplicateMigration")
    BY <1>0 DEF Duplicate, ByAppAndName
  <2>2. Duplicate("DuplicateModel")' <=> Duplicate("DuplicateModel")
    BY <1>0 DEF Duplicate, ByAppAndName
  <2>3. Unresolved' <=> Unresolved
    BY <1>0 DEF Unresolved, Provides, ByAppAndName, ByAppAndModel
  <2>4. Cyclic' <=> Cyclic
    BY <1>0 DEF Cyclic, DependsOn, Provides, ByAppAndName, ByAppAndModel
  <2>5. Duplicate(error)' <=> Duplicate(error)
    BY <1>0 DEF Duplicate, ByAppAndName
  <2> QED
    BY <1>0, <2>1, <2>2, <2>3, <2>4, <2>5 DEF IInv, RefusedForAReason
<1>5. (result = "running" \/ Searching)' /\ (Searching => Searching')
      /\ (Searching /\ RootByRoot => RootByRoot') /\ (Permuting => Permuting')
      /\ result' = result /\ target' = target
  BY <1>0, GraphKept, PermutationKept DEF IInv, graph, permutation
<1>6. G!sorted_indices' = G!sorted_indices
  BY <1>0 DEF G!sorted_indices, graph
<1>7. SortedByName' <=> SortedByName
  BY <1>0, <1>1 DEF SortedByName, Before
<1>8. /\ LookupTo(N)' <=> LookupTo(N)
      /\ LookupTo(at - 1)' <=> LookupTo(at - 1)
  BY <1>0, <1>1 DEF LookupTo
<1>9. /\ ResolvedTo(N)' <=> ResolvedTo(N)
      /\ ResolvedTo(at - 1)' <=> ResolvedTo(at - 1)
  BY <1>0, <1>1 DEF ResolvedTo, DependenciesOf
<1>10. \A v, w : Needs(w, v)' <=> Needs(w, v)
  BY <1>0 DEF Needs, DependenciesOf
<1>11. /\ EdgesTo(N) => EdgesTo(N)'
       /\ EdgesTo(at - 1) => EdgesTo(at - 1)'
  BY <1>0, <1>1, <1>10 DEF EdgesTo, Lists, graph
<1>12. Where'
  BY <1>0, <1>1, <1>5, <1>6, <1>7, <1>8, <1>9, <1>11 DEF IInv, Where
<1> QED
  BY <1>1, <1>2, <1>3, <1>4, <1>5, <1>12 DEF IInv

LEMMA NextIInv == IInv /\ [Next]_vars => IInv'
<1> SUFFICES ASSUME IInv, [Next]_vars PROVE IInv'
  OBVIOUS
<1> QED
  BY SortByNameIInv, EnterIInv, NewGraphIInv, AddEdgesIInv, CallToposortIInv, ToposortIInv,
     RefuseIInv, CallApplyIInv, PermuteIInv, ReturnIInv, StutterIInv DEF Next

LEMMA IInvAlways == Spec => []IInv
BY InitIInv, NextIInv, PTL DEF Spec

(* The result of toposort inside the sorter is a topological order of all   *)
(* migrations: its assert_eq! holds here as well.                           *)
THEOREM SorterOrderIsTopological == Spec => []SortedIsTopological
<1>1. IInv => SortedIsTopological
  BY ResultIsTopological DEF IInv, SortedIsTopological, G!SortedIsTopological
<1> QED
  BY <1>1, IInvAlways, PTL

(* The sorter returns a rearrangement of the migrations it was given, each  *)
(* after all those it depends on by name or through a model.                *)
THEOREM SorterPutsDependenciesFirst == Spec => []DependenciesFirst
<1>1. IInv => DependenciesFirst
  BY DEF IInv
<1> QED
  BY <1>1, IInvAlways, PTL

(* Each of the four errors of the sorter has its reason in the list, and a  *)
(* list with such a reason is never returned as sorted.                     *)
THEOREM SorterRefusesForAReason == Spec => []RefusedForAReason
<1>1. IInv => RefusedForAReason
  BY DEF IInv
<1> QED
  BY <1>1, IInvAlways, PTL

(* Migrations without dependencies are sorted by app and name, in whatever  *)
(* order the apps registered them.                                          *)
THEOREM SorterOrdersByName == Spec => []IndependentByName
<1>1. IInv => IndependentByName
  BY DEF IInv
<1> QED
  BY <1>1, IInvAlways, PTL
===============================================================================
