------------------------- MODULE MCParallelDijkstra -------------------------
(***************************************************************************)
(* The graphs of the runs of DijkstraProgram.                              *)
(***************************************************************************)
EXTENDS DijkstraProgram

MCVertices  == Input!InputVertices
MCNeighbors == Input!AdjacencyLists
MCIndex     == Input!VertexIndex

Edge(v1, v2, weight) == [v1 |-> v1, v2 |-> v2, weight |-> weight]

\* The direct edge 0-2 is longer than the way through 1: the offer for 2 has to
\* be replaced, and a thread may settle the worse one first and explore 1 from
\* it. The edge 1-2 weighs nothing: the offer back is equal, not better.
Triangle == <<Edge(0, 2, 3), Edge(0, 1, 1), Edge(1, 2, 0)>>

\* No edge touches vertex 2.
OneEdge == <<Edge(0, 1, 1)>>

\* The distances found path by path are the ones ResultCorrect asks for.
ASSUME ReferenceAgrees == ShortestDistances(Input!ShortestDistance)
=============================================================================
