-------------------------- MODULE DijkstraProgram --------------------------
(***************************************************************************)
(* ParallelDijkstra on the graph main() builds from the lines of an input  *)
(* file.                                                                   *)
(***************************************************************************)
EXTENDS ParallelDijkstra

CONSTANTS NumVertices, Edges  \* the input: see InputGraph

Input == INSTANCE InputGraph

ASSUME InputAssumption ==
  /\ NumVertices \in Nat
  /\ Edges \in Seq([v1 : Vertices, v2 : Vertices, weight : Nat])
  /\ Vertices = Input!InputVertices
  /\ Neighbors = Input!AdjacencyLists
  /\ Index = Input!VertexIndex

-----------------------------------------------------------------------------
\* curr_dist + weight (ParallelDijkstra.cpp:163), an int, stays below the sum of
\* a path without repeated vertices and one edge, however often the vertices are
\* explored again after a better offer: only a graph with such a path overflows.
SumsBounded ==
  \A t \in Threads :
    pc[t] \in {"relax", "compareOffer", "inserting"} =>
      Alt(t) <= Input!LongestPath + Input!HeaviestEdge

\* The source named in the first line of the input ("source node", main.cpp:38)
\* is at distance 0.
SourceAtZero == main = "joined" => distances[Source] = 0
=============================================================================
