----------------------------- MODULE InputGraph -----------------------------
(***************************************************************************)
(* The graph main() builds from the lines of the input file, and the       *)
(* lengths of its shortest paths (the reference the program's result is    *)
(* compared with).                                                         *)
(***************************************************************************)
EXTENDS Integers, Sequences, SequencesExt, FiniteSetsExt

CONSTANTS NumVertices,  \* first number of the first line
          Source,       \* third number of the first line
          Edges,        \* the other lines: a sequence of [v1, v2, weight]
          INT_MAX       \* "no path"

InputVertices == 0 .. NumVertices - 1

\* Every line adds v2 to the neighbours of v1 and v1 to those of v2.
AdjacencyLists ==
  [v \in InputVertices |->
     FoldLeft(LAMBDA list, e :
                list \o (IF e.v1 = v THEN <<[to |-> e.v2, weight |-> e.weight]>> ELSE <<>>)
                     \o (IF e.v2 = v THEN <<[to |-> e.v1, weight |-> e.weight]>> ELSE <<>>),
              <<>>, Edges)]

\* vertex->index, assigned from the edge lines only: a vertex without an edge
\* keeps the 0 of `new Vertex()`.
VertexIndex == [v \in InputVertices |-> IF AdjacencyLists[v] = <<>> THEN 0 ELSE v]

-----------------------------------------------------------------------------
\* Within[k][v]: the length of a shortest path from the source to v of at most
\* k edges.
Within[k \in 0 .. NumVertices] ==
  IF k = 0 THEN [v \in InputVertices |-> IF v = Source THEN 0 ELSE INT_MAX]
  ELSE [v \in InputVertices |->
          LET steps == {n \in Range(AdjacencyLists[v]) : Within[k - 1][n.to] # INT_MAX}
          IN  Min({Within[k - 1][v]} \cup {Within[k - 1][n.to] + n.weight : n \in steps})]

ShortestDistance == Within[NumVertices]

\* LongestFrom[seen][v]: the length of a longest path from v that visits no
\* vertex of seen.
LongestFrom[seen \in SUBSET InputVertices] ==
  [v \in InputVertices |->
     LET onward == {n \in Range(AdjacencyLists[v]) : n.to \notin seen}
     IN  Max({0} \cup {n.weight + LongestFrom[seen \cup {n.to}][n.to] : n \in onward})]

LongestPath == LongestFrom[{Source}][Source]

HeaviestEdge == Max({0} \cup {e.weight : e \in Range(Edges)})
=============================================================================
