------------------------ MODULE MCConnectedComponents ------------------------
(* Instance of ConnectedComponents for TLC. *)
EXTENDS ConnectedComponentsProofs

Graph(n, E) == [count |-> n, edges |-> E]
Ascending(n) == {e \in (0..(n - 1)) \X (0..(n - 1)) : e[1] < e[2]}

\* Every graph on up to two occurrences, with loops, both directions of an edge
\* and an index out of range, and every simple graph on three to five.
MCGraphs ==
  {Graph(n, E) : n \in {0, 1}, E \in SUBSET ((0..1) \X (0..1))}
    \union {Graph(2, E) : E \in SUBSET ((0..2) \X (0..2))}
    \union UNION {{Graph(n, E) : E \in SUBSET Ascending(n)} : n \in 3..5}
=============================================================================
