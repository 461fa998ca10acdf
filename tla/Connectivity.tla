----------------------------- MODULE Connectivity -----------------------------
(***************************************************************************)
(* What the predicate components of a join graph are, independently of how *)
(* rules.rs finds them: w belongs to the component of v when every set of  *)
(* occurrences that contains v and is closed under edges contains w.       *)
(***************************************************************************)
Adjacent(edges, v, w) == v # w /\ (<<v, w>> \in edges \/ <<w, v>> \in edges)

Closed(V, edges, S) == \A v \in S, w \in V : Adjacent(edges, v, w) => w \in S

Connected(V, edges, v, w) ==
  \A S \in SUBSET V : v \in S /\ Closed(V, edges, S) => w \in S

Component(V, edges, v) == {w \in V : Connected(V, edges, v, w)}
Components(V, edges) == {Component(V, edges, v) : v \in V}
=============================================================================
