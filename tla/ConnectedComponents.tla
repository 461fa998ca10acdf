-------------------------- MODULE ConnectedComponents --------------------------
(***************************************************************************)
(* connected_components of rules.rs: the depth-first search behind PGP104, *)
(* one action per iteration of its loops.  Occurrences are numbered from 0 *)
(* as in the code.  component_indices is sorted when a component is        *)
(* complete; as it has no duplicates (EachOnce) the set stands for the     *)
(* sorted vector.  The order of the edges is irrelevant to the code, so    *)
(* they are a set.                                                         *)
(***************************************************************************)
EXTENDS Integers, Sequences, Connectivity

CONSTANT Graphs   \* join graphs: the number of occurrences, pairs of indices

\* JoinGraph has public fields: analyze may be given edges out of range.
ASSUME GraphsAssumption ==
  Graphs \subseteq [count : Nat, edges : SUBSET (Nat \X Nat)]

VARIABLES
  count,       \* occurrence_count
  edges,       \* graph.edges, as pairs
  pc,          \* "edges", "scan", "pop", "push", then "done" or "none"
  visited,
  components,  \* finished components, in the order they are found
  start,
  stack,
  component,   \* component_indices, in the order they are popped
  current,
  todo         \* neighbors of current the inner loop has not looked at

vars == <<count, edges, pc, visited, components, start, stack, component,
          current, todo>>

Occurrences == 0..(count - 1)
Listed == {component[i] : i \in DOMAIN component}
Stacked == {stack[i] : i \in DOMAIN stack}
Found == UNION {components[i] : i \in DOMAIN components}

Init ==
  /\ \E graph \in Graphs : count = graph.count /\ edges = graph.edges
  /\ pc = "edges"
  /\ visited = {} /\ components = <<>>
  /\ start = 0 /\ stack = <<>> /\ component = <<>>
  /\ current = 0 /\ todo = {}

BuildAdjacency ==
  /\ pc = "edges"
  /\ pc' = IF edges \subseteq Occurrences \X Occurrences THEN "scan" ELSE "none"
  /\ UNCHANGED <<count, edges, visited, components, start, stack, component,
                 current, todo>>

\* Mutants: the loop runs one index too far; it starts from visited occurrences
\* too.
ScanPastEnd ==
  /\ pc = "scan" /\ start <= count
  /\ IF start \in visited
       THEN /\ start' = start + 1
            /\ UNCHANGED <<pc, visited, stack, component>>
       ELSE /\ visited' = visited \union {start}
            /\ stack' = <<start>> /\ component' = <<>>
            /\ pc' = "pop"
            /\ UNCHANGED start
  /\ UNCHANGED <<count, edges, components, current, todo>>

ScanVisited ==
  /\ pc = "scan" /\ start < count
  /\ visited' = visited \union {start}
  /\ stack' = <<start>> /\ component' = <<>>
  /\ pc' = "pop"
  /\ UNCHANGED <<count, edges, components, start, current, todo>>

Scan ==
  /\ pc = "scan" /\ start < count
  /\ IF start \in visited
       THEN /\ start' = start + 1
            /\ UNCHANGED <<pc, visited, stack, component>>
       ELSE /\ visited' = visited \union {start}
            /\ stack' = <<start>> /\ component' = <<>>
            /\ pc' = "pop"
            /\ UNCHANGED start
  /\ UNCHANGED <<count, edges, components, current, todo>>

\* Mutant: edges are followed in one direction only.
PopDirected ==
  /\ pc = "pop" /\ stack # <<>>
  /\ current' = stack[Len(stack)]
  /\ stack' = SubSeq(stack, 1, Len(stack) - 1)
  /\ component' = Append(component, current')
  /\ todo' = {w \in Occurrences : <<current', w>> \in edges}
  /\ pc' = "push"
  /\ UNCHANGED <<count, edges, visited, components, start>>

Pop ==
  /\ pc = "pop" /\ stack # <<>>
  /\ current' = stack[Len(stack)]
  /\ stack' = SubSeq(stack, 1, Len(stack) - 1)
  /\ component' = Append(component, current')
  /\ todo' = {w \in Occurrences : Adjacent(edges, current', w)}
  /\ pc' = "push"
  /\ UNCHANGED <<count, edges, visited, components, start>>

\* Mutant: a neighbor is marked when it is popped.
PushUnmarked ==
  /\ pc = "push"
  /\ \E w \in todo :
       /\ \A other \in todo : other <= w
       /\ todo' = todo \ {w}
       /\ visited' = visited \union {current}
       /\ stack' = IF w \in visited' THEN stack ELSE Append(stack, w)
  /\ UNCHANGED <<count, edges, pc, components, start, component, current>>

\* for &neighbor in adjacency[current].iter().rev()
Push ==
  /\ pc = "push"
  /\ \E w \in todo :
       /\ \A other \in todo : other <= w
       /\ todo' = todo \ {w}
       /\ IF w \in visited THEN UNCHANGED <<visited, stack>>
          ELSE visited' = visited \union {w} /\ stack' = Append(stack, w)
  /\ UNCHANGED <<count, edges, pc, components, start, component, current>>

Pushed ==
  /\ pc = "push" /\ todo = {}
  /\ pc' = "pop"
  /\ UNCHANGED <<count, edges, visited, components, start, stack, component,
                 current, todo>>

Complete ==
  /\ pc = "pop" /\ stack = <<>>
  /\ components' = Append(components, Listed)
  /\ pc' = "scan" /\ start' = start + 1
  /\ UNCHANGED <<count, edges, visited, stack, component, current, todo>>

\* Mutant: the loop ends one index too late.
FinishLate ==
  /\ pc = "scan" /\ start > count
  /\ pc' = "done"
  /\ UNCHANGED <<count, edges, visited, components, start, stack, component,
                 current, todo>>

Finish ==
  /\ pc = "scan" /\ start >= count
  /\ pc' = "done"
  /\ UNCHANGED <<count, edges, visited, components, start, stack, component,
                 current, todo>>

Next == \/ BuildAdjacency \/ Scan \/ Pop \/ Push \/ Pushed \/ Complete \/ Finish

Spec == Init /\ [][Next]_vars
FairSpec == Spec /\ WF_vars(Next)

-----------------------------------------------------------------------------
\* Type invariant.
TypeOK ==
  /\ count \in Nat /\ edges \subseteq Nat \X Nat
  /\ pc \in {"edges", "scan", "pop", "push", "done", "none"}
  /\ visited \subseteq Occurrences
  /\ components \in Seq(SUBSET Occurrences)
  /\ start \in Nat
  /\ stack \in Seq(Occurrences)
  /\ component \in Seq(Occurrences)
  /\ current \in Nat
  /\ todo \subseteq Occurrences

\* No occurrence is ever on the stack or in the component twice, or in two
\* components: marking on push, not on pop, is what keeps PGP104's groups free
\* of duplicates in a cyclic graph (rules.rs 284-295).
EachOnce ==
  /\ \A i, j \in DOMAIN stack : stack[i] = stack[j] => i = j
  /\ pc \in {"pop", "push"} =>
       /\ \A i, j \in DOMAIN component : component[i] = component[j] => i = j
       /\ Listed \intersect Stacked = {}
       /\ Found \intersect (Listed \union Stacked) = {}

\* The components are exactly the sets of occurrences that predicates connect,
\* so PGP104 neither splits a connected join nor joins disconnected parts
\* (rules.rs 256-308).
ComponentsCorrect ==
  pc = "done" => {components[i] : i \in DOMAIN components}
                   = Components(Occurrences, edges)

\* They come in ascending order of their first occurrence, each once: the
\* report does not depend on the order of the edges.
ComponentsOrdered ==
  \A i, j \in DOMAIN components : i < j =>
    \A b \in components[j] : b \notin components[i] /\ \E a \in components[i] : a < b

\* The search ends for every graph.
Terminates == <>(pc \in {"done", "none"})
=============================================================================
