----------------------- MODULE ConnectedComponentsProofs -----------------------
(***************************************************************************)
(* The search of ConnectedComponents computes the components of every      *)
(* graph, and every iteration brings it nearer to its end.                 *)
(***************************************************************************)
EXTENDS ConnectedComponents, ConnectivityProofs, FiniteSetTheorems, TLAPS

-----------------------------------------------------------------------------
Searching == pc \in {"pop", "push"}

Marked ==
  /\ pc \notin {"edges", "none"} => edges \subseteq Occurrences \X Occurrences
  /\ visited = IF Searching THEN Found \union Listed \union Stacked ELSE Found
  /\ \A v \in Occurrences : v < start => v \in visited
  /\ Searching => start \in Occurrences /\ start \in Listed \union Stacked
  /\ pc \in {"edges", "none"} => components = <<>>
  /\ pc = "done" => start >= count

\* The component being built: reached from start, explored up to the stack and
\* the neighbors the inner loop still has to look at.
Frontier ==
  /\ Searching =>
       /\ \A v \in Listed \union Stacked : Connected(Occurrences, edges, start, v)
       /\ \A v \in Listed, w \in Occurrences : Adjacent(edges, v, w) =>
            w \in visited \/ (pc = "push" /\ v = current /\ w \in todo)
  /\ pc = "push" => /\ current \in Listed
                    /\ \A w \in todo : Adjacent(edges, current, w)

\* What is finished.
Finished ==
  /\ Closed(Occurrences, edges, Found)
  /\ \A i \in DOMAIN components :
       /\ \E s \in Occurrences : components[i] = Component(Occurrences, edges, s)
       /\ \A b \in Occurrences \ Found : \E a \in components[i] : a < b
  /\ ComponentsOrdered

CInv == TypeOK /\ EachOnce /\ Marked /\ Frontier /\ Finished

LEMMA InitCInv == Init => CInv
<1> SUFFICES ASSUME Init PROVE CInv
  OBVIOUS
<1>1. TypeOK
  BY GraphsAssumption DEF Init, TypeOK
<1>2. Found = {} /\ Stacked = {} /\ Listed = {} /\ DOMAIN components = {}
  BY DEF Init, Found, Stacked, Listed
<1> QED BY <1>1, <1>2 DEF Init, CInv, EachOnce, Marked, Frontier, Finished, Searching,
        ComponentsOrdered, Closed, Occurrences

LEMMA BuildStep == CInv /\ BuildAdjacency => CInv'
  BY DEF BuildAdjacency, CInv, TypeOK, EachOnce, Marked, Frontier, Finished, Searching,
     ComponentsOrdered, Occurrences, Found, Listed, Stacked

\* A step that only moves pc or skips a start that is visited already.
LEMMA SkipStep ==
  ASSUME CInv,
         UNCHANGED <<count, edges, visited, components, stack, component, current, todo>>,
         pc' = pc \/ (pc = "scan" /\ pc' = "done" /\ start >= count)
           \/ (pc = "push" /\ pc' = "pop" /\ todo = {}),
         start' = start \/ (pc = "scan" /\ start' = start + 1 /\ start \in visited)
  PROVE  CInv'
<1>1. /\ Occurrences' = Occurrences /\ Found' = Found /\ Listed' = Listed
      /\ Stacked' = Stacked /\ Searching' = Searching
  BY DEF Occurrences, Found, Listed, Stacked, Searching
<1>2. TypeOK'
  BY <1>1 DEF CInv, TypeOK
<1>3. EachOnce'
  BY <1>1 DEF CInv, EachOnce
<1>4. Marked'
  <2>1. \A v \in Occurrences : v < start' => v \in visited
    BY DEF CInv, Marked, Occurrences, TypeOK
  <2>2. pc' = "done" => start' >= count
    BY DEF CInv, Marked, TypeOK
  <2> QED BY <1>1, <2>1, <2>2 DEF CInv, Marked, Searching
<1>5. Frontier'
  BY <1>1 DEF CInv, Frontier, Searching
<1>6. Finished'
  BY <1>1 DEF CInv, Finished, ComponentsOrdered
<1> QED BY <1>2, <1>3, <1>4, <1>5, <1>6 DEF CInv

LEMMA ScanStep == CInv /\ Scan => CInv'
<1> SUFFICES ASSUME CInv, Scan PROVE CInv'
  OBVIOUS
<1>1. /\ count' = count /\ edges' = edges /\ components' = components /\ todo' = todo
      /\ Occurrences' = Occurrences /\ Found' = Found /\ start \in Occurrences
      /\ pc = "scan" /\ current' = current
  BY DEF Scan, CInv, TypeOK, Occurrences, Found
<1>2. CASE start \in visited
  <2>1. /\ start' = start + 1 /\ pc' = pc /\ visited' = visited /\ stack' = stack
        /\ component' = component
    BY <1>2 DEF Scan
  <2> QED BY <1>1, <1>2, <2>1, SkipStep
<1>3. CASE start \notin visited
  <2>1. /\ visited' = visited \union {start} /\ stack' = <<start>> /\ component' = <<>>
        /\ pc' = "pop" /\ start' = start
    BY <1>3 DEF Scan
  <2>2. Stacked' = {start} /\ Listed' = {}
    BY <2>1 DEF Stacked, Listed
  <2>3. TypeOK'
    BY <1>1, <2>1 DEF CInv, TypeOK
  <2>4. EachOnce'
    BY <1>1, <1>3, <2>1, <2>2 DEF CInv, EachOnce, Marked, Searching
  <2>5. Marked'
    BY <1>1, <2>1, <2>2 DEF CInv, Marked, Searching
  <2>6. Frontier'
    BY <1>1, <2>1, <2>2, ConnectedRefl DEF Frontier
  <2>7. Finished'
    BY <1>1 DEF CInv, Finished, ComponentsOrdered
  <2> QED BY <2>3, <2>4, <2>5, <2>6, <2>7 DEF CInv
<1> QED BY <1>2, <1>3

LEMMA PopStep == CInv /\ Pop => CInv'
<1> SUFFICES ASSUME CInv, Pop PROVE CInv'
  OBVIOUS
<1> DEFINE n == Len(stack)  m == Len(component)
<1>1. /\ pc = "pop" /\ pc' = "push" /\ current' = stack[n]
      /\ stack' = SubSeq(stack, 1, n - 1) /\ component' = Append(component, current')
      /\ todo' = {w \in Occurrences : Adjacent(edges, current', w)}
      /\ count' = count /\ edges' = edges /\ visited' = visited
      /\ components' = components /\ start' = start
      /\ Occurrences' = Occurrences /\ Found' = Found
  BY DEF Pop, Occurrences, Found
<1>2. /\ n \in Nat /\ n > 0 /\ m \in Nat
      /\ DOMAIN stack = 1..n /\ DOMAIN component = 1..m
      /\ stack' \in Seq(Occurrences) /\ component' \in Seq(Occurrences)
      /\ DOMAIN stack' = 1..(n - 1) /\ DOMAIN component' = 1..(m + 1)
      /\ \A i \in 1..(n - 1) : stack'[i] = stack[i]
      /\ \A i \in 1..m : component'[i] = component[i]
      /\ component'[m + 1] = stack[n] /\ stack[n] \in Occurrences /\ current' \in Occurrences
  BY <1>1 DEF Pop, CInv, TypeOK
<1>3. Listed' = Listed \union {current'}
  BY <1>1, <1>2 DEF Listed
<1>4. Stacked = Stacked' \union {current'} /\ current' \notin Stacked'
  <2>1. current' \notin Stacked'
    BY <1>1, <1>2 DEF Stacked, CInv, EachOnce
  <2>2. Stacked = Stacked' \union {current'}
    <3>1. 1..n = (1..(n - 1)) \union {n}
      BY <1>2
    <3>2. Stacked = {stack[i] : i \in 1..(n - 1)} \union {stack[n]}
      BY <1>2, <3>1 DEF Stacked
    <3>3. Stacked' = {stack[i] : i \in 1..(n - 1)}
      BY <1>2 DEF Stacked
    <3> QED BY <1>1, <3>2, <3>3
  <2> QED BY <2>1, <2>2
<1>5. TypeOK'
  BY <1>1, <1>2 DEF CInv, TypeOK, Occurrences
<1>6. EachOnce'
  <2>1. \A i, j \in DOMAIN stack' : stack'[i] = stack'[j] => i = j
    BY <1>2 DEF CInv, EachOnce
  <2>2. \A i \in 1..m : component[i] # stack[n]
    BY <1>1, <1>2, <1>4 DEF CInv, EachOnce, Listed
  <2>3. \A i, j \in DOMAIN component' : component'[i] = component'[j] => i = j
    BY <1>1, <1>2, <2>2 DEF CInv, EachOnce
  <2>4. /\ (Listed \union {current'}) \intersect Stacked' = {}
        /\ Found \intersect (Listed \union {current'} \union Stacked') = {}
    BY <1>1, <1>4 DEF CInv, EachOnce
  <2> QED BY <1>1, <1>3, <2>1, <2>3, <2>4 DEF EachOnce
<1>7. Marked'
  BY <1>1, <1>3, <1>4 DEF CInv, Marked, Searching
<1>8. Frontier'
  BY <1>1, <1>2, <1>3, <1>4 DEF CInv, Frontier, Searching
<1>9. Finished'
  BY <1>1 DEF CInv, Finished, ComponentsOrdered
<1> QED BY <1>5, <1>6, <1>7, <1>8, <1>9 DEF CInv

LEMMA PushStep == CInv /\ Push => CInv'
<1> SUFFICES ASSUME CInv, Push PROVE CInv'
  OBVIOUS
<1> DEFINE n == Len(stack)
<1>1. PICK w \in todo :
        /\ todo' = todo \ {w}
        /\ IF w \in visited THEN UNCHANGED <<visited, stack>>
           ELSE visited' = visited \union {w} /\ stack' = Append(stack, w)
  BY DEF Push
<1>2. /\ pc = "push" /\ pc' = "push" /\ count' = count /\ edges' = edges
      /\ components' = components /\ start' = start /\ component' = component
      /\ current' = current /\ Occurrences' = Occurrences /\ Found' = Found
      /\ Listed' = Listed /\ w \in Occurrences
  BY DEF Push, Occurrences, Found, Listed, CInv, TypeOK
<1>3. Finished'
  BY <1>2 DEF CInv, Finished, ComponentsOrdered
<1>4. CASE w \in visited
  <2>1. visited' = visited /\ stack' = stack /\ Stacked' = Stacked
    BY <1>1, <1>4 DEF Stacked
  <2>2. TypeOK' /\ EachOnce' /\ Marked'
    BY <1>1, <1>2, <2>1 DEF CInv, TypeOK, EachOnce, Marked, Searching
  <2>3. Frontier'
    BY <1>1, <1>2, <1>4, <2>1 DEF CInv, Frontier, Searching
  <2> QED BY <1>3, <2>2, <2>3 DEF CInv
<1>5. CASE w \notin visited
  <2>1. visited' = visited \union {w} /\ stack' = Append(stack, w)
    BY <1>1, <1>5
  <2>2. /\ n \in Nat /\ DOMAIN stack = 1..n /\ DOMAIN stack' = 1..(n + 1)
        /\ \A i \in 1..n : stack'[i] = stack[i]
        /\ stack'[n + 1] = w /\ stack' \in Seq(Occurrences)
    BY <1>2, <2>1 DEF CInv, TypeOK
  <2>3. Stacked' = Stacked \union {w}
    BY <2>2 DEF Stacked
  <2>4. TypeOK'
    BY <1>1, <1>2, <2>1, <2>2 DEF CInv, TypeOK, Occurrences
  <2>5. w \notin Found \union Listed \union Stacked
    BY <1>2, <1>5 DEF CInv, Marked, Searching
  <2>6. EachOnce'
    <3>1. \A i \in 1..n : stack[i] # w
      BY <2>2, <2>5 DEF Stacked
    <3>2. \A i, j \in DOMAIN stack' : stack'[i] = stack'[j] => i = j
      BY <2>2, <3>1 DEF CInv, EachOnce
    <3> QED BY <1>2, <2>3, <2>5, <3>2 DEF CInv, EachOnce
  <2>7. Marked'
    BY <1>2, <2>1, <2>3 DEF CInv, Marked, Searching
  <2>8. Frontier'
    <3>1. Connected(Occurrences, edges, start, w)
      <4>1. current \in Listed /\ Adjacent(edges, current, w) /\ current \in Occurrences
        BY <1>2 DEF CInv, Frontier, Listed, TypeOK
      <4>2. Connected(Occurrences, edges, start, current)
        BY <1>2, <4>1 DEF CInv, Frontier, Searching
      <4> QED BY <1>2, <4>1, <4>2, ConnectedStep
    <3> QED BY <1>1, <1>2, <2>1, <2>3, <3>1 DEF CInv, Frontier, Searching
  <2> QED BY <1>3, <2>4, <2>6, <2>7, <2>8 DEF CInv
<1> QED BY <1>4, <1>5

LEMMA PushedStep == CInv /\ Pushed => CInv'
  BY SkipStep DEF Pushed

LEMMA CompleteStep == CInv /\ Complete => CInv'
<1> SUFFICES ASSUME CInv, Complete PROVE CInv'
  OBVIOUS
<1> DEFINE n == Len(components)
<1>1. /\ pc = "pop" /\ pc' = "scan" /\ components' = Append(components, Listed)
      /\ start' = start + 1 /\ count' = count /\ edges' = edges /\ visited' = visited
      /\ stack' = stack /\ component' = component /\ todo' = todo /\ current' = current
      /\ Occurrences' = Occurrences /\ Listed' = Listed /\ Stacked' = Stacked
      /\ Stacked = {} /\ Searching /\ ~Searching'
  BY DEF Complete, Occurrences, Listed, Stacked, Searching
<1>2. Listed \in SUBSET Occurrences /\ start \in Listed /\ start \in Nat
  BY <1>1 DEF CInv, Marked, TypeOK, Listed
<1>3. /\ n \in Nat /\ DOMAIN components = 1..n /\ DOMAIN components' = 1..(n + 1)
      /\ \A i \in 1..n : components'[i] = components[i]
      /\ components'[n + 1] = Listed /\ components' \in Seq(SUBSET Occurrences)
  BY <1>1, <1>2 DEF CInv, TypeOK
<1>4. Found' = Found \union Listed
  BY <1>3 DEF Found
<1>5. visited = Found \union Listed /\ Found \intersect Listed = {}
  BY <1>1 DEF CInv, Marked, EachOnce, Searching
<1>6. \A v \in Listed, w \in Occurrences : Adjacent(edges, v, w) => w \in Found \union Listed
  BY <1>1, <1>5 DEF CInv, Frontier
<1>7. Closed(Occurrences, edges, Listed) /\ Closed(Occurrences, edges, Found \union Listed)
  <2>1. \A v \in Listed, w \in Occurrences : Adjacent(edges, v, w) => w \notin Found
    <3> SUFFICES ASSUME NEW v \in Listed, NEW w \in Found, Adjacent(edges, v, w) PROVE FALSE
      OBVIOUS
    <3>1. Adjacent(edges, w, v)
      BY DEF Adjacent
    <3>2. v \in Found
      BY <1>2, <3>1 DEF CInv, Finished, Closed
    <3> QED BY <3>2, <1>5
  <2>2. Closed(Occurrences, edges, Listed)
    BY <1>6, <2>1 DEF Closed
  <2> QED BY <2>2 DEF CInv, Finished, Closed
<1>8. Listed = Component(Occurrences, edges, start)
  BY <1>1, <1>2, <1>7, ClosedIsComponent DEF CInv, Frontier
<1>9. TypeOK'
  BY <1>1, <1>2, <1>3 DEF CInv, TypeOK, Occurrences
<1>10. EachOnce'
  BY <1>1 DEF CInv, EachOnce
<1>11. Marked'
  <2>1. \A v \in Occurrences : v < start + 1 => v \in visited
    BY <1>2, <1>5 DEF CInv, Marked, Occurrences, TypeOK
  <2> QED BY <1>1, <1>4, <1>5, <2>1 DEF CInv, Marked
<1>12. Frontier'
  BY <1>1 DEF Frontier
<1>13. Finished'
  <2>1. \A b \in Occurrences \ (Found \union Listed) : start < b
    BY <1>2, <1>5 DEF CInv, Marked, Occurrences, TypeOK
  <2>2. ASSUME NEW i \in 1..(n + 1)
        PROVE /\ \E s \in Occurrences : components'[i] = Component(Occurrences, edges, s)
              /\ \A b \in Occurrences \ (Found \union Listed) : \E a \in components'[i] : a < b
    <3>1. CASE i = n + 1
      BY <1>2, <1>3, <1>8, <2>1, <3>1
    <3>2. CASE i # n + 1
      BY <1>3, <3>2 DEF CInv, Finished
    <3> QED BY <3>1, <3>2
  <2>3. ASSUME NEW i \in 1..(n + 1), NEW j \in 1..(n + 1), i < j, NEW b \in components'[j]
        PROVE b \notin components'[i] /\ \E a \in components'[i] : a < b
    <3>1. i \in 1..n /\ components'[i] = components[i]
      BY <1>3, <2>3
    <3>2. CASE j = n + 1
      <4>1. b \in Listed /\ b \notin Found
        BY <1>3, <1>5, <2>3, <3>2
      <4> QED BY <1>2, <1>3, <3>1, <4>1 DEF CInv, Finished, Found
    <3>3. CASE j # n + 1
      BY <1>3, <2>3, <3>1, <3>3 DEF CInv, Finished, ComponentsOrdered
    <3> QED BY <3>2, <3>3
  <2> QED BY <1>1, <1>3, <1>4, <1>7, <2>2, <2>3 DEF Finished, ComponentsOrdered
<1> QED BY <1>9, <1>10, <1>11, <1>12, <1>13 DEF CInv

LEMMA FinishStep == CInv /\ Finish => CInv'
  BY SkipStep DEF Finish

LEMMA CInvInductive == CInv /\ [Next]_vars => CInv'
<1>1. CInv /\ UNCHANGED vars => CInv'
  BY SkipStep DEF vars
<1> QED BY <1>1, BuildStep, ScanStep, PopStep, PushStep, PushedStep, CompleteStep,
        FinishStep DEF Next

\* The invariant of the search.
THEOREM SearchInvariant == Spec => []CInv
  BY InitCInv, CInvInductive, PTL DEF Spec

\* The stack, the marks and the components keep to the occurrences there are.
THEOREM SearchTyped == Spec => []TypeOK
<1>1. CInv => TypeOK
  BY DEF CInv
<1> QED BY <1>1, SearchInvariant, PTL

\* No occurrence is listed twice, in one component or in two.
THEOREM OccurrencesOnce == Spec => []EachOnce
<1>1. CInv => EachOnce
  BY DEF CInv
<1> QED BY <1>1, SearchInvariant, PTL

\* For every join graph, what the search returns are the graph's components.
THEOREM Correct == Spec => []ComponentsCorrect
<1>1. ASSUME CInv PROVE ComponentsCorrect
  <2> SUFFICES ASSUME pc = "done"
               PROVE  {components[i] : i \in DOMAIN components} = Components(Occurrences, edges)
    BY DEF ComponentsCorrect
  <2>1. ASSUME NEW i \in DOMAIN components
        PROVE components[i] \in Components(Occurrences, edges)
    BY <1>1 DEF CInv, Finished, Components
  <2>2. ASSUME NEW v \in Occurrences
        PROVE \E i \in DOMAIN components : components[i] = Component(Occurrences, edges, v)
    <3>1. v \in Found
      BY <1>1 DEF CInv, Marked, Searching, TypeOK, Occurrences
    <3>2. PICK i \in DOMAIN components : v \in components[i]
      BY <3>1 DEF Found
    <3>3. PICK s \in Occurrences : components[i] = Component(Occurrences, edges, s)
      BY <1>1 DEF CInv, Finished
    <3> QED BY <3>2, <3>3, SameComponent
  <2> QED BY <2>1, <2>2 DEF Components
<1> QED BY <1>1, SearchInvariant, PTL

\* They are reported in ascending order of their first occurrence, each once.
THEOREM Ordered == Spec => []ComponentsOrdered
<1>1. CInv => ComponentsOrdered
  BY DEF CInv, Finished
<1> QED BY <1>1, SearchInvariant, PTL

-----------------------------------------------------------------------------
(* The search ends: what is still to do, the most significant part first,   *)
(* gets less with every iteration.                                          *)

Phase == CASE pc = "edges" -> 2 [] pc \in {"done", "none"} -> 0 [] OTHER -> 1

ToDo == <<Phase, count - start, Cardinality(Occurrences \ visited), Len(stack),
          Cardinality(todo), IF pc = "push" THEN 1 ELSE 0>>

Less(a, b) ==
  \E k \in DOMAIN b : a[k] < b[k] /\ \A m \in DOMAIN b : m < k => a[m] = b[m]

\* The inductive invariant with a bound on start.
WithinCount == CInv /\ start <= count

\* What is counted is finite.
LEMMA OccurrencesFinite ==
  ASSUME WithinCount
  PROVE  \A S : S \subseteq Occurrences => IsFiniteSet(S) /\ Cardinality(S) \in Nat
<1>1. IsFiniteSet(Occurrences)
  <2>1. 0 \in Int /\ count - 1 \in Int
    BY DEF WithinCount, CInv, TypeOK
  <2> QED BY <2>1, FS_Interval DEF Occurrences
<1> QED BY <1>1, FS_Subset, FS_CardinalityType

LEMMA WithinCountInductive == WithinCount /\ [Next]_vars => WithinCount'
<1> SUFFICES ASSUME WithinCount, [Next]_vars PROVE WithinCount'
  OBVIOUS
<1>1. CInv'
  BY CInvInductive DEF WithinCount
<1>2. start \in Nat /\ count \in Nat /\ count' = count
  BY DEF WithinCount, CInv, TypeOK, Next, vars, BuildAdjacency, Scan, Pop, Push, Pushed,
     Complete, Finish
<1>3. start' = start \/ (start' = start + 1 /\ start < count)
  BY <1>2 DEF WithinCount, CInv, Marked, Searching, Occurrences, Next, vars, BuildAdjacency,
     Scan, Pop, Push, Pushed, Complete, Finish
<1> QED BY <1>1, <1>2, <1>3 DEF WithinCount

LEMMA ToDoCounts == WithinCount => ToDo \in Nat \X Nat \X Nat \X Nat \X Nat \X Nat
<1> SUFFICES ASSUME WithinCount PROVE ToDo \in Nat \X Nat \X Nat \X Nat \X Nat \X Nat
  OBVIOUS
<1>1. Phase \in Nat
  BY DEF Phase
<1>2. count - start \in Nat /\ Len(stack) \in Nat
  BY DEF WithinCount, CInv, TypeOK
<1>3. Cardinality(Occurrences \ visited) \in Nat /\ Cardinality(todo) \in Nat
  BY OccurrencesFinite DEF WithinCount, CInv, TypeOK
<1> QED BY <1>1, <1>2, <1>3 DEF ToDo

LEMMA IterationLowers ==
  ASSUME WithinCount, Next
  PROVE  Less(ToDo', ToDo)
<1> DEFINE D == Occurrences \ visited
<1>1. /\ count \in Nat /\ start \in Nat /\ start <= count /\ stack \in Seq(Occurrences)
      /\ visited \subseteq Occurrences /\ todo \subseteq Occurrences
      /\ count' = count /\ Occurrences' = Occurrences
  BY DEF WithinCount, CInv, TypeOK, Next, Occurrences, BuildAdjacency, Scan, Pop, Push,
     Pushed, Complete, Finish
<1>2. DOMAIN ToDo = 1..6
  BY DEF ToDo
<1>3. CASE Phase' < Phase
  BY <1>2, <1>3 DEF Less, ToDo
<1>4. CASE Phase' = Phase /\ start' = start + 1
  <2>1. count' - start' < count - start
    BY <1>1, <1>4
  <2> QED BY <1>2, <1>4, <2>1 DEF Less, ToDo
<1>5. CASE /\ Phase' = Phase /\ start' = start
           /\ \E w \in D : visited' = visited \union {w}
  <2>1. PICK w \in D : visited' = visited \union {w}
    BY <1>5
  <2>2. Occurrences' \ visited' = D \ {w}
    BY <1>1, <2>1
  <2>3. IsFiniteSet(D) /\ Cardinality(D) \in Nat /\ Cardinality(D \ {w}) = Cardinality(D) - 1
    BY OccurrencesFinite, FS_RemoveElement
  <2>4. Cardinality(Occurrences' \ visited') < Cardinality(D)
    <3>1. Cardinality(Occurrences' \ visited') = Cardinality(D \ {w})
      BY <2>2, Zenon
    <3>2. Cardinality(D \ {w}) < Cardinality(D)
      <4> HIDE DEF D
      <4> QED BY <2>3
    <3> HIDE DEF D
    <3> QED BY <3>1, <3>2
  <2>5. ToDo'[1] = ToDo[1] /\ ToDo'[2] = ToDo[2]
    BY <1>1, <1>5 DEF ToDo
  <2>6. ToDo'[3] < ToDo[3]
    BY <2>4 DEF ToDo
  <2> QED BY <1>2, <2>5, <2>6 DEF Less
<1>6. CASE /\ Phase' = Phase /\ start' = start /\ visited' = visited
           /\ Len(stack') < Len(stack)
  BY <1>1, <1>2, <1>6 DEF Less, ToDo
<1>7. CASE /\ Phase' = Phase /\ start' = start /\ visited' = visited /\ stack' = stack
           /\ \E w \in todo : todo' = todo \ {w}
  <2>1. PICK w \in todo : todo' = todo \ {w}
    BY <1>7
  <2>2. Cardinality(todo) \in Nat /\ Cardinality(todo') = Cardinality(todo) - 1
    BY <1>1, <2>1, OccurrencesFinite, FS_RemoveElement
  <2>3. Cardinality(todo') < Cardinality(todo)
    BY <2>2
  <2> QED BY <1>1, <1>2, <1>7, <2>3 DEF Less, ToDo
<1>8. CASE /\ Phase' = Phase /\ start' = start /\ visited' = visited /\ stack' = stack
           /\ todo' = todo /\ pc = "push" /\ pc' = "pop"
  BY <1>1, <1>2, <1>8 DEF Less, ToDo
<1>9. CASE BuildAdjacency
  BY <1>3, <1>9 DEF BuildAdjacency, Phase
<1>10. CASE Scan
  <2>1. Phase' = Phase
    BY <1>10 DEF Scan, Phase
  <2>2. start' = start + 1 \/ (start' = start /\ \E w \in D : visited' = visited \union {w})
    BY <1>1, <1>10 DEF Scan, Occurrences
  <2> QED BY <1>4, <1>5, <2>1, <2>2
<1>11. CASE Pop
  <2>1. Phase' = Phase /\ start' = start /\ visited' = visited
    BY <1>11 DEF Pop, Phase
  <2>2. Len(stack') < Len(stack)
    BY <1>1, <1>11 DEF Pop
  <2> QED BY <1>6, <2>1, <2>2
<1>12. CASE Push
  <2>1. Phase' = Phase /\ start' = start
    BY <1>12 DEF Push, Phase
  <2>2. \/ \E w \in D : visited' = visited \union {w}
        \/ visited' = visited /\ stack' = stack /\ \E w \in todo : todo' = todo \ {w}
    BY <1>1, <1>12 DEF Push
  <2> QED BY <1>5, <1>7, <2>1, <2>2
<1>13. CASE Pushed
  BY <1>8, <1>13 DEF Pushed, Phase
<1>14. CASE Complete
  BY <1>4, <1>14 DEF Complete, Phase
<1>15. CASE Finish
  BY <1>3, <1>15 DEF Finish, Phase
<1> QED BY <1>9, <1>10, <1>11, <1>12, <1>13, <1>14, <1>15 DEF Next

\* Every iteration of the search lowers a tuple of natural numbers in the
\* lexicographic order, so that no graph makes it go round for ever
\* (rules.rs 279-308).
THEOREM SearchAdvances ==
  Spec => /\ [](ToDo \in Nat \X Nat \X Nat \X Nat \X Nat \X Nat)
          /\ [][Less(ToDo', ToDo)]_vars
<1>1. Init => WithinCount
  <2>1. Init => count \in Nat /\ start = 0
    BY GraphsAssumption DEF Init
  <2> QED BY <2>1, InitCInv DEF WithinCount
<1>2. WithinCount /\ [Next]_vars => [Less(ToDo', ToDo)]_vars
  BY IterationLowers
<1> QED BY <1>1, <1>2, WithinCountInductive, ToDoCounts, PTL DEF Spec
=============================================================================
