---------------------------- MODULE JoinGraphProofs ----------------------------
(***************************************************************************)
(* Proofs about JoinGraph, for every FROM clause, every predicate and any  *)
(* number of factors.                                                      *)
(***************************************************************************)
EXTENDS JoinGraph, ConnectivityProofs, WellFoundedInduction, TLAPS

\* S does not separate the ends of an edge.
Respects(E, S) == \A e \in E : e[1] \in S <=> e[2] \in S
Ascending(V) == {e \in V \X V : e[1] < e[2]}

\* Until a factor or join is unclear, occurrence i is factor i and left_scope
\* holds what the condition of the next join can name.
InStep ==
  /\ Len(occurrences) = Len(scopes)
  /\ \A i \in 1..Len(scopes) : occurrences[i] = from[i] /\ scopes[i] = <<i - 1>>
  /\ nextScope > 0 => left # <<>> /\ Members(left) = Visible(nextScope - 1)
  /\ pc = "done" => Len(scopes) = Len(from)

Exact ==
  \A S \in SUBSET FactorIds :
    /\ Closed(FactorIds, edges, S) => AllTogether(S)
    /\ SomeTogether(S) => Closed(FactorIds, edges, S)

\* The inductive invariant.
JInv ==
  /\ TypeOK
  /\ from # <<>> => from[1].lead
  /\ \A i \in DOMAIN from : from[i].name # <<>> /\ Len(from[i].alias) <= 1
  /\ Len(scopes) <= Len(from)
  /\ nextScope > 0 => Len(scopes) = Len(from)
  /\ ~indeterminate => InStep
  /\ Spelled /\ Determinate => Exact

-----------------------------------------------------------------------------
\* Every set of natural numbers has a least element.
LEMMA Least ==
  ASSUME NEW T \in SUBSET Nat, T # {}
  PROVE  \E m \in T : \A k \in T : m <= k
<1>1. PICK m \in T : \A k \in T : ~(<<k, m>> \in OpToRel(<, Nat))
  BY WFMin, NatLessThanWellFounded
<1>2. \A k \in T : ~(k < m)
  BY <1>1 DEF OpToRel
<1> QED BY <1>2

\* Linking neighbors links all owners of a conjunct (join_graph.rs 346-349).
LEMMA ChainLinks ==
  ASSUME NEW O \in SUBSET Int, NEW S, Respects(Chain(O), S)
  PROVE  \A i, j \in O : i \in S <=> j \in S
<1> DEFINE Crosses(x, y) == x < y /\ ~(x \in S <=> y \in S)
           T == {dist \in Nat : \E x, y \in O : Crosses(x, y) /\ dist = y - x}
<1>1. T = {}
  <2> SUFFICES ASSUME T # {} PROVE FALSE
    OBVIOUS
  <2>1. PICK m \in T : \A k \in T : m <= k
    BY Least
  <2>2. PICK x \in O, y \in O : Crosses(x, y) /\ m = y - x
    BY <2>1
  <2>3. <<x, y>> \notin Chain(O)
    BY <2>2 DEF Respects
  <2>4. PICK k \in O : x < k /\ k < y
    BY <2>2, <2>3 DEF Chain
  <2>5. Crosses(x, k) \/ Crosses(k, y)
    BY <2>2, <2>4
  <2>6. k - x \in T \/ y - k \in T
    BY <2>4, <2>5
  <2>7. x \in Int /\ y \in Int /\ k \in Int
    BY <2>2, <2>4
  <2>8. ~(m <= k - x) /\ ~(m <= y - k)
    BY <2>2, <2>4, <2>7
  <2> QED BY <2>1, <2>6, <2>8
<1>2. \A x, y \in O : ~Crosses(x, y)
  <2> SUFFICES ASSUME NEW x \in O, NEW y \in O, Crosses(x, y) PROVE FALSE
    OBVIOUS
  <2>1. y - x \in Nat
    OBVIOUS
  <2> QED BY <1>1, <2>1
<1> QED BY <1>2

\* For normalized edges closed sets are those that separate no edge.
LEMMA ClosedRespects ==
  ASSUME NEW V \in SUBSET Int, NEW E, E \subseteq Ascending(V), NEW S \in SUBSET V
  PROVE  Closed(V, E, S) <=> Respects(E, S)
<1>1. ASSUME Closed(V, E, S) PROVE Respects(E, S)
  <2> SUFFICES ASSUME NEW e \in E PROVE e[1] \in S <=> e[2] \in S
    BY DEF Respects
  <2>1. e = <<e[1], e[2]>> /\ e[1] \in V /\ e[2] \in V /\ e[1] # e[2]
    <3>1. e \in V \X V /\ e[1] < e[2]
      BY DEF Ascending
    <3>2. e[1] \in Int /\ e[2] \in Int
      BY <3>1
    <3> QED BY <3>1, <3>2
  <2> QED BY <1>1, <2>1 DEF Closed, Adjacent
<1>2. ASSUME Respects(E, S) PROVE Closed(V, E, S)
  BY <1>2 DEF Respects, Closed, Adjacent
<1> QED BY <1>1, <1>2

LEMMA RespectsUnion ==
  ASSUME NEW E, NEW F, NEW S
  PROVE  Respects(E \union F, S) <=> Respects(E, S) /\ Respects(F, S)
BY DEF Respects

\* The two readings of AllTogether and SomeTogether for any set of pairs.
AllIn(A, S) == \A a \in A : \A i \in a.left, j \in a.right : i \in S <=> j \in S
SomeIn(A, S) == \A a \in A : \E i \in a.left, j \in a.right : i \in S <=> j \in S

\* What is spelled alike is named alike.
LEMMA SameNames ==
  ASSUME Spelled, NEW q \in Seq(Idents), NEW w \in Seq(Idents), Values(q) = Values(w)
  PROVE  Names(q) = Names(w)
<1>1. DOMAIN q = DOMAIN w
  <2>1. DOMAIN Values(q) = DOMAIN q /\ DOMAIN Values(w) = DOMAIN w
    BY DEF Values
  <2> QED BY <2>1
<1>2. \A i \in DOMAIN q : q[i].value = w[i].value
  <2> SUFFICES ASSUME NEW i \in DOMAIN q PROVE q[i].value = w[i].value
    OBVIOUS
  <2>1. Values(q)[i] = Values(w)[i]
    OBVIOUS
  <2>2. Values(q)[i] = q[i].value /\ Values(w)[i] = w[i].value
    BY <1>1 DEF Values
  <2> QED BY <2>1, <2>2
<1>3. \A i \in DOMAIN q : q[i] \in Idents /\ w[i] \in Idents
  BY <1>1
<1>4. \A i \in DOMAIN q : q[i].name = w[i].name
  BY <1>2, <1>3 DEF Spelled
<1> QED BY <1>1, <1>4 DEF Names

\* A key of the builder is a name of PostgreSQL (join_graph.rs 143-168).
LEMMA KeysAreNames ==
  ASSUME Spelled, NEW f \in Factors, f.name # <<>>,
         NEW q \in Seq(Idents), Values(q) \in Keys(f)
  PROVE  Names(q) \in KnownAs(f)
<1>1. f.name \in Seq(Idents) /\ f.alias \in Seq(Idents)
  BY DEF Factors
<1> DEFINE last == f.name[Len(f.name)]
<1>2. last \in Idents /\ Len(f.name) \in DOMAIN f.name /\ Len(f.name) \in Nat
  BY <1>1
<1>3. PICK w \in Written(f) : Values(q) = Values(w)
  BY DEF Keys
<1>4. w \in Seq(Idents)
  <2>1. <<last>> \in Seq(Idents)
    BY <1>2
  <2>2. w \in {f.alias, <<last>>, f.name}
    BY <1>3 DEF Written
  <2> QED BY <1>1, <2>1, <2>2
<1>5. Names(q) = Names(w)
  BY <1>3, <1>4, SameNames
<1>6. CASE f.alias # <<>>
  BY <1>3, <1>5, <1>6 DEF Written, KnownAs
<1>7. CASE f.alias = <<>>
  <2>1. DOMAIN Names(f.name) = DOMAIN f.name /\ Len(Names(f.name)) = Len(f.name)
    BY <1>1 DEF Names
  <2>2. Names(f.name)[Len(f.name)] = last.name
    BY <1>2 DEF Names
  <2>3. <<last.name>> \in KnownAs(f)
    BY <1>7, <2>1, <2>2 DEF KnownAs
  <2>4. CASE w = <<last>>
    <3>1. Names(<<last>>) = <<last.name>>
      BY DEF Names
    <3> QED BY <1>5, <2>3, <2>4, <3>1
  <2>5. CASE w = f.name /\ Len(f.name) # 1
    BY <1>5, <1>7, <2>1, <2>5 DEF KnownAs
  <2>6. CASE w = f.name /\ Len(f.name) = 1
    <3>1. Names(f.name) = <<last.name>>
      BY <1>1, <2>1, <2>6 DEF Names
    <3> QED BY <1>5, <2>3, <2>6, <3>1
  <2> QED BY <1>3, <1>7, <2>4, <2>5, <2>6 DEF Written
<1> QED BY <1>6, <1>7

\* All factors are occurrences, under their own numbers.
AllRegistered ==
  /\ from \in Seq(Factors)
  /\ \A i \in DOMAIN from : from[i].name # <<>>
  /\ Len(occurrences) = Len(from)
  /\ \A i \in 1..Len(from) : occurrences[i] = from[i]

\* For a conjunct that is determined and that PostgreSQL accepts, the builder
\* finds the occurrences PostgreSQL does.
LEMMA OwnersAreSources ==
  ASSUME Spelled, AllRegistered,
         NEW visible \in SUBSET FactorIds, NEW c \in SUBSET Seq(Idents),
         Determined(c, visible), ~Unresolved({c}, visible)
  PROVE  /\ ConjunctOwners(c) = ConjunctSources(c, visible)
         /\ ConjunctOwners(c) \subseteq visible
<1>1. \A q \in c : Owners(q) = Sources(q, visible) /\ Owners(q) \subseteq visible
  <2> SUFFICES ASSUME NEW q \in c
               PROVE Owners(q) = Sources(q, visible) /\ Owners(q) \subseteq visible
    OBVIOUS
  <2>1. PICK i \in visible : Owners(q) = {i}
    BY DEF Determined
  <2>2. PICK k \in visible : Sources(q, visible) = {k}
    BY DEF Unresolved, Determined
  <2>3. i + 1 \in 1..Len(from) /\ occurrences[i + 1] = from[i + 1]
        /\ from[i + 1] \in Factors /\ from[i + 1].name # <<>>
    BY DEF AllRegistered, FactorIds
  <2>4. Values(q) \in Keys(from[i + 1])
    BY <2>1, <2>3 DEF Owners
  <2>5. Names(q) \in KnownAs(from[i + 1])
    BY <2>3, <2>4, KeysAreNames
  <2>6. i \in Sources(q, visible)
    BY <2>5 DEF Sources
  <2> QED BY <2>1, <2>2, <2>6
<1>2. c \ {<<>>} = c
  BY DEF Determined
<1> QED BY <1>1, <1>2 DEF ConjunctOwners, ConjunctSources

\* A predicate adds the edges that it asks for (join_graph.rs 307-350).
LEMMA PredicateMeaning ==
  ASSUME Spelled, AllRegistered,
         NEW visible \in SUBSET FactorIds, NEW p \in Predicates,
         \A c \in p : Determined(c, visible), ~Unresolved(p, visible)
  PROVE  /\ PredicateEdges(p, visible) \subseteq Ascending(FactorIds)
         /\ \A S : Respects(PredicateEdges(p, visible), S) => AllIn(Asks(p, visible), S)
         /\ \A S : SomeIn(Asks(p, visible), S) => Respects(PredicateEdges(p, visible), S)
<1>1. \A c \in p : c \in SUBSET Seq(Idents)
  BY PredicatesAssumption
<1>2. \A c \in p : /\ ConjunctOwners(c) = ConjunctSources(c, visible)
                   /\ ConjunctOwners(c) \subseteq visible
  <2> SUFFICES ASSUME NEW c \in p
               PROVE /\ ConjunctOwners(c) = ConjunctSources(c, visible)
                     /\ ConjunctOwners(c) \subseteq visible
    OBVIOUS
  <2>1. ~Unresolved({c}, visible)
    BY DEF Unresolved
  <2> QED BY <1>1, <2>1, OwnersAreSources
<1>3. PredicateEdges(p, visible) = UNION {Chain(ConjunctOwners(c)) : c \in p}
  BY DEF PredicateEdges
<1>4. PredicateEdges(p, visible) \subseteq Ascending(FactorIds)
  <2> SUFFICES ASSUME NEW c \in p, NEW e \in Chain(ConjunctOwners(c))
               PROVE e \in Ascending(FactorIds)
    BY <1>3
  <2>1. e \in ConjunctOwners(c) \X ConjunctOwners(c) /\ e[1] < e[2]
    BY DEF Chain
  <2> QED BY <1>2, <2>1 DEF Ascending
<1>5. ASSUME NEW S, Respects(PredicateEdges(p, visible), S)
      PROVE  AllIn(Asks(p, visible), S)
  <2> SUFFICES ASSUME NEW c \in p, NEW e \in Related(c, visible)
               PROVE e[1] \in S <=> e[2] \in S
    BY DEF AllIn, Asks
  <2> DEFINE O == ConjunctOwners(c)
  <2>1. Respects(Chain(O), S)
    BY <1>3, <1>5 DEF Respects
  <2>2. O \in SUBSET Int
    <3>1. FactorIds \subseteq Int
      BY DEF FactorIds
    <3> QED BY <1>2, <3>1
  <2>3. e[1] \in O /\ e[2] \in O
    BY <1>2 DEF Related
  <2> HIDE DEF O
  <2>4. \A i, j \in O : i \in S <=> j \in S
    BY <2>1, <2>2, ChainLinks
  <2> QED BY <2>3, <2>4
<1>6. ASSUME NEW S, SomeIn(Asks(p, visible), S)
      PROVE  Respects(PredicateEdges(p, visible), S)
  <2> SUFFICES ASSUME NEW c \in p, NEW e \in Chain(ConjunctOwners(c))
               PROVE e[1] \in S <=> e[2] \in S
    BY <1>3 DEF Respects
  <2>1. e[1] \in ConjunctSources(c, visible) /\ e[2] \in ConjunctSources(c, visible)
    BY <1>2 DEF Chain
  <2>2. e \in Related(c, visible)
    BY <1>2 DEF Chain, Related
  <2>3. [left |-> {e[1]}, right |-> {e[2]}] \in Asks(p, visible)
    BY <2>2 DEF Asks
  <2> QED BY <1>6, <2>3 DEF SomeIn
<1> QED BY <1>4, <1>5, <1>6

-----------------------------------------------------------------------------
ExactFor(E, A) ==
  \A S \in SUBSET FactorIds :
    /\ Closed(FactorIds, E, S) => AllIn(A, S)
    /\ SomeIn(A, S) => Closed(FactorIds, E, S)

LEMMA ExactIsExactFor == Exact <=> ExactFor(edges, asked)
BY DEF Exact, ExactFor, AllTogether, SomeTogether, AllIn, SomeIn

\* Edges that match what is newly asked for keep the graph exact.
LEMMA Extend ==
  ASSUME NEW E, NEW F, NEW A, NEW B, ExactFor(E, A),
         E \subseteq Ascending(FactorIds), F \subseteq Ascending(FactorIds),
         \A S \in SUBSET FactorIds :
           /\ Closed(FactorIds, E, S) /\ Respects(F, S) => AllIn(B, S)
           /\ Closed(FactorIds, E, S) /\ SomeIn(B, S) => Respects(F, S)
  PROVE  ExactFor(E \union F, A \union B)
<1>1. FactorIds \in SUBSET Int
  BY DEF FactorIds
<1>2. E \union F \subseteq Ascending(FactorIds)
  OBVIOUS
<1> SUFFICES ASSUME NEW S \in SUBSET FactorIds
             PROVE  /\ Closed(FactorIds, E \union F, S) => AllIn(A \union B, S)
                    /\ SomeIn(A \union B, S) => Closed(FactorIds, E \union F, S)
  BY DEF ExactFor
<1>3. Closed(FactorIds, E \union F, S) <=> Respects(E, S) /\ Respects(F, S)
  BY <1>1, <1>2, ClosedRespects, RespectsUnion
<1>4. Closed(FactorIds, E, S) <=> Respects(E, S)
  BY <1>1, ClosedRespects
<1>5. AllIn(A \union B, S) <=> AllIn(A, S) /\ AllIn(B, S)
  BY DEF AllIn
<1>6. SomeIn(A \union B, S) <=> SomeIn(A, S) /\ SomeIn(B, S)
  BY DEF SomeIn
<1> QED BY <1>3, <1>4, <1>5, <1>6 DEF ExactFor

\* The scope of a join condition grows with its table.
LEMMA VisibleGrows ==
  ASSUME NEW k \in FactorIds
  PROVE  /\ Visible(k) \in SUBSET FactorIds
         /\ from[k + 1].lead => Visible(k) = {k}
         /\ k > 0 /\ ~from[k + 1].lead => /\ Visible(k) = Visible(k - 1) \union {k}
                                         /\ Visible(k - 1) = Visible(k) \ {k}
<1>1. k \in Int /\ FactorIds \subseteq Int /\ 0 <= k
  BY DEF FactorIds
<1>2. Visible(k) \in SUBSET FactorIds
  BY <1>1 DEF FactorIds, Visible
<1>3. ASSUME from[k + 1].lead PROVE Visible(k) = {k}
  <2>1. \A i \in 0..k : i # k => k \in (i + 1)..k
    BY <1>1
  <2>2. k \in 0..k /\ (k + 1)..k = {}
    BY <1>1
  <2> QED BY <1>3, <2>1, <2>2 DEF Visible
<1>4. ASSUME k > 0, ~from[k + 1].lead
      PROVE  Visible(k) = Visible(k - 1) \union {k} /\ Visible(k - 1) = Visible(k) \ {k}
  <2>1. 0..k = 0..(k - 1) \union {k} /\ k \notin 0..(k - 1) /\ (k + 1)..k = {}
    BY <1>1, <1>4
  <2>2. \A i \in 0..(k - 1) : (i + 1)..k = (i + 1)..(k - 1) \union {k}
    BY <1>1, <1>4
  <2>3. \A i \in 0..(k - 1) : i \in Visible(k) <=> i \in Visible(k - 1)
    BY <1>4, <2>1, <2>2 DEF Visible
  <2>4. k \in Visible(k)
    BY <2>1 DEF Visible
  <2>5. Visible(k) \subseteq 0..k /\ Visible(k - 1) \subseteq 0..(k - 1)
    BY DEF Visible
  <2> QED BY <2>1, <2>3, <2>4, <2>5
<1> QED BY <1>2, <1>3, <1>4

\* Only factors are ever related.
LEMMA AsksTyped ==
  ASSUME NEW visible \in SUBSET FactorIds, NEW p
  PROVE  \A a \in Asks(p, visible) : a.left \subseteq FactorIds /\ a.right \subseteq FactorIds
<1>1. \A c : ConjunctSources(c, visible) \subseteq FactorIds
  BY DEF ConjunctSources, Sources
<1>2. \A c : \A e \in Related(c, visible) : e[1] \in FactorIds /\ e[2] \in FactorIds
  BY <1>1 DEF Related
<1> QED BY <1>2 DEF Asks

\* Edges stay normalized and in range whatever the predicate is.
LEMMA EdgesTyped ==
  ASSUME NEW p, NEW allowed
  PROVE  PredicateEdges(p, allowed) \subseteq {e \in Occurrences \X Occurrences : e[1] < e[2]}
<1>1. \A c : ConjunctOwners(c) \subseteq Occurrences
  BY DEF ConjunctOwners, Owners
<1> QED BY <1>1 DEF PredicateEdges, Chain

-----------------------------------------------------------------------------
LEMMA InitJInv == Init => JInv
<1> SUFFICES ASSUME Init PROVE JInv
  OBVIOUS
<1>1. PICK s \in Statements : from = s.from /\ indeterminate = ~s.direct
                               /\ pc = IF s.direct THEN "build" ELSE "done"
  BY DEF Init
<1>2. /\ s.direct \in BOOLEAN /\ from \in Seq(Factors)
      /\ from # <<>> => from[1].lead
      /\ \A i \in DOMAIN from : from[i].name # <<>> /\ Len(from[i].alias) <= 1
  BY <1>1, StatementsAssumption
<1>3. /\ occurrences = <<>> /\ scopes = <<>> /\ nextScope = 0 /\ left = <<>>
      /\ edges = {} /\ asked = {} /\ rejected = FALSE
  BY DEF Init
<1>4. TypeOK
  <2>1. pc \in {"build", "done"} /\ indeterminate \in BOOLEAN
    BY <1>1, <1>2
  <2>2. nextScope \in 0..Len(from)
    BY <1>2, <1>3
  <2>3. <<>> \in Seq(Seq(Occurrences)) /\ <<>> \in Seq(Occurrences) /\ <<>> \in Seq(Factors)
    OBVIOUS
  <2> QED BY <1>2, <1>3, <2>1, <2>2, <2>3 DEF TypeOK
<1>5. ~indeterminate => InStep
  <2>1. ~indeterminate => pc = "build"
    BY <1>1, <1>2
  <2>2. Len(scopes) = 0 /\ 1..Len(scopes) = {}
    BY <1>3
  <2> QED BY <1>3, <2>1, <2>2 DEF InStep
<1>6. Exact
  BY <1>3 DEF Exact, AllTogether, SomeTogether, Closed, Adjacent
<1> QED BY <1>2, <1>3, <1>4, <1>5, <1>6 DEF JInv

LEMMA RegisterStep == JInv /\ RegisterFactor => JInv'
<1> SUFFICES ASSUME JInv, RegisterFactor PROVE JInv'
  OBVIOUS
<1> DEFINE f == from[Len(scopes) + 1]
<1>1. /\ pc = "build" /\ Len(scopes) < Len(from)
      /\ UNCHANGED <<from, pc, nextScope, left, edges, asked, rejected>>
  BY DEF RegisterFactor
<1>2. TypeOK /\ nextScope = 0 /\ f \in Factors
  BY <1>1 DEF JInv, TypeOK
<1>3. \/ /\ occurrences' = Append(occurrences, f)
         /\ scopes' = Append(scopes, <<Len(occurrences)>>)
         /\ indeterminate' = indeterminate
      \/ /\ occurrences' = occurrences /\ scopes' = Append(scopes, <<>>)
         /\ indeterminate' = TRUE
  BY DEF RegisterFactor, NextIndex
<1>4. Occurrences \subseteq Occurrences' /\ occurrences' \in Seq(Factors)
  <2>1. occurrences \in Seq(Factors) /\ Len(occurrences) \in Nat
    BY <1>2 DEF TypeOK
  <2>2. /\ occurrences' \in Seq(Factors)
        /\ Len(occurrences') \in Nat /\ Len(occurrences) <= Len(occurrences')
    BY <1>2, <1>3, <2>1
  <2> QED BY <2>1, <2>2 DEF Occurrences
<1>5. TypeOK'
  <2>1. \A s \in Seq(Occurrences) : s \in Seq(Occurrences')
    BY <1>4
  <2>2. scopes \in Seq(Seq(Occurrences'))
    BY <1>2, <2>1 DEF TypeOK
  <2>3. scopes' \in Seq(Seq(Occurrences'))
    <3>1. CASE scopes' = Append(scopes, <<>>)
      BY <2>2, <3>1
    <3>2. CASE /\ occurrences' = Append(occurrences, f)
               /\ scopes' = Append(scopes, <<Len(occurrences)>>)
      <4>1. Len(occurrences) \in Occurrences'
        BY <1>2, <3>2 DEF TypeOK, Occurrences
      <4>2. <<Len(occurrences)>> \in Seq(Occurrences')
        BY <4>1
      <4> QED BY <2>2, <3>2, <4>2
    <3> QED BY <1>3, <3>1, <3>2
  <2>4. left' \in Seq(Occurrences')
    BY <1>1, <1>2, <2>1 DEF TypeOK
  <2>5. edges' \subseteq {e \in Occurrences' \X Occurrences' : e[1] < e[2]}
    BY <1>1, <1>2, <1>4 DEF TypeOK
  <2> QED BY <1>1, <1>2, <1>3, <1>4, <2>3, <2>4, <2>5 DEF TypeOK, FactorIds
<1>6. Len(scopes') = Len(scopes) + 1
  BY <1>2, <1>3 DEF TypeOK
<1>7. ASSUME ~indeterminate' PROVE InStep'
  <2>1. InStep /\ occurrences' = Append(occurrences, f)
        /\ scopes' = Append(scopes, <<Len(occurrences)>>)
    BY <1>3, <1>7 DEF JInv
  <2>2. Len(occurrences') = Len(scopes')
    BY <1>2, <2>1 DEF InStep, TypeOK
  <2>3. \A i \in 1..Len(scopes') : occurrences'[i] = from[i] /\ scopes'[i] = <<i - 1>>
    BY <1>2, <1>6, <2>1 DEF InStep, TypeOK
  <2> QED BY <1>1, <1>2, <2>2, <2>3 DEF InStep
<1>8. Spelled /\ Determinate' => Exact'
  BY <1>1, <1>3 DEF JInv, Determinate, Exact, AllTogether, SomeTogether, FactorIds
<1> QED BY <1>1, <1>2, <1>5, <1>6, <1>7, <1>8 DEF JInv, TypeOK

LEMMA FirstStep == JInv /\ TakeFirst => JInv'
<1> SUFFICES ASSUME JInv, TakeFirst PROVE JInv'
  OBVIOUS
<1>1. /\ pc = "build" /\ Len(scopes) = Len(from)
      /\ nextScope < Len(from) /\ from[nextScope + 1].lead
      /\ left' = scopes[nextScope + 1] /\ nextScope' = nextScope + 1
      /\ UNCHANGED <<from, pc, occurrences, scopes, edges, indeterminate, asked, rejected>>
  BY DEF TakeFirst, Registered
<1>2. TypeOK
  BY DEF JInv
<1>3. TypeOK'
  BY <1>1, <1>2 DEF TypeOK, Occurrences, FactorIds
<1>4. ASSUME ~indeterminate' PROVE InStep'
  <2>1. InStep
    BY <1>1, <1>4 DEF JInv
  <2>2. left' = <<nextScope>>
    BY <1>1, <1>2, <2>1 DEF InStep, TypeOK
  <2>3. nextScope \in FactorIds
    BY <1>1, <1>2 DEF TypeOK, FactorIds
  <2>4. Members(left') = {nextScope} /\ left' # <<>>
    BY <2>2 DEF Members
  <2>5. Visible(nextScope) = {nextScope}
    BY <1>1, <2>3, VisibleGrows
  <2>6. nextScope' - 1 = nextScope
    BY <1>1, <1>2 DEF TypeOK
  <2>7. Members(left)' = Visible(nextScope - 1)'
    BY <1>1, <2>4, <2>5, <2>6 DEF Visible, Members
  <2> QED BY <1>1, <2>1, <2>4, <2>7 DEF InStep
<1>5. Spelled /\ Determinate' => Exact'
  BY <1>1 DEF JInv, Determinate, Exact, AllTogether, SomeTogether, FactorIds
<1> QED BY <1>1, <1>2, <1>3, <1>4, <1>5 DEF JInv, TypeOK

\* With all factors registered and none unclear, occurrences are factors.
LEMMA RegisteredFacts ==
  ASSUME JInv, Len(scopes) = Len(from), ~indeterminate
  PROVE  /\ AllRegistered /\ Occurrences = FactorIds
         /\ edges \subseteq Ascending(FactorIds)
<1>1. TypeOK /\ InStep /\ \A i \in DOMAIN from : from[i].name # <<>>
  BY DEF JInv
<1>2. Occurrences = FactorIds
  BY <1>1 DEF InStep, Occurrences, FactorIds
<1> QED BY <1>1, <1>2 DEF InStep, TypeOK, AllRegistered, Ascending

\* What a clear join adds is what it asks for (join_graph.rs 193-270).
LEMMA JoinMeaning ==
  ASSUME JInv, Spelled, NEW join \in Joins, ~indeterminate, ~rejected,
         Len(scopes) = Len(from), nextScope < Len(from), ~from[nextScope + 1].lead,
         ~JoinUnclear(join, scopes[nextScope + 1]),
         ~(join.is = "on" /\ Unresolved(join.predicate, Visible(nextScope)))
  PROVE  /\ Members(left) \union Members(scopes[nextScope + 1]) = Visible(nextScope)
         /\ ExactFor(edges \union JoinEdges(join, scopes[nextScope + 1]),
                     asked \union JoinAsks(join, nextScope))
<1> DEFINE k == nextScope
           right == scopes[k + 1]
           F == JoinEdges(join, right)
           B == JoinAsks(join, k)
           V == FactorIds
<1>1. TypeOK /\ InStep /\ AllRegistered /\ Occurrences = V /\ edges \subseteq Ascending(V)
  BY RegisteredFacts DEF JInv
<1>2. k \in V /\ k > 0 /\ k + 1 \in 1..Len(scopes)
  BY <1>1 DEF JInv, TypeOK, FactorIds
<1>3. right = <<k>> /\ Members(right) = {k} /\ right[1] = k
  <2>1. right = <<k + 1 - 1>> /\ k + 1 - 1 = k
    BY <1>1, <1>2 DEF InStep, TypeOK
  <2> QED BY <2>1 DEF Members
<1>4. left # <<>> /\ Members(left) = Visible(k - 1)
  BY <1>1, <1>2 DEF InStep
<1>5. /\ Visible(k) \in SUBSET V /\ Visible(k) = Visible(k - 1) \union {k}
      /\ Visible(k - 1) = Visible(k) \ {k}
  BY <1>2, VisibleGrows
<1>6. Members(left) \union Members(right) = Visible(k)
  BY <1>3, <1>4, <1>5
<1>7. ExactFor(edges, asked)
  BY ExactIsExactFor DEF JInv, Determinate
<1>8. /\ F \subseteq Ascending(V)
      /\ \A S \in SUBSET V :
           /\ Closed(V, edges, S) /\ Respects(F, S) => AllIn(B, S)
           /\ Closed(V, edges, S) /\ SomeIn(B, S) => Respects(F, S)
  <2>1. CASE join.is = "on"
    <3>1. join.predicate \in Predicates
      BY <2>1, JoinsAssumption DEF JoinKinds
    <3>2. /\ F = PredicateEdges(join.predicate, Visible(k))
          /\ B = Asks(join.predicate, Visible(k))
      BY <1>6, <2>1 DEF JoinEdges, JoinAsks
    <3>3. \A c \in join.predicate : Determined(c, Visible(k))
      BY <1>6, <2>1 DEF JoinUnclear
    <3>4. ~Unresolved(join.predicate, Visible(k))
      BY <2>1
    <3>5. /\ F \subseteq Ascending(V)
          /\ \A S : Respects(F, S) => AllIn(B, S)
          /\ \A S : SomeIn(B, S) => Respects(F, S)
      BY <1>1, <1>5, <3>1, <3>2, <3>3, <3>4, PredicateMeaning
    <3> QED BY <3>5
  <2>2. CASE join.is \in {"using", "natural"}
    <3> DEFINE v == left[1]
               L == Members(left)
    <3>1. v \in L /\ v \in Visible(k - 1) /\ Component(L, edges, v) = L /\ L \in SUBSET V
      <4>1. left \in Seq(Occurrences) /\ 1 \in DOMAIN left
        BY <1>1, <1>4 DEF TypeOK
      <4>2. v \in L
        BY <4>1 DEF Members
      <4>3. OperandConnected(left)
        BY <2>2 DEF JoinUnclear
      <4> QED BY <1>4, <1>5, <4>2, <4>3 DEF OperandConnected
    <3>2. v \in Int /\ k \in Int /\ v < k /\ v \in V
      BY <1>1, <1>2, <3>1 DEF Visible, TypeOK, FactorIds
    <3>3. F = {<<v, k>>}
      BY <1>3, <2>2, <3>2 DEF JoinEdges, AddEdge
    <3>4. B = {[left |-> L, right |-> {k}]}
      BY <1>4, <1>5, <2>2 DEF JoinAsks
    <3>5. \A S : Respects(F, S) <=> (v \in S <=> k \in S)
      BY <3>3 DEF Respects
    <3>6. \A S : /\ AllIn(B, S) <=> \A i \in L : i \in S <=> k \in S
                 /\ SomeIn(B, S) <=> \E i \in L : i \in S <=> k \in S
      BY <3>4 DEF AllIn, SomeIn
    <3>7. \A S \in SUBSET V : Closed(V, edges, S) => \A i \in L : i \in S <=> v \in S
      BY <3>1, ConnectedTogether
    <3>8. F \subseteq Ascending(V)
      BY <1>2, <3>2, <3>3 DEF Ascending
    <3> QED BY <3>5, <3>6, <3>7, <3>8
  <2>3. CASE join.is \notin {"on", "using", "natural"}
    BY <2>3 DEF JoinEdges, JoinAsks, AllIn, Respects
  <2> QED BY <2>1, <2>2, <2>3
<1> HIDE DEF F, B
<1>9. ExactFor(edges \union F, asked \union B)
  BY <1>1, <1>7, <1>8, Extend
<1> QED BY <1>6, <1>9 DEF F, B

LEMMA JoinStep == ASSUME JInv, NEW join \in Joins, ProcessJoin(join) PROVE JInv'
<1> DEFINE k == nextScope
           right == scopes[k + 1]
<1>1. /\ pc = "build" /\ Len(scopes) = Len(from)
      /\ k < Len(from) /\ ~from[k + 1].lead
      /\ edges' = edges \union JoinEdges(join, right)
      /\ indeterminate' = (indeterminate \/ JoinUnclear(join, right))
      /\ left' = left \o right /\ nextScope' = k + 1
      /\ asked' = asked \union JoinAsks(join, k)
      /\ rejected' = (rejected \/ (join.is = "on" /\ Unresolved(join.predicate, Visible(k))))
      /\ UNCHANGED <<from, pc, occurrences, scopes>>
  BY DEF ProcessJoin, Registered
<1>2. TypeOK /\ k \in FactorIds /\ k + 1 \in 0..Len(from)
  BY <1>1 DEF JInv, TypeOK, FactorIds
<1>3. right \in Seq(Occurrences) /\ left \in Seq(Occurrences)
  BY <1>1, <1>2 DEF TypeOK, FactorIds
<1>4. TypeOK'
  <2>1. left' \in Seq(Occurrences)
    BY <1>1, <1>3
  <2>2. JoinEdges(join, right) \subseteq {e \in Occurrences \X Occurrences : e[1] < e[2]}
    <3>1. CASE join.is = "on"
      BY <3>1, EdgesTyped DEF JoinEdges
    <3>2. CASE join.is \in {"using", "natural"} /\ ~JoinUnclear(join, right)
      <4>1. left # <<>> /\ right # <<>>
        BY <3>2 DEF JoinUnclear, OperandConnected
      <4>2. left[1] \in Occurrences /\ right[1] \in Occurrences
        BY <1>3, <4>1
      <4>3. left[1] \in Int /\ right[1] \in Int
        BY <4>2 DEF Occurrences
      <4> QED BY <3>2, <4>2, <4>3 DEF JoinEdges, AddEdge
    <3> QED BY <3>1, <3>2 DEF JoinEdges
  <2>3. \A a \in JoinAsks(join, k) : a.left \subseteq FactorIds /\ a.right \subseteq FactorIds
    <3>1. Visible(k) \in SUBSET FactorIds
      BY <1>2, VisibleGrows
    <3>2. CASE join.is = "on"
      BY <3>1, <3>2, AsksTyped DEF JoinAsks
    <3>3. CASE join.is # "on"
      BY <1>2, <3>1, <3>3 DEF JoinAsks
    <3> QED BY <3>2, <3>3
  <2>4. indeterminate' \in BOOLEAN /\ rejected' \in BOOLEAN
    BY <1>1, <1>2 DEF TypeOK
  <2> QED BY <1>1, <1>2, <2>1, <2>2, <2>3, <2>4 DEF TypeOK, Occurrences, FactorIds
<1>5. Members(left \o right) = Members(left) \union Members(right)
  <2> DEFINE both == left \o right
             n == Len(left)
             m == Len(right)
  <2>1. /\ n \in Nat /\ m \in Nat
        /\ DOMAIN left = 1..n /\ DOMAIN right = 1..m /\ DOMAIN both = 1..(n + m)
    BY <1>3
  <2>2. \A i \in 1..n : i \in 1..(n + m) /\ both[i] = left[i]
    BY <1>3, <2>1
  <2>3. \A i \in 1..m : i + n \in 1..(n + m) /\ both[i + n] = right[i]
    BY <1>3, <2>1
  <2>4. \A i \in 1..(n + m) : i \in 1..n \/ (i - n \in 1..m /\ i = (i - n) + n)
    BY <2>1
  <2> HIDE DEF both, n, m
  <2>5. \A x \in Members(both) : x \in Members(left) \union Members(right)
    <3> SUFFICES ASSUME NEW i \in 1..(n + m)
                 PROVE  both[i] \in Members(left) \union Members(right)
      BY <2>1 DEF Members
    <3>1. CASE i \in 1..n
      BY <2>1, <2>2, <3>1 DEF Members
    <3>2. CASE i - n \in 1..m /\ i = (i - n) + n
      BY <2>1, <2>3, <3>2 DEF Members
    <3> QED BY <2>4, <3>1, <3>2
  <2>6. \A x \in Members(left) : x \in Members(both)
    BY <2>1, <2>2 DEF Members
  <2>7. \A x \in Members(right) : x \in Members(both)
    BY <2>1, <2>3 DEF Members
  <2>8. Members(both) = Members(left) \union Members(right)
    BY <2>5, <2>6, <2>7
  <2> QED BY <2>8 DEF both
<1>6. ASSUME ~indeterminate' PROVE InStep'
  <2>1. InStep /\ ~indeterminate
    BY <1>1, <1>6 DEF JInv
  <2>2. k > 0
    BY <1>1, <1>2 DEF JInv, TypeOK, FactorIds
  <2>3. right = <<k>>
    BY <1>1, <1>2, <2>1 DEF InStep, TypeOK, FactorIds
  <2>4. Members(right) = {k}
    BY <2>3 DEF Members
  <2>5. Members(left \o right) = Visible(k)
    BY <1>1, <1>2, <1>5, <2>1, <2>2, <2>4, VisibleGrows DEF InStep
  <2>6. left \o right # <<>>
    BY <1>3, <2>1, <2>2 DEF InStep
  <2>7. nextScope' - 1 = k
    BY <1>1, <1>2 DEF TypeOK
  <2>8. Members(left)' = Visible(nextScope - 1)'
    BY <1>1, <2>5, <2>7 DEF Visible, Members
  <2> QED BY <1>1, <2>1, <2>6, <2>8 DEF InStep
<1>7. Spelled /\ Determinate' => Exact'
  <2> SUFFICES ASSUME Spelled, Determinate' PROVE Exact'
    OBVIOUS
  <2>1. /\ ~indeterminate /\ ~rejected /\ ~JoinUnclear(join, right)
        /\ ~(join.is = "on" /\ Unresolved(join.predicate, Visible(k)))
    BY <1>1 DEF Determinate
  <2>2. ExactFor(edges', asked')
    BY <1>1, <2>1, JoinMeaning
  <2> QED BY <1>1, <2>2 DEF ExactFor, Exact, AllIn, SomeIn, AllTogether, SomeTogether, FactorIds
<1> QED BY <1>1, <1>2, <1>4, <1>6, <1>7 DEF JInv

LEMMA SelectionStep ==
  ASSUME JInv, NEW p \in Predicates, ProcessSelection(p) PROVE JInv'
<1>1. /\ pc = "build" /\ Len(scopes) = Len(from) /\ nextScope = Len(from) /\ pc' = "done"
      /\ edges' = edges \union PredicateEdges(p, Occurrences)
      /\ indeterminate' = \/ indeterminate \/ nextScope # Len(scopes)
                          \/ \E c \in p : ~Determined(c, Occurrences)
      /\ asked' = asked \union Asks(p, FactorIds)
      /\ rejected' = (rejected \/ Unresolved(p, FactorIds))
      /\ UNCHANGED <<from, occurrences, scopes, nextScope, left>>
  BY DEF ProcessSelection, Registered
<1>2. TypeOK
  BY DEF JInv
<1>3. TypeOK'
  <2>1. \A a \in Asks(p, FactorIds) : a.left \subseteq FactorIds /\ a.right \subseteq FactorIds
    BY AsksTyped
  <2>2. PredicateEdges(p, Occurrences) \subseteq {e \in Occurrences \X Occurrences : e[1] < e[2]}
    BY EdgesTyped
  <2>3. indeterminate' \in BOOLEAN /\ rejected' \in BOOLEAN
    BY <1>1, <1>2 DEF TypeOK
  <2> QED BY <1>1, <1>2, <2>1, <2>2, <2>3 DEF TypeOK, Occurrences, FactorIds
<1>4. ASSUME ~indeterminate' PROVE InStep'
  <2>1. InStep
    BY <1>1, <1>4 DEF JInv
  <2>2. Members(left)' = Members(left) /\ Visible(nextScope - 1)' = Visible(nextScope - 1)
    BY <1>1 DEF Members, Visible
  <2> QED BY <1>1, <2>1, <2>2 DEF InStep
<1>5. Spelled /\ Determinate' => Exact'
  <2> SUFFICES ASSUME Spelled, Determinate' PROVE Exact'
    OBVIOUS
  <2>1. ~indeterminate /\ ~rejected /\ ~Unresolved(p, FactorIds)
        /\ \A c \in p : Determined(c, Occurrences)
    BY <1>1 DEF Determinate
  <2>2. AllRegistered /\ Occurrences = FactorIds /\ edges \subseteq Ascending(FactorIds)
    BY <1>1, <2>1, RegisteredFacts
  <2>3. ExactFor(edges, asked)
    BY <2>1, ExactIsExactFor DEF JInv, Determinate
  <2> DEFINE F == PredicateEdges(p, FactorIds)
             B == Asks(p, FactorIds)
  <2>4. /\ F \subseteq Ascending(FactorIds)
        /\ \A S : Respects(F, S) => AllIn(B, S)
        /\ \A S : SomeIn(B, S) => Respects(F, S)
    BY <2>1, <2>2, PredicateMeaning
  <2>5. ExactFor(edges \union F, asked \union B)
    BY <2>2, <2>3, <2>4, Extend
  <2>6. ExactFor(edges', asked')
    BY <1>1, <2>2, <2>5
  <2> QED BY <1>1, <2>6 DEF ExactFor, Exact, AllIn, SomeIn, AllTogether, SomeTogether, FactorIds
<1> QED BY <1>1, <1>2, <1>3, <1>4, <1>5 DEF JInv, TypeOK

LEMMA JInvInductive == JInv /\ [Next]_vars => JInv'
<1> SUFFICES ASSUME JInv, [Next]_vars PROVE JInv'
  OBVIOUS
<1>1. CASE UNCHANGED vars
  <2>1. /\ from' = from /\ pc' = pc /\ occurrences' = occurrences /\ scopes' = scopes
        /\ nextScope' = nextScope /\ left' = left /\ edges' = edges
        /\ indeterminate' = indeterminate /\ asked' = asked /\ rejected' = rejected
    BY <1>1 DEF vars
  <2>2. TypeOK'
    BY <2>1 DEF JInv, TypeOK, FactorIds, Occurrences
  <2>3. Members(left)' = Members(left) /\ Visible(nextScope - 1)' = Visible(nextScope - 1)
    BY <2>1 DEF Members, Visible
  <2>4. InStep => InStep'
    BY <2>1, <2>3 DEF InStep
  <2>5. Spelled /\ Determinate' => Exact'
    BY <2>1 DEF JInv, Determinate, Exact, AllTogether, SomeTogether, FactorIds
  <2> QED BY <2>1, <2>2, <2>4, <2>5 DEF JInv
<1> QED BY <1>1, RegisterStep, FirstStep, JoinStep, SelectionStep DEF Next

-----------------------------------------------------------------------------
\* The invariant holds for every clause and any number of factors.
THEOREM BuilderInvariant == Spec => []JInv
BY InitJInv, JInvInductive, PTL DEF Spec

\* Type correctness: the edges are normalized and in range.
THEOREM GraphTyped == Spec => []TypeOK
<1>1. JInv => TypeOK
  BY DEF JInv
<1> QED BY <1>1, BuilderInvariant, PTL

\* The products PGP104 can see in a determinate graph are real ones
\* (join_graph.rs 62-375), as long as no two names are spelled alike.
THEOREM ProductsReal == Spec => []NoFalseProduct
<1>1. JInv => NoFalseProduct
  <2> SUFFICES ASSUME JInv, Spelled, Determinate
               PROVE  /\ pc = "done" => Len(occurrences) = Len(from)
                      /\ \A S \in SUBSET FactorIds :
                           Closed(FactorIds, edges, S) => AllTogether(S)
    BY DEF NoFalseProduct
  <2>1. InStep /\ Exact
    BY DEF JInv, Determinate
  <2> QED BY <2>1 DEF InStep, Exact
<1> QED BY <1>1, BuilderInvariant, PTL

\* And it can see all of them.
THEOREM ProductsSeen == Spec => []NoMissedProduct
<1>1. JInv => NoMissedProduct
  BY DEF JInv, NoMissedProduct, Exact
<1> QED BY <1>1, BuilderInvariant, PTL
=============================================================================
