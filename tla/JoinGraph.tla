------------------------------- MODULE JoinGraph -------------------------------
(***************************************************************************)
(* JoinGraphBuilder of join_graph.rs: all factors of the FROM clause are   *)
(* registered, then the tables and their joins are processed from left to  *)
(* right, then WHERE.  Beside the builder's state the model keeps what the *)
(* clause means to PostgreSQL: which factors its joins and predicates      *)
(* relate.                                                                 *)
(*                                                                         *)
(* An identifier has a value, as it is written and as the builder compares *)
(* it, and a name, which PostgreSQL makes of it: it folds the case of what *)
(* is not quoted.  A predicate is the set of its conjuncts, and a conjunct *)
(* the set of the qualifiers of its columns.  <<>> stands for all that is  *)
(* not a qualified column and makes the visitor give up: OR, NOT, a nested *)
(* query, an unqualified name, a wildcard.                                 *)
(***************************************************************************)
EXTENDS Integers, Sequences, Connectivity

CONSTANTS
  Idents,       \* identifiers
  SearchPath,   \* the schema PostgreSQL finds unqualified tables in
  Statements,   \* FROM clauses with the shape of the query around them
  Predicates,   \* ON and WHERE conditions
  Joins         \* join operators with their constraints

\* A factor of the FROM clause; lead marks the first one of a table with joins.
Factors == [is : {"table", "other"}, name : Seq(Idents), alias : Seq(Idents),
            lead : BOOLEAN]

\* "other" is an unsupported operator, USING () or a CROSS JOIN with a constraint.
JoinKinds == [is : {"on"}, predicate : Predicates]
               \union [is : {"using", "natural", "cross", "none", "other"}]

ASSUME IdentsAssumption == \A a \in Idents : DOMAIN a = {"value", "name"}
ASSUME StatementsAssumption ==
  \A s \in Statements :
    /\ s.direct \in BOOLEAN /\ s.from \in Seq(Factors)
    /\ s.from # <<>> => s.from[1].lead
    /\ \A i \in DOMAIN s.from : s.from[i].name # <<>> /\ Len(s.from[i].alias) <= 1
ASSUME PredicatesAssumption ==
  Predicates \subseteq SUBSET SUBSET Seq(Idents) /\ {} \in Predicates
ASSUME JoinsAssumption == Joins \subseteq JoinKinds

VARIABLES
  from,           \* the factors of the FROM clause
  pc,             \* "build", then "done"
  occurrences,    \* relation_occurrences
  scopes,         \* factor_scopes
  nextScope,      \* next_scope
  left,           \* left_scope of the table being processed
  edges,
  indeterminate,
  asked,          \* pairs of sets of factors that a join or predicate relates
  rejected        \* PostgreSQL cannot resolve a qualifier

vars == <<from, pc, occurrences, scopes, nextScope, left, edges, indeterminate,
          asked, rejected>>

\* select_join_graph has no graph for WITH, pipes and set operations.
Init ==
  /\ \E s \in Statements :
       /\ from = s.from
       /\ pc = IF s.direct THEN "build" ELSE "done"
       /\ indeterminate = ~s.direct
  /\ occurrences = <<>> /\ scopes = <<>> /\ nextScope = 0 /\ left = <<>>
  /\ edges = {} /\ asked = {} /\ rejected = FALSE

-----------------------------------------------------------------------------
Members(s) == {s[i] : i \in DOMAIN s}
Occurrences == 0..(Len(occurrences) - 1)
Values(ids) == [i \in DOMAIN ids |-> ids[i].value]
Names(ids) == [i \in DOMAIN ids |-> ids[i].name]

\* relation_identity has no place for more than schema and name.
Plain(f) == f.is = "table" /\ Len(f.name) <= 2

\* Mutant: aliases are not looked at.
WrittenByName(f) == {<<f.name[Len(f.name)]>>, f.name}

\* register_qualifiers: how the columns of a factor can be qualified.
Written(f) ==
  IF f.alias # <<>> THEN {f.alias} ELSE {<<f.name[Len(f.name)]>>, f.name}

Keys(f) == {Values(q) : q \in Written(f)}
Owners(q) == {i \in Occurrences : Values(q) \in Keys(occurrences[i + 1])}

\* Each column of the conjunct has one owner, and one that is in scope.
Determined(c, allowed) ==
  \A q \in c : q # <<>> /\ \E i \in allowed : Owners(q) = {i}

ConjunctOwners(c) == UNION {Owners(q) : q \in c}

\* owners.windows(2) of the sorted owners.
Chain(owners) ==
  {e \in owners \X owners : e[1] < e[2] /\ \A k \in owners : k <= e[1] \/ k >= e[2]}

PredicateEdges(p, allowed) ==
  UNION {Chain(ConjunctOwners(c)) : c \in {d \in p : Determined(d, allowed)}}

\* Mutant: any operand that is not empty counts as connected.
OperandPresent(scope) == scope # <<>>

\* scope_is_connected, by what its search finds: ConnectedComponents models one.
OperandConnected(scope) ==
  scope # <<>> /\ Component(Members(scope), edges, scope[1]) = Members(scope)

AddEdge(i, j) == IF i < j THEN {<<i, j>>} ELSE IF j < i THEN {<<j, i>>} ELSE {}

JoinUnclear(join, right) ==
  \/ /\ join.is = "on"
     /\ \E c \in join.predicate : ~Determined(c, Members(left) \union Members(right))
  \/ /\ join.is \in {"using", "natural"}
     /\ ~(OperandConnected(left) /\ OperandConnected(right))
  \/ join.is = "other"

JoinEdges(join, right) ==
  IF join.is = "on"
    THEN PredicateEdges(join.predicate, Members(left) \union Members(right))
  ELSE IF join.is \in {"using", "natural"} /\ ~JoinUnclear(join, right)
    THEN AddEdge(left[1], right[1])
  ELSE {}

-----------------------------------------------------------------------------
(* What PostgreSQL makes of the clause.  Factors have the numbers their     *)
(* occurrences have when each of them is one.                               *)

FactorIds == 0..(Len(from) - 1)

\* The factors that can be named in the join condition of factor k.
Visible(k) == {i \in 0..k : \A j \in (i + 1)..k : ~from[j + 1].lead}

\* An alias hides the name; a table found on the search path has its schema, too.
KnownAs(f) ==
  LET name == Names(f.name)
  IN IF f.alias # <<>> THEN {Names(f.alias)}
     ELSE {<<name[Len(name)]>>, IF Len(name) = 1 THEN <<SearchPath, name[1]>> ELSE name}

Sources(q, visible) == {i \in visible : Names(q) \in KnownAs(from[i + 1])}

Unresolved(p, visible) ==
  \E c \in p : \E q \in c \ {<<>>} : \A i \in visible : Sources(q, visible) # {i}

ConjunctSources(c, visible) == UNION {Sources(q, visible) : q \in c \ {<<>>}}

Related(c, visible) == ConjunctSources(c, visible) \X ConjunctSources(c, visible)

Asks(p, visible) ==
  {[left |-> {e[1]}, right |-> {e[2]}] : e \in UNION {Related(c, visible) : c \in p}}

\* A USING or NATURAL join relates some factor of its left operand, which only
\* the catalog could tell, to the right one.  A NATURAL join is taken to have a
\* common column.
JoinAsks(join, k) ==
  IF join.is = "on" THEN Asks(join.predicate, Visible(k))
  ELSE IF join.is \in {"using", "natural"}
    THEN {[left |-> Visible(k) \ {k}, right |-> {k}]}
  ELSE {}

-----------------------------------------------------------------------------
\* Mutant: the index is taken when the occurrence is already there.
IndexAfterPush == Len(occurrences) + 1

NextIndex == Len(occurrences)

RegisterFactor ==
  /\ pc = "build" /\ Len(scopes) < Len(from)
  /\ LET f == from[Len(scopes) + 1] IN
       IF Plain(f)
         THEN /\ occurrences' = Append(occurrences, f)
              /\ scopes' = Append(scopes, <<NextIndex>>)
              /\ UNCHANGED indeterminate
         ELSE /\ scopes' = Append(scopes, <<>>)
              /\ indeterminate' = TRUE
              /\ UNCHANGED occurrences
  /\ UNCHANGED <<from, pc, nextScope, left, edges, asked, rejected>>

Registered == pc = "build" /\ Len(scopes) = Len(from)

TakeFirst ==
  /\ Registered /\ nextScope < Len(from) /\ from[nextScope + 1].lead
  /\ left' = scopes[nextScope + 1]
  /\ nextScope' = nextScope + 1
  /\ UNCHANGED <<from, pc, occurrences, scopes, edges, indeterminate, asked, rejected>>

\* Every scope is there: take_factor_scope meets no end of factor_scopes.
ProcessJoin(join) ==
  /\ Registered /\ nextScope < Len(from) /\ ~from[nextScope + 1].lead
  /\ LET right == scopes[nextScope + 1] IN
       /\ edges' = edges \union JoinEdges(join, right)
       /\ indeterminate' = (indeterminate \/ JoinUnclear(join, right))
       /\ left' = left \o right
  /\ nextScope' = nextScope + 1
  /\ asked' = asked \union JoinAsks(join, nextScope)
  /\ rejected' = \/ rejected
                 \/ /\ join.is = "on"
                    /\ Unresolved(join.predicate, Visible(nextScope))
  /\ UNCHANGED <<from, pc, occurrences, scopes>>

\* WHERE, or the empty predicate without one, and finish.
ProcessSelection(p) ==
  /\ Registered /\ nextScope = Len(from)
  /\ edges' = edges \union PredicateEdges(p, Occurrences)
  /\ indeterminate' = \/ indeterminate \/ nextScope # Len(scopes)
                      \/ \E c \in p : ~Determined(c, Occurrences)
  /\ pc' = "done"
  /\ asked' = asked \union Asks(p, FactorIds)
  /\ rejected' = (rejected \/ Unresolved(p, FactorIds))
  /\ UNCHANGED <<from, occurrences, scopes, nextScope, left>>

Next == \/ RegisterFactor
        \/ TakeFirst
        \/ \E join \in Joins : ProcessJoin(join)
        \/ \E p \in Predicates : ProcessSelection(p)

Spec == Init /\ [][Next]_vars

-----------------------------------------------------------------------------
\* Type invariant.  The edges are normalized and in range, as the component
\* search of rules.rs demands before it looks at a graph.
TypeOK ==
  /\ from \in Seq(Factors)
  /\ pc \in {"build", "done"}
  /\ occurrences \in Seq(Factors)
  /\ scopes \in Seq(Seq(Occurrences))
  /\ nextScope \in 0..Len(from)
  /\ left \in Seq(Occurrences)
  /\ edges \subseteq {e \in Occurrences \X Occurrences : e[1] < e[2]}
  /\ indeterminate \in BOOLEAN
  /\ \A a \in asked : a.left \subseteq FactorIds /\ a.right \subseteq FactorIds
  /\ rejected \in BOOLEAN

\* Identifiers that are written alike are the same name to PostgreSQL: there is
\* no "A" beside an unquoted A.
Spelled == \A a, b \in Idents : a.value = b.value => a.name = b.name

Determinate == ~indeterminate /\ ~rejected

AllTogether(S) == \A a \in asked : \A i \in a.left, j \in a.right : i \in S <=> j \in S
SomeTogether(S) == \A a \in asked : \E i \in a.left, j \in a.right : i \in S <=> j \in S

\* In a determinate graph no join or predicate relates two parts that the edges
\* leave apart, whichever columns a USING join merges and whatever comes later:
\* the products PGP104 warns of are real (docs/SQL-SUPPORT.md 70-80).
NoFalseProduct ==
  Spelled /\ Determinate =>
    /\ pc = "done" => Len(occurrences) = Len(from)
    /\ \A S \in SUBSET FactorIds : Closed(FactorIds, edges, S) => AllTogether(S)

\* Nor do the edges join parts that nothing relates: no product is missed.
NoMissedProduct ==
  Spelled /\ Determinate =>
    \A S \in SUBSET FactorIds : SomeTogether(S) => Closed(FactorIds, edges, S)
=============================================================================
