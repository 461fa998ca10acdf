---------------------------- MODULE ValidationProofs ----------------------------
(***************************************************************************)
(* Proofs about Validation, for every statement the parser can return.     *)
(***************************************************************************)
EXTENDS Validation, TLAPS

Clean(q) == ~q.locks /\ ~Modifying(q) /\ ~Creating(q)

\* The inductive invariant: what the visitor has passed is clean, and a verdict
\* on the kind of statement is given when it has passed all.
VInv ==
  /\ TypeOK
  /\ pc = "parse" => visited = 0
  /\ pc # "done" => result = Running
  /\ pc = "visit" => parsed.is = "statements" /\ \A i \in 1..visited : Clean(queries[i])
  /\ AdmittedReadsOnly /\ ErrorsJustified

-----------------------------------------------------------------------------
\* A recursion starts where it starts, and stays within the statement.
LEMMA ReachedSelf ==
  ASSUME NEW i \in QueryIds, NEW E
  PROVE  i \in Reached(i, E) /\ Reached(i, E) \subseteq QueryIds
BY DEF Reached

\* A query the visitor passes is clean (validation.rs 181-192).
LEMMA PassedIsClean ==
  ASSUME NEW i \in QueryIds, Construct(i) = "none" PROVE Clean(queries[i])
<1>1. ~queries[i].locks /\ ~ContainsModification(i) /\ ~ContainsSelectInto(i)
  BY DEF Construct
<1>2. ~Modifying(queries[i])
  BY <1>1, ReachedSelf DEF ContainsModification, Modifying
<1>3. ~Creating(queries[i])
  <2>1. queries[i].leaves \subseteq BodyLeaves(i)
    BY ReachedSelf DEF BodyLeaves
  <2> QED BY <1>1, <2>1 DEF ContainsSelectInto, Creating
<1> QED BY <1>1, <1>2, <1>3 DEF Clean

\* What a query is refused for is somewhere in the statement.
LEMMA ConstructIsThere ==
  ASSUME NEW i \in QueryIds, Construct(i) # "none"
  PROVE  \/ Construct(i) = "locking clause" /\ \E k \in QueryIds : queries[k].locks
         \/ Construct(i) = "data-modifying query" /\ \E k \in QueryIds : Modifying(queries[k])
         \/ Construct(i) = "SELECT INTO" /\ \E k \in QueryIds : Creating(queries[k])
<1>1. ContainsModification(i) => \E k \in QueryIds : Modifying(queries[k])
  BY ReachedSelf DEF ContainsModification, Modifying
<1>2. ContainsSelectInto(i) => \E k \in QueryIds : Creating(queries[k])
  BY ReachedSelf DEF ContainsSelectInto, BodyLeaves, Creating
<1> QED BY <1>1, <1>2 DEF Construct

LEMMA QueriesAreSequence ==
  ASSUME parsed.statements \in Seq(Statements), Len(parsed.statements) = 1
  PROVE  Len(queries) \in Nat
<1>1. statement \in Statements
  BY DEF statement
<1>2. queries \in Seq(Queries)
  BY <1>1 DEF queries, Statements
<1> QED BY <1>2

\* A step that leaves the statement alone leaves what is said of it.
LEMMA SameStatement ==
  ASSUME UNCHANGED parsed
  PROVE  queries' = queries /\ statement' = statement /\ QueryIds' = QueryIds
BY DEF queries, statement, QueryIds

LEMMA InitVInv == Init => VInv
BY DEF Init, VInv, TypeOK, Running, AdmittedReadsOnly, ErrorsJustified

\* As long as there is no verdict, nothing is claimed of it.
LEMMA NoVerdict ==
  ASSUME result.is \in {"running", "SqlParse", "MultipleStatements"}
  PROVE  AdmittedReadsOnly /\ ErrorsJustified
BY DEF AdmittedReadsOnly, ErrorsJustified

LEMMA ParseStep == ASSUME VInv, ParseSingle PROVE VInv'
<1>1. /\ pc = "parse" /\ visited = 0 /\ result = Running /\ parsed \in Parsed
      /\ UNCHANGED <<parsed, visited>>
  BY DEF VInv, TypeOK, ParseSingle
<1>2. CASE pc' = "done" /\ result'.is \in {"SqlParse", "MultipleStatements"}
  <2>1. AdmittedReadsOnly' /\ ErrorsJustified'
    BY <1>2, NoVerdict DEF AdmittedReadsOnly, ErrorsJustified
  <2> QED BY <1>1, <1>2, <2>1 DEF VInv, TypeOK
<1>3. CASE pc' = "visit" /\ result' = result /\ parsed.is # "malformed"
                         /\ Len(parsed.statements) = 1
  <2>1. AdmittedReadsOnly' /\ ErrorsJustified'
    BY <1>1, <1>3 DEF AdmittedReadsOnly, ErrorsJustified, Running
  <2>2. parsed.is = "statements" /\ parsed.statements \in Seq(Statements)
    BY <1>1, <1>3, ParsedAssumption
  <2>3. Len(queries) \in Nat
    BY <1>3, <2>2, QueriesAreSequence
  <2>4. Len(queries)' = Len(queries)
    BY <1>1 DEF queries, statement
  <2> QED BY <1>1, <1>3, <2>1, <2>2, <2>3, <2>4 DEF VInv, TypeOK, Running
<1> QED BY <1>1, <1>2, <1>3 DEF ParseSingle, Error

LEMMA PreVisitStep == ASSUME VInv, PreVisitQuery PROVE VInv'
<1> DEFINE i == visited + 1
<1>1. /\ pc = "visit" /\ visited < Len(queries) /\ result = Running /\ visited \in Nat
      /\ parsed \in Parsed /\ parsed.is = "statements" /\ Len(parsed.statements) = 1
      /\ \A k \in 1..visited : Clean(queries[k])
      /\ visited' = i /\ UNCHANGED parsed
  BY DEF VInv, TypeOK, PreVisitQuery
<1>2. queries' = queries /\ statement' = statement /\ QueryIds' = QueryIds
  BY <1>1, SameStatement
<1>3. Len(queries) \in Nat /\ i \in QueryIds
  <2>1. parsed.statements \in Seq(Statements)
    BY <1>1, ParsedAssumption
  <2>2. Len(queries) \in Nat
    BY <1>1, <2>1, QueriesAreSequence
  <2> QED BY <1>1, <2>2 DEF QueryIds
<1>4. CASE Construct(i) = "none"
  <2>1. pc' = pc /\ result' = result
    BY <1>4 DEF PreVisitQuery
  <2>2. \A k \in 1..i : Clean(queries[k])
    BY <1>1, <1>3, <1>4, PassedIsClean
  <2>3. (\A k \in 1..visited : Clean(queries[k]))'
    BY <1>1, <1>2, <2>2 DEF Clean, Modifying, Creating
  <2>4. AdmittedReadsOnly' /\ ErrorsJustified'
    BY <1>1, <2>1 DEF AdmittedReadsOnly, ErrorsJustified, Running
  <2> QED BY <1>1, <1>2, <1>3, <2>1, <2>3, <2>4 DEF VInv, TypeOK, Running
<1>5. CASE Construct(i) # "none"
  <2>1. pc' = "done" /\ result' = UnsafeConstruct(Construct(i))
    BY <1>5 DEF PreVisitQuery
  <2>2. result'.is = "UnsafeConstruct" /\ result'.kind = Construct(i)
    BY <2>1 DEF UnsafeConstruct
  <2>3. ErrorsJustified'
    BY <1>2, <1>3, <1>5, <2>2, ConstructIsThere DEF ErrorsJustified, Modifying, Creating
  <2>4. AdmittedReadsOnly'
    BY <2>2 DEF AdmittedReadsOnly
  <2> QED BY <1>1, <2>1, <2>2, <2>3, <2>4 DEF VInv, TypeOK
<1> QED BY <1>4, <1>5

LEMMA ValidateStep == ASSUME VInv, ValidateStatement PROVE VInv'
<1>1. /\ pc = "visit" /\ visited = Len(queries) /\ visited \in Nat
      /\ parsed \in Parsed /\ Len(parsed.statements) = 1
      /\ \A k \in 1..visited : Clean(queries[k])
      /\ pc' = "done" /\ result' = Classified /\ UNCHANGED <<parsed, visited>>
  BY DEF VInv, TypeOK, ValidateStatement
<1>2. queries' = queries /\ statement' = statement /\ QueryIds' = QueryIds
  BY <1>1, SameStatement
<1>3. \A k \in QueryIds : Clean(queries[k])
  BY <1>1 DEF QueryIds
<1>4. \/ result'.is = "admitted" /\ statement.is \in {"query", "update", "delete"}
      \/ result'.is = "UnsafeConstruct" /\ result'.kind = "EXPLAIN" /\ statement.is = "explain"
      \/ result'.is = "UnsupportedStatement"
  BY <1>1 DEF Classified, Facts, UnsafeConstruct, Error
<1>5. AdmittedReadsOnly'
  BY <1>1, <1>2, <1>3, <1>4 DEF AdmittedReadsOnly, Clean, Modifying, Creating
<1>6. ErrorsJustified'
  BY <1>1, <1>2, <1>3, <1>4 DEF ErrorsJustified, Clean, Modifying, Creating
<1> QED BY <1>1, <1>4, <1>5, <1>6 DEF VInv, TypeOK

LEMMA VInvInductive == VInv /\ [Next]_vars => VInv'
<1> SUFFICES ASSUME VInv, [Next]_vars PROVE VInv'
  OBVIOUS
<1>1. CASE UNCHANGED vars
  <2>1. parsed' = parsed /\ pc' = pc /\ visited' = visited /\ result' = result
    BY <1>1 DEF vars
  <2>2. queries' = queries /\ statement' = statement /\ QueryIds' = QueryIds
    BY <2>1, SameStatement
  <2> QED BY <2>1, <2>2 DEF VInv, TypeOK, AdmittedReadsOnly, ErrorsJustified,
                          Clean, Modifying, Creating
<1> QED BY <1>1, ParseStep, PreVisitStep, ValidateStep DEF Next

-----------------------------------------------------------------------------
\* The invariant holds for every statement.
THEOREM ValidatorInvariant == Spec => []VInv
BY InitVInv, VInvInductive, PTL DEF Spec

\* Type correctness.
THEOREM ValidatorTyped == Spec => []TypeOK
<1>1. VInv => TypeOK
  BY DEF VInv
<1> QED BY <1>1, ValidatorInvariant, PTL

\* No admitted statement locks, modifies or creates anything in a query, however
\* deeply nested (validation.rs 41-53, 174-200).
THEOREM FailsClosed == Spec => []AdmittedReadsOnly
<1>1. VInv => AdmittedReadsOnly
  BY DEF VInv
<1> QED BY <1>1, ValidatorInvariant, PTL

\* Every error names a construct the statement has (validation.rs 181-199).
THEOREM ErrorsHonest == Spec => []ErrorsJustified
<1>1. VInv => ErrorsJustified
  BY DEF VInv
<1> QED BY <1>1, ValidatorInvariant, PTL
=============================================================================
