------------------------------- MODULE Validation -------------------------------
(***************************************************************************)
(* parse_and_validate (lib.rs, parser.rs, validation.rs): exactly one      *)
(* statement, a visitor that looks at every query of it in the order of    *)
(* the text, then the facts of an admitted statement.                      *)
(*                                                                         *)
(* A statement's queries are numbered in the order the visitor meets them. *)
(* Of a query's body only the leaves of its set operations are kept: those *)
(* that are queries again (in parentheses) are its operands.  A query that *)
(* is nobody's operand or CTE is a subquery of FROM or of an expression.   *)
(***************************************************************************)
EXTENDS Integers, Sequences

CONSTANTS
  Idents,      \* parts of names
  Parsed       \* what Parser::parse_sql makes of the texts

Selects == [is : {"select"}, into : BOOLEAN, where : BOOLEAN]
Modifications == [is : {"insert", "update", "delete", "merge"}]
Leaves == Selects \union Modifications \union [is : {"values", "table"}]

Queries == [locks : BOOLEAN, leaves : SUBSET Leaves,
            operands : SUBSET Nat, ctes : SUBSET Nat]

\* The target is a name, or FALSE when it is no table.
Statements ==
  [is : {"query", "update", "delete", "explain", "insert", "other"},
   queries : Seq(Queries),
   target : [is : {"name"}, parts : Seq(Idents)]
              \union [is : {"name with a function", "no table"}],
   where : BOOLEAN, returning : BOOLEAN]

ASSUME ParsedAssumption ==
  \A p \in Parsed :
    \/ p = [is |-> "malformed"]
    \/ /\ p.is = "statements" /\ p.statements \in Seq(Statements)
       /\ \A n \in DOMAIN p.statements :
            LET s == p.statements[n] IN
            /\ s.is = "query" => s.queries # <<>>
            /\ \A i \in DOMAIN s.queries :
                 LET q == s.queries[i] IN
                 /\ q.operands \union q.ctes \subseteq (i + 1)..Len(s.queries)
                 \* A modification is the whole body, below WITH if it is outermost.
                 /\ q.leaves \intersect Modifications # {} =>
                      /\ q.operands = {} /\ \E m \in Modifications : q.leaves = {m}
                      /\ i = 1 /\ s.is = "query" => q.ctes # {}

VARIABLES
  parsed,    \* the outcome of the parser for this text
  pc,        \* "parse", "visit", "done"
  visited,   \* how many queries the visitor has passed
  result

vars == <<parsed, pc, visited, result>>

Running == [is |-> "running"]
Error(kind) == [is |-> kind]
UnsafeConstruct(kind) == [is |-> "UnsafeConstruct", kind |-> kind]

Init == /\ parsed \in Parsed
        /\ pc = "parse" /\ visited = 0 /\ result = Running

-----------------------------------------------------------------------------
statement == parsed.statements[1]
queries == statement.queries
QueryIds == 1..Len(queries)

\* The queries that a recursion from query i along the edges reaches.
Reached(i, edges) ==
  {k \in QueryIds :
     \A S \in SUBSET QueryIds :
       i \in S /\ (\A e \in edges : e[1] \in S => e[2] \in S) => k \in S}

OperandEdges == {e \in QueryIds \X QueryIds : e[2] \in queries[e[1]].operands}
CteEdges == {e \in QueryIds \X QueryIds : e[2] \in queries[e[1]].ctes}

\* What the functions on set expressions find below the body of query i.
BodyLeaves(i) == UNION {queries[k].leaves : k \in Reached(i, OperandEdges)}

ContainsModification(i) ==
  \E k \in Reached(i, OperandEdges \union CteEdges) :
    queries[k].leaves \intersect Modifications # {}

ContainsSelectInto(i) == \E l \in BodyLeaves(i) \intersect Selects : l.into
HasWhere(i) == \E l \in BodyLeaves(i) \intersect Selects : l.where
SelectBody(i) == BodyLeaves(i) \subseteq Selects

\* Mutant: only the outermost query is looked at.
OutermostConstruct(i) ==
  IF queries[1].locks THEN "locking clause"
  ELSE IF ContainsModification(1) THEN "data-modifying query"
  ELSE IF ContainsSelectInto(1) THEN "SELECT INTO" ELSE "none"

\* The construct query i is refused for.
Construct(i) ==
  IF queries[i].locks THEN "locking clause"
  ELSE IF ContainsModification(i) THEN "data-modifying query"
  ELSE IF ContainsSelectInto(i) THEN "SELECT INTO" ELSE "none"

\* Mutant: what follows the first statement is ignored.
ParseFirst ==
  /\ pc = "parse"
  /\ IF parsed.is = "malformed"
       THEN result' = Error("SqlParse") /\ pc' = "done"
     ELSE IF parsed.statements = <<>>
       THEN result' = Error("MultipleStatements") /\ pc' = "done"
       ELSE pc' = "visit" /\ UNCHANGED result
  /\ UNCHANGED <<parsed, visited>>

ParseSingle ==
  /\ pc = "parse"
  /\ IF parsed.is = "malformed"
       THEN result' = Error("SqlParse") /\ pc' = "done"
     ELSE IF Len(parsed.statements) # 1
       THEN result' = Error("MultipleStatements") /\ pc' = "done"
       ELSE pc' = "visit" /\ UNCHANGED result
  /\ UNCHANGED <<parsed, visited>>

PreVisitQuery ==
  /\ pc = "visit" /\ visited < Len(queries)
  /\ IF Construct(visited + 1) # "none"
       THEN result' = UnsafeConstruct(Construct(visited + 1)) /\ pc' = "done"
       ELSE UNCHANGED <<pc, result>>
  /\ visited' = visited + 1
  /\ UNCHANGED parsed

\* relation_from_factor and relation_from_name; <<>> is None.
Representable(target) ==
  target.is = "no table" \/ (target.is = "name" /\ Len(target.parts) \in 1..2)
TargetRelation(target) ==
  IF target.is = "name" /\ Len(target.parts) = 2 THEN target.parts ELSE <<>>

Facts ==
  IF statement.is = "query"
    THEN [is |-> "admitted", kind |-> "select", target |-> <<>>,
          where |-> HasWhere(1), returning |-> FALSE]
    ELSE [is |-> "admitted", kind |-> statement.is,
          target |-> TargetRelation(statement.target),
          where |-> statement.where, returning |-> statement.returning]

\* What becomes of a statement the visitor has nothing against.
Classified ==
  CASE statement.is = "query" /\ SelectBody(1) -> Facts
    [] statement.is \in {"update", "delete"} /\ Representable(statement.target) -> Facts
    [] statement.is = "explain" -> UnsafeConstruct("EXPLAIN")
    [] OTHER -> Error("UnsupportedStatement")

\* Mutant: the statement is classified before it has been visited.
ValidateUnvisited ==
  /\ pc = "visit"
  /\ result' = Classified /\ pc' = "done"
  /\ UNCHANGED <<parsed, visited>>

ValidateStatement ==
  /\ pc = "visit" /\ visited = Len(queries)
  /\ result' = Classified /\ pc' = "done"
  /\ UNCHANGED <<parsed, visited>>

Next == ParseSingle \/ PreVisitQuery \/ ValidateStatement
Spec == Init /\ [][Next]_vars

-----------------------------------------------------------------------------
\* Type invariant.
TypeOK ==
  /\ parsed \in Parsed
  /\ pc \in {"parse", "visit", "done"}
  /\ visited \in Nat
  /\ pc = "visit" => Len(parsed.statements) = 1 /\ visited <= Len(queries)
  /\ result.is \in {"running", "SqlParse", "MultipleStatements", "UnsafeConstruct",
                    "UnsupportedStatement", "admitted"}

Modifying(q) == q.leaves \intersect Modifications # {}
Creating(q) == \E l \in q.leaves \intersect Selects : l.into

\* Fail closed: an admitted statement is the only one of its text, SELECT, UPDATE
\* or DELETE, and no query anywhere in it locks, modifies or creates a relation,
\* whether CTE, operand or subquery at any depth (validation.rs 41-53, 174-200).
AdmittedReadsOnly ==
  result.is = "admitted" =>
    /\ Len(parsed.statements) = 1 /\ statement.is \in {"query", "update", "delete"}
    /\ \A i \in QueryIds :
         ~queries[i].locks /\ ~Modifying(queries[i]) /\ ~Creating(queries[i])

\* An error names a construct the statement has, so that nothing is refused as
\* unsafe for what it only resembles, and an unsupported statement has none: the
\* category does not depend on where in the text the construct is
\* (validation.rs 41-53, 181-199).
ErrorsJustified ==
  /\ result.is = "UnsafeConstruct" =>
       CASE result.kind = "locking clause" -> \E i \in QueryIds : queries[i].locks
         [] result.kind = "data-modifying query" ->
              \E i \in QueryIds : Modifying(queries[i])
         [] result.kind = "SELECT INTO" -> \E i \in QueryIds : Creating(queries[i])
         [] result.kind = "EXPLAIN" -> statement.is = "explain"
  /\ result.is = "UnsupportedStatement" =>
       \A i \in QueryIds :
         ~queries[i].locks /\ ~Modifying(queries[i]) /\ ~Creating(queries[i])
=============================================================================
