------------------------------ MODULE MCValidation ------------------------------
(* Instance of Validation for TLC: statements with up to three queries, in every *)
(* nesting, and up to two leaves in a body.                                      *)
EXTENDS ValidationProofs

MCIdents == {"public", "orders", "other"}

Plain == [is |-> "select", into |-> FALSE, where |-> FALSE]
Into == [Plain EXCEPT !.into = TRUE]
Bodies == {{Plain}, {[Plain EXCEPT !.where = TRUE], [is |-> "values"]}, {Into},
           {[is |-> "update"]}}
SimpleBodies == {{Plain}, {Into}, {[is |-> "delete"]}}

Query(locks, leaves, operands, ctes) ==
  [locks |-> locks, leaves |-> leaves, operands |-> operands, ctes |-> ctes]
Outer(is, queries0, target) ==
  [is |-> is, queries |-> queries0, target |-> target,
   where |-> is = "update", returning |-> is = "delete"]
NoTarget == [is |-> "no table"]

\* Query k has a role in its parent; a body in parentheses has no other leaf.
Roles == {"operand", "cte", "subquery"}
Nested(roles, parent, i, role) == {k \in DOMAIN roles : parent[k] = i /\ roles[k] = role}

QueryLists(n, bodies) ==
  {[i \in 1..n |->
      Query(i = locked,
            IF Nested(roles, parent, i, "operand") = {} THEN leaves[i]
              ELSE leaves[i] \ ({Plain} \union Modifications),
            Nested(roles, parent, i, "operand"), Nested(roles, parent, i, "cte"))] :
     locked \in 0..n, leaves \in [1..n -> bodies], roles \in [2..n -> Roles],
     parent \in {p \in [2..n -> 1..n] : \A k \in 2..n : p[k] < k}}

\* A modification without WITH is not parsed as a query.
QueryStatements ==
  {s \in {Outer("query", qs, NoTarget) :
            qs \in QueryLists(1, Bodies) \union QueryLists(2, Bodies)
                     \union QueryLists(3, SimpleBodies)} :
     s.queries[1].leaves \intersect Modifications = {} \/ s.queries[1].ctes # {}}

MCStatements ==
  QueryStatements
    \union {Outer(is, qs, target) :
              is \in {"update", "delete", "explain", "insert", "other"},
              qs \in {<<>>} \union QueryLists(1, SimpleBodies),
              target \in {NoTarget, [is |-> "name with a function"],
                          [is |-> "name", parts |-> <<"orders">>],
                          [is |-> "name", parts |-> <<"public", "orders">>],
                          [is |-> "name", parts |-> <<"other", "public", "orders">>]}}

Select == Outer("query", <<Query(FALSE, {Plain}, {}, {})>>, NoTarget)
MCParsed ==
  {[is |-> "malformed"], [is |-> "statements", statements |-> <<>>],
   [is |-> "statements", statements |-> <<Select, Select>>]}
    \union {[is |-> "statements", statements |-> <<s>>] : s \in MCStatements}
=============================================================================
