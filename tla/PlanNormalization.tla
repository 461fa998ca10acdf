--------------------------- MODULE PlanNormalization ---------------------------
(***************************************************************************)
(* normalize_plan of normalization.rs: from the JSON document EXPLAIN      *)
(* returns to a NormalizedPlan.  A tree is the sequence of its nodes in    *)
(* preorder, each with the index of its parent (0 for the root), which is  *)
(* how the rules and collect_relations walk it.  A field is a value,       *)
(* Absent (missing or null) or Malformed (of another JSON type).           *)
(***************************************************************************)
EXTENDS Integers, Sequences

CONSTANTS Absent, Malformed

None == 0          \* the None of an optional relation; relations are 1, 2, ...
NoEstimate == -1   \* the None of an optional number of rows

KnownTypes == {"Seq Scan", "Index Scan", "Index Only Scan", "Bitmap Heap Scan",
               "Bitmap Index Scan", "Nested Loop", "Hash Join", "Merge Join",
               "ModifyTable", "Append", "Gather", "Limit", "Aggregate"}

NodeKind(type) == IF type \in KnownTypes THEN type ELSE "Other"

\* A relation needs both its schema and its name; neither is fine, too.
RelationUsable(n) ==
  /\ n.schema # Malformed /\ n.relation # Malformed
  /\ n.schema = Absent <=> n.relation = Absent

Relation(n) == IF n.relation = Absent THEN None ELSE n.relation

\* Mutant: the sign of the estimate is not looked at.
UsableUnchecked(n) ==
  /\ n.type \notin {Absent, Malformed}
  /\ RelationUsable(n)
  /\ n.alias # Malformed
  /\ n.plans # Malformed
  /\ n.rows \in Int /\ n.cost \in Nat

Usable(n) ==
  /\ n.type \notin {Absent, Malformed}
  /\ RelationUsable(n)
  /\ n.alias # Malformed
  /\ n.plans # Malformed
  /\ n.rows \in Nat /\ n.cost \in Nat

Node(n) == [kind |-> NodeKind(n.type), relation |-> Relation(n),
            alias |-> IF n.alias = Absent THEN None ELSE n.alias,
            rows |-> n.rows]

Children(nodes, i) == {j \in DOMAIN nodes : nodes[j].parent = i}

\* The rows a DML statement affects are those of the only input of ModifyTable.
AffectedRows(nodes, statementKind) ==
  IF statementKind \in {"update", "delete"} /\ nodes[1].type = "ModifyTable"
     /\ \E i \in DOMAIN nodes : Children(nodes, 1) = {i}
  THEN nodes[CHOOSE i \in DOMAIN nodes : Children(nodes, 1) = {i}].rows
  ELSE NoEstimate

\* raw.documents is the length of the JSON array, Malformed for anything else.
NormalizationError(raw) ==
  \/ raw.documents # 1
  \/ raw.nodes = <<>>              \* the document has no "Plan"
  \/ \E i \in DOMAIN raw.nodes : ~Usable(raw.nodes[i])

NormalizedPlan(raw, statementKind) ==
  [nodes |-> [i \in DOMAIN raw.nodes |-> Node(raw.nodes[i])],
   affected |-> AffectedRows(raw.nodes, statementKind)]
=============================================================================
