---------------------------- MODULE MCPlanAnalysis ----------------------------
(* Instance of PlanAnalysis for TLC: relations 1 and 2, a relation 9 that the *)
(* catalog spells differently, tables of 0 to 100 rows.                       *)
EXTENDS PlanAnalysis, TLC

On(type, relation, alias, parent, rows) ==
  [type |-> type, schema |-> "public", relation |-> relation, alias |-> alias,
   parent |-> parent, plans |-> Absent, rows |-> rows, cost |-> 1]
Bare(type, parent, rows) ==
  [On(type, Absent, Absent, parent, rows) EXCEPT !.schema = Absent]
Document(nodes) == [documents |-> 1, nodes |-> nodes]
Scan(relation, alias, parent, rows) == On("Seq Scan", relation, alias, parent, rows)

SelectPlans ==
  {Document(<<Scan(1, 1, 0, n)>>) : n \in {0, 10, 20, 100}}
  \union {Document(<<Bare("Limit", 0, 5), Scan(1, 1, 1, 50)>>),
          Document(<<Bare("Nested Loop", 0, 90), Scan(2, 1, 1, 10),
                     Scan(1, 2, 1, 20), Scan(2, 3, 1, 0)>>),
          Document(<<Bare("Future", 0, 20), On("Index Scan", 1, 1, 1, 3)>>)}

DmlPlans ==
  {Document(<<On("ModifyTable", 1, 1, 0, 0), Scan(1, 1, 1, n)>>) : n \in {0, 4, 5, 10, 100}}
  \union {Document(<<On("ModifyTable", 1, 1, 0, 0), Scan(1, 1, 1, 10), Scan(2, 2, 1, 20)>>),
          Document(<<Bare("ModifyTable", 0, 0), Bare("Result", 1, 1)>>)}

UnusablePlans ==
  {Document(<<>>), [Document(<<Scan(1, 1, 0, 1)>>) EXCEPT !.documents = Malformed],
   [Document(<<Scan(1, 1, 0, 1)>>) EXCEPT !.documents = 2],
   Document(<<[Scan(1, 1, 0, 1) EXCEPT !.schema = Absent]>>),
   Document(<<Bare("Limit", 0, 5), [Scan(1, 1, 1, 1) EXCEPT !.rows = -1]>>),
   Document(<<[Scan(1, 1, 0, 1) EXCEPT !.alias = Malformed]>>),
   Document(<<[Scan(1, 1, 0, 1) EXCEPT !.type = Absent]>>)}

\* A set-returning function in FROM: EXPLAIN VERBOSE gives its schema, and its
\* name as "Function Name".
FunctionScan ==
  Document(<<Bare("Nested Loop", 0, 20), Scan(1, 1, 1, 10),
             [Bare("Function Scan", 1, 10) EXCEPT !.schema = "pg_catalog"]>>)

\* Relation 1 is unknown, never analyzed, empty, or just below or at 100 rows.
Catalogs == {2 :> 100} \union {(1 :> n) @@ (2 :> 100) : n \in {-1, 0, 99, 100}}

Graph(n, E) == [count |-> n, edges |-> E, indeterminate |-> FALSE]
Single == Graph(1, {})
Graphs ==
  {Graph(n, {}) : n \in 0..3}
  \union {Graph(2, E) : E \in SUBSET {<<0, 1>>, <<1, 0>>, <<1, 1>>, <<0, 2>>}}
  \union {Graph(4, E) : E \in SUBSET {<<0, 1>>, <<1, 2>>, <<3, 0>>, <<3, 2>>}}
  \union {[Graph(2, {}) EXCEPT !.indeterminate = TRUE]}

Facts(kind, hasWhere, target, graph) ==
  [kind |-> kind, hasWhere |-> hasWhere, target |-> target, graph |-> graph]
Case(facts, raw, catalog) == [facts |-> facts, raw |-> raw, catalog |-> catalog]
Select(graph) == Facts("select", FALSE, None, graph)
Analyzed == (1 :> 100) @@ (2 :> 100)

MCCases ==
  {Case(Select(Single), raw, catalog) : raw \in SelectPlans, catalog \in Catalogs}
  \union {Case(Facts("update", FALSE, target, Single), raw, catalog) :
            target \in {None, 1, 9}, raw \in DmlPlans, catalog \in Catalogs}
  \union {Case(Facts("delete", hasWhere, target, Single), raw, Analyzed) :
            hasWhere \in BOOLEAN, target \in {None, 1}, raw \in DmlPlans}
  \union {Case(facts, raw, Analyzed) :
            facts \in {Select(g) : g \in Graphs}
                      \union {Facts("delete", TRUE, 1, g) : g \in Graphs},
            raw \in {Document(<<Scan(1, 1, 0, 10)>>)}}
  \union {Case(Select(Single), raw, Analyzed) : raw \in UnusablePlans \union {FunctionScan}}

AllOn == [rule \in RuleIds |-> TRUE]
Default ==
  [version |-> 1, enabled |-> AllOn, maxRows |-> 10, maxTableRatio |-> 5,
   minRowsForRatio |-> 4, minRelationRows |-> 100, maxOutputRatio |-> 20,
   maxResultRows |-> 20]

MCConfigs ==
  {Default}
  \union {[Default EXCEPT !.enabled[rule] = FALSE] : rule \in RuleIds}
  \union {[Default EXCEPT !.maxRows = n] : n \in {-1, 0, 50}}
  \union {[Default EXCEPT !.maxTableRatio = n] : n \in {-1, 0, 6, 101, NaN}}
  \union {[Default EXCEPT !.minRowsForRatio = n] : n \in {0, 5}}
  \union {[Default EXCEPT !.minRelationRows = n] : n \in {99, 101}}
  \union {[Default EXCEPT !.maxOutputRatio = n] : n \in {0, 19, 100, 101}}
  \union {[Default EXCEPT !.maxResultRows = n] : n \in {0, 21, 100}}
  \union {[Default EXCEPT !.version = 2]}
  \union {[Default EXCEPT !.maxRows = NaN], [Default EXCEPT !.minRelationRows = NaN],
          [Default EXCEPT !.maxResultRows = NaN]}
=============================================================================
