----------------------------- MODULE PlanAnalysis -----------------------------
(***************************************************************************)
(* From a configuration file and the answers of the server to a report:    *)
(* Config::validate, normalize_plan, load_relation_stats and analyze, one  *)
(* action each, in the order in which a check runs them.  The protocol     *)
(* around them is SafeModePlanner's.                                       *)
(***************************************************************************)
EXTENDS DiagnosticRules

CONSTANTS Cases, Configs

\* facts are a StatementFacts, raw what EXPLAIN answers, catalog gives the
\* reltuples of the relations pg_class has.
StatementFacts ==
  [kind : {"select", "update", "delete"}, hasWhere : BOOLEAN, target : Nat,
   graph : [count : Nat, edges : SUBSET (Int \X Int), indeterminate : BOOLEAN]]

ASSUME CasesAssumption ==
  \A c \in Cases :
    /\ DOMAIN c = {"facts", "raw", "catalog"} /\ c.facts \in StatementFacts
    /\ c.raw.nodes \in Seq({c.raw.nodes[i] : i \in DOMAIN c.raw.nodes})
    /\ \A i \in DOMAIN c.raw.nodes :
         c.raw.nodes[i].relation \in (Nat \ {None}) \union {Absent, Malformed}
    /\ \A r \in DOMAIN c.catalog : c.catalog[r] \in Int

ASSUME ConfigsAssumption ==
  \A c \in Configs :
    /\ DOMAIN c = {"version", "enabled", "maxRows", "maxTableRatio", "minRowsForRatio",
                    "minRelationRows", "maxOutputRatio", "maxResultRows"}
    /\ c.enabled \in [RuleIds -> BOOLEAN]
    /\ {c.maxRows, c.maxTableRatio, c.minRowsForRatio, c.minRelationRows,
        c.maxOutputRatio, c.maxResultRows} \subseteq Int \union {NaN}

VARIABLES
  case,     \* the statement and what the server says of it
  config,   \* the configuration, as parsed
  stage,    \* "config", "plan", "stats", "analyze", then how it ended
  input,    \* AnalysisInput, as far as it is known
  report

vars == <<case, config, stage, input, report>>

NoPlan == [nodes |-> <<>>, affected |-> NoEstimate]

Init ==
  /\ case \in Cases /\ config \in Configs
  /\ stage = "config"
  /\ input = [facts |-> case.facts, plan |-> NoPlan, stats |-> <<>>]
  /\ report = Report(<<>>)

Validate ==
  /\ stage = "config"
  /\ stage' = IF Valid(config) THEN "plan" ELSE "invalid_config"
  /\ UNCHANGED <<case, config, input, report>>

Normalize ==
  /\ stage = "plan"
  /\ IF NormalizationError(case.raw)
       THEN stage' = "invalid_plan" /\ UNCHANGED input
       ELSE /\ stage' = "stats"
            /\ input' = [input EXCEPT
                 !.plan = NormalizedPlan(case.raw, case.facts.kind)]
  /\ UNCHANGED <<case, config, report>>

Mentioned(nodes) == {nodes[i].relation : i \in DOMAIN nodes} \ {None}

LoadRelationStats ==
  /\ stage = "stats"
  /\ input' = [input EXCEPT !.stats =
       [r \in Mentioned(input.plan.nodes) |->
          IF r \in DOMAIN case.catalog /\ case.catalog[r] >= 0
          THEN case.catalog[r] ELSE NoEstimate]]
  /\ stage' = "analyze"
  /\ UNCHANGED <<case, config, report>>

AnalyzeEvidence ==
  /\ stage = "analyze"
  /\ report' = Analyze(input, config)
  /\ stage' = "done"
  /\ UNCHANGED <<case, config, input>>

Next == Validate \/ Normalize \/ LoadRelationStats \/ AnalyzeEvidence

Spec == Init /\ [][Next]_vars

-----------------------------------------------------------------------------
Done == stage = "done"
Diagnostics == report.diagnostics

\* Type invariant: relations, kinds and statistics of the normalized input.
TypeOK ==
  /\ case \in Cases /\ config \in Configs
  /\ stage \in {"config", "plan", "stats", "analyze", "done",
                "invalid_config", "invalid_plan"}
  /\ \A i \in DOMAIN input.plan.nodes :
       /\ input.plan.nodes[i].kind \in KnownTypes \union {"Other"}
       /\ input.plan.nodes[i].relation \in Nat
       /\ input.plan.nodes[i].rows \in Nat
  /\ input.plan.affected \in Nat \union {NoEstimate}
  /\ \A r \in DOMAIN input.stats : input.stats[r] \in Nat \union {NoEstimate}
  /\ \A i \in DOMAIN Diagnostics : Diagnostics[i].rule \in RuleIds

\* What t has at the places of E, in their order.
Ascending(E) == {e \in E \X E : e[1] < e[2]}
Selected(t, E) == [n \in 1..Cardinality(E) |-> t[Nth(E, Ascending(E), n)]]

\* The rules are independent: a switched-off rule removes its own diagnostics
\* and changes nothing about the others, their order included (rules.rs 7-34).
RulesIndependent ==
  Done => LET all == Analyze(input,
                       [config EXCEPT !.enabled = [r \in RuleIds |-> TRUE]]).diagnostics
          IN Diagnostics = Selected(all, {i \in DOMAIN all : config.enabled[all[i].rule]})

\* Every diagnostic of s is one of t, there with at least the same evidence.
NoneNew(s, t) ==
  \A i \in DOMAIN s : \E j \in DOMAIN t :
    /\ s[i].rule = t[j].rule /\ s[i].relation = t[j].relation
    /\ s[i].evidence \subseteq t[j].evidence

\* Evidence that is missing never causes a diagnostic: without the statistics
\* of a relation, without the affected rows or without a determinate join graph
\* there is none that the full evidence does not justify (rules.rs 74-254).
MissingEvidenceSilent ==
  Done =>
    /\ \A r \in DOMAIN input.stats :
         NoneNew(Analyze([input EXCEPT !.stats[r] = NoEstimate], config).diagnostics,
                 Diagnostics)
    /\ NoneNew(Analyze([input EXCEPT !.plan.affected = NoEstimate], config).diagnostics,
               Diagnostics)
    /\ NoneNew(Analyze([input EXCEPT !.facts.graph.indeterminate = TRUE], config).diagnostics,
               Diagnostics)

\* Raising a row threshold, raising PGP101's ratio or lowering PGP102's never
\* adds a diagnostic (rules.rs 74-225).
Stricter(c) ==
  /\ c.enabled = config.enabled
  /\ AtLeast(c.maxRows, config.maxRows)
  /\ AtLeast(c.minRowsForRatio, config.minRowsForRatio)
  /\ AtLeast(c.maxTableRatio, config.maxTableRatio)
  /\ AtLeast(c.minRelationRows, config.minRelationRows)
  /\ AtLeast(config.maxOutputRatio, c.maxOutputRatio)
  /\ AtLeast(c.maxResultRows, config.maxResultRows)
ThresholdsMonotone ==
  Done => \A c \in Configs :
            Valid(c) /\ Stricter(c) =>
              NoneNew(Analyze(input, c).diagnostics, Diagnostics)

\* Thresholds are inclusive: set to just what the plan and the catalog say they
\* are met, and a number of rows is no longer one row further up (rules.rs
\* 74-225; docs/RULES.md 52-60, 78-79, 98 write ">=", "<=" and "meet/exceed").
Reported(c, rule, relation, evidence) ==
  LET ds == Analyze(input, c).diagnostics IN
  \E i \in DOMAIN ds : /\ ds[i].rule = rule /\ ds[i].relation = relation
                       /\ evidence \in ds[i].evidence

AffectedInclusive ==
  LET n == input.plan.affected
      target == Target(input)
      live == LiveRows(input, target)
      Absolute(rows) == Reported([config EXCEPT !.maxRows = rows],
                                 101, target, "absolute_rows")
      Relative(rows) == Reported([config EXCEPT !.minRowsForRatio = rows,
                                                !.maxTableRatio = (100 * n) \div live],
                                 101, target, "relation_ratio")
  IN config.enabled[101] /\ case.facts.kind # "select" /\ n # NoEstimate /\ target # None =>
       /\ Absolute(n) /\ ~Absolute(n + 1)
       /\ live # NoEstimate /\ (100 * n) % live = 0 => Relative(n) /\ ~Relative(n + 1)

ScansInclusive ==
  \A i \in DOMAIN input.plan.nodes :
    LET scan == input.plan.nodes[i]
        live == LiveRows(input, scan.relation)
        AtSize(rows) == Reported([config EXCEPT !.minRelationRows = rows,
                                    !.maxOutputRatio = (100 * scan.rows) \div live],
                                 102, scan.relation, scan.alias)
    IN /\ config.enabled[102] /\ scan.kind = "Seq Scan" /\ scan.relation # None
       /\ live # NoEstimate /\ (100 * scan.rows) % live = 0
       => AtSize(live) /\ ~AtSize(live + 1)

ResultInclusive ==
  LET n == input.plan.nodes[1].rows
      AtRows(rows) == Reported([config EXCEPT !.maxResultRows = rows], 103, None, n)
  IN config.enabled[103] /\ case.facts.kind = "select" => AtRows(n) /\ ~AtRows(n + 1)

ThresholdsInclusive == Done => AffectedInclusive /\ ScansInclusive /\ ResultInclusive

\* PGP104 speaks up exactly when the occurrences can be divided in two parts no
\* predicate connects, and never about a graph that is indeterminate or has an
\* edge to nowhere (rules.rs 227-308).
CartesianExact ==
  Done /\ config.enabled[104] =>
    LET graph == input.facts.graph
        V == 0..(graph.count - 1)
        Divided == \E S \in SUBSET V : S # {} /\ S # V /\ Closed(V, graph.edges, S)
                                       /\ Closed(V, graph.edges, V \ S)
    IN (\E i \in DOMAIN Diagnostics : Diagnostics[i].rule = 104)
         <=> ~graph.indeterminate /\ graph.edges \subseteq V \X V /\ Divided

\* That ds reports the large scans of relation r one by one, each under its alias,
\* in the order of the plan.
ScansReported(in, cf, ds, r) ==
  LET reported == Selected(ds, {i \in DOMAIN ds : ds[i].rule = 102 /\ ds[i].relation = r})
      scans == Selected(in.plan.nodes,
                        {i \in LargeScans(in, cf) : in.plan.nodes[i].relation = r})
  IN [n \in DOMAIN reported |-> reported[n].evidence]
       = [n \in DOMAIN scans |-> {scans[n].alias}]

\* Diagnostics come by severity, rule and relation, and the scans of one
\* relation, each of them, in the order of the plan (rules.rs 26-32, 130-153,
\* docs/RULES.md 131-136).
OrderDeterministic ==
  /\ \A i, j \in DOMAIN Diagnostics : i < j =>
       LET a == Diagnostics[i]
           b == Diagnostics[j]
       IN /\ a.severity = b.severity \/ a.severity = "error"
          /\ \/ a.rule < b.rule
             \/ a.rule = b.rule /\ a.relation < b.relation
             \/ a.rule = 102 /\ b.rule = 102 /\ a.relation = b.relation
  /\ Done => \A r \in Mentioned(input.plan.nodes) :
                ScansReported(input, config, Diagnostics, r)

\* An UPDATE or DELETE without WHERE whose relation is known, from the statement
\* or else from the root of the plan, is an error whatever the planner and the
\* catalog say of its size, and nothing but a missing WHERE is (rules.rs 36-72,
\* 310-316).
LacksWhere ==
  /\ case.facts.kind # "select" /\ ~case.facts.hasWhere
  /\ config.enabled[IF case.facts.kind = "update" THEN 1 ELSE 2]

MissingWhereReported ==
  Done =>
    /\ report.status = "errors" => LacksWhere
    /\ /\ LacksWhere
       /\ case.facts.target # None \/ case.raw.nodes[1].relation # Absent
       => report.status = "errors"

-----------------------------------------------------------------------------
\* docs/RULES.md 98: "For SELECT, warn when the normalized root estimated rows
\* meet/exceed the threshold", for every configuration that is accepted.
ResultRowsMeetThreshold ==
  Done => \A i \in DOMAIN Diagnostics :
            Diagnostics[i].rule = 103 =>
              AtLeast(input.plan.nodes[1].rows, config.maxResultRows)

\* docs/RULES.md 22-25: PGP001 is to "Trigger when a validated `UPDATE` has no
\* syntactic `WHERE` clause" and "does not require planner evidence"; 32: PGP002
\* is the "Same contract as PGP001 for `DELETE`".
MissingWhereAlways == Done /\ LacksWhere => report.status = "errors"

\* docs/RULES.md 57-61: PGP101 also warns when "estimated_affected_rows >=
\* min_rows_for_ratio AND relation_rows is known and positive AND
\* estimated_affected_rows / relation_rows >= max_table_ratio", the relation
\* being the one the plan modifies, however the statement spells it.
AffectedRatioSeen ==
  LET modified == input.plan.nodes[1].relation
      affected == input.plan.affected
      live == LiveRows(input, modified)
  IN (/\ Done /\ config.enabled[101] /\ case.facts.kind # "select"
      /\ modified # None /\ live # NoEstimate
      /\ affected # NoEstimate /\ AtLeast(affected, config.minRowsForRatio)
      /\ 100 * affected >= config.maxTableRatio * live)
     => \E i \in DOMAIN Diagnostics :
          Diagnostics[i].rule = 101 /\ "relation_ratio" \in Diagnostics[i].evidence

\* ARCHITECTURE.md 187: "Unknown plan node kinds are represented without making
\* the entire report unusable": a plan whose other nodes are usable, and whose
\* nodes of unknown kinds have a type, rows and costs, is normalized.
UnknownKindsRepresented ==
  stage = "invalid_plan" =>
    \/ case.raw.documents # 1 \/ case.raw.nodes = <<>>
    \/ \E i \in DOMAIN case.raw.nodes :
         LET n == case.raw.nodes[i] IN
         \/ NodeKind(n.type) # "Other" /\ ~Usable(n)
         \/ n.type \in {Absent, Malformed} \/ n.rows \notin Nat \/ n.cost \notin Nat
         \/ Malformed \in {n.schema, n.relation, n.alias, n.plans}
=============================================================================
