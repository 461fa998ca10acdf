---------------------------- MODULE DiagnosticRules ----------------------------
(***************************************************************************)
(* analyze of rules.rs and Config::validate of config.rs.                  *)
(*                                                                         *)
(* Row counts are natural numbers and ratios percentages compared by       *)
(* multiplication, so that a / b >= p reads 100 * a >= p * b.  A row       *)
(* threshold may also be NaN, which TOML can write and every comparison    *)
(* with which is false.                                                    *)
(***************************************************************************)
EXTENDS PlanNormalization, FiniteSets, Connectivity

CONSTANT NaN

ASSUME NaNAssumption == NaN \notin Int

RuleIds == {1, 2, 101, 102, 103, 104}

AtLeast(x, y) == x # NaN /\ y # NaN /\ x >= y
Below(x, y) == x # NaN /\ y # NaN /\ x < y
InUnit(ratio) == AtLeast(ratio, 0) /\ AtLeast(100, ratio)

Valid(config) ==
  /\ config.version = 1
  /\ InUnit(config.maxTableRatio)
  /\ InUnit(config.maxOutputRatio)
  /\ ~Below(config.maxRows, 0)
  /\ ~Below(config.minRowsForRatio, 0)
  /\ ~Below(config.minRelationRows, 0)
  /\ ~Below(config.maxResultRows, 0)

-----------------------------------------------------------------------------
(* An input has the facts of the statement, the normalized plan and, for    *)
(* each relation of the plan, its estimated live rows or NoEstimate.        *)

\* Mutant: an unqualified target is left unknown.
TargetOfStatement(input) == input.facts.target

Target(input) == IF input.facts.target # None THEN input.facts.target
                 ELSE input.plan.nodes[1].relation

\* Mutant: a relation nothing is known of is taken to be tiny.
LiveRowsGuessed(input, relation) ==
  IF relation \in DOMAIN input.stats /\ input.stats[relation] > 0
  THEN input.stats[relation] ELSE 1

\* Statistics a ratio can be formed with: known and positive.
LiveRows(input, relation) ==
  IF relation \in DOMAIN input.stats /\ input.stats[relation] > 0
  THEN input.stats[relation] ELSE NoEstimate

Diagnostic(rule, severity, relation, evidence) ==
  [rule |-> rule, severity |-> severity, relation |-> relation,
   evidence |-> evidence]

MissingWhere(input, config) ==
  LET rule == IF input.facts.kind = "update" THEN 1 ELSE 2
  IN IF /\ ~input.facts.hasWhere
        /\ input.facts.kind # "select"
        /\ config.enabled[rule]
        /\ Target(input) # None
     THEN <<Diagnostic(rule, "error", Target(input), {})>>
     ELSE <<>>

AffectedTriggers(affected, live, config) ==
  {t \in {"absolute_rows", "relation_ratio"} :
     IF t = "absolute_rows" THEN AtLeast(affected, config.maxRows)
     ELSE /\ AtLeast(affected, config.minRowsForRatio)
          /\ live # NoEstimate
          /\ 100 * affected >= config.maxTableRatio * live}

LargeAffectedRows(input, config) ==
  LET affected == input.plan.affected
      target == Target(input)
      triggers == AffectedTriggers(affected, LiveRows(input, target), config)
  IN IF /\ config.enabled[101]
        /\ input.facts.kind # "select"
        /\ affected # NoEstimate /\ target # None
        /\ triggers # {}
     THEN <<Diagnostic(101, "warning", target, triggers)>>
     ELSE <<>>

\* Mutant: the ratio is compared the other way round.
ScansMostly(n, input, config) ==
  LET live == LiveRows(input, n.relation) IN
  /\ n.kind = "Seq Scan" /\ n.relation # None /\ live # NoEstimate
  /\ AtLeast(live, config.minRelationRows)
  /\ 100 * n.rows >= config.maxOutputRatio * live

\* Mutant: a scan at the ratio is not large.
ScansBelow(n, input, config) ==
  LET live == LiveRows(input, n.relation) IN
  /\ n.kind = "Seq Scan" /\ n.relation # None /\ live # NoEstimate
  /\ AtLeast(live, config.minRelationRows)
  /\ 100 * n.rows < config.maxOutputRatio * live

ScansLargely(n, input, config) ==
  LET live == LiveRows(input, n.relation) IN
  /\ n.kind = "Seq Scan" /\ n.relation # None /\ live # NoEstimate
  /\ AtLeast(live, config.minRelationRows)
  /\ 100 * n.rows <= config.maxOutputRatio * live

\* The nth member of D by a strict order, a set of pairs.
Nth(D, order, n) ==
  CHOOSE i \in D : 1 + Cardinality({j \in D : <<j, i>> \in order}) = n

\* Mutant: PGP102 obeys the switch of PGP101.
LargeScansOf101(input, config) ==
  {i \in DOMAIN input.plan.nodes :
     config.enabled[101] /\ ScansLargely(input.plan.nodes[i], input, config)}

LargeScans(input, config) ==
  {i \in DOMAIN input.plan.nodes :
     config.enabled[102] /\ ScansLargely(input.plan.nodes[i], input, config)}

\* One per sequential scan, in preorder.
LargeSequentialScans(input, config) ==
  LET scans == LargeScans(input, config)
      order == {e \in scans \X scans : e[1] < e[2]}
      Scan(n) == input.plan.nodes[Nth(scans, order, n)]
  IN [n \in 1..Cardinality(scans) |->
        Diagnostic(102, "warning", Scan(n).relation, {Scan(n).alias})]

LargeResultSet(input, config) ==
  IF /\ config.enabled[103] /\ input.facts.kind = "select"
     /\ ~Below(input.plan.nodes[1].rows, config.maxResultRows)
  THEN <<Diagnostic(103, "warning", None, {input.plan.nodes[1].rows})>>
  ELSE <<>>

\* Mutant: an indeterminate graph is analyzed like any other.
CartesianJoinUnproven(input, config) ==
  LET graph == input.facts.graph
      V == 0..(graph.count - 1)
      groups == Components(V, graph.edges)
  IN IF /\ config.enabled[104] /\ graph.count >= 2
        /\ graph.edges \subseteq V \X V
        /\ Cardinality(groups) >= 2
     THEN <<Diagnostic(104, "warning", None, groups)>>
     ELSE <<>>

\* connected_components by what it returns: ConnectedComponents models how.
CartesianJoin(input, config) ==
  LET graph == input.facts.graph
      V == 0..(graph.count - 1)
      groups == Components(V, graph.edges)
  IN IF /\ config.enabled[104] /\ ~graph.indeterminate /\ graph.count >= 2
        /\ graph.edges \subseteq V \X V
        /\ Cardinality(groups) >= 2
     THEN <<Diagnostic(104, "warning", None, groups)>>
     ELSE <<>>

\* Mutant: the relation is not part of the key.
KeyWithoutRelation(d) == <<IF d.severity = "error" THEN 0 ELSE 1, d.rule, 0>>

\* sort_by has the severity, the rule and the relation for a key, and is stable.
Key(d) == <<IF d.severity = "error" THEN 0 ELSE 1, d.rule, d.relation>>

Before(a, b) ==
  \E i \in 1..3 : /\ Key(a)[i] < Key(b)[i]
                  /\ \A j \in 1..(i - 1) : Key(a)[j] = Key(b)[j]

Order(s) ==
  {e \in (DOMAIN s) \X (DOMAIN s) :
     \/ Before(s[e[1]], s[e[2]])
     \/ ~Before(s[e[2]], s[e[1]]) /\ e[1] < e[2]}

Sorted(s) == [n \in DOMAIN s |-> s[Nth(DOMAIN s, Order(s), n)]]

Count(diagnostics, severity) ==
  Cardinality({i \in DOMAIN diagnostics : diagnostics[i].severity = severity})

Report(diagnostics) ==
  [status |-> IF Count(diagnostics, "error") > 0 THEN "errors"
              ELSE IF Count(diagnostics, "warning") > 0 THEN "warnings"
              ELSE "clean",
   errors |-> Count(diagnostics, "error"),
   warnings |-> Count(diagnostics, "warning"),
   diagnostics |-> diagnostics]

Analyze(input, config) ==
  Report(Sorted(MissingWhere(input, config)
                \o LargeAffectedRows(input, config)
                \o LargeSequentialScans(input, config)
                \o LargeResultSet(input, config)
                \o CartesianJoin(input, config)))
=============================================================================
