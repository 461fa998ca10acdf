# Verification of pgpreflight

pgpreflight checks one SQL statement before it is run: it asks a PostgreSQL
server for the plan of the statement inside a read-only transaction ("Safe
Mode"), reads the statistics of the relations in the plan, and reports what six
rules find. This directory holds TLA+ models of that program, the TLC
configurations that check them and theorems proved with TLAPS. Paths below are
relative to `crates/` of the repository.

## 1. The system

| Component | Source | State | Operations | What makes it correct |
| --- | --- | --- | --- | --- |
| Safe Mode planner | `pgpreflight-postgres/src/planning.rs` | one session; in `plan()` the open transaction and what has been read | `connect`, `plan` (BEGIN READ ONLY, SET LOCAL, EXPLAIN, catalog reads, ROLLBACK), `rollback_error`, the drop of the future at any await | whatever the server executes is under Safe Mode; a result means that the transaction has ended; nothing is left open |
| check command | `pgpreflight/src/{lib,settings,output,main}.rs` | the stage of one run | read, validate, configure, find the URL, connect, plan, analyze, write, exit | the right database and only for admitted SQL; an exit code that does not lie; nothing left on the server |
| Plan normalization | `pgpreflight-postgres/src/normalization.rs` | none | `normalize_plan` | no relation or estimate is guessed |
| Rule engine | `pgpreflight-core/src/{rules,model,diagnostic}.rs` | none | `analyze` | thresholds, missing evidence, order, independence of the rules |
| Component search | `connected_components` in `rules.rs` | the search's stack and marks | the loops of the search | exactly the connected components, in order |
| Configuration | `pgpreflight-core/src/config.rs` | none | `Config::validate` | accepted values are meaningful |
| SQL input | `pgpreflight/src/input.rs` | none | `read_sql`, comment scanner | empty exactly when there is no statement |
| Validation | `pgpreflight-postgres/src/{parser,validation}.rs` | none | `parse_and_validate` | fails closed on locking, modifying and unsupported queries |
| Join graph builder | `pgpreflight-postgres/src/join_graph.rs` | occurrences, qualifiers, scopes, edges | one handler per AST shape | a determinate graph misses no predicate |
| Packaging, CI | `scripts/`, `.github/` | - | - | outside the program |

How they interact: `check` calls the components one after the other in one
thread. The planner is the only part that waits; it talks to the server through
a tokio-postgres client that queues requests and a connection task that sends
them. `plan()` takes `&mut self`, so calls on a session never overlap, but a
caller of the library may drop a call's future at any await and start another,
and then the session still carries what the dropped call has sent. The process
that runs the CLI may be killed at any point; its runtime has one thread, so
nothing is sent once `check` has returned.

The hard behaviours, listed one by one with their lines in `PROJECT.json`
(`hazards`), are: a dropped call followed by another one on the same session; an
error while an error is handled, a refused ROLLBACK among them; loss of the
connection, with requests and answers in flight; lock waits, timeouts, timeouts of 0 and out of range; a killed
process; a report that cannot be written; fall-through in configuration and URL
lookup; comparisons with NaN and at thresholds; duplicate and out-of-range
entries in join graphs; names that the program and PostgreSQL resolve
differently, or before all of a clause has been seen; constructs hidden in nested
queries; byte offsets and the depth of comments in text that ends anywhere.

## 2. Modules

| Module | Models | Uses |
| --- | --- | --- |
| `PlanningContract` | what `plan()` promises its caller about transactions | - |
| `SafeModePlanner` | `planning.rs`, with the driver, server and connection around it | `PlanningContract` (as refinement target) |
| `SafeModePlannerProofs` | theorems | `SafeModePlanner` |
| `CheckCli` | one run of `pgpreflight check` | extends `SafeModePlanner` |
| `CheckCliProofs` | theorems | `CheckCli`, `SafeModePlannerProofs` |
| `Connectivity` | what a connected component is | - |
| `ConnectivityProofs` | lemmas for the proofs about graphs | `Connectivity` |
| `ConnectedComponents` | `connected_components`, one action per loop step | `Connectivity` |
| `ConnectedComponentsProofs` | theorems | `ConnectedComponents`, `ConnectivityProofs` |
| `InputScanner` | `read_sql` and the comment scanner of `input.rs` | - |
| `InputScannerProofs` | theorems | `InputScanner` |
| `Validation` | `parse_and_validate`: `parser.rs`, `validation.rs` | - |
| `ValidationProofs` | theorems | `Validation` |
| `JoinGraph` | the builder of `join_graph.rs` | `Connectivity` |
| `JoinGraphProofs` | theorems | `JoinGraph`, `ConnectivityProofs` |
| `PlanNormalization` | `normalization.rs` | - |
| `DiagnosticRules` | `config.rs` validation and `rules.rs` | `PlanNormalization`, `Connectivity` |
| `PlanAnalysis` | configuration, normalization, statistics and rules in sequence | `DiagnosticRules` |
| `PlanAnalysisProofs` | theorems | `PlanAnalysis`, `ConnectivityProofs` |
| `MC...` | instances for TLC | the module of the same name |

### SafeModePlanner

Between two awaits `plan()` runs without interruption, so a client action takes
the answer of one request and goes on to the next await: `StartPlan` (72-77),
`OnBegin` (78-84), `OnSetup` (84-92), `OnExplain` (92-111), `OnStats` (one
iteration of `load_relation_stats`), `OnRollback` (118-123 and 219-228).
`Abandon` is the drop of the future at whichever await it has reached.

| Variable | In the code |
| --- | --- |
| `pc` | the await `plan()` is at |
| `configs` | the `config` arguments of the calls so far |
| `primary` | `primary_error` of `rollback_error` |
| `plan` | the relations of `normalized_plan` in preorder |
| `stats` | the `RelationStats` collected so far, in the order in which they are pushed |
| `outcome` | the result of the last call |
| `queue`, `reply`, `link` | external: requests not yet served, the answer not yet seen, the connection |
| `tx`, `blocked` | external: the session's transaction on the server; what would wait for a lock |

tokio-postgres and PostgreSQL are modelled from the way `planning.rs` uses them.
Requests are served in order; the drop of a `Transaction`, or of one being
started, sends a ROLLBACK nobody waits for; an error makes an open transaction
refuse everything but ROLLBACK; SET LOCAL works only in a transaction, 0 disables
a timeout and a value above 2^31 - 1 ms is an error; any request can be refused or
cancelled by an administrator; a statement timeout can hit an EXPLAIN, a catalog
read or, as the settings last until the transaction aborts, a ROLLBACK that nothing
failed before; a lost connection may take requests and answers with it; a backend ends its transaction when it sees the connection is gone, which it
does not while it waits for a lock. A request stands for all the messages of one
awaited call.

ROLLBACK fails like any other request (`ServerFails`, `AdminCancel`,
`StatementTimeout`). `plan()` then returns `Rollback`, whatever error it was handling
(118-121, 219-228); when the call was dropped nobody is told. The `Transaction` is
consumed by then, so nothing sends a second ROLLBACK, and the session keeps an aborted
transaction: state `"stranded"` of `tx`. The BEGIN of the next call meets it and fails
with `Transaction`; the drop of the transaction that call was starting sends the ROLLBACK
that makes the session usable again, unless that is refused too. The properties say
this much and no more: `BeginFindsIdleSession` that BEGIN finds nothing else,
`NoLeakedTransaction` that such a transaction is sent a ROLLBACK by the time another call
has returned, `TransactionEnds` that every transaction ends or becomes one of these, and
`SettledOutcome` that a call that was not dropped does not report a plan or a
classified error over one.

### CheckCli

One action per line of `check` and per iteration of the two lookup loops. The
process's own variables are the invocation `inv`, `stage`, the loop `index`,
`config`, `report`, `output` and `code`. `Session` interleaves the planner, the
server and the connection; `WriteReport` ends the process and with it the
connection; `Killed` ends it anywhere. What the rules find is any of the given
`Summaries`. A report that is written only in part is one of the outcomes of
`WriteReport`. A failure carries the kind that `lib.rs` gives its cause, one table
of causes per stage (`InputFailures`, `CheckFailures`, `ConfigFailure`,
`PlanningFailures`, `DatabaseFailures`), so that the report can be compared with
what the run has really done.

### InputScanner

The text is a sequence of bytes; ASCII characters stand for themselves as far as
the scanner tells them apart ("newline" is `\n` or `\r`, "x" any other) and three
lead bytes stand for characters of two and three bytes, blank, not blank and the
byte order mark. `ReadSql` decodes, `Scan`, `LineComment` and `BlockComment` are
one iteration each of the loops, and `MaxDepth` is `u32::MAX`. `BlankText` defines
as a grammar, apart from the scanner, which texts hold no statement: `InsideEnds` and
`BlankEnds` are its rules, two recursive functions from places in the text to the
places where a comment's inside or a blank text can end.

### Validation

A statement is the list of its queries in the order in which the visitor meets
them (sqlparser's syntax tree and visitor are external), each with its locks, the leaves
of its set operations, and the queries among them that are its operands or CTEs.
`ParseSingle` is `parse_single_statement`, `PreVisitQuery` one call of the
visitor, `ValidateStatement` what follows it. The four functions that recurse over
set expressions are closures along the operands, and for modifications along the
CTEs too (`Reached`).

### JoinGraph

`RegisterFactor`, `TakeFirst`, `ProcessJoin` and `ProcessSelection` are the
builder's loops, in its order: all factors, then each table of FROM with its
joins, then WHERE. `occurrences`, `scopes`, `left`, `edges` and `indeterminate` are
the builder's; its map of qualifiers is `Owners`. Beside them the model keeps what the
same clause means to PostgreSQL: `asked`, the sets of factors each join or
predicate relates, resolved by PostgreSQL's rules for names, visibility and aliases, and
`rejected`, that it cannot resolve a column. An identifier has the value the
builder compares and the name PostgreSQL folds it to. A predicate is its
conjuncts, a conjunct the qualifiers of its columns, with `<<>>` for anything that
makes the expression visitor give up. Which column a USING join merges only the
catalog knows, so such a join asks for some factor of its left operand; the
properties hold whichever it is.

### ConnectedComponents

`Scan` is an iteration of the outer loop, `Pop`, `Push` and `Pushed` are those of
the inner ones, `Complete` sorts and stores a component. Adjacency lists are sets
walked from their largest element, as `iter().rev()` walks the sorted list.

### PlanNormalization, DiagnosticRules, PlanAnalysis

Pure functions, so they are operators, and `PlanAnalysis` applies them one action
each to every combination of statement, server answer and configuration given.
A plan tree is the sequence of its nodes in preorder with the index of the
parent, the order in which the code walks it. Ratios are percentages and
`a / b >= p` is `100 * a >= p * b`: for whole row counts below 2^45 and ratios written
with two decimals the rounding of IEEE division cannot turn one into the other. NaN is a
value of its own, for which all comparisons are false. Relations are positive
numbers ordered as `RelationRef` is, 0 for none. The sort of `analyze` is given by
the place each diagnostic ends at (`Nth`), earlier ones first among equals. `CartesianJoin` uses `Components`, which
the proofs of `ConnectedComponents` show the search computes.

## 3. What is checked

| Run | Question | Bounds |
| --- | --- | --- |
| `planner` | Safe Mode, settled outcomes, evidence, leaks, the contract, calls return, transactions end, the inductive invariant | 3 calls, 2 relations, 3 plans, 5 configurations |
| `planner_waits` | refuted: waits are bounded for every accepted configuration | 2 calls, 3 configurations |
| `components` | the search is right and ends | all graphs of up to 2 occurrences with loops, duplicates and bad indices; all simple graphs of 3 to 5 |
| `cli` | contact, attribution, failure kinds, exit code, the contract, a run ends and leaves nothing | 1 call; 2 directories, 3 URL sources, all SQL outcomes, 4 configurations |
| `analysis` | the rules | about 250 cases around each threshold, 30 configurations |
| `analysis_nan`, `analysis_unknown`, `analysis_spelling`, `analysis_nowhere` | refuted: four sentences of the documentation | as above |
| `joins` | no false and no missed product | up to 3 factors, each written in 8 ways, with predicates over 6 qualifiers; up to 4 factors with aliases of their own, all joins and chosen predicates of up to 2 conjuncts |
| `validation` | fails closed, honest errors | up to 3 queries in every nesting, up to 2 leaves in a body |
| `scanner` | offsets, depth, emptiness, the scan ends | all texts of up to 3 of 16 tokens, broken UTF-8 included, up to 6 of the marks of block comments; `MaxDepth` 2 |

Three calls are enough for a dropped call, one that meets its remains and one
after it; the queue then holds requests of two calls at once. Two relations are
enough for "once each" and "all", since plans contain one twice and both. The
configurations have each timeout alone, both, none and one the server refuses
(`MaxTimeout` is 2, so 3 stands for anything above 2^31 - 1). In the CLI a run
makes one call. Graphs of five occurrences contain cycles, trees and up to five
components. The cases of `analysis` put row counts on, just below and just above
each threshold, and `ThresholdsInclusive` moves each threshold to the row count of
every case and one row beyond it. Three factors are enough for a column that is ambiguous, one that
is not in scope yet and one hidden by an alias in one clause; four are enough for
two joined operands that a later predicate connects. Three queries are enough
for a construct below a CTE of a CTE, an operand of a subquery and so on, past the first
query the visitor meets. Texts of six comment marks open more comments than
`MaxDepth` allows and close them again.

Definitions marked "Mutant" in the modules are plausible mistakes in the code;
`PROJECT.json` says which property each one breaks when it takes the place of the
definition below it, so that no property holds by accident of the model.

`CHECK_DEADLOCK FALSE` is set because a run, a search, a scan, a validation, the
building of a graph or an analysis ends, and because the number of calls is bounded by `MaxCalls`.

**Fairness.** `SafeModePlanner` assumes weak fairness of the client (the runtime
polls a future whose reply has come), of the server (it serves the head of its
queue and fires the timeouts that are set), of noticing a closed connection and
of the backend's exit. `CheckCli` adds that the process goes on until it exits. The search and the
scanner are loops that run inside the process, so weak fairness of `Next` says no
more than that the program is executed.
Nothing is assumed of other sessions, which may hold a lock for ever, of
administrators, of the network, of kills or of dropped futures. The liveness
properties are therefore conditional on `AllBounded`: with both timeouts disabled
a lock wait need not end, on this call or on a later one of the same session.

**Findings.** Five sentences of the documentation do not hold of the code: waits
are not bounded when both timeouts are configured as 0 (`planner_waits`); a NaN
row threshold is accepted and makes PGP103 warn always (`analysis_nan`); a plan
node of an unknown kind with a schema but no relation name makes the plan invalid
(`analysis_unknown`), and that is how EXPLAIN VERBOSE describes a function scan; the
ratio of PGP101 is not evaluated when the statement spells its target
`Public.Users`, since the statistics are looked up as written
(`analysis_spelling`); an UPDATE or DELETE without WHERE is not an error when neither
the statement nor the root of the plan names its relation, although PGP001 and PGP002
are documented to need no evidence from the planner (`analysis_nowhere`; PostgreSQL's
own EXPLAIN names the relation, so this concerns plans from elsewhere).

A sixth difference shows in `Validation` and has no run of its own: an UPDATE or DELETE
that begins with WITH is parsed as a query with a modifying body, which `Construct` refuses as
a data-modifying query, while docs/SQL-SUPPORT.md 25 lists these families as admitted. It
errs on the safe side.

The properties of `joins` are conditional on `Spelled`: no two identifiers of the clause
are written alike and different names to PostgreSQL. Without it they fail. In
`FROM t JOIN x AS "T" ON T.v = "T".w` both qualifiers stand for `x` in the builder, while
to PostgreSQL the first is `t`, so the graph lacks the edge and is still
determinate.

## 4. What is proved

For every value of the constants that meets the named assumptions:

| Module | Theorems | Assumptions |
| --- | --- | --- |
| `SafeModePlannerProofs` | `Invariance`, `TypeCorrect`, `SafeMode`, `IdleSession`, `Settles`, `Evidence`, `NoLeak`, `Refinement` (`Spec => Contract!Spec`) | `PlansAssumption`, `ConfigsAssumption`, ... of `SafeModePlanner` |
| `CheckCliProofs` | `CliInvariance`, `CliTyped`, `Contacts`, `Attribution`, `KindsHonest`, `ExitsHonest`, `CliRefinement` | the same with `InvocationsAssumption`, `DefaultConfigAssumption` |
| `ConnectedComponentsProofs` | `SearchInvariant`, `SearchTyped`, `OccurrencesOnce`, `Correct`, `Ordered`, `SearchAdvances` | `GraphsAssumption` |
| `JoinGraphProofs` | `BuilderInvariant`, `GraphTyped`, `ProductsReal`, `ProductsSeen` | `IdentsAssumption`, `StatementsAssumption`, `PredicatesAssumption`, `JoinsAssumption` |
| `ValidationProofs` | `ValidatorInvariant`, `ValidatorTyped`, `FailsClosed`, `ErrorsHonest` | `ParsedAssumption` |
| `InputScannerProofs` | `ScannerTyped`, `SlicesOnBoundaries`, `EmptyIsBlank`, `ScanAdvances` | `InputsAssumption`, `MaxDepthAssumption` |
| `PlanAnalysisProofs` | `AnalysisTyped`, `MissingWhereFound`, `CartesianJoinFound`, `MissingEvidenceSpeaksNever`, `StricterRaisesLess`, `ThresholdsMet`, `SwitchesIndependent`, `ReportDeterministic` | `CasesAssumption`, `ConfigsAssumption`, `NaNAssumption` |

The planner's properties are not inductive: that EXPLAIN meets its own open
transaction depends on everything queued before it. The inductive invariant
`IInv` therefore describes the whole protocol state: which requests can be in the
queue, those of earlier dropped calls first and each such call closed by its
ROLLBACK, what the transaction will be when each of them is served, and what the
awaited request is. An aborted transaction whose ROLLBACK was refused belongs to
the last call that has returned, or to the one before it while the next one's BEGIN is
under way (`AfterRollback`). It also says which of the plan's relations have been read at
each await, and that they were read in order and once (`ReadSoFar`, `InOrder`), which
gives `EvidenceComplete`. `Refinement` follows from `IInv` by
mapping each action to a step of the contract or a stutter. `planner`
checks `IInv` as an invariant, too; most MC modules extend the proofs of their
components, so that the other inductive invariants can be checked the same way.

A run of the CLI keeps `IInv` and adds to it `CliInv`: at each stage which calls of the
planner there have been, what the earlier stages have established (SQL that was
admitted, the configuration that was found, the URL that was chosen), and that a
report agrees with the planner's outcome. A kill loses the connection and nothing
else, so it preserves `IInv` like the loss of a connection does. `CliRefinement`
composes the planner's refinement with the actions of the CLI.

For the builder, `JInv` says that factors and occurrences have the same numbers as
long as the graph is determinate, that `left` is what is visible at the join, that each
relation asked for so far is met by a path of edges, and that each edge comes from
one. The step that needs an argument is a USING join: its edge goes to the first
factor of the left operand, which by the check of `scope_is_connected` is as good as
any other. For the validator, `VInv` says that the queries visited so far had no
construct; `AdmittedReadsOnly` then holds because the visitor meets every query.

For the scanner, `SInv` says that the offset is where a character begins and that the text
is UTF-8. `EInv` adds what the rest of the text decides at each place of the scan: at
the top level whether it is blank (`BlankFrom`), in a line comment whether what
follows its end of line is (`BlankAfterLine`), and in a block comment of depth d whether
the text after one of the places where d nested comments can all be closed is
(`Closing`). A step of the scan is one unfolding of the grammar (`BlankStep`,
`InsideStep`, `LineStepReads`), and multi-byte characters are read byte by byte
without a difference (`Bytewise`). The unfolding needs that the recursive rules
define functions at all, which TLA+ leaves to be shown: `InsideDefined`,
`BlankDefined` and `ClosingDefined` take the least suffix length for which they do
not and extend the function by one place.

For the search, `CInv` says that finished components are closed under edges, that
the current one with the stack is reachable from its start and closed except for
the stack and the neighbours still to look at, and that everything before `start`
is visited. `Correct` then identifies each component with the least closed set
around its start; `Connectivity` defines it without recursion for this purpose.
`SearchAdvances` shows that each iteration lowers the tuple `ToDo` (phase, starts left,
occurrences unmarked, stack, neighbours left, place in the loop) in lexicographic
order, and `ScanAdvances` that each iteration of the scanner lowers the number `Left`.
Neither can therefore step for ever; `Terminates` adds that they do step.

For the rules, `AInv` says what each stage has made of the case: once the analysis is
done the report is `Analyze` of the evidence. What a report lists is a set, the
union of what the five rules raise (`AnalyzeRaises`): `Nth` enumerates a finite
linear order, so the sort loses and repeats nothing. On those sets each
property is an argument about one rule at a time. `CartesianJoinFound` needs that two
components exist exactly when the occurrences can be divided (`TwoComponents`), the
two monotonicity theorems that a rule that sees less, or a larger threshold, has fewer triggers
and fewer scans to report; the ratio of a relation's rows grows with the percentage
because the rows are not negative. `ThresholdsMet` looks up what one rule raises at and beyond a
threshold; that the ratio of whole percentages is met exactly is `WholeRatio`.
`MissingWhereFound` is conditional, as the code is, on a relation that the statement or the
root of the plan names; the finding of `analysis_nowhere` is about the rest.

The last two theorems are about sequences. `NthIso` says that an order-preserving map
takes the enumeration of one set to that of another. A report under fewer rules is the
report under all of them with some entries left out in order (`Thinned`), each rule
by itself (`RulesSwitched`), and sorting keeps that (`SortedThinned`), which gives
`SwitchesIndependent`. For `ReportDeterministic`, diagnostics that compare equal are
two scans of one relation, since every other rule speaks at most once (`RaisedOnce`),
and among those the sort keeps the order in which PGP102 met them in the plan
(`ScansInOrder`). `ConfigsAssumption` fixes the fields of a configuration for this:
two that agree on all of them are the same.

Every invariant and action property that a passing run checks is the statement of a theorem.
Only model-checked: liveness (`CallReturns`, `TransactionEnds`, `LeavesNothing`,
`Terminates`), which needs fairness and ENABLED and is out of the
proof system's reach. The models use no RECURSIVE operator; the induction theorems of
the library, which take an operator as parameter, are avoided in favour of
least-number arguments.

## 5. Not modelled

* sqlparser: its grammar and its syntax tree are external. What a text is parsed to
  is any statement of the shapes the code distinguishes.
* The stack. The functions of `validation.rs` and the visitor recurse over set
  operations, and a long chain of UNION is a deep tree; the depth at which a thread's
  stack ends is not a property of this code alone.
* Columns. Which of them a USING or NATURAL join merges only the catalog could tell; a
  NATURAL join is taken to have a common column.
* Whether the statistics still describe the plan. They are read after EXPLAIN, and an
  ANALYZE in between changes them without a trace; the model lets a catalog read give
  any row, or none.
* The name a report should give to a cancel by an administrator, which has the same
  SQLSTATE as a timeout; both end the same way.
* Wording of messages, JSON and text layout, titles, costs, page counts, aliases
  except as the identity of a scan.
* Rounding of ratios beyond 2^45 rows, fractional row counts, infinite thresholds.
* Packaging scripts and CI, which are not part of the program.

## 6. Plan

In order of importance, with what is done marked:

1. done: `PlanningContract`, `SafeModePlanner`, its proofs and its runs.
2. done: `ConnectedComponents` with its proofs.
3. done: `CheckCli` on top of the planner.
4. done: `PlanNormalization`, `DiagnosticRules`, `PlanAnalysis`.
5. done: `JoinGraph` with its proofs.
6. done: `Validation` with its proofs.
7. done: `InputScanner` with its proofs.
8. done: the failure kinds and the proofs of `CheckCli`.
9. done: the proofs of `PlanAnalysis`.
10. done: the proofs of `EmptyExact`, `RulesIndependent` and `OrderDeterministic`,
    and that the loops of the search and the scanner cannot go on for ever.
11. left: `CheckCli` instantiated with `PlanAnalysis` in place of `Summaries`.
