------------------------------- MODULE CheckCli -------------------------------
(***************************************************************************)
(* One run of "pgpreflight check" (crates/pgpreflight): read_sql, parse    *)
(* and validate, load_config, resolve_database_url, connect and plan,      *)
(* analyze, write_report and the exit code, composed with SafeModePlanner  *)
(* and the server, which outlives the process.                             *)
(***************************************************************************)
EXTENDS SafeModePlanner

CONSTANTS
  Invocations,     \* command lines with the files and variables they meet
  DefaultConfig,   \* PostgresConfig::default()
  Summaries        \* [errors, warnings] a report may count

\* What a configuration file may be, and what may be in it.
Files == [is : {"absent", "unreadable", "malformed", "invalid"}]
           \union [is : {"config"}, config : Configs]
\* What read_sql and parse_and_validate make of the SQL, with the failure kinds
\* of map_input_failure and map_check_failure.
InputFailures == [unreadable |-> "input_io", not_utf8 |-> "input_not_utf8",
                  empty |-> "empty_input"]
CheckFailures == [unparsed |-> "sql_parse", many |-> "multiple_statements",
                  unsupported |-> "unsupported_statement", unsafe |-> "unsafe_sql"]
SqlInputs == DOMAIN InputFailures \union DOMAIN CheckFailures \union {"admitted"}
UrlSources == {"unset", "not_unicode", "empty", "url"}

ASSUME InvocationsAssumption ==
  \A i \in Invocations :
    /\ i.sql \in SqlInputs
    /\ i.explicit \in BOOLEAN     \* --config is given: the only directory
    /\ i.files \in Seq(Files)     \* the explicit file, or one per ancestor
    /\ i.explicit => Len(i.files) = 1
    /\ i.urls \in [1..3 -> UrlSources] \* --database-url, the two variables
    /\ i.format \in {"text", "json"}
    /\ i.failOn \in {"error", "warning"}
ASSUME DefaultConfigAssumption == DefaultConfig \in Configs

VARIABLES
  inv,      \* the invocation
  stage,    \* what run_check does next
  index,    \* position of the loop over directories or URL sources
  config,   \* the loaded configuration, as a sequence of at most one
  report,   \* the report, once there is one
  output,   \* how much of it stdout and stderr have received
  code      \* the exit code, -1 while the process runs

cliVars == <<inv, stage, index, config, report, output, code>>
allVars == <<vars, cliVars>>

NoReport == [status |-> "none", statement |-> FALSE, errors |-> 0,
             warnings |-> 0, failure |-> "none"]

CliInit ==
  /\ Init
  /\ inv \in Invocations
  /\ stage = "read" /\ index = 1 /\ config = <<>>
  /\ report = NoReport
  /\ output = [stdout |-> "nothing", stderr |-> "nothing"]
  /\ code = -1

-----------------------------------------------------------------------------
\* CliFailure::into_report, with or without a statement.
Fail(kind, statement) ==
  /\ report' = [NoReport EXCEPT !.status = "failed", !.failure = kind,
                                !.statement = statement]
  /\ stage' = "write"

ReadSql ==
  /\ stage = "read"
  /\ IF inv.sql \in DOMAIN InputFailures
       THEN Fail(InputFailures[inv.sql], FALSE)
       ELSE stage' = "validate" /\ UNCHANGED report
  /\ UNCHANGED <<inv, index, config, output, code>> /\ UNCHANGED vars

\* Mutant: the statement is attached before it is validated.
ParseThenAttach ==
  /\ stage = "validate"
  /\ IF inv.sql \in DOMAIN CheckFailures
       THEN Fail(CheckFailures[inv.sql], TRUE)
       ELSE stage' = "config" /\ UNCHANGED report
  /\ UNCHANGED <<inv, index, config, output, code>> /\ UNCHANGED vars

ParseAndValidate ==
  /\ stage = "validate"
  /\ IF inv.sql \in DOMAIN CheckFailures
       THEN Fail(CheckFailures[inv.sql], FALSE)
       ELSE stage' = "config" /\ UNCHANGED report
  /\ UNCHANGED <<inv, index, config, output, code>> /\ UNCHANGED vars

\* map_config_failure: reading the file failed, or what was read is no config.
ConfigFailure(file) ==
  IF file.is \in {"absent", "unreadable"} THEN "config_io" ELSE "config_parse"

UseConfig(c) ==
  config' = <<c>> /\ stage' = "url" /\ index' = 1 /\ UNCHANGED report

\* Mutant: discovery passes over a file it cannot read.
LoadReadableConfig ==
  /\ stage = "config"
  /\ IF index > Len(inv.files)
       THEN UseConfig(DefaultConfig)
       ELSE LET file == inv.files[index] IN
            \/ file.is = "config" /\ UseConfig(file.config)
            \/ /\ file.is \in {"absent", "unreadable"} /\ ~inv.explicit
               /\ index' = index + 1 /\ UNCHANGED <<config, stage, report>>
            \/ /\ file.is # "config" /\ (file.is \in {"absent", "unreadable"} => inv.explicit)
               /\ Fail(ConfigFailure(file), TRUE) /\ UNCHANGED <<config, index>>
  /\ UNCHANGED <<inv, output, code>> /\ UNCHANGED vars

\* load_config: the explicit file must be there; discovery passes over the
\* directories that have none and ends with the default configuration.
LoadConfig ==
  /\ stage = "config"
  /\ IF index > Len(inv.files)
       THEN UseConfig(DefaultConfig)
       ELSE LET file == inv.files[index] IN
            \/ file.is = "config" /\ UseConfig(file.config)
            \/ /\ file.is = "absent" /\ ~inv.explicit
               /\ index' = index + 1 /\ UNCHANGED <<config, stage, report>>
            \/ /\ file.is # "config" /\ (file.is = "absent" => inv.explicit)
               /\ Fail(ConfigFailure(file), TRUE) /\ UNCHANGED <<config, index>>
  /\ UNCHANGED <<inv, output, code>> /\ UNCHANGED vars

\* resolve_database_url: the first source that is set decides.
ResolveUrl ==
  /\ stage = "url"
  /\ IF index > Len(inv.urls)
       THEN Fail("database_url_missing", TRUE) /\ UNCHANGED index
     ELSE IF inv.urls[index] \in {"empty", "not_unicode"}
       THEN Fail("database_url_invalid", TRUE) /\ UNCHANGED index
     ELSE IF inv.urls[index] = "url"
       THEN stage' = "connect" /\ UNCHANGED <<index, report>>
       ELSE index' = index + 1 /\ UNCHANGED <<stage, report>>
  /\ UNCHANGED <<inv, config, output, code>> /\ UNCHANGED vars

\* Mutant: the kinds of two failures are exchanged.
PlanningFailuresSwapped ==
  [Connection |-> "database_connection", Transaction |-> "database_transaction",
   Configuration |-> "database_configuration", Timeout |-> "database_timeout",
   Planning |-> "database_rollback", InvalidPlan |-> "invalid_plan",
   Catalog |-> "database_catalog", Rollback |-> "database_planning"]

\* map_planning_failure.
PlanningFailures ==
  [Connection |-> "database_connection", Transaction |-> "database_transaction",
   Configuration |-> "database_configuration", Timeout |-> "database_timeout",
   Planning |-> "database_planning", InvalidPlan |-> "invalid_plan",
   Catalog |-> "database_catalog", Rollback |-> "database_rollback"]

OpenSession ==
  /\ stage = "connect"
  /\ Connect
  /\ IF link' = "up" THEN stage' = "plan" /\ UNCHANGED report
                     ELSE Fail(PlanningFailures["Connection"], TRUE)
  /\ UNCHANGED <<inv, index, config, output, code>>

Plan ==
  /\ stage = "plan"
  /\ StartPlan(config[1])
  /\ stage' = "planning"
  /\ UNCHANGED <<inv, index, config, report, output, code>>

\* plan() has returned: analyze the evidence, or report the failure.
Planned ==
  /\ stage = "planning" /\ pc = "idle"
  /\ IF outcome = "Planned"
       THEN /\ stage' = "write"
            /\ \E s \in Summaries :
                 report' = [NoReport EXCEPT
                   !.status = IF s.errors > 0 THEN "errors"
                              ELSE IF s.warnings > 0 THEN "warnings" ELSE "clean",
                   !.statement = TRUE, !.errors = s.errors, !.warnings = s.warnings]
       ELSE Fail(PlanningFailures[outcome], TRUE)
  /\ UNCHANGED <<inv, index, config, output, code>> /\ UNCHANGED vars

ThresholdReached ==
  report.errors > 0 \/ (inv.failOn = "warning" /\ report.warnings > 0)
\* Mutant: a failure ends like a panic.
ExitCodePanic == IF report.status = "failed" THEN 101
                 ELSE IF ThresholdReached THEN 1 ELSE 0

ExitCode == IF report.status = "failed" THEN 2
            ELSE IF ThresholdReached THEN 1 ELSE 0

\* The process ends and with it its connection; what the connection task has
\* not written by then is lost.
CloseSession ==
  IF link = "up" THEN LinkDown ELSE UNCHANGED vars

\* Mutant: an error of the writer is dropped.
WriteReportUnchecked ==
  /\ stage = "write"
  /\ LET stream == IF inv.format = "text" /\ report.status = "failed"
                     THEN "stderr" ELSE "stdout"
     IN \E written \in {"all", "part", "nothing"} :
          output' = [output EXCEPT ![stream] = written]
  /\ code' = ExitCode
  /\ stage' = "exited"
  /\ CloseSession
  /\ UNCHANGED <<inv, index, config, report>>

\* write_report: a failed text report goes to stderr, everything else to stdout.
WriteReport ==
  /\ stage = "write"
  /\ LET stream == IF inv.format = "text" /\ report.status = "failed"
                     THEN "stderr" ELSE "stdout"
     IN \E written \in {"all", "part", "nothing"} :
          /\ output' = [output EXCEPT ![stream] = written]
          /\ code' = IF written = "all" THEN ExitCode ELSE 2
  /\ stage' = "exited"
  /\ CloseSession
  /\ UNCHANGED <<inv, index, config, report>>

\* A signal ends the process at any point; plan() is not dropped in order.
Killed ==
  /\ stage \notin {"exited", "killed"}
  /\ stage' = "killed"
  /\ link' = IF link = "up" THEN "down" ELSE link
  /\ \E n \in 0..Len(queue) : queue' = SubSeq(queue, 1, n)
  /\ Return(IF pc = "idle" THEN outcome ELSE "abandoned")
  /\ UNCHANGED <<configs, primary, plan, stats, tx, blocked>>
  /\ UNCHANGED <<inv, index, config, report, output, code>>

Session ==
  /\ Client \/ Server \/ SeesClosed \/ ServerReaps \/ Environment
  /\ UNCHANGED cliVars

Cli == \/ ReadSql \/ ParseAndValidate \/ LoadConfig \/ ResolveUrl
       \/ OpenSession \/ Plan \/ Planned \/ WriteReport

CliNext == Cli \/ Killed \/ Session
CliSpec == CliInit /\ [][CliNext]_allVars

\* The process runs until it exits; as for SafeModePlanner otherwise.
CliFairness == /\ WF_allVars(Cli)
               /\ WF_allVars(Client /\ UNCHANGED cliVars)
               /\ WF_allVars(Server /\ UNCHANGED cliVars)
               /\ WF_allVars(SeesClosed /\ UNCHANGED cliVars)
               /\ WF_allVars(ServerReaps /\ UNCHANGED cliVars)
CliFairSpec == CliSpec /\ CliFairness

-----------------------------------------------------------------------------
\* Type invariant of the CLI's own state.
CliTypeOK ==
  /\ inv \in Invocations
  /\ stage \in {"read", "validate", "config", "url", "connect", "plan",
                "planning", "write", "exited", "killed"}
  /\ index \in Nat \ {0}
  /\ config \in Seq(Configs) /\ Len(config) <= 1
  /\ report.status \in {"none", "clean", "warnings", "errors", "failed"}
  /\ report.statement \in BOOLEAN
  /\ output \in [{"stdout", "stderr"} -> {"nothing", "part", "all"}]
  /\ code \in -1..2

\* The first URL source that is set, and the nearest configuration.
UrlChosen ==
  inv.urls[index] = "url" /\ \A j \in 1..(index - 1) : inv.urls[j] = "unset"
ConfigChosen ==
  \/ \E i \in DOMAIN inv.files :
       /\ inv.files[i].is = "config" /\ config = <<inv.files[i].config>>
       /\ \A j \in 1..(i - 1) : inv.files[j].is = "absent" /\ ~inv.explicit
  \/ /\ config = <<DefaultConfig>> /\ ~inv.explicit
     /\ \A i \in DOMAIN inv.files : inv.files[i].is = "absent"

\* No database is contacted for SQL that was not admitted, with a configuration
\* that is not valid or not the nearest one, or through a URL that another
\* source overrides: an earlier source that is set but unusable is an error,
\* never passed over (lib.rs 79-97, settings.rs 20-72).
ContactJustified ==
  link # "none" \/ outcome = "Connection" =>
    inv.sql = "admitted" /\ UrlChosen /\ ConfigChosen

\* A failure report names the statement exactly when the SQL was admitted, the
\* cause when it was not, and carries no diagnostics (lib.rs 80-126, output.rs
\* 27-67).
FailureAttribution ==
  report.status = "failed" =>
    /\ report.statement <=> inv.sql = "admitted"
    /\ inv.sql \in DOMAIN InputFailures => report.failure = InputFailures[inv.sql]
    /\ inv.sql \in DOMAIN CheckFailures => report.failure = CheckFailures[inv.sql]
    /\ report.errors = 0 /\ report.warnings = 0

DatabaseFailures == {PlanningFailures[error] : error \in DOMAIN PlanningFailures}

\* The kind of a failure tells its reader what the run has touched: a kind that
\* is not one of the database's means that none was contacted, and of those that
\* are, only a failed transaction or rollback may have left something behind on
\* the server (lib.rs 128-177, planning.rs 118-123, 219-228).
FailureKindHonest ==
  report.status = "failed" =>
    /\ report.failure \notin DatabaseFailures => link = "none" /\ outcome = "none"
    /\ report.failure \notin {"database_transaction", "database_rollback"} =>
         tx = NoTx /\ queue = <<>>

\* Exit code 0 or 1 means that a complete report of a planned statement is on
\* stdout and nothing on stderr, and that its transaction has ended on the
\* server; 1 exactly when the threshold is reached.  Exit code 2 means a failure
\* report or one that could not be written whole (lib.rs 63-77, output.rs 70-94).
ExitHonest ==
  /\ code \in {0, 1} =>
       /\ output = [stdout |-> "all", stderr |-> "nothing"]
       /\ outcome = "Planned" /\ tx = NoTx /\ queue = <<>>
       /\ code = 1 <=> ThresholdReached
  /\ code = 2 => report.status = "failed" \/ output.stdout # "all"

\* Whatever happens to the process, killed at any point included, it ends and
\* leaves nothing behind on the server, unless both timeouts are disabled.
LeavesNothing ==
  []AllBounded =>
    <>[](stage \in {"exited", "killed"} /\ tx = NoTx /\ queue = <<>>)

\* The contract of SafeModePlanner also holds when the process that runs plan()
\* dies without dropping its future (lib.rs 56-100).
CliContract == Contract!Spec
=============================================================================
