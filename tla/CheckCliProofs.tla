---------------------------- MODULE CheckCliProofs ----------------------------
(***************************************************************************)
(* The inductive invariant of a run of "pgpreflight check" composed with   *)
(* SafeModePlanner and the server, and what follows from it, for all       *)
(* invocations, plans, configurations and summaries.                       *)
(***************************************************************************)
EXTENDS CheckCli, SafeModePlannerProofs

Ended == {"exited", "killed"}
Unconnected == {"read", "validate", "config", "url", "connect"}

\* Where the process is and what the planner, the report and the streams are
\* then: plan() runs in one stage only, and the last report stands.
StageOK ==
  /\ stage # "planning" => pc = "idle"
  /\ stage \in Unconnected => link = "none"
  /\ stage \in Unconnected \union {"plan"} => outcome = "none"
  /\ stage \in {"plan", "planning"} => link # "none"
  /\ stage \in Unconnected \union {"plan", "planning"} => report = NoReport
  /\ stage \in {"write", "exited"} => report.status # "none"
  /\ stage = "planning" /\ pc = "idle" =>
       outcome \in {"Planned"} \union DOMAIN PlanningFailures
  /\ stage # "exited" =>
       output = [stdout |-> "nothing", stderr |-> "nothing"] /\ code = -1
  /\ stage = "exited" => code # -1
  /\ stage = "planning" => outcome # "abandoned"

\* What the stages before have established.
InputOK ==
  /\ stage = "validate" => inv.sql \notin DOMAIN InputFailures
  /\ stage \in {"read", "validate"} => index = 1
  /\ stage \notin Ended \union {"read", "validate", "write"} => inv.sql = "admitted"
  /\ stage = "config" =>
       \A j \in 1..(index - 1) :
         j \in DOMAIN inv.files /\ inv.files[j].is = "absent" /\ ~inv.explicit
  /\ stage \in {"url", "connect", "plan", "planning"} => ConfigChosen
  /\ stage \in {"plan", "planning"} => Len(config) = 1
  /\ stage = "url" => \A j \in 1..(index - 1) : inv.urls[j] = "unset"
  /\ stage \in {"connect", "plan", "planning"} => UrlChosen

\* What the report says of the planner.
ReportOK ==
  /\ report.status \in {"clean", "warnings", "errors"} =>
       outcome = "Planned" /\ pc = "idle"
  /\ report.status = "failed" =>
       /\ pc = "idle"
       /\ IF report.failure \in DatabaseFailures
            THEN /\ outcome \in DOMAIN PlanningFailures
                 /\ report.failure = PlanningFailures[outcome]
            ELSE link = "none" /\ outcome = "none"

\* The inductive invariant.
CliInv == /\ IInv /\ CliTypeOK /\ StageOK /\ InputOK /\ ReportOK
          /\ ContactJustified /\ FailureAttribution /\ ExitHonest

\* The failure kinds of the three tables.
LEMMA Kinds ==
  /\ DOMAIN PlanningFailures =
       {"Connection", "Transaction", "Configuration", "Timeout", "Planning",
        "InvalidPlan", "Catalog", "Rollback"}
  /\ DatabaseFailures =
       {"database_connection", "database_transaction", "database_configuration",
        "database_timeout", "database_planning", "invalid_plan",
        "database_catalog", "database_rollback"}
  /\ \A sql \in DOMAIN InputFailures :
       InputFailures[sql] \notin DatabaseFailures
  /\ \A sql \in DOMAIN CheckFailures :
       CheckFailures[sql] \notin DatabaseFailures
  /\ \A file : ConfigFailure(file) \notin DatabaseFailures
  /\ \A kind \in {"database_url_missing", "database_url_invalid"} :
       kind \notin DatabaseFailures
<1>1. DOMAIN PlanningFailures =
       {"Connection", "Transaction", "Configuration", "Timeout", "Planning",
        "InvalidPlan", "Catalog", "Rollback"}
  BY DEF PlanningFailures
<1>2. DatabaseFailures =
       {"database_connection", "database_transaction", "database_configuration",
        "database_timeout", "database_planning", "invalid_plan",
        "database_catalog", "database_rollback"}
  BY DEF PlanningFailures, DatabaseFailures
<1>3. \A sql \in DOMAIN InputFailures :
       InputFailures[sql] \notin DatabaseFailures
  BY <1>2 DEF InputFailures
<1>4. \A sql \in DOMAIN CheckFailures :
       CheckFailures[sql] \notin DatabaseFailures
  BY <1>2 DEF CheckFailures
<1>5. \A file : ConfigFailure(file) \notin DatabaseFailures
  BY <1>2 DEF ConfigFailure
<1>6. \A kind \in {"database_url_missing", "database_url_invalid"} :
       kind \notin DatabaseFailures
  BY <1>2
<1> QED BY <1>1, <1>2, <1>3, <1>4, <1>5, <1>6

\* A kill is a loss of the connection and of the call.
KillPlanner ==
  /\ link' = IF link = "up" THEN "down" ELSE link
  /\ \E n \in 0..Len(queue) : queue' = SubSeq(queue, 1, n)
  /\ Return(IF pc = "idle" THEN outcome ELSE "abandoned")
  /\ UNCHANGED <<configs, primary, plan, stats, tx, blocked>>

LEMMA KillStep == ASSUME IInv, KillPlanner PROVE IInv'
<1> USE DEF IInv, Protocol
<1>1. /\ pc' = "idle" /\ reply' = NoReply /\ link' \in {"none", "down"}
      /\ link' = "none" => link = "none"
      /\ outcome' = IF pc = "idle" THEN outcome ELSE "abandoned"
      /\ configs' = configs /\ primary' = primary /\ plan' = plan /\ Call' = Call
      /\ stats' = stats /\ tx' = tx /\ blocked' = blocked
  BY DEF KillPlanner, Return, TypeOK, Call
<1>2. PICK n \in 0..Len(queue) : queue' = SubSeq(queue, 1, n)
  BY DEF KillPlanner
<1>3. /\ queue \in Seq(Requests) /\ Len(queue) \in Nat /\ n \in Nat
      /\ n <= Len(queue)
  BY <1>2 DEF TypeOK
<1>4. /\ queue' \in Seq(Requests) /\ Len(queue') = n
      /\ DOMAIN queue = 1..Len(queue) /\ DOMAIN queue' = 1..n
      /\ \A i \in 1..n : queue'[i] = queue[i]
      /\ queue = <<>> => queue' = <<>>
      /\ queue' # <<>> => queue # <<>> /\ queue'[1] = queue[1]
  BY <1>2, <1>3
<1>5. TypeOK'
  BY <1>1, <1>4 DEF TypeOK, Results, Unsettled, Replies, NoReply, Plain, Plains
<1>6. QueueShape'
  BY <1>1, <1>3, <1>4 DEF QueueShape, Rollback
<1>7. HeadOK'
  BY <1>1, <1>4 DEF HeadOK, InForce, AfterRollback
<1>8. Pending' /\ AnswerOK' /\ OwnerOK'
  BY <1>1 DEF Pending, AnswerOK, OwnerOK, NoReply, Plain
<1>9. IdleOK'
  BY <1>1, <1>4 DEF IdleOK, Unsettled
<1>10. EvidenceOK'
  BY <1>1 DEF EvidenceOK, AllRead, ReadSoFar, InOrder, Follows, Read
<1> QED BY <1>5, <1>6, <1>7, <1>8, <1>9, <1>10

\* What plan() may return, and that it leaves the connection alone.
LEMMA ClientResult ==
  ASSUME IInv, Client
  PROVE  /\ link' = link /\ pc # "idle"
         /\ outcome' \notin {"abandoned", "Connection"}
         /\ pc' = "idle" => outcome' \in {"Planned"} \union DOMAIN PlanningFailures
<1> USE DEF IInv, Protocol
<1>1. pc # "idle" /\ outcome = "none" /\ primary \in Errors \union {"none"}
  BY DEF Client, OnBegin, OnSetup, OnExplain, OnStats, OnRollback, Answered, IdleOK,
     TypeOK
<1>2. CASE OnBegin
  BY <1>1, <1>2, Kinds DEF OnBegin, Send, Return, clientVars
<1>3. CASE OnSetup
  BY <1>1, <1>3 DEF OnSetup, RollbackError, Send
<1>4. CASE OnExplain
  BY <1>1, <1>4 DEF OnExplain, RollbackError, NextStats, Send
<1>5. CASE OnStats
  BY <1>1, <1>5 DEF OnStats, RollbackError, NextStats, Send
<1>6. CASE OnRollback
  BY <1>1, <1>6, Kinds DEF OnRollback, Return, Errors, Settled
<1> QED BY <1>2, <1>3, <1>4, <1>5, <1>6 DEF Client

\* Every step but a kill is a step of the planner or leaves it alone.
LEMMA PlannerStep ==
  ASSUME CliInv, [CliNext]_allVars, ~Killed PROVE [Next]_vars
<1>1. CASE ReadSql \/ ParseAndValidate \/ LoadConfig \/ ResolveUrl \/ Planned
  BY <1>1 DEF ReadSql, ParseAndValidate, LoadConfig, ResolveUrl, Planned
<1>2. CASE OpenSession
  BY <1>2 DEF OpenSession, Next
<1>3. CASE Plan
  <2>1. StartPlan(config[1]) /\ stage = "plan"
    BY <1>3 DEF Plan
  <2>2. config \in Seq(Configs) /\ Len(config) = 1
    BY <2>1 DEF CliInv, CliTypeOK, InputOK
  <2>3. config[1] \in Configs
    BY <2>2
  <2> QED BY <2>1, <2>3 DEF Next
<1>4. CASE WriteReport
  BY <1>4 DEF WriteReport, CloseSession, Next, Environment
<1>5. CASE Session
  BY <1>5 DEF Session, Next
<1>6. CASE UNCHANGED allVars
  BY <1>6 DEF allVars
<1> QED BY <1>1, <1>2, <1>3, <1>4, <1>5, <1>6 DEF CliNext, Cli

LEMMA PlannerInv == CliInv /\ [CliNext]_allVars => IInv'
<1> SUFFICES ASSUME CliInv, [CliNext]_allVars PROVE IInv'
  OBVIOUS
<1>1. CASE ~Killed
  BY <1>1, PlannerStep, IInvInductive DEF CliInv
<1>2. CASE Killed
  BY <1>2, KillStep DEF Killed, KillPlanner, CliInv
<1> QED BY <1>1, <1>2

\* What a failure report establishes: it is written next and nothing else has
\* happened.
LEMMA FailStep ==
  ASSUME CliInv, NEW kind, NEW statement \in BOOLEAN, Fail(kind, statement),
         stage \notin Ended \union {"write"}, IInv', pc' = "idle",
         UNCHANGED <<inv, output, code>>, index' \in Nat \ {0},
         config' \in Seq(Configs), Len(config') <= 1,
         statement <=> inv.sql = "admitted",
         inv.sql \in DOMAIN InputFailures => kind = InputFailures[inv.sql],
         inv.sql \in DOMAIN CheckFailures => kind = CheckFailures[inv.sql],
         IF kind \in DatabaseFailures
           THEN /\ outcome' \in DOMAIN PlanningFailures
                /\ kind = PlanningFailures[outcome']
           ELSE link' = "none" /\ outcome' = "none",
         ContactJustified'
  PROVE  CliInv'
<1>1. /\ stage' = "write" /\ report'.status = "failed" /\ report'.failure = kind
      /\ report'.statement = statement /\ report'.errors = 0 /\ report'.warnings = 0
  BY DEF Fail, NoReport
<1>2. output = [stdout |-> "nothing", stderr |-> "nothing"] /\ code = -1
  BY DEF CliInv, StageOK, Ended
<1>3. CliTypeOK'
  BY <1>1, <1>2 DEF CliInv, CliTypeOK
<1>4. StageOK'
  BY <1>1, <1>2 DEF StageOK, Unconnected
<1>5. InputOK'
  BY <1>1 DEF InputOK, Ended
<1>6. ReportOK'
  BY <1>1 DEF ReportOK, DatabaseFailures, PlanningFailures
<1>7. FailureAttribution' /\ ExitHonest'
  BY <1>1, <1>2 DEF FailureAttribution, ExitHonest
<1> QED BY <1>3, <1>4, <1>5, <1>6, <1>7 DEF CliInv

LEMMA ReadSqlStep == ASSUME CliInv, ReadSql, IInv' PROVE CliInv'
<1>1. /\ stage = "read" /\ link = "none" /\ outcome = "none" /\ pc = "idle"
      /\ report = NoReport /\ index = 1
      /\ output = [stdout |-> "nothing", stderr |-> "nothing"] /\ code = -1
  BY DEF ReadSql, CliInv, StageOK, InputOK, Unconnected
<1>2. /\ UNCHANGED <<inv, index, config, output, code>>
      /\ pc' = pc /\ link' = link /\ outcome' = outcome
  BY DEF ReadSql, vars
<1>3. CASE inv.sql \in DOMAIN InputFailures
  <2>1. Fail(InputFailures[inv.sql], FALSE)
    BY <1>3 DEF ReadSql
  <2>2. inv.sql # "admitted" /\ inv.sql \notin DOMAIN CheckFailures
    BY <1>3 DEF InputFailures, CheckFailures
  <2>3. ContactJustified'
    BY <1>1, <1>2 DEF ContactJustified
  <2> QED BY <1>1, <1>2, <1>3, <2>1, <2>2, <2>3, FailStep, Kinds
          DEF CliInv, CliTypeOK, Ended
<1>4. CASE inv.sql \notin DOMAIN InputFailures
  <2>1. stage' = "validate" /\ report' = report
    BY <1>4 DEF ReadSql
  <2>2. CliTypeOK' /\ StageOK'
    BY <1>1, <1>2, <2>1 DEF CliInv, CliTypeOK, StageOK, Unconnected
  <2>3. InputOK'
    BY <1>1, <1>2, <1>4, <2>1 DEF InputOK, Ended
  <2>4. ReportOK' /\ FailureAttribution' /\ ContactJustified' /\ ExitHonest'
    BY <1>1, <1>2, <2>1
    DEF ReportOK, FailureAttribution, ContactJustified, ExitHonest, NoReport
  <2> QED BY <2>2, <2>3, <2>4 DEF CliInv
<1> QED BY <1>3, <1>4

LEMMA ValidateStep == ASSUME CliInv, ParseAndValidate, IInv' PROVE CliInv'
<1>1. /\ stage = "validate" /\ link = "none" /\ outcome = "none" /\ pc = "idle"
      /\ report = NoReport /\ inv.sql \notin DOMAIN InputFailures
      /\ output = [stdout |-> "nothing", stderr |-> "nothing"] /\ code = -1
  BY DEF ParseAndValidate, CliInv, StageOK, InputOK, Unconnected
<1>2. /\ UNCHANGED <<inv, index, config, output, code>>
      /\ pc' = pc /\ link' = link /\ outcome' = outcome
  BY DEF ParseAndValidate, vars
<1>3. CASE inv.sql \in DOMAIN CheckFailures
  <2>1. Fail(CheckFailures[inv.sql], FALSE)
    BY <1>3 DEF ParseAndValidate
  <2>2. inv.sql # "admitted"
    BY <1>3 DEF CheckFailures
  <2>3. ContactJustified'
    BY <1>1, <1>2 DEF ContactJustified
  <2> QED BY <1>1, <1>2, <1>3, <2>1, <2>2, <2>3, FailStep, Kinds
          DEF CliInv, CliTypeOK, Ended
<1>4. CASE inv.sql \notin DOMAIN CheckFailures
  <2>1. stage' = "config" /\ report' = report
    BY <1>4 DEF ParseAndValidate
  <2>2. inv.sql = "admitted" /\ index = 1
    BY <1>1, <1>4, InvocationsAssumption DEF CliInv, CliTypeOK, SqlInputs, InputOK
  <2>3. CliTypeOK' /\ StageOK'
    BY <1>1, <1>2, <2>1 DEF CliInv, CliTypeOK, StageOK, Unconnected
  <2>4. InputOK'
    BY <1>2, <2>1, <2>2 DEF InputOK, Ended
  <2>5. ReportOK' /\ FailureAttribution' /\ ContactJustified' /\ ExitHonest'
    BY <1>1, <1>2, <2>1
    DEF ReportOK, FailureAttribution, ContactJustified, ExitHonest, NoReport
  <2> QED BY <2>3, <2>4, <2>5 DEF CliInv
<1> QED BY <1>3, <1>4

LEMMA LoadConfigStep == ASSUME CliInv, LoadConfig, IInv' PROVE CliInv'
<1> DEFINE file == inv.files[index]
<1>1. /\ stage = "config" /\ link = "none" /\ outcome = "none" /\ pc = "idle"
      /\ report = NoReport /\ inv.sql = "admitted"
      /\ output = [stdout |-> "nothing", stderr |-> "nothing"] /\ code = -1
  BY DEF LoadConfig, CliInv, StageOK, InputOK, Unconnected, Ended
<1>2. /\ UNCHANGED <<inv, output, code>>
      /\ pc' = pc /\ link' = link /\ outcome' = outcome
  BY DEF LoadConfig, vars
<1>3. /\ inv.files \in Seq(Files) /\ inv.explicit \in BOOLEAN
      /\ inv.explicit => Len(inv.files) = 1
      /\ Len(inv.files) \in Nat /\ DOMAIN inv.files = 1..Len(inv.files)
      /\ index \in Nat \ {0} /\ config \in Seq(Configs) /\ Len(config) <= 1
  BY InvocationsAssumption DEF CliInv, CliTypeOK
<1>4. \A j \in 1..(index - 1) :
        j \in DOMAIN inv.files /\ inv.files[j].is = "absent" /\ ~inv.explicit
  BY <1>1 DEF CliInv, InputOK
<1>5. ContactJustified'
  BY <1>1, <1>2 DEF ContactJustified
<1>6. ASSUME UNCHANGED report, index' \in Nat \ {0}, config' \in Seq(Configs),
             Len(config') <= 1, stage' \in {"config", "url"}
      PROVE  /\ CliTypeOK' /\ StageOK' /\ ReportOK'
             /\ FailureAttribution' /\ ExitHonest'
  <2>1. CliTypeOK' /\ StageOK'
    BY <1>1, <1>2, <1>6 DEF CliInv, CliTypeOK, StageOK, Unconnected
  <2>2. ReportOK' /\ FailureAttribution' /\ ExitHonest'
    BY <1>1, <1>2, <1>6 DEF ReportOK, FailureAttribution, ExitHonest, NoReport
  <2> QED BY <2>1, <2>2
<1>7. CASE index > Len(inv.files)
  <2>1. config' = <<DefaultConfig>> /\ stage' = "url" /\ index' = 1 /\ report' = report
    BY <1>7 DEF LoadConfig, UseConfig
  <2>2. ~inv.explicit /\ \A i \in DOMAIN inv.files : inv.files[i].is = "absent"
    BY <1>3, <1>4, <1>7
  <2>3. ConfigChosen'
    BY <1>2, <2>1, <2>2 DEF ConfigChosen
  <2>4. InputOK'
    BY <1>1, <1>2, <2>1, <2>3 DEF InputOK, Ended
  <2>5. config' \in Seq(Configs) /\ Len(config') <= 1
    BY <2>1, DefaultConfigAssumption
  <2> QED BY <1>5, <1>6, <2>1, <2>4, <2>5 DEF CliInv
<1>8. CASE index <= Len(inv.files) /\ file.is = "config"
  <2>1. config' = <<file.config>> /\ stage' = "url" /\ index' = 1 /\ report' = report
    BY <1>3, <1>8 DEF LoadConfig, UseConfig
  <2>2. index \in DOMAIN inv.files /\ file \in Files
    BY <1>3, <1>8
  <2>3. ConfigChosen'
    BY <1>2, <1>4, <1>8, <2>1, <2>2 DEF ConfigChosen
  <2>4. InputOK'
    BY <1>1, <1>2, <2>1, <2>3 DEF InputOK, Ended
  <2>5. config' \in Seq(Configs) /\ Len(config') <= 1
    BY <1>8, <2>1, <2>2 DEF Files
  <2> QED BY <1>5, <1>6, <2>1, <2>4, <2>5 DEF CliInv
<1>9. CASE index <= Len(inv.files) /\ file.is = "absent" /\ ~inv.explicit
  <2>1. index' = index + 1 /\ UNCHANGED <<config, stage, report>>
    <3>1. ~(index > Len(inv.files))
      BY <1>3, <1>9
    <3> QED BY <3>1, <1>9 DEF LoadConfig
  <2>2. \A j \in 1..(index' - 1) :
          j \in DOMAIN inv.files /\ inv.files[j].is = "absent" /\ ~inv.explicit
    BY <1>3, <1>4, <1>9, <2>1
  <2>3. InputOK'
    BY <1>1, <1>2, <2>1, <2>2 DEF InputOK, Ended
  <2> QED BY <1>1, <1>3, <1>5, <1>6, <2>1, <2>3 DEF CliInv
<1>10. CASE /\ index <= Len(inv.files) /\ file.is # "config"
            /\ ~(file.is = "absent" /\ ~inv.explicit)
  <2>1. Fail(ConfigFailure(file), TRUE) /\ UNCHANGED <<config, index>>
    <3>1. ~(index > Len(inv.files))
      BY <1>3, <1>10
    <3> QED BY <3>1, <1>10 DEF LoadConfig
  <2> QED BY <1>1, <1>2, <1>3, <1>5, <2>1, FailStep, Kinds
          DEF InputFailures, CheckFailures, Ended
<1> QED BY <1>3, <1>7, <1>8, <1>9, <1>10

LEMMA ResolveUrlStep == ASSUME CliInv, ResolveUrl, IInv' PROVE CliInv'
<1>1. /\ stage = "url" /\ link = "none" /\ outcome = "none" /\ pc = "idle"
      /\ report = NoReport /\ inv.sql = "admitted" /\ ConfigChosen
      /\ output = [stdout |-> "nothing", stderr |-> "nothing"] /\ code = -1
      /\ \A j \in 1..(index - 1) : inv.urls[j] = "unset"
  BY DEF ResolveUrl, CliInv, StageOK, InputOK, Unconnected, Ended
<1>2. /\ UNCHANGED <<inv, config, output, code>>
      /\ pc' = pc /\ link' = link /\ outcome' = outcome
  BY DEF ResolveUrl, vars
<1>3. /\ inv.urls \in [1..3 -> UrlSources] /\ Len(inv.urls) = 3
      /\ index \in Nat \ {0} /\ config \in Seq(Configs) /\ Len(config) <= 1
  <2>1. inv.urls \in [1..3 -> UrlSources]
    BY InvocationsAssumption DEF CliInv, CliTypeOK
  <2> QED BY <2>1 DEF CliInv, CliTypeOK
<1>4. ContactJustified'
  BY <1>1, <1>2 DEF ContactJustified
<1>5. ConfigChosen'
  BY <1>1, <1>2 DEF ConfigChosen
<1>6. CASE index > Len(inv.urls)
  <2>1. Fail("database_url_missing", TRUE) /\ index' = index
    BY <1>6 DEF ResolveUrl
  <2> QED BY <1>1, <1>2, <1>3, <1>4, <2>1, FailStep, Kinds
          DEF InputFailures, CheckFailures, Ended
<1>7. CASE index <= 3 /\ inv.urls[index] \in {"empty", "not_unicode"}
  <2>0. ~(index > Len(inv.urls))
    BY <1>3, <1>7
  <2>1. Fail("database_url_invalid", TRUE) /\ index' = index
    BY <2>0, <1>7 DEF ResolveUrl
  <2> QED BY <1>1, <1>2, <1>3, <1>4, <2>1, FailStep, Kinds
          DEF InputFailures, CheckFailures, Ended
<1>8. CASE index <= 3 /\ inv.urls[index] \in {"url", "unset"}
  <2>0. ~(index > Len(inv.urls)) /\ inv.urls[index] \notin {"empty", "not_unicode"}
    BY <1>3, <1>8
  <2>1. /\ report' = report /\ index' \in Nat \ {0} /\ stage' \in {"url", "connect"}
        /\ IF inv.urls[index] = "url" THEN stage' = "connect" /\ index' = index
           ELSE stage' = "url" /\ index' = index + 1
    <3>1. /\ report' = report
          /\ IF inv.urls[index] = "url" THEN stage' = "connect" /\ index' = index
             ELSE stage' = stage /\ index' = index + 1
      BY <2>0 DEF ResolveUrl
    <3> QED BY <1>1, <1>3, <3>1
  <2>2. CliTypeOK' /\ StageOK'
    BY <1>1, <1>2, <2>1 DEF CliInv, CliTypeOK, StageOK, Unconnected
  <2>3. ReportOK' /\ FailureAttribution' /\ ExitHonest'
    BY <1>1, <1>2, <2>1 DEF ReportOK, FailureAttribution, ExitHonest, NoReport
  <2>4. CASE stage' = "connect"
    <3>1. UrlChosen'
      BY <1>1, <1>2, <1>8, <2>1, <2>4 DEF UrlChosen
    <3>2. InputOK'
      BY <1>1, <1>2, <1>5, <2>4, <3>1 DEF InputOK, Ended
    <3> QED BY <1>4, <2>2, <2>3, <3>2 DEF CliInv
  <2>5. CASE stage' = "url"
    <3>1. \A j \in 1..(index' - 1) : inv.urls[j] = "unset"
      <4>1. index' = index + 1 /\ inv.urls[index] = "unset" /\ index \in Nat
        BY <1>3, <1>8, <2>1, <2>5
      <4> QED BY <1>1, <4>1
    <3>2. InputOK'
      BY <1>1, <1>2, <1>5, <2>5, <3>1 DEF InputOK, Ended
    <3> QED BY <1>4, <2>2, <2>3, <3>2 DEF CliInv
  <2> QED BY <2>1, <2>4, <2>5
<1> QED BY <1>3, <1>6, <1>7, <1>8 DEF UrlSources

LEMMA OpenSessionStep == ASSUME CliInv, OpenSession, IInv' PROVE CliInv'
<1>1. /\ stage = "connect" /\ link = "none" /\ outcome = "none" /\ pc = "idle"
      /\ report = NoReport /\ inv.sql = "admitted" /\ ConfigChosen /\ UrlChosen
      /\ output = [stdout |-> "nothing", stderr |-> "nothing"] /\ code = -1
  BY DEF OpenSession, CliInv, StageOK, InputOK, Unconnected, Ended
<1>2. /\ UNCHANGED <<inv, index, config, output, code>> /\ pc' = pc
      /\ \/ link' = "up" /\ outcome' = outcome
         \/ link' = "none" /\ outcome' = "Connection"
  BY <1>1 DEF OpenSession, Connect
<1>3. ConfigChosen' /\ UrlChosen'
  BY <1>1, <1>2 DEF ConfigChosen, UrlChosen
<1>4. ContactJustified'
  BY <1>1, <1>2, <1>3 DEF ContactJustified
<1>5. index \in Nat \ {0} /\ config \in Seq(Configs) /\ Len(config) <= 1
  BY DEF CliInv, CliTypeOK
<1>6. CASE link' = "up"
  <2>1. stage' = "plan" /\ report' = report /\ outcome' = "none"
    BY <1>1, <1>2, <1>6 DEF OpenSession
  <2>2. CliTypeOK' /\ StageOK'
    BY <1>1, <1>2, <1>6, <2>1 DEF CliInv, CliTypeOK, StageOK, Unconnected
  <2>3. Len(config) = 1
    BY <1>1, <1>5 DEF ConfigChosen
  <2>4. InputOK'
    BY <1>1, <1>2, <1>3, <2>1, <2>3 DEF InputOK, Ended
  <2>5. ReportOK' /\ FailureAttribution' /\ ExitHonest'
    BY <1>1, <1>2, <2>1 DEF ReportOK, FailureAttribution, ExitHonest, NoReport
  <2> QED BY <1>4, <2>2, <2>4, <2>5 DEF CliInv
<1>7. CASE link' # "up"
  <2>1. Fail(PlanningFailures["Connection"], TRUE) /\ outcome' = "Connection"
    BY <1>2, <1>7 DEF OpenSession
  <2>2. /\ "Connection" \in DOMAIN PlanningFailures
        /\ PlanningFailures["Connection"] \in DatabaseFailures
    BY Kinds DEF PlanningFailures
  <2> QED BY <1>1, <1>2, <1>4, <1>5, <2>1, <2>2, FailStep
          DEF InputFailures, CheckFailures, Ended
<1> QED BY <1>6, <1>7

LEMMA PlanStep == ASSUME CliInv, Plan, IInv' PROVE CliInv'
<1>1. /\ stage = "plan" /\ stage' = "planning" /\ outcome' = "none"
      /\ pc' = "begin" /\ link' = link
      /\ UNCHANGED <<inv, index, config, report, output, code>>
  BY DEF Plan, StartPlan, Send
<1>2. /\ link # "none" /\ report = NoReport
      /\ output = [stdout |-> "nothing", stderr |-> "nothing"] /\ code = -1
  BY <1>1 DEF CliInv, StageOK
<1>3. /\ inv.sql = "admitted" /\ Len(config) = 1 /\ ConfigChosen /\ UrlChosen
  BY <1>1 DEF CliInv, InputOK, Ended
<1>4. ConfigChosen' /\ UrlChosen'
  BY <1>1, <1>3 DEF ConfigChosen, UrlChosen
<1>5. CliTypeOK' /\ StageOK'
  BY <1>1, <1>2 DEF CliInv, CliTypeOK, StageOK, Unconnected
<1>6. InputOK' /\ ContactJustified'
  BY <1>1, <1>3, <1>4 DEF InputOK, ContactJustified, Ended
<1>7. ReportOK' /\ FailureAttribution' /\ ExitHonest'
  BY <1>1, <1>2 DEF ReportOK, FailureAttribution, ExitHonest, NoReport
<1> QED BY <1>5, <1>6, <1>7 DEF CliInv

LEMMA PlannedStep == ASSUME CliInv, Planned, IInv' PROVE CliInv'
<1>1. /\ stage = "planning" /\ pc = "idle"
      /\ UNCHANGED <<inv, index, config, output, code>>
      /\ pc' = pc /\ link' = link /\ outcome' = outcome
  BY DEF Planned, vars
<1>2. /\ link # "none" /\ report = NoReport
      /\ outcome \in {"Planned"} \union DOMAIN PlanningFailures
      /\ output = [stdout |-> "nothing", stderr |-> "nothing"] /\ code = -1
  BY <1>1 DEF CliInv, StageOK
<1>3. inv.sql = "admitted" /\ UrlChosen /\ ConfigChosen
  BY <1>1 DEF CliInv, InputOK, Ended
<1>4. ContactJustified'
  BY <1>1, <1>3 DEF ContactJustified, ConfigChosen, UrlChosen
<1>5. index \in Nat \ {0} /\ config \in Seq(Configs) /\ Len(config) <= 1
  BY DEF CliInv, CliTypeOK
<1>6. CASE outcome = "Planned"
  <2>1. stage' = "write" /\ report'.status \in {"clean", "warnings", "errors"}
        /\ report'.statement = TRUE
    BY <1>6 DEF Planned, NoReport
  <2>2. CliTypeOK' /\ StageOK'
    BY <1>1, <1>2, <2>1 DEF CliInv, CliTypeOK, StageOK, Unconnected
  <2>3. InputOK' /\ ReportOK' /\ FailureAttribution' /\ ExitHonest'
    BY <1>1, <1>2, <1>6, <2>1 DEF InputOK, ReportOK, FailureAttribution, ExitHonest, Ended
  <2> QED BY <1>4, <2>2, <2>3 DEF CliInv
<1>7. CASE outcome # "Planned"
  <2>1. Fail(PlanningFailures[outcome], TRUE)
    BY <1>7 DEF Planned
  <2>2. PlanningFailures[outcome] \in DatabaseFailures
    BY <1>2, <1>7 DEF DatabaseFailures
  <2> QED BY <1>1, <1>2, <1>3, <1>4, <1>5, <1>7, <2>1, <2>2, FailStep
          DEF InputFailures, CheckFailures, Ended
<1> QED BY <1>6, <1>7

LEMMA WriteReportStep == ASSUME CliInv, WriteReport, IInv' PROVE CliInv'
<1> DEFINE stream == IF inv.format = "text" /\ report.status = "failed"
                       THEN "stderr" ELSE "stdout"
<1>1. /\ stage = "write" /\ stage' = "exited"
      /\ UNCHANGED <<inv, index, config, report>>
  BY DEF WriteReport
<1>2. pc' = pc /\ outcome' = outcome /\ link' \in {link, "down"} /\ (link = "none" => link' = "none")
  BY DEF WriteReport, CloseSession, LinkDown, clientVars, vars
<1>3. PICK written \in {"all", "part", "nothing"} :
        /\ output' = [output EXCEPT ![stream] = written]
        /\ code' = IF written = "all" THEN ExitCode ELSE 2
  BY DEF WriteReport
<1>4. /\ pc = "idle" /\ report.status # "none"
      /\ output = [stdout |-> "nothing", stderr |-> "nothing"]
  BY <1>1 DEF CliInv, StageOK
<1>5. /\ output' = [stdout |-> IF stream = "stdout" THEN written ELSE "nothing",
                     stderr |-> IF stream = "stderr" THEN written ELSE "nothing"]
      /\ code' \in 0..2
  <2>1. ExitCode \in 0..2
    BY DEF ExitCode
  <2>2. code' \in 0..2
    BY <1>3, <2>1
  <2>3. stream \in {"stdout", "stderr"}
    OBVIOUS
  <2> HIDE DEF stream
  <2>4. output' = [stdout |-> IF stream = "stdout" THEN written ELSE "nothing",
                   stderr |-> IF stream = "stderr" THEN written ELSE "nothing"]
    BY <1>3, <1>4, <2>3
  <2> QED BY <2>2, <2>4
<1>6. CliTypeOK' /\ StageOK'
  BY <1>1, <1>2, <1>4, <1>5 DEF CliInv, CliTypeOK, StageOK, Unconnected
<1>7. InputOK' /\ ReportOK' /\ FailureAttribution'
  BY <1>1, <1>2 DEF CliInv, InputOK, ReportOK, FailureAttribution, Ended
<1>8. ContactJustified'
  BY <1>1, <1>2 DEF CliInv, ContactJustified, ConfigChosen, UrlChosen
<1>9. ExitHonest'
  <2>1. report.status \in {"clean", "warnings", "errors", "failed"}
    BY <1>4 DEF CliInv, CliTypeOK
  <2>2. ASSUME code' \in {0, 1}
        PROVE  /\ written = "all" /\ report.status # "failed" /\ code' = ExitCode
               /\ stream = "stdout"
    BY <1>3, <2>2 DEF ExitCode
  <2>3. code' \in {0, 1} => /\ outcome' = "Planned" /\ pc' = "idle"
                            /\ tx' = NoTx /\ queue' = <<>>
    BY <1>2, <2>1, <2>2 DEF CliInv, ReportOK, IInv, Protocol, IdleOK, Unsettled
  <2>4. code' \in {0, 1} => (code' = 1 <=> ThresholdReached')
    BY <1>1, <2>2 DEF ExitCode, ThresholdReached
  <2>5. code' = 2 => report'.status = "failed" \/ output'.stdout # "all"
    BY <1>1, <1>3, <1>5 DEF ExitCode
  <2> QED BY <1>5, <2>2, <2>3, <2>4, <2>5 DEF ExitHonest
<1> QED BY <1>6, <1>7, <1>8, <1>9 DEF CliInv

\* Once the report is written only the connection and the server still move.
LEMMA AfterStep ==
  ASSUME CliInv, IInv', UNCHANGED <<inv, index, config, report, output, code>>,
         stage' \in {stage, "killed"}, stage \notin Ended \/ stage' = stage,
         pc = "idle" => pc' = "idle" /\ outcome' = outcome,
         stage' = "killed" => pc' = "idle",
         stage' = "planning" /\ pc # "idle" =>
           /\ outcome' # "abandoned"
           /\ pc' = "idle" => outcome' \in {"Planned"} \union DOMAIN PlanningFailures,
         pc # "idle" => outcome' # "Connection",
         link = "none" => link' = "none", link # "none" => link' # "none"
  PROVE  CliInv'
<1>1. pc # "idle" => stage = "planning" /\ link # "none" /\ report = NoReport
  BY DEF CliInv, StageOK
<1>2. CliTypeOK'
  BY DEF CliInv, CliTypeOK
<1>3. StageOK'
  BY <1>1 DEF CliInv, StageOK, Unconnected, Ended
<1>4. InputOK'
  BY DEF CliInv, InputOK, ConfigChosen, UrlChosen, Ended
<1>5. ReportOK'
  BY <1>1 DEF CliInv, ReportOK, NoReport
<1>6. ContactJustified'
  BY <1>1 DEF CliInv, ContactJustified, ConfigChosen, UrlChosen
<1>7. FailureAttribution'
  BY DEF CliInv, FailureAttribution
<1>8. ExitHonest'
  <2>1. code \in {0, 1} => stage = "exited" /\ pc = "idle" /\ outcome = "Planned"
    BY DEF CliInv, StageOK, ExitHonest
  <2>2. code \in {0, 1} => tx' = NoTx /\ queue' = <<>>
    BY <2>1 DEF IInv, Protocol, IdleOK, Unsettled
  <2> QED BY <2>1, <2>2 DEF CliInv, ExitHonest, ThresholdReached
<1> QED BY <1>2, <1>3, <1>4, <1>5, <1>6, <1>7, <1>8 DEF CliInv

LEMMA CliInvInductive == CliInv /\ [CliNext]_allVars => CliInv'
<1> SUFFICES ASSUME CliInv, [CliNext]_allVars PROVE CliInv'
  OBVIOUS
<1>0. IInv'
  BY PlannerInv
<1>1. CASE Killed
  <2>1. /\ stage \notin Ended /\ stage' = "killed" /\ pc' = "idle"
        /\ outcome' = IF pc = "idle" THEN outcome ELSE "abandoned"
        /\ link' = IF link = "up" THEN "down" ELSE link
        /\ UNCHANGED <<inv, index, config, report, output, code>>
    BY <1>1 DEF Killed, Return, Ended
  <2> QED BY <1>0, <2>1, AfterStep
<1>2. CASE Session
  <2>1. UNCHANGED cliVars
    BY <1>2 DEF Session
  <2>2. CASE Client
    <3>1. /\ link' = link /\ pc # "idle" /\ outcome' # "abandoned"
          /\ outcome' # "Connection"
          /\ pc' = "idle" => outcome' \in {"Planned"} \union DOMAIN PlanningFailures
      BY <2>2, ClientResult DEF CliInv
    <3>2. stage' = "planning" /\ stage = "planning"
      BY <2>1, <3>1 DEF CliInv, StageOK, cliVars
    <3> QED BY <1>0, <2>1, <3>1, <3>2, AfterStep DEF cliVars, Ended
  <2>3. CASE Server \/ SeesClosed \/ ServerReaps \/ Environment
    <3>1. /\ pc' = pc /\ outcome' = outcome /\ link' \in {link, "down"}
          /\ link = "none" => link' = "none"
      <4>1. CASE Server \/ ServerFails \/ AdminCancel
        BY <4>1 DEF Server, ServerFails, AdminCancel, ServeBegin, ServeSetup,
           ServeExplain, ServeStats, ServeRollback, StatementTimeout, LockTimeout,
           ServerError, Serve, Answer, clientVars
      <4>2. CASE LinkDown \/ SeesClosed \/ ServerReaps \/ OthersLock
        BY <4>2 DEF LinkDown, SeesClosed, ServerReaps, OthersLock, clientVars
      <4> QED BY <2>3, <4>1, <4>2 DEF Environment
    <3>2. pc # "idle" => outcome = "none"
      BY DEF CliInv, IInv, Protocol, IdleOK
    <3>3. stage = "planning" => outcome # "abandoned"
      BY DEF CliInv, StageOK
    <3>4. stage = "killed" => pc = "idle"
      BY DEF CliInv, StageOK
    <3> QED BY <1>0, <2>1, <3>1, <3>2, <3>3, <3>4, AfterStep DEF cliVars
  <2> QED BY <1>2, <2>2, <2>3 DEF Session
<1>3. CASE UNCHANGED allVars
  <2>1. pc # "idle" => outcome = "none"
    BY DEF CliInv, IInv, Protocol, IdleOK
  <2>2. /\ pc' = pc /\ outcome' = outcome /\ link' = link /\ stage' = stage
        /\ UNCHANGED <<inv, index, config, report, output, code>>
        /\ stage = "killed" => pc = "idle"
    BY <1>3 DEF allVars, vars, cliVars, CliInv, StageOK
  <2> QED BY <1>0, <2>1, <2>2, AfterStep
<1> QED
  BY <1>0, <1>1, <1>2, <1>3, ReadSqlStep, ValidateStep, LoadConfigStep,
     ResolveUrlStep, OpenSessionStep, PlanStep, PlannedStep, WriteReportStep
  DEF CliNext, Cli

LEMMA CliInitInv == CliInit => CliInv
<1> SUFFICES ASSUME CliInit PROVE CliInv
  OBVIOUS
<1>1. /\ inv \in Invocations /\ stage = "read" /\ index = 1 /\ config = <<>>
      /\ report = NoReport /\ code = -1
      /\ output = [stdout |-> "nothing", stderr |-> "nothing"]
      /\ pc = "idle" /\ link = "none" /\ outcome = "none"
  BY DEF CliInit, Init
<1>2. IInv
  BY InitIInv DEF CliInit
<1>3. CliTypeOK
  <2>1. config \in Seq(Configs) /\ Len(config) <= 1
    BY <1>1
  <2> QED BY <1>1, <2>1 DEF CliTypeOK, NoReport
<1>4. StageOK /\ InputOK
  BY <1>1 DEF StageOK, InputOK, Unconnected, Ended
<1>5. ReportOK /\ ContactJustified /\ FailureAttribution /\ ExitHonest
  BY <1>1 DEF ReportOK, ContactJustified, FailureAttribution, ExitHonest, NoReport
<1> QED BY <1>2, <1>3, <1>4, <1>5 DEF CliInv

\* The invariant holds in every run of check.
THEOREM CliInvariance == CliSpec => []CliInv
  BY CliInitInv, CliInvInductive, PTL DEF CliSpec

\* Every variable of the command keeps its type, the exit code included.
THEOREM CliTyped == CliSpec => []CliTypeOK
<1>1. CliInv => CliTypeOK
  BY DEF CliInv
<1> QED BY <1>1, CliInvariance, PTL

\* A database is contacted only for admitted SQL, with the nearest
\* configuration, through the first URL source that is set.
THEOREM Contacts == CliSpec => []ContactJustified
<1>1. CliInv => ContactJustified
  BY DEF CliInv
<1> QED BY <1>1, CliInvariance, PTL

\* A failure names the statement exactly when it was admitted, and the reason
\* when it was not.
THEOREM Attribution == CliSpec => []FailureAttribution
<1>1. CliInv => FailureAttribution
  BY DEF CliInv
<1> QED BY <1>1, CliInvariance, PTL

\* The kind of a failure tells whether a database was contacted and whether
\* something may be left on it.
THEOREM KindsHonest == CliSpec => []FailureKindHonest
<1>1. CliInv => FailureKindHonest
  <2> SUFFICES ASSUME CliInv, report.status = "failed"
               PROVE  /\ report.failure \notin DatabaseFailures =>
                           link = "none" /\ outcome = "none"
                      /\ report.failure \notin
                           {"database_transaction", "database_rollback"} =>
                           tx = NoTx /\ queue = <<>>
    BY DEF FailureKindHonest
  <2>1. pc = "idle"
    BY DEF CliInv, ReportOK
  <2>2. CASE report.failure \notin DatabaseFailures
    BY <2>1, <2>2 DEF CliInv, ReportOK, IInv, Protocol, IdleOK
  <2>3. CASE report.failure \in DatabaseFailures
    <3>1. /\ outcome \in DOMAIN PlanningFailures
          /\ report.failure = PlanningFailures[outcome]
      BY <2>3 DEF CliInv, ReportOK
    <3>2. report.failure \notin {"database_transaction", "database_rollback"}
            => outcome \notin Unsettled
      BY <3>1 DEF PlanningFailures, Unsettled
    <3> QED BY <2>1, <2>3, <3>2 DEF CliInv, IInv, Protocol, IdleOK
  <2> QED BY <2>2, <2>3
<1> QED BY <1>1, CliInvariance, PTL

\* Exit codes 0 and 1 mean a complete report of a planned statement whose
\* transaction has ended, 2 a failure or a report that was not written whole.
THEOREM ExitsHonest == CliSpec => []ExitHonest
<1>1. CliInv => ExitHonest
  BY DEF CliInv
<1> QED BY <1>1, CliInvariance, PTL

\* The contract holds in the composition too, kills included.
THEOREM CliRefinement == CliSpec => CliContract
<1>1. CliInit => Contract!Init
  BY ContractInit DEF CliInit
<1>2. CliInv /\ [CliNext]_allVars => [Contract!Next]_(Contract!vars)
  <2> SUFFICES ASSUME CliInv, [CliNext]_allVars
               PROVE  [Contract!Next]_(Contract!vars)
    OBVIOUS
  <2>1. CASE ~Killed
    BY <2>1, PlannerStep, ContractStep DEF CliInv
  <2>2. CASE Killed
    <3>1. /\ pc' = "idle" /\ tx' = tx
          /\ outcome' = IF pc = "idle" THEN outcome ELSE "abandoned"
      BY <2>2 DEF Killed, Return
    <3> QED BY <3>1 DEF Contract!Next, Contract!Return, Contract!vars, Unsettled
  <2> QED BY <2>1, <2>2
<1> QED BY <1>1, <1>2, CliInvariance, PTL DEF CliSpec, CliContract, Contract!Spec
=============================================================================
