--------------------------- MODULE SafeModePlanner ---------------------------
(***************************************************************************)
(* SafeModePlanner of pgpreflight-postgres (planning.rs): one PostgreSQL   *)
(* session on which plan() runs BEGIN READ ONLY, SET LOCAL, EXPLAIN, the   *)
(* catalog reads and ROLLBACK.  plan() takes &mut self, so calls do not    *)
(* overlap, but its future may be dropped at any await; requests already   *)
(* written to the session are then still served, in order, before those of *)
(* the next call.                                                          *)
(*                                                                         *)
(* The client actions translate planning.rs.  tokio-postgres (a queue of   *)
(* requests, one reply channel per request, a ROLLBACK sent when an open   *)
(* transaction is dropped) and the server are modelled from their use      *)
(* there.  A request stands for all the messages of one awaited call.      *)
(***************************************************************************)
EXTENDS Integers, Sequences

CONSTANTS
  Relations,    \* relations a plan may mention
  Plans,        \* relations of the nodes of a normalized plan, in preorder
  RowCounts,    \* values of pg_class.reltuples, -1 for "never analyzed"
  Configs,      \* PostgresConfig: statement and lock timeout, 0 = disabled
  MaxTimeout,   \* largest timeout PostgreSQL accepts (2^31 - 1 ms)
  MaxCalls,     \* bound on the calls of plan() on one session
  NoRows        \* RelationStats with estimated_live_rows = None

ASSUME PlansAssumption == Plans \subseteq Seq(Relations)
ASSUME RowCountsAssumption == RowCounts \subseteq Int
ASSUME ConfigsAssumption == Configs \subseteq [statement : Nat, lock : Nat]
ASSUME MaxTimeoutAssumption == MaxTimeout \in Nat
ASSUME MaxCallsAssumption == MaxCalls \in Nat
ASSUME NoRowsAssumption == NoRows \notin Nat

VARIABLES
  pc,        \* the request plan() awaits, "idle" outside plan()
  configs,   \* the configurations of the calls made so far, one per call
  primary,   \* primary_error passed to rollback_error, "none" without one
  plan,      \* normalized_plan: its relations in preorder
  stats,     \* RelationStats read so far, in the order they were pushed
  outcome,   \* result of the last call (or of connect)
  queue,     \* requests sent and not yet served
  reply,     \* answer to the awaited request, not yet seen by plan()
  link,      \* "none" before connect, then "up", then "down"
  tx,        \* the session's transaction on the server
  blocked    \* requests that would wait for a lock another session holds

clientVars == <<configs, primary, plan, stats, outcome>>
vars == <<pc, configs, primary, plan, stats, outcome,
          queue, reply, link, tx, blocked>>

Ops == {"begin", "setup", "explain", "stats", "rollback"}
LockOps == {"explain", "stats"}
Call == Len(configs)

NoTx == [state |-> "none", owner |-> 0, readOnly |-> FALSE,
         statement |-> 0, lock |-> 0]
Begun(n) == [state |-> "open", owner |-> n, readOnly |-> TRUE,
             statement |-> 0, lock |-> 0]

\* What a refused ROLLBACK of call n leaves: an aborted transaction, in which
\* the settings of SET LOCAL are gone.
Stranded(n) == [state |-> "stranded", owner |-> n, readOnly |-> FALSE,
                statement |-> 0, lock |-> 0]

Plain(kind) == [kind |-> kind]
NoReply == Plain("none")
Timeouts == {"query_canceled", "lock_not_available"}
Plains == {"none", "ok", "malformed", "absent", "other_error", "closed"}
            \union Timeouts

Init ==
  /\ pc = "idle"
  /\ configs = <<>>
  /\ primary = "none"
  /\ plan = <<>>
  /\ stats = <<>>
  /\ outcome = "none"
  /\ queue = <<>>
  /\ reply = NoReply
  /\ link = "none"
  /\ tx = NoTx
  /\ blocked = {}

-----------------------------------------------------------------------------
(* plan(): between two awaits the client runs without interruption, so each *)
(* action takes the answer of one request and sends the next one.           *)

\* Client::send: on a closed connection the request fails at once.
Request(op, n) ==
  IF link = "up" THEN /\ queue' = Append(queue, [op |-> op, call |-> n])
                      /\ reply' = NoReply
                 ELSE /\ queue' = queue
                      /\ reply' = Plain("closed")

Send(op, n) == pc' = op /\ Request(op, n) /\ UNCHANGED <<link, tx, blocked>>

\* What tokio-postgres does when a transaction (or one being started) is
\* dropped: ROLLBACK is sent, nobody awaits it.
DropTransaction ==
  queue' = IF link = "up" THEN Append(queue, [op |-> "rollback", call |-> Call])
                          ELSE queue

Return(result) == pc' = "idle" /\ outcome' = result /\ reply' = NoReply

Connect ==
  /\ link = "none"
  /\ \/ link' = "up" /\ UNCHANGED outcome
     \/ outcome' = "Connection" /\ outcome = "none" /\ UNCHANGED link
  /\ UNCHANGED <<pc, configs, primary, plan, stats, queue, reply, tx, blocked>>

\* Mutant: the statistics of the previous call are kept.
StartPlanKeepingStats(config) ==
  /\ link # "none" /\ pc = "idle"
  /\ Call < MaxCalls
  /\ Send("begin", Call + 1)
  /\ configs' = Append(configs, config)
  /\ primary' = "none" /\ plan' = <<>> /\ stats' = stats
  /\ outcome' = "none"

StartPlan(config) ==
  /\ link # "none" /\ pc = "idle"
  /\ Call < MaxCalls
  /\ Send("begin", Call + 1)
  /\ configs' = Append(configs, config)
  /\ primary' = "none" /\ plan' = <<>> /\ stats' = <<>>
  /\ outcome' = "none"

Answered(op) == pc = op /\ reply # NoReply
Succeeded == reply.kind = "ok"

RollbackError(error) ==
  /\ primary' = error
  /\ Send("rollback", Call)

\* Mutant: a BEGIN that failed is reported like a failed SET LOCAL.
OnBeginMasked ==
  /\ Answered("begin")
  /\ IF Succeeded
       THEN Send("setup", Call) /\ UNCHANGED clientVars
       ELSE /\ DropTransaction
            /\ Return("Configuration")
            /\ UNCHANGED <<configs, primary, plan, stats, link, tx, blocked>>

OnBegin ==
  /\ Answered("begin")
  /\ IF Succeeded
       THEN Send("setup", Call) /\ UNCHANGED clientVars
       ELSE /\ DropTransaction
            /\ Return("Transaction")
            /\ UNCHANGED <<configs, primary, plan, stats, link, tx, blocked>>

\* load_relation_stats asks for the relations of the plan in preorder, once
\* each; when none is left plan() rolls back.
Read(s, relation) == \E i \in DOMAIN s : s[i].relation = relation
AllRead(p, s) == \A i \in DOMAIN p : Read(s, p[i])
NextStats(p, s) == Send(IF AllRead(p, s) THEN "rollback" ELSE "stats", Call)

\* Mutant: the nodes are visited without asking what has been seen.
FirstUnseen(i) == i \in DOMAIN plan /\ i = Len(stats) + 1

FirstUnread(i) == /\ i \in DOMAIN plan /\ ~Read(stats, plan[i])
                  /\ \A j \in 1..(i - 1) : Read(stats, plan[j])

\* Mutant: the answer to SET LOCAL is not looked at.
OnSetupUnchecked ==
  /\ Answered("setup")
  /\ Send("explain", Call)
  /\ UNCHANGED clientVars

OnSetup ==
  /\ Answered("setup")
  /\ IF Succeeded
       THEN Send("explain", Call) /\ UNCHANGED primary
       ELSE RollbackError("Configuration")
  /\ UNCHANGED <<configs, plan, stats, outcome>>

\* Mutant: an error returns at once, and BEGIN was sent by hand, so that no
\* Transaction is dropped.
OnExplainLeaving ==
  /\ Answered("explain")
  /\ IF reply.kind = "plan"
       THEN /\ plan' = reply.rels
            /\ NextStats(reply.rels, stats)
            /\ UNCHANGED <<primary, outcome>>
       ELSE /\ Return("Planning")
            /\ UNCHANGED <<plan, primary, queue, link, tx, blocked>>
  /\ UNCHANGED <<configs, stats>>

OnExplain ==
  /\ Answered("explain")
  /\ IF reply.kind = "plan"
       THEN /\ plan' = reply.rels
            /\ NextStats(reply.rels, stats)
            /\ UNCHANGED primary
       ELSE /\ RollbackError(CASE reply.kind \in Timeouts -> "Timeout"
                               [] reply.kind = "malformed" -> "InvalidPlan"
                               [] OTHER -> "Planning")
            /\ UNCHANGED plan
  /\ UNCHANGED <<configs, stats, outcome>>

\* Mutant: reltuples is taken as it is.
NonnegativeFiniteUnchecked(rows) == rows

\* reltuples -1 is not a usable estimate.
NonnegativeFinite(rows) == IF rows >= 0 THEN rows ELSE NoRows
RowsOf(r) == IF r.kind = "row" THEN NonnegativeFinite(r.rows) ELSE NoRows

OnStats ==
  /\ Answered("stats")
  /\ IF reply.kind \in {"row", "absent"}
       THEN /\ \E i \in DOMAIN plan :
                 /\ FirstUnread(i)
                 /\ stats' = Append(stats, [relation |-> plan[i],
                                            rows |-> RowsOf(reply)])
            /\ NextStats(plan, stats')
            /\ UNCHANGED primary
       ELSE /\ RollbackError(IF reply.kind \in Timeouts THEN "Timeout"
                                                        ELSE "Catalog")
            /\ UNCHANGED stats
  /\ UNCHANGED <<configs, plan, outcome>>

\* Mutant: the answer to ROLLBACK is not looked at.
OnRollbackUnchecked ==
  /\ Answered("rollback")
  /\ Return(IF primary = "none" THEN "Planned" ELSE primary)
  /\ UNCHANGED <<configs, primary, plan, stats, queue, link, tx, blocked>>

\* A failed rollback replaces the primary error.
OnRollback ==
  /\ Answered("rollback")
  /\ Return(IF ~Succeeded THEN "Rollback"
            ELSE IF primary = "none" THEN "Planned" ELSE primary)
  /\ UNCHANGED <<configs, primary, plan, stats, queue, link, tx, blocked>>

\* The future of plan() is dropped while it awaits.
Abandon ==
  /\ pc # "idle"
  /\ IF pc = "rollback" THEN UNCHANGED queue ELSE DropTransaction
  /\ Return("abandoned")
  /\ UNCHANGED <<configs, primary, plan, stats, link, tx, blocked>>

Client == OnBegin \/ OnSetup \/ OnExplain \/ OnStats \/ OnRollback

-----------------------------------------------------------------------------
(* The server (external): requests are served in order.  An error makes an  *)
(* open transaction refuse everything but ROLLBACK, which is a request like *)
(* the others: refused or cancelled, it leaves the transaction aborted.     *)

Live(req) == link = "up" /\ pc = req.op /\ req.call = Call
Waits == queue # <<>> /\ Head(queue).op \in blocked
Serving(ops) == queue # <<>> /\ Head(queue).op \in ops

Answer(r) ==
  /\ queue' = Tail(queue)
  /\ reply' = IF Live(Head(queue)) THEN r ELSE reply
  /\ UNCHANGED <<pc, link, blocked>>
  /\ UNCHANGED clientVars

Failing ==
  tx' = IF Head(queue).op = "rollback" /\ tx.state # "none"
          THEN Stranded(Head(queue).call)
        ELSE IF tx.state = "open" THEN [tx EXCEPT !.state = "failed"] ELSE tx

Serve(op, r, newTx) ==
  /\ Serving({op}) /\ ~Waits
  /\ IF tx.state \in {"failed", "stranded"} /\ op # "rollback"
       THEN Answer(Plain("other_error")) /\ UNCHANGED tx
       ELSE Answer(r) /\ tx' = newTx

ServeBegin ==
  Serve("begin", Plain("ok"),
        IF tx.state = "none" THEN Begun(Head(queue).call) ELSE tx)

\* Mutant: lock_timeout is not set.
ServeSetupStatementOnly ==
  LET config == configs[Head(queue).call] IN
  /\ Serving({"setup"})
  /\ IF config.statement <= MaxTimeout
       THEN Serve("setup", Plain("ok"),
                  IF tx.state = "none" THEN tx
                  ELSE [tx EXCEPT !.statement = config.statement])
       ELSE Answer(Plain("other_error")) /\ Failing

\* SET LOCAL outside a transaction has no effect; a timeout PostgreSQL cannot
\* represent is an error.
ServeSetup ==
  LET config == configs[Head(queue).call] IN
  /\ Serving({"setup"})
  /\ IF config.statement <= MaxTimeout /\ config.lock <= MaxTimeout
       THEN Serve("setup", Plain("ok"),
                  IF tx.state = "none" THEN tx
                  ELSE [tx EXCEPT !.statement = config.statement,
                                  !.lock = config.lock])
       ELSE Answer(Plain("other_error")) /\ Failing

ServeExplain ==
  \/ \E p \in Plans : Serve("explain", [kind |-> "plan", rels |-> p], tx)
  \/ Serve("explain", Plain("malformed"), tx)

ServeStats ==
  \/ \E n \in RowCounts : Serve("stats", [kind |-> "row", rows |-> n], tx)
  \/ Serve("stats", Plain("absent"), tx)
  \/ Serve("stats", Plain("malformed"), tx)

ServeRollback == Serve("rollback", Plain("ok"), NoTx)

ServerError(kind) == Answer(Plain(kind)) /\ Failing

ServerFails == Serving(Ops) /\ ~Waits /\ ServerError("other_error")

AdminCancel == Serving(Ops) /\ ServerError("query_canceled")

\* SET LOCAL lasts until the transaction aborts, so that ROLLBACK runs under
\* the timeout too when nothing failed before it.
StatementTimeout ==
  /\ Serving(LockOps \union {"rollback"})
  /\ tx.state = "open" /\ tx.statement # 0
  /\ ServerError("query_canceled")

LockTimeout ==
  /\ Waits /\ tx.lock # 0
  /\ ServerError("lock_not_available")

Server == \/ ServeBegin \/ ServeSetup \/ ServeExplain \/ ServeStats
          \/ ServeRollback \/ StatementTimeout \/ LockTimeout

-----------------------------------------------------------------------------
(* The connection and the other sessions (external).                        *)

\* Requests and the answer still in flight may be lost with the connection.
LinkDown ==
  /\ link = "up"
  /\ link' = "down"
  /\ \E n \in 0..Len(queue) : queue' = SubSeq(queue, 1, n)
  /\ reply' \in {reply, NoReply}
  /\ UNCHANGED <<pc, tx, blocked>> /\ UNCHANGED clientVars

SeesClosed ==
  /\ link = "down" /\ pc # "idle" /\ reply = NoReply
  /\ reply' = Plain("closed")
  /\ UNCHANGED <<pc, queue, link, tx, blocked>> /\ UNCHANGED clientVars

\* The backend notices that the client is gone when it next reads from it,
\* which it does not do while it waits for a lock.
ServerReaps ==
  /\ link = "down" /\ ~Waits
  /\ <<queue, tx>> # <<<<>>, NoTx>>
  /\ queue' = <<>> /\ tx' = NoTx
  /\ UNCHANGED <<pc, reply, link, blocked>> /\ UNCHANGED clientVars

OthersLock ==
  /\ \E op \in LockOps : blocked' \in {blocked \union {op}, blocked \ {op}}
  /\ UNCHANGED <<pc, queue, reply, link, tx>> /\ UNCHANGED clientVars

-----------------------------------------------------------------------------
Environment == \/ ServerFails \/ AdminCancel \/ LinkDown \/ OthersLock

Next == \/ Connect \/ \E config \in Configs : StartPlan(config)
        \/ Client \/ Abandon
        \/ Server \/ SeesClosed \/ ServerReaps \/ Environment

Spec == Init /\ [][Next]_vars

\* The runtime polls plan() when its reply is there, the server works on the
\* request at the head of its queue and enforces the timeouts set for it, and
\* a broken connection is noticed at both ends.  Nothing is assumed of the
\* sessions that hold locks, nor that a future is ever dropped.
Fairness == /\ WF_vars(Client) /\ WF_vars(Server)
            /\ WF_vars(SeesClosed) /\ WF_vars(ServerReaps)
FairSpec == Spec /\ Fairness
-----------------------------------------------------------------------------
Settled == {"Planned", "Configuration", "Timeout", "Planning", "InvalidPlan",
            "Catalog"}
Unsettled == {"Transaction", "Rollback", "abandoned"}
Results == Settled \union Unsettled \union {"none", "Connection"}
Errors == Settled \ {"Planned"}

Requests == [op : Ops, call : Nat]
Replies == [kind : Plains] \union [kind : {"plan"}, rels : Plans]
             \union [kind : {"row"}, rows : RowCounts]
Transactions == {NoTx} \union
  [state : {"open", "failed", "stranded"}, owner : Nat, readOnly : BOOLEAN,
   statement : Nat, lock : Nat]
RelationStats == [relation : Relations, rows : Nat \union {NoRows}]

\* Type invariant: the fields of the client, the session and the server.
TypeOK ==
  /\ pc \in Ops \union {"idle"}
  /\ configs \in Seq(Configs)
  /\ primary \in Errors \union {"none"}
  /\ plan \in Plans \union {<<>>}
  /\ stats \in Seq(RelationStats)
  /\ outcome \in Results
  /\ queue \in Seq(Requests)
  /\ reply \in Replies
  /\ link \in {"none", "up", "down"}
  /\ tx \in Transactions
  /\ blocked \subseteq LockOps

\* Safe Mode is in force for whatever the server works on: EXPLAIN and the
\* catalog reads of a call, dropped or not, run inside that call's own open
\* read-only transaction with that call's timeouts (planning.rs 72-111).
SafeModeInForce ==
  Serving(LockOps) =>
    LET config == configs[Head(queue).call] IN
    tx = [state |-> "open", owner |-> Head(queue).call, readOnly |-> TRUE,
          statement |-> config.statement, lock |-> config.lock]

\* BEGIN READ ONLY never meets an earlier call's open transaction, in which it
\* would only warn and keep the old settings, nor one that waits for its
\* ROLLBACK: it finds the session idle, or the aborted transaction of the call
\* just before it, whose ROLLBACK was refused, and fails (planning.rs 72-78,
\* 118-121, 219-228).
BeginFindsIdleSession ==
  Serving({"begin"}) => tx \in {NoTx, Stranded(Head(queue).call - 1)}

\* plan() returns a plan or a classified error only once its transaction has
\* ended and nothing it sent is still to be executed (planning.rs 118-123,
\* 219-228).
SettledOutcome ==
  pc = "idle" /\ outcome \in Settled => tx = NoTx /\ queue = <<>>

\* A planned statement carries one RelationStats for each relation of the plan
\* it was normalized to and for no other, in the order in which the relations
\* first occur, however often each does (planning.rs 127-190).
EvidenceComplete ==
  outcome = "Planned" =>
    /\ \A r \in Relations : Read(stats, r) <=> \E k \in DOMAIN plan : plan[k] = r
    /\ \A i, j \in DOMAIN stats : i < j =>
         \E k \in DOMAIN plan :
           /\ plan[k] = stats[i].relation
           /\ \A m \in 1..k : plan[m] # stats[j].relation

\* On a working connection a transaction no call is using is about to be
\* rolled back: dropping the future of plan() leaks none.  One whose ROLLBACK
\* the server refused outlives only the call that sent it: when a later call
\* has returned without ending it, another ROLLBACK is under way (planning.rs
\* 67-124, 219-228).
NoLeakedTransaction ==
  link = "up" /\ pc = "idle" /\ tx.state # "none" =>
    LET n == IF tx.state = "stranded" THEN Call ELSE tx.owner IN
    \/ tx = Stranded(Call)
    \/ \E i \in DOMAIN queue : queue[i] = [op |-> "rollback", call |-> n]

-----------------------------------------------------------------------------
Bounded(config) == config.statement # 0 \/ config.lock # 0
AllBounded == \A i \in DOMAIN configs : Bounded(configs[i])

\* plan() returns although another session holds its lock for ever, provided
\* no call on this session disabled both timeouts: a dropped call that did
\* would still block the queue for the calls after it.
CallReturns == (pc # "idle" /\ AllBounded) ~> pc = "idle"

\* SAFETY.md, section 6, of the configured timeouts: "They bound planning/lock
\* waits in the adapter" (docs/SAFETY.md 99), without the proviso above.
WaitsBounded == pc # "idle" ~> pc = "idle"

\* No transaction stays open: it ends, or the server refused the ROLLBACK it
\* was sent, also when the call is dropped or the connection breaks at any
\* point.
TransactionEnds ==
  (tx.state \in {"open", "failed"} /\ AllBounded)
    ~> tx.state \in {"none", "stranded"}

Contract == INSTANCE PlanningContract WITH
              busy <- pc # "idle", open <- tx.state # "none"

\* The planner implements the contract: every step of plan(), of the server and
\* of the connection is a step of PlanningContract or leaves its state alone.
ContractSafety == Contract!Spec
=============================================================================
