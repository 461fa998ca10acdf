------------------------ MODULE SafeModePlannerProofs ------------------------
(***************************************************************************)
(* The inductive invariant of SafeModePlanner and what follows from it,    *)
(* for all relations, plans, configurations and numbers of calls.          *)
(***************************************************************************)
EXTENDS SafeModePlanner, TLAPS

InForce(n) == [state |-> "open", owner |-> n, readOnly |-> TRUE,
               statement |-> configs[n].statement, lock |-> configs[n].lock]
Begin(n) == [op |-> "begin", call |-> n]
Rollback(n) == [op |-> "rollback", call |-> n]

\* The session as the ROLLBACK of call n leaves it, done or refused.
AfterRollback(n) == tx \in {NoTx, Stranded(n)}

\* Every request belongs to a call that was made; after the requests of a call
\* comes its ROLLBACK, after a ROLLBACK the BEGIN of the next call.
QueueShape ==
  /\ \A i \in DOMAIN queue : queue[i].call \in 1..Call
  /\ \A i \in 1..(Len(queue) - 1) :
       IF queue[i].op = "rollback" THEN queue[i + 1] = Begin(queue[i].call + 1)
       ELSE queue[i + 1] = Rollback(queue[i].call)

\* The transaction the request at the head of the queue meets.
HeadOK ==
  queue # <<>> =>
    /\ queue[1].op = "begin" => AfterRollback(queue[1].call - 1)
    /\ queue[1].op = "setup" => tx = Begun(queue[1].call)
    /\ queue[1].op \in LockOps => tx = InForce(queue[1].call)

\* The awaited request is the last one, and the only one of its call.
Pending ==
  link = "up" /\ pc # "idle" /\ reply = NoReply =>
    /\ queue # <<>>
    /\ queue[Len(queue)] = [op |-> pc, call |-> Call]
    /\ \A i \in 1..(Len(queue) - 1) : queue[i].call < Call
    /\ pc # "begin" => Len(queue) = 1

\* An answer comes after everything sent before was served.
AnswerOK ==
  /\ reply.kind = "closed" => link = "down"
  /\ reply.kind \notin {"none", "closed"} => queue = <<>>
  /\ link = "up" /\ pc = "begin" /\ reply # NoReply =>
       IF reply.kind = "ok" THEN tx = Begun(Call) ELSE AfterRollback(Call - 1)
  /\ link = "up" /\ reply.kind \in {"ok", "plan", "row", "absent"}
       /\ pc \in {"setup", "explain", "stats"} => tx = InForce(Call)
  /\ pc = "rollback" /\ reply.kind = "ok" => tx = NoTx
  /\ pc = "rollback" /\ reply.kind \notin {"none", "closed"} => AfterRollback(Call)

\* Outside plan() nothing is open, or its ROLLBACK is on the way or was refused.
IdleOK ==
  /\ pc = "idle" => reply = NoReply
  /\ link = "up" /\ pc = "idle" =>
       IF queue = <<>> THEN AfterRollback(Call) ELSE queue[Len(queue)] = Rollback(Call)
  /\ link = "none" => pc = "idle" /\ queue = <<>> /\ tx = NoTx
  /\ pc = "idle" /\ outcome \notin Unsettled => tx = NoTx /\ queue = <<>>
  /\ pc # "idle" => outcome = "none" /\ Call > 0

\* Whose transaction is open, or waits for its ROLLBACK.
OwnerOK ==
  link = "up" /\ tx.state \in {"open", "failed"} =>
    \/ \E i \in DOMAIN queue : queue[i] = Rollback(tx.owner)
    \/ pc # "idle" /\ tx.owner = Call

\* What has been read is a beginning of the plan, in its order; it is all of it
\* before plan() succeeds.
ReadSoFar ==
  \A a \in DOMAIN stats : \E k \in DOMAIN plan :
    plan[k] = stats[a].relation /\ \A m \in 1..k : Read(stats, plan[m])
Follows(p, s, i, j) ==
  \E k \in DOMAIN p : p[k] = s[i].relation /\ \A m \in 1..k : p[m] # s[j].relation
InOrder == \A i, j \in DOMAIN stats : i < j => Follows(plan, stats, i, j)
EvidenceOK ==
  /\ pc \in {"begin", "setup", "explain"} => plan = <<>> /\ stats = <<>>
  /\ ReadSoFar /\ InOrder
  /\ pc = "rollback" /\ primary = "none" => AllRead(plan, stats)
  /\ outcome = "Planned" => AllRead(plan, stats)

Protocol == /\ QueueShape /\ HeadOK /\ Pending /\ AnswerOK
            /\ IdleOK /\ OwnerOK

\* The inductive invariant.
IInv == TypeOK /\ Protocol /\ EvidenceOK

LEMMA InitIInv == Init => IInv
  BY PlansAssumption, ConfigsAssumption DEF Init, IInv, Protocol, TypeOK, QueueShape,
     HeadOK, Pending, AnswerOK, IdleOK, OwnerOK, EvidenceOK, NoTx, NoReply,
     Plain, Call, Results, Replies, Transactions, Plains, AllRead,
     ReadSoFar, InOrder, Follows, LockOps

LEMMA SendStep ==
  ASSUME IInv, pc # "idle", reply # NoReply,
         NEW op \in Ops \ {"begin"},
         link = "up" /\ op = "setup" => tx = Begun(Call),
         link = "up" /\ op \in LockOps => tx = InForce(Call),
         Send(op, Call), UNCHANGED <<configs, outcome>>
  PROVE  Protocol' /\ queue' \in Seq(Requests) /\ reply' \in Replies
<1> USE DEF IInv, Protocol
<1>0. link = "up" => queue = <<>>
  BY DEF AnswerOK, NoReply, Plain, TypeOK, Replies
<1>1. /\ pc' = op /\ pc' # "idle" /\ Call \in Nat /\ op \in Ops
      /\ link' = link /\ tx' = tx /\ configs' = configs /\ outcome' = outcome /\ Call' = Call
  BY DEF Send, TypeOK, Call, Ops
<1>2. CASE link = "up"
  <2>1. /\ queue' = <<[op |-> op, call |-> Call]>> /\ reply' = NoReply
    BY <1>0, <1>2 DEF Send, Request
  <2>2. /\ queue' # <<>> /\ Len(queue') = 1 /\ DOMAIN queue' = {1}
        /\ queue'[1] = [op |-> op, call |-> Call] /\ queue'[1].op = op
        /\ queue'[1].call = Call /\ reply'.kind = "none"
    BY <2>1 DEF NoReply, Plain
  <2>3. QueueShape'
    <3>1. Call \in 1..Call
      BY <1>1 DEF IdleOK
    <3> QED BY <3>1, <2>2, <1>1 DEF QueueShape
  <2>4. HeadOK'
    BY <2>2, <1>1, <1>2 DEF HeadOK, InForce, Begun, LockOps
  <2>5. Pending'
    BY <2>2, <1>1 DEF Pending
  <2>6. AnswerOK'
    BY <2>2, <2>1, <1>1 DEF AnswerOK
  <2>7. IdleOK'
    BY <1>1, <2>2 DEF IdleOK
  <2>8. OwnerOK'
    BY <1>1, <2>2, <1>0, <1>2 DEF OwnerOK
  <2>9. queue' \in Seq(Requests) /\ reply' \in Replies
    BY <2>1, <1>1 DEF Requests, Replies, NoReply, Plain, Plains
  <2> QED BY <2>3, <2>4, <2>5, <2>6, <2>7, <2>8, <2>9
<1>3. CASE link # "up"
  <2>1. queue' = queue /\ reply' = Plain("closed")
    BY <1>3 DEF Send, Request
  <2>2. reply' # NoReply /\ reply'.kind = "closed" /\ link = "down"
    BY <2>1, <1>3 DEF NoReply, Plain, IdleOK, TypeOK
  <2>3. QueueShape' /\ Pending'
    BY <2>1, <2>2, <1>1 DEF QueueShape, Pending
  <2>4. HeadOK'
    BY <2>1, <1>1 DEF HeadOK, InForce, AfterRollback
  <2>5. AnswerOK'
    BY <2>1, <2>2, <1>1 DEF AnswerOK
  <2>6. IdleOK' /\ OwnerOK'
    BY <2>2, <1>1 DEF IdleOK, OwnerOK
  <2>7. queue' \in Seq(Requests) /\ reply' \in Replies
    BY <2>1 DEF TypeOK, Replies, Plain, Plains
  <2> QED BY <2>3, <2>4, <2>5, <2>6, <2>7
<1> QED BY <1>2, <1>3

\* What the server does with the request at the head of its queue.
Effect(req, r) ==
  /\ r \in Replies /\ r.kind \notin {"none", "closed"}
  /\ req.op = "begin" => tx' = IF r.kind = "ok" THEN Begun(req.call) ELSE tx
  /\ req.op = "rollback" =>
       IF r.kind = "ok" THEN tx' = NoTx ELSE tx' \in {NoTx, Stranded(req.call)}
  /\ req.op \in {"setup", "explain", "stats"} =>
       IF r.kind \in {"ok", "plan", "row", "absent"} THEN tx' = InForce(req.call)
       ELSE tx' \in {tx, [tx EXCEPT !.state = "failed"]}

LEMMA AnswerStep ==
  ASSUME IInv, queue # <<>>, NEW r, Effect(Head(queue), r), Answer(r)
  PROVE  IInv'
<1> USE DEF IInv, Protocol
<1> DEFINE n == Len(queue)
<1>1. /\ pc' = pc /\ link' = link /\ blocked' = blocked /\ configs' = configs
      /\ primary' = primary /\ plan' = plan /\ stats' = stats
      /\ outcome' = outcome /\ Call' = Call /\ queue' = Tail(queue)
      /\ reply' = IF Live(queue[1]) THEN r ELSE reply
  BY DEF Answer, clientVars, Call
<1>2. /\ n \in Nat /\ n > 0 /\ queue \in Seq(Requests) /\ Head(queue) = queue[1]
      /\ queue' \in Seq(Requests) /\ Len(queue') = n - 1
      /\ DOMAIN queue = 1..n /\ DOMAIN queue' = 1..(n - 1)
      /\ \A i \in 1..(n - 1) : queue'[i] = queue[i + 1]
      /\ Call \in Nat
  BY <1>1 DEF TypeOK, Call
<1>3. queue[1] \in Requests /\ queue[1].call \in 1..Call /\ queue[1].call \in Nat
  BY <1>2 DEF QueueShape
<1>4. reply.kind \in {"none", "closed"}
  BY <1>2 DEF AnswerOK
<1>5. configs[queue[1].call] \in [statement : Nat, lock : Nat]
  BY <1>3, ConfigsAssumption DEF TypeOK, Call
<1>6. /\ queue[1].op = "begin" => tx \in {NoTx, Stranded(queue[1].call - 1)}
      /\ queue[1].op = "setup" => tx = Begun(queue[1].call)
      /\ queue[1].op \in {"explain", "stats"} => tx = InForce(queue[1].call)
  BY DEF HeadOK, LockOps, AfterRollback
<1>7. /\ tx' \in Transactions
      /\ tx'.state \in {"open", "failed"} =>
           tx'.owner = queue[1].call /\ queue[1].op # "rollback"
  <2>0. Effect(queue[1], r) /\ queue[1].op \in Ops
    BY <1>2, <1>3 DEF Requests
  <2>1. /\ NoTx \in Transactions /\ Begun(queue[1].call) \in Transactions
        /\ Begun(queue[1].call).owner = queue[1].call
        /\ NoTx.state = "none" /\ Begun(queue[1].call).state = "open"
    BY <1>3 DEF NoTx, Begun, Transactions
  <2>2. /\ InForce(queue[1].call) \in Transactions
        /\ InForce(queue[1].call).owner = queue[1].call
        /\ InForce(queue[1].call).state = "open"
    BY <1>3, <1>5 DEF InForce, Transactions
  <2>3. CASE queue[1].op = "begin" \/ queue[1].op = "rollback"
    <3>1. \A m \in Nat : Stranded(m) \in Transactions /\ Stranded(m).state = "stranded"
      BY DEF Stranded, Transactions
    <3>2. queue[1].call - 1 \in Nat
      BY <1>2, <1>3
    <3> QED BY <2>0, <2>1, <2>3, <3>1, <3>2, <1>3, <1>6 DEF Effect
  <2>4. CASE queue[1].op \in {"setup", "explain", "stats"}
    <3>1. tx \in Transactions /\ tx.owner = queue[1].call /\ tx # NoTx
      BY <2>4, <2>1, <2>2, <1>6
    <3>2. [tx EXCEPT !.state = "failed"] \in Transactions
            /\ [tx EXCEPT !.state = "failed"].owner = queue[1].call
      BY <3>1 DEF Transactions
    <3> QED BY <2>0, <2>2, <2>4, <3>1, <3>2 DEF Effect
  <2> QED BY <2>0, <2>3, <2>4 DEF Ops
<1>8. TypeOK'
  <2>1. reply' \in Replies
    BY <1>1 DEF Effect, TypeOK
  <2> QED BY <2>1, <1>1, <1>2, <1>7 DEF TypeOK
<1>9. EvidenceOK'
  BY <1>1 DEF EvidenceOK, AllRead, ReadSoFar, InOrder, Follows, Read
<1>10. CASE Live(queue[1])
  <2>1. /\ link = "up" /\ pc = queue[1].op /\ pc # "idle" /\ queue[1].call = Call
        /\ reply = NoReply /\ reply' = r
    BY <1>1, <1>3, <1>4, <1>10 DEF Live, Requests, Ops, AnswerOK, TypeOK, Replies, NoReply, Plain
  <2>2. n = 1 /\ queue' = <<>>
    BY <2>1, <1>2, <1>3 DEF Pending
  <2>3. r.kind \notin {"none", "closed"} /\ r # NoReply
    BY DEF Effect, NoReply, Plain
  <2>4. QueueShape' /\ HeadOK' /\ Pending'
    <3>1. DOMAIN queue' = {} /\ Len(queue') - 1 = -1 /\ reply' # NoReply
      BY <2>1, <2>2, <2>3, <1>2
    <3> QED BY <2>2, <3>1 DEF QueueShape, HeadOK, Pending
  <2>5. AnswerOK'
    BY <1>1, <1>2, <1>6, <2>1, <2>2, <2>3 DEF AnswerOK, Effect, InForce, AfterRollback
  <2>6. IdleOK'
    BY <1>1, <2>1 DEF IdleOK
  <2>7. OwnerOK'
    BY <1>1, <1>7, <2>1 DEF OwnerOK
  <2> QED BY <1>8, <1>9, <2>4, <2>5, <2>6, <2>7
<1>11. CASE ~Live(queue[1])
  <2>1. reply' = reply
    BY <1>1, <1>11
  <2>2. QueueShape'
    BY <1>1, <1>2 DEF QueueShape
  <2>3. n > 1 => /\ queue'[1] = queue[2]
                 /\ queue[1].op # "rollback" => queue[2] = Rollback(queue[1].call)
                 /\ queue[1].op = "rollback" => queue[2] = Begin(queue[1].call + 1)
    BY <1>2 DEF QueueShape
  <2>4. HeadOK'
    BY <1>1, <1>2, <2>3, <1>3 DEF HeadOK, Effect, Begin, Rollback, LockOps, AfterRollback
  <2>5. link = "up" /\ pc # "idle" => n > 1 /\ reply = NoReply
    BY <1>2, <1>4, <1>11 DEF Live, Pending, AnswerOK, TypeOK, Replies, NoReply, Plain
  <2>6. Pending'
    <3>1. SUFFICES ASSUME link = "up", pc # "idle"
          PROVE /\ queue' # <<>> /\ queue'[Len(queue')] = [op |-> pc, call |-> Call]
                /\ \A i \in 1..(Len(queue') - 1) : queue'[i].call < Call
                /\ pc # "begin" => Len(queue') = 1
      BY <1>1, <2>1 DEF Pending
    <3>2. n > 1 /\ queue[n] = [op |-> pc, call |-> Call]
            /\ \A i \in 1..(n - 1) : queue[i].call < Call
      BY <2>5, <3>1 DEF Pending
    <3>3. pc = "begin"
      BY <1>2, <2>5, <3>1 DEF Pending
    <3> QED BY <1>2, <3>2, <3>3
  <2>7. AnswerOK'
    BY <1>1, <1>4, <2>1, <2>5, <1>2 DEF AnswerOK, NoReply, Plain, InForce, AfterRollback
  <2>8. IdleOK'
    <3>1. link = "up" /\ pc = "idle" /\ n = 1 => queue[1] = Rollback(Call)
      BY <1>2 DEF IdleOK
    <3>2. queue[1] = Rollback(Call) => tx' \in {NoTx, Stranded(Call)}
      BY <1>2 DEF Effect, Rollback
    <3>3. n = 1 => queue' = <<>>
      BY <1>2
    <3>4. n > 1 => queue' # <<>> /\ queue'[Len(queue')] = queue[n]
      BY <1>2
    <3> QED BY <1>1, <1>2, <2>1, <3>1, <3>2, <3>3, <3>4 DEF IdleOK, AfterRollback
  <2>9. OwnerOK'
    <3>1. link = "up" /\ tx'.state \in {"open", "failed"} =>
            n > 1 /\ queue[1].op # "rollback" /\ tx'.owner = queue[1].call
      <4>1. link = "up" /\ n = 1 => queue[1].op = "rollback"
        BY <1>2, <2>5 DEF IdleOK, Rollback
      <4> QED BY <4>1, <1>2, <1>7
    <3>2. link = "up" /\ tx'.state \in {"open", "failed"} =>
            1 \in DOMAIN queue' /\ queue'[1] = Rollback(tx'.owner)
      BY <3>1, <1>2, <2>3
    <3> QED BY <3>2, <1>1 DEF OwnerOK, Rollback
  <2> QED BY <1>8, <1>9, <2>2, <2>4, <2>6, <2>7, <2>8, <2>9
<1> QED BY <1>10, <1>11

\* Dropping a transaction whose ROLLBACK was not sent yet.
LEMMA DropStep ==
  ASSUME IInv, pc \notin {"idle", "rollback"}, DropTransaction,
         NEW result \in Unsettled, Return(result),
         UNCHANGED <<configs, primary, plan, stats, link, tx, blocked>>
  PROVE  IInv'
<1> USE DEF IInv, Protocol
<1> DEFINE n == Len(queue)
<1>1. /\ pc' = "idle" /\ configs' = configs /\ primary' = primary /\ plan' = plan
      /\ stats' = stats /\ link' = link /\ tx' = tx /\ blocked' = blocked
      /\ Call' = Call /\ outcome' = result /\ reply' = NoReply /\ reply'.kind = "none"
      /\ queue' = IF link = "up" THEN Append(queue, Rollback(Call)) ELSE queue
  BY DEF Return, DropTransaction, Rollback, Call, NoReply, Plain
<1>2. Call \in Nat /\ Call \in 1..Call /\ n \in Nat /\ queue \in Seq(Requests)
        /\ Rollback(Call) \in Requests
  BY DEF TypeOK, Call, IdleOK, Rollback, Requests, Ops
<1>3. TypeOK'
  <2>1. queue' \in Seq(Requests)
    BY <1>1, <1>2
  <2>2. result \in Results /\ NoReply \in Replies
    BY DEF Results, Replies, NoReply, Plain, Plains
  <2> QED BY <1>1, <2>1, <2>2 DEF TypeOK
<1>4. Pending' /\ AnswerOK' /\ EvidenceOK'
  <2>1. result # "Planned"
    BY DEF Unsettled
  <2> QED BY <1>1, <2>1 DEF Pending, AnswerOK, EvidenceOK, AllRead,
     ReadSoFar, InOrder, Follows, Read, NoReply, Plain
<1>5. CASE link = "up"
  <2>1. /\ Len(queue') = n + 1 /\ DOMAIN queue = 1..n /\ DOMAIN queue' = 1..(n + 1)
        /\ queue'[n + 1] = Rollback(Call) /\ queue' # <<>>
        /\ \A i \in 1..n : queue'[i] = queue[i]
    BY <1>1, <1>2, <1>5
  <2>2. n > 0 => queue[n].op # "rollback" /\ queue[n].call = Call
    <3>1. reply # NoReply => queue = <<>>
      BY <1>5 DEF AnswerOK, TypeOK, Replies, NoReply, Plain
    <3> QED BY <3>1, <1>2, <1>5 DEF Pending
  <2>3. QueueShape'
    <3>1. \A i \in DOMAIN queue' : queue'[i].call \in 1..Call'
      BY <1>1, <1>2, <2>1 DEF QueueShape, Rollback
    <3>2. ASSUME NEW i \in 1..(Len(queue') - 1)
          PROVE IF queue'[i].op = "rollback"
                THEN queue'[i + 1] = Begin(queue'[i].call + 1)
                ELSE queue'[i + 1] = Rollback(queue'[i].call)
      <4>1. i \in 1..n
        BY <2>1, <1>2, <3>2
      <4>2. CASE i = n
        BY <4>1, <4>2, <2>1, <2>2
      <4>3. CASE i # n
        <5>1. i \in 1..(n - 1) /\ i + 1 \in 1..n
          BY <4>1, <4>3, <1>2
        <5>2. queue'[i] = queue[i] /\ queue'[i + 1] = queue[i + 1]
          BY <4>1, <5>1, <2>1
        <5> QED BY <5>1, <5>2 DEF QueueShape
      <4> QED BY <4>2, <4>3
    <3> QED BY <3>1, <3>2 DEF QueueShape, Rollback, Begin
  <2>4. HeadOK'
    <3>1. n > 0 => queue'[1] = queue[1]
      BY <2>1, <1>2
    <3>2. n = 0 => queue'[1].op = "rollback"
      BY <2>1 DEF Rollback
    <3> QED BY <1>1, <1>2, <3>1, <3>2 DEF HeadOK, InForce, Begun, LockOps, AfterRollback
  <2>5. IdleOK'
    BY <1>1, <2>1, <1>5 DEF IdleOK, Rollback
  <2>6. OwnerOK'
    <3>1. \A i \in DOMAIN queue : i \in DOMAIN queue' /\ queue'[i] = queue[i]
      BY <2>1, <1>2
    <3>2. n + 1 \in DOMAIN queue'
      BY <2>1, <1>2
    <3> QED BY <1>1, <2>1, <3>1, <3>2 DEF OwnerOK, Rollback
  <2> QED BY <1>3, <1>4, <2>3, <2>4, <2>5, <2>6
<1>6. CASE link # "up"
  BY <1>1, <1>3, <1>4, <1>6 DEF QueueShape, HeadOK, IdleOK, OwnerOK, InForce,
     Rollback, Begin, Begun, AfterRollback
<1> QED BY <1>5, <1>6

LEMMA ConnectStep == IInv /\ Connect => IInv'
<1> SUFFICES ASSUME IInv, Connect PROVE IInv'
  OBVIOUS
<1> USE DEF IInv, Protocol
<1>1. /\ pc = "idle" /\ queue = <<>> /\ tx = NoTx /\ reply = NoReply
      /\ outcome' \in {outcome, "Connection"} /\ link' \in {"up", "none"}
  BY DEF Connect, IdleOK, Unsettled, EvidenceOK
<1> QED
  BY <1>1 DEF Connect, TypeOK, QueueShape, HeadOK, Pending, AnswerOK, IdleOK, OwnerOK,
     EvidenceOK, Call, Results, NoTx, AllRead, ReadSoFar, InOrder, Follows, Read, InForce,
     Begun, AfterRollback

LEMMA StartPlanStep ==
  ASSUME IInv, NEW config \in Configs, StartPlan(config) PROVE IInv'
<1> USE DEF IInv, Protocol
<1> DEFINE n == Len(queue)  req == [op |-> "begin", call |-> Call + 1]
<1>1. /\ pc = "idle" /\ pc' = "begin" /\ configs' = Append(configs, config)
      /\ primary' = "none" /\ plan' = <<>> /\ stats' = <<>>
      /\ outcome' = "none" /\ link' = link /\ tx' = tx /\ blocked' = blocked
      /\ reply = NoReply /\ link # "none"
      /\ IF link = "up" THEN queue' = Append(queue, req) /\ reply' = NoReply
         ELSE queue' = queue /\ reply' = Plain("closed")
  BY DEF StartPlan, Send, Request, IdleOK
<1>2. /\ Call \in Nat /\ Call' = Call + 1 /\ n \in Nat /\ queue \in Seq(Requests)
      /\ configs' \in Seq(Configs) /\ req \in Requests
      /\ \A i \in 1..Call : configs'[i] = configs[i]
  BY <1>1 DEF TypeOK, Call, Requests, Ops
<1>3. TypeOK'
  <2>1. NoReply \in Replies /\ Plain("closed") \in Replies
    BY DEF Replies, NoReply, Plain, Plains
  <2>2. queue' \in Seq(Requests) /\ reply' \in Replies
    <3>1. CASE link = "up"
      <4>1. queue' = Append(queue, req) /\ reply' = NoReply
        BY <1>1, <3>1
      <4> QED BY <4>1, <1>2, <2>1
    <3>2. CASE link # "up"
      BY <1>1, <1>2, <2>1, <3>2
    <3> QED BY <3>1, <3>2
  <2> QED BY <1>1, <1>2, <2>2 DEF TypeOK, Results, Ops
<1>4. EvidenceOK'
  BY <1>1 DEF EvidenceOK, ReadSoFar, InOrder
<1>6. CASE link = "up"
  <2>1. /\ Len(queue') = n + 1 /\ DOMAIN queue = 1..n /\ DOMAIN queue' = 1..(n + 1)
        /\ queue'[n + 1] = req /\ queue' # <<>> /\ reply' = NoReply /\ reply'.kind = "none"
        /\ \A i \in 1..n : queue'[i] = queue[i]
    BY <1>1, <1>2, <1>6 DEF NoReply, Plain
  <2>2. (n = 0 /\ AfterRollback(Call)) \/ (n > 0 /\ queue[n] = Rollback(Call))
    <3>1. CASE queue = <<>>
      <4>1. AfterRollback(Call)
        BY <1>1, <1>6, <3>1 DEF IdleOK
      <4>2. n = 0
        BY <3>1
      <4> QED BY <4>1, <4>2
    <3>2. CASE queue # <<>>
      BY <1>1, <1>2, <1>6, <3>2 DEF IdleOK
    <3> QED BY <3>1, <3>2
  <2>3. \A i \in 1..n : queue[i].call \in 1..Call
    BY <2>1 DEF QueueShape
  <2>4. QueueShape'
    <3>1. \A i \in DOMAIN queue' : queue'[i].call \in 1..Call'
      BY <1>2, <2>1, <2>3
    <3>2. ASSUME NEW i \in 1..(Len(queue') - 1)
          PROVE IF queue'[i].op = "rollback"
                THEN queue'[i + 1] = Begin(queue'[i].call + 1)
                ELSE queue'[i + 1] = Rollback(queue'[i].call)
      <4>1. i \in 1..n
        BY <2>1, <1>2, <3>2
      <4>2. CASE i = n
        <5>1. queue'[i] = Rollback(Call) /\ queue'[i + 1] = Begin(Call + 1)
          BY <4>1, <4>2, <2>1, <2>2, <1>2 DEF Begin
        <5> QED BY <5>1 DEF Rollback
      <4>3. CASE i # n
        <5>1. i \in 1..(n - 1) /\ i + 1 \in 1..n
          BY <4>1, <4>3, <1>2
        <5>2. queue'[i] = queue[i] /\ queue'[i + 1] = queue[i + 1]
          BY <4>1, <5>1, <2>1
        <5> QED BY <5>1, <5>2 DEF QueueShape
      <4> QED BY <4>2, <4>3
    <3> QED BY <3>1, <3>2 DEF QueueShape, Rollback, Begin
  <2>5. HeadOK'
    <3>1. CASE n = 0
      <4>1. queue'[1].op = "begin" /\ queue'[1].call - 1 = Call
        BY <1>2, <2>1, <3>1
      <4>2. tx' \in {NoTx, Stranded(queue'[1].call - 1)}
        BY <1>1, <1>2, <2>2, <3>1, <4>1 DEF AfterRollback
      <4> QED BY <4>1, <4>2 DEF HeadOK, LockOps, AfterRollback
    <3>2. CASE n > 0
      <4>1. queue'[1] = queue[1] /\ configs'[queue[1].call] = configs[queue[1].call]
        BY <2>1, <2>3, <1>2, <3>2
      <4>2. queue # <<>>
        BY <1>2, <3>2
      <4> QED BY <1>1, <4>1, <4>2 DEF HeadOK, InForce, AfterRollback
    <3> QED BY <3>1, <3>2, <1>2
  <2>6. Pending'
    BY <1>1, <1>2, <2>1, <2>3 DEF Pending
  <2>7. AnswerOK' /\ IdleOK'
    BY <1>1, <1>2, <2>1 DEF AnswerOK, IdleOK
  <2>8. OwnerOK'
    <3>1. \A i \in DOMAIN queue : i \in DOMAIN queue' /\ queue'[i] = queue[i]
      BY <2>1, <1>2
    <3> QED BY <1>1, <1>6, <3>1 DEF OwnerOK, Rollback
  <2> QED BY <1>3, <1>4, <2>4, <2>5, <2>6, <2>7, <2>8
<1>7. CASE link # "up"
  <2>1. queue' = queue /\ reply' = Plain("closed") /\ link = "down"
    BY <1>1, <1>7 DEF TypeOK
  <2>2. reply'.kind = "closed" /\ reply' # NoReply
    BY <2>1 DEF Plain, NoReply
  <2>3. QueueShape'
    BY <1>1, <1>2, <2>1 DEF QueueShape, Rollback
  <2>4. HeadOK'
    <3>1. queue # <<>> => configs'[queue[1].call] = configs[queue[1].call]
      BY <1>2 DEF QueueShape
    <3> QED BY <1>1, <1>2, <2>1, <3>1 DEF HeadOK, InForce, AfterRollback
  <2>5. Pending' /\ AnswerOK' /\ IdleOK' /\ OwnerOK'
    BY <1>1, <1>2, <1>7, <2>1, <2>2 DEF Pending, AnswerOK, IdleOK, OwnerOK
  <2> QED BY <1>3, <1>4, <2>3, <2>4, <2>5
<1> QED BY <1>6, <1>7

\* Reading the first relation not read yet keeps the beginning a beginning.
LEMMA ReadNext ==
  ASSUME ReadSoFar, InOrder, stats \in Seq(RelationStats), plan \in Seq(Relations),
         NEW i \in DOMAIN plan, FirstUnread(i), NEW v,
         plan' = plan, stats' = Append(stats, [relation |-> plan[i], rows |-> v])
  PROVE  ReadSoFar' /\ InOrder'
<1> DEFINE n == Len(stats)
<1>1. /\ n \in Nat /\ DOMAIN stats = 1..n /\ DOMAIN stats' = 1..(n + 1)
      /\ \A a \in 1..n : stats'[a] = stats[a]
      /\ stats'[n + 1].relation = plan[i]
      /\ DOMAIN plan = 1..Len(plan) /\ Len(plan) \in Nat
  OBVIOUS
<1>2. Read(stats', plan[i]) /\ \A r : Read(stats, r) => Read(stats', r)
  BY <1>1 DEF Read
<1>3. ReadSoFar'
  <2>1. ASSUME NEW a \in 1..n
        PROVE \E k \in DOMAIN plan : /\ plan[k] = stats'[a].relation
                                     /\ \A m \in 1..k : Read(stats', plan[m])
    BY <1>1, <1>2, <2>1 DEF ReadSoFar
  <2>2. \A m \in 1..i : Read(stats', plan[m])
    BY <1>1, <1>2 DEF FirstUnread
  <2>3. ASSUME NEW a \in 1..(n + 1)
        PROVE \E k \in DOMAIN plan : /\ plan[k] = stats'[a].relation
                                     /\ \A m \in 1..k : Read(stats', plan[m])
    <3>1. a = n + 1 \/ a \in 1..n
      BY <1>1
    <3> QED BY <1>1, <2>1, <2>2, <3>1
  <2> QED BY <1>1, <2>3 DEF ReadSoFar
<1>4. InOrder'
  <2>1. ASSUME NEW a \in 1..n
        PROVE \E k \in DOMAIN plan : /\ plan[k] = stats[a].relation
                                     /\ \A m \in 1..k : plan[m] # plan[i]
    BY <1>1, <2>1 DEF ReadSoFar, FirstUnread
  <2>2. ASSUME NEW a \in 1..(n + 1), NEW b \in 1..(n + 1), a < b
        PROVE  Follows(plan, stats', a, b)
    <3>1. a \in 1..n /\ stats'[a] = stats[a]
      BY <1>1, <2>2
    <3>2. CASE b = n + 1
      <4>1. stats'[b].relation = plan[i]
        BY <1>1, <3>2
      <4> QED BY <2>1, <3>1, <4>1, Zenon DEF Follows
    <3>3. CASE b # n + 1
      <4>1. b \in 1..n /\ stats'[b] = stats[b]
        BY <1>1, <3>3
      <4>2. a \in DOMAIN stats /\ b \in DOMAIN stats
        BY <1>1, <3>1, <4>1
      <4>3. Follows(plan, stats, a, b)
        BY <2>2, <4>2, Zenon DEF InOrder
      <4> QED BY <3>1, <4>1, <4>3, Zenon DEF Follows
    <3> QED BY <3>2, <3>3
  <2>3. \A a, b \in DOMAIN stats' : a < b => Follows(plan', stats', a, b)
    BY <1>1, <2>2
  <2> QED BY <2>3, Zenon DEF InOrder
<1> QED BY <1>3, <1>4

LEMMA ClientStep == IInv /\ Client => IInv'
<1> SUFFICES ASSUME IInv, Client PROVE IInv'
  OBVIOUS
<1> USE DEF IInv
<1>1. CASE OnBegin
  <2>1. pc = "begin" /\ reply # NoReply
    BY <1>1 DEF OnBegin, Answered
  <2>2. CASE Succeeded
    <3>1. Send("setup", Call) /\ UNCHANGED clientVars
      BY <1>1, <2>2 DEF OnBegin
    <3>2. link = "up" => tx = Begun(Call)
      BY <2>1, <2>2 DEF Succeeded, Protocol, AnswerOK
    <3>3. Protocol' /\ queue' \in Seq(Requests) /\ reply' \in Replies
      BY <2>1, <3>1, <3>2, SendStep DEF clientVars, LockOps, Ops
    <3>4. TypeOK' /\ EvidenceOK'
      BY <2>1, <3>1, <3>3 DEF clientVars, Send, Ops, TypeOK, EvidenceOK, AllRead, ReadSoFar, InOrder, Follows, Read
    <3> QED BY <3>3, <3>4
  <2>3. CASE ~Succeeded
    BY <1>1, <2>1, <2>3, DropStep DEF OnBegin, Unsettled
  <2> QED BY <2>2, <2>3
<1>2. CASE OnSetup
  <2>1. pc = "setup" /\ reply # NoReply /\ UNCHANGED <<configs, plan, stats, outcome>>
    BY <1>2 DEF OnSetup, Answered
  <2>2. CASE Succeeded
    <3>1. Send("explain", Call) /\ primary' = primary
      BY <1>2, <2>2 DEF OnSetup
    <3>2. link = "up" => tx = InForce(Call)
      BY <2>1, <2>2 DEF Succeeded, Protocol, AnswerOK
    <3>3. Protocol' /\ queue' \in Seq(Requests) /\ reply' \in Replies
      BY <2>1, <3>1, <3>2, SendStep DEF LockOps, Ops
    <3>4. TypeOK' /\ EvidenceOK'
      BY <2>1, <3>1, <3>3 DEF Send, Ops, TypeOK, EvidenceOK, AllRead, ReadSoFar, InOrder, Follows, Read
    <3> QED BY <3>3, <3>4
  <2>3. CASE ~Succeeded
    <3>1. Send("rollback", Call) /\ primary' = "Configuration"
      BY <1>2, <2>3 DEF OnSetup, RollbackError
    <3>3. Protocol' /\ queue' \in Seq(Requests) /\ reply' \in Replies
      BY <2>1, <3>1, SendStep DEF LockOps, Ops
    <3>4. TypeOK' /\ EvidenceOK'
      BY <2>1, <3>1, <3>3 DEF Send, Ops, TypeOK, EvidenceOK, AllRead, ReadSoFar, InOrder, Follows, Read, Errors, Settled
    <3> QED BY <3>3, <3>4
  <2> QED BY <2>2, <2>3
<1>3. CASE OnExplain
  <2>1. /\ pc = "explain" /\ reply # NoReply /\ UNCHANGED <<configs, stats, outcome>>
        /\ plan = <<>> /\ stats = <<>> /\ outcome = "none"
    BY <1>3 DEF OnExplain, Answered, EvidenceOK, Protocol, IdleOK
  <2>2. CASE reply.kind = "plan"
    <3>1. /\ plan' = reply.rels /\ primary' = primary
          /\ Send(IF AllRead(reply.rels, stats) THEN "rollback" ELSE "stats", Call)
      BY <1>3, <2>2 DEF OnExplain, NextStats
    <3>2. link = "up" => tx = InForce(Call)
      BY <2>1, <2>2 DEF Protocol, AnswerOK
    <3>3. Protocol' /\ queue' \in Seq(Requests) /\ reply' \in Replies
      BY <2>1, <3>1, <3>2, SendStep DEF LockOps, Ops
    <3>4. reply.rels \in Plans
      BY <2>2 DEF TypeOK, Replies, Plains, Timeouts
    <3>5. pc' = IF AllRead(reply.rels, stats) THEN "rollback" ELSE "stats"
      BY <3>1 DEF Send
    <3>6. TypeOK'
      BY <2>1, <3>1, <3>3, <3>4, <3>5 DEF Send, Ops, TypeOK
    <3>7. EvidenceOK'
      BY <2>1, <3>1, <3>5 DEF EvidenceOK, AllRead, ReadSoFar, InOrder, Follows, Read
    <3> QED BY <3>3, <3>6, <3>7
  <2>3. CASE reply.kind # "plan"
    <3>1. /\ Send("rollback", Call) /\ plan' = plan
          /\ primary' \in {"Timeout", "InvalidPlan", "Planning"}
      BY <1>3, <2>3 DEF OnExplain, RollbackError
    <3>3. Protocol' /\ queue' \in Seq(Requests) /\ reply' \in Replies
      BY <2>1, <3>1, SendStep DEF LockOps, Ops
    <3>4. TypeOK' /\ EvidenceOK'
      BY <2>1, <3>1, <3>3 DEF Send, Ops, TypeOK, EvidenceOK, AllRead, ReadSoFar, InOrder, Follows, Read, Errors, Settled
    <3> QED BY <3>3, <3>4
  <2> QED BY <2>2, <2>3
<1>4. CASE OnStats
  <2>1. /\ pc = "stats" /\ reply # NoReply /\ UNCHANGED <<configs, plan, outcome>>
        /\ outcome = "none"
    BY <1>4 DEF OnStats, Answered, Protocol, IdleOK
  <2>2. CASE reply.kind \in {"row", "absent"}
    <3>1. PICK i \in DOMAIN plan :
            /\ FirstUnread(i)
            /\ stats' = Append(stats, [relation |-> plan[i], rows |-> RowsOf(reply)])
      BY <1>4, <2>2 DEF OnStats
    <3>2. /\ Send(IF AllRead(plan, stats') THEN "rollback" ELSE "stats", Call)
          /\ primary' = primary
      BY <1>4, <2>2 DEF OnStats, NextStats
    <3>3. link = "up" => tx = InForce(Call)
      BY <2>1, <2>2 DEF Protocol, AnswerOK
    <3>4. Protocol' /\ queue' \in Seq(Requests) /\ reply' \in Replies
      BY <2>1, <3>2, <3>3, SendStep DEF LockOps, Ops
    <3>5. RowsOf(reply) \in Nat \union {NoRows}
      <4>1. reply.kind = "row" => reply.rows \in Int
        BY RowCountsAssumption DEF TypeOK, Replies, Plains, Timeouts
      <4> QED BY <4>1 DEF RowsOf, NonnegativeFinite
    <3>6. plan \in Seq(Relations) /\ plan[i] \in Relations
      BY PlansAssumption DEF TypeOK
    <3>7. pc' = IF AllRead(plan, stats') THEN "rollback" ELSE "stats"
      BY <3>2 DEF Send
    <3>8. TypeOK'
      <4>1. [relation |-> plan[i], rows |-> RowsOf(reply)] \in RelationStats
        BY <3>5, <3>6 DEF RelationStats
      <4>2. stats' \in Seq(RelationStats)
        BY <3>1, <4>1 DEF TypeOK
      <4> QED BY <2>1, <3>2, <3>4, <3>7, <4>2 DEF Send, Ops, TypeOK
    <3>9. EvidenceOK'
      <4>1. ReadSoFar' /\ InOrder'
        BY <2>1, <3>1, <3>6, ReadNext DEF EvidenceOK, TypeOK
      <4> QED BY <2>1, <3>7, <4>1 DEF EvidenceOK
    <3> QED BY <3>4, <3>8, <3>9
  <2>3. CASE reply.kind \notin {"row", "absent"}
    <3>1. /\ Send("rollback", Call) /\ stats' = stats
          /\ primary' \in {"Timeout", "Catalog"}
      BY <1>4, <2>3 DEF OnStats, RollbackError
    <3>3. Protocol' /\ queue' \in Seq(Requests) /\ reply' \in Replies
      BY <2>1, <3>1, SendStep DEF LockOps, Ops
    <3>4. TypeOK' /\ EvidenceOK'
      BY <2>1, <3>1, <3>3 DEF Send, Ops, TypeOK, EvidenceOK, AllRead, ReadSoFar, InOrder, Follows, Read, Errors, Settled
    <3> QED BY <3>3, <3>4
  <2> QED BY <2>2, <2>3
<1>5. CASE OnRollback
  <2>1. /\ pc = "rollback" /\ reply # NoReply /\ pc' = "idle" /\ reply' = NoReply
        /\ UNCHANGED <<configs, primary, plan, stats, queue, link, tx, blocked>>
        /\ outcome' = IF ~Succeeded THEN "Rollback"
                       ELSE IF primary = "none" THEN "Planned" ELSE primary
    BY <1>5 DEF OnRollback, Answered, Return
  <2>2. outcome' \in Results /\ (outcome' = "Planned" => primary = "none")
    BY <2>1 DEF TypeOK, Errors, Results, Settled, Unsettled
  <2>3. TypeOK' /\ EvidenceOK'
    BY <2>1, <2>2 DEF TypeOK, EvidenceOK, AllRead, ReadSoFar, InOrder, Follows, Read, Replies, Plains, NoReply, Plain
  <2>4. CASE Succeeded
    <3>1. tx = NoTx /\ queue = <<>> /\ link # "none"
      BY <2>1, <2>4 DEF Protocol, AnswerOK, IdleOK, Succeeded
    <3> QED BY <2>1, <2>3, <3>1 DEF Protocol, QueueShape, HeadOK, Pending, AnswerOK,
            IdleOK, OwnerOK, NoTx, NoReply, Plain, AfterRollback
  <2>5. CASE ~Succeeded
    <3>1. outcome' \in Unsettled /\ link # "none"
      BY <2>1, <2>5 DEF Unsettled, Protocol, IdleOK
    <3>2. link = "up" => queue = <<>> /\ AfterRollback(Call)
      BY <2>1, <2>5 DEF Protocol, AnswerOK, Succeeded, TypeOK, Replies, NoReply, Plain
    <3>3. NoReply.kind = "none" /\ NoTx.state = "none" /\ Stranded(Call).state = "stranded"
      BY DEF NoReply, Plain, NoTx, Stranded
    <3>4. QueueShape' /\ HeadOK' /\ Pending' /\ AnswerOK'
      BY <2>1, <3>3 DEF Protocol, QueueShape, HeadOK, Pending, AnswerOK, InForce, Begun,
         Call, Begin, Rollback, AfterRollback
    <3>5. IdleOK'
      BY <2>1, <3>1, <3>2 DEF IdleOK, Call, AfterRollback
    <3>6. OwnerOK'
      BY <2>1, <3>2, <3>3 DEF OwnerOK, AfterRollback
    <3> QED BY <2>3, <3>4, <3>5, <3>6 DEF Protocol
  <2> QED BY <2>4, <2>5
<1> QED BY <1>1, <1>2, <1>3, <1>4, <1>5 DEF Client

LEMMA AbandonStep == IInv /\ Abandon => IInv'
<1> SUFFICES ASSUME IInv, Abandon PROVE IInv'
  OBVIOUS
<1> USE DEF IInv
<1>1. CASE pc # "rollback"
  BY <1>1, DropStep DEF Abandon, Unsettled
<1>2. CASE pc = "rollback"
  <2>1. /\ pc' = "idle" /\ reply' = NoReply /\ outcome' = "abandoned"
        /\ UNCHANGED <<configs, primary, plan, stats, queue, link, tx, blocked>>
    BY <1>2 DEF Abandon, Return
  <2>2. link = "up" => IF queue = <<>> THEN AfterRollback(Call)
                       ELSE queue[Len(queue)] = Rollback(Call)
    BY <1>2 DEF Protocol, Pending, AnswerOK, TypeOK, Replies, NoReply, Plain, Rollback
  <2>3. TypeOK' /\ EvidenceOK'
    BY <2>1 DEF TypeOK, EvidenceOK, AllRead, ReadSoFar, InOrder, Follows, Read, Results, Unsettled, Replies, Plains,
       NoReply, Plain
  <2>4. QueueShape' /\ HeadOK' /\ Pending' /\ AnswerOK'
    BY <2>1 DEF Protocol, QueueShape, HeadOK, Pending, AnswerOK, NoReply, Plain, Call,
       InForce, Begun, Begin, Rollback, AfterRollback
  <2>5. IdleOK'
    BY <2>1, <2>2, <1>2 DEF Protocol, IdleOK, Unsettled, Rollback, AfterRollback, Call
  <2>6. OwnerOK'
    <3>1. link = "up" /\ tx.state \in {"open", "failed"} => \E i \in DOMAIN queue : queue[i] = Rollback(tx.owner)
      <4>1. queue # <<>> => Len(queue) \in DOMAIN queue
        BY DEF TypeOK
      <4> QED BY <2>2, <4>1 DEF Protocol, OwnerOK, AfterRollback, NoTx, Stranded
    <3> QED BY <2>1, <3>1 DEF OwnerOK, Rollback
  <2> QED BY <2>3, <2>4, <2>5, <2>6 DEF Protocol
<1> QED BY <1>1, <1>2

LEMMA ServerStep == IInv /\ (Server \/ ServerFails \/ AdminCancel) => IInv'
<1> SUFFICES ASSUME IInv, Server \/ ServerFails \/ AdminCancel PROVE IInv'
  OBVIOUS
<1> DEFINE req == Head(queue)
<1>1. Server \/ ServerFails \/ AdminCancel => queue # <<>>
  BY DEF Server, ServerFails, AdminCancel, ServeBegin, ServeSetup, ServeExplain,
     ServeStats, ServeRollback, StatementTimeout, LockTimeout, Serve, Serving, Waits
<1>2. /\ req = queue[1] /\ req \in Requests /\ req.call \in 1..Call
      /\ configs[req.call] \in Configs
      /\ req.op = "begin" => tx \in {NoTx, Stranded(req.call - 1)}
      /\ req.op = "setup" => tx = Begun(req.call)
      /\ req.op \in LockOps => tx = InForce(req.call)
  BY <1>1 DEF IInv, Protocol, TypeOK, QueueShape, HeadOK, Call, AfterRollback
<1>3. /\ NoTx.state = "none" /\ Stranded(req.call - 1).state = "stranded"
      /\ req.op \notin {"begin", "rollback"} => tx.state = "open"
  BY <1>2 DEF Requests, Ops, LockOps, NoTx, Stranded, Begun, InForce
<1>4. ASSUME NEW r, Effect(req, r), Answer(r) PROVE IInv'
  BY <1>1, <1>4, AnswerStep
<1>5. ASSUME NEW kind \in {"other_error", "query_canceled", "lock_not_available"},
             ServerError(kind)
      PROVE  IInv'
  <2>1. Plain(kind) \in Replies /\ Plain(kind).kind = kind
    BY <1>5 DEF Plain, Replies, Plains, Timeouts
  <2>2. tx' = IF req.op = "rollback" /\ tx.state # "none" THEN Stranded(req.call)
              ELSE IF tx.state = "open" THEN [tx EXCEPT !.state = "failed"] ELSE tx
    BY <1>5 DEF ServerError, Failing
  <2>3. req.op = "begin" => tx' = tx
    BY <1>2, <1>3, <2>2
  <2>4. req.op = "rollback" => tx' \in {NoTx, Stranded(req.call)}
    BY <1>3, <2>2 DEF IInv, TypeOK, Transactions
  <2>5. Effect(req, Plain(kind))
    BY <1>5, <2>1, <2>2, <2>3, <2>4 DEF Effect
  <2> QED BY <1>4, <1>5, <2>5 DEF ServerError
<1>6. ASSUME NEW op \in Ops \ {"begin"}, NEW r \in Replies, NEW newTx,
             Serve(op, r, newTx)
      PROVE  req.op = op /\ Answer(r) /\ tx' = newTx
  BY <1>3, <1>6 DEF Serve, Serving
<1>7. CASE ServeBegin
  <2>1. \A kind \in {"ok", "other_error"} :
          Plain(kind) \in Replies /\ Plain(kind).kind = kind
    BY DEF Plain, Replies, Plains
  <2>2. req.op = "begin"
    BY <1>7 DEF ServeBegin, Serve, Serving
  <2>3. CASE tx = NoTx
    <3>1. Answer(Plain("ok")) /\ tx' = Begun(req.call)
      BY <1>3, <1>7, <2>3 DEF ServeBegin, Serve
    <3> QED BY <1>4, <2>1, <2>2, <3>1 DEF Effect
  <2>4. CASE tx = Stranded(req.call - 1)
    <3>1. Answer(Plain("other_error")) /\ tx' = tx
      BY <1>3, <1>7, <2>4 DEF ServeBegin, Serve
    <3> QED BY <1>4, <2>1, <2>2, <3>1 DEF Effect
  <2> QED BY <1>2, <2>2, <2>3, <2>4
<1>8. CASE ServeSetup
  <2>1. Plain("ok") \in Replies /\ Plain("ok").kind = "ok"
    BY DEF Plain, Replies, Plains
  <2>2. CASE configs[req.call].statement <= MaxTimeout /\ configs[req.call].lock <= MaxTimeout
    <3>1. /\ req.op = "setup" /\ Answer(Plain("ok"))
          /\ tx' = IF tx.state = "none" THEN tx
                   ELSE [tx EXCEPT !.statement = configs[req.call].statement,
                                   !.lock = configs[req.call].lock]
      BY <1>6, <1>8, <2>1, <2>2 DEF ServeSetup, Ops
    <3>2. tx' = InForce(req.call)
      <4>1. tx = Begun(req.call)
        BY <1>2, <3>1
      <4> QED BY <3>1, <4>1 DEF Begun, InForce
    <3> QED BY <1>4, <2>1, <3>1, <3>2 DEF Effect
  <2>3. CASE ~(configs[req.call].statement <= MaxTimeout /\ configs[req.call].lock <= MaxTimeout)
    <3>1. req.op = "setup" /\ ServerError("other_error")
      BY <1>8, <2>3 DEF ServeSetup, Serving, ServerError
    <3> QED BY <1>5, <3>1
  <2> QED BY <2>2, <2>3
<1>9. CASE ServeExplain \/ ServeStats
  <2>1. PICK op \in LockOps, r \in Replies :
          Serve(op, r, tx) /\ r.kind \in {"plan", "row", "absent", "malformed"}
    <3>1. \A p \in Plans : LET r == [kind |-> "plan", rels |-> p] IN
            r \in Replies /\ r.kind = "plan"
      BY DEF Replies
    <3>2. \A n \in RowCounts : LET r == [kind |-> "row", rows |-> n] IN
            r \in Replies /\ r.kind = "row"
      BY DEF Replies
    <3>3. \A kind \in {"malformed", "absent"} : Plain(kind) \in Replies /\ Plain(kind).kind = kind
      BY DEF Replies, Plains, Plain
    <3> QED BY <1>9, <3>1, <3>2, <3>3 DEF ServeExplain, ServeStats, LockOps
  <2>2. req.op \in LockOps /\ Answer(r) /\ tx' = tx
    BY <1>6, <2>1 DEF LockOps, Ops
  <2>3. Effect(req, r)
    BY <2>1, <2>2, <1>2 DEF Effect, LockOps
  <2> QED BY <1>4, <2>2, <2>3
<1>10. CASE ServeRollback
  <2>1. Plain("ok") \in Replies /\ Plain("ok").kind = "ok"
    BY DEF Plain, Replies, Plains
  <2>2. req.op = "rollback" /\ Answer(Plain("ok")) /\ tx' = NoTx
    BY <1>10 DEF ServeRollback, Serve, Serving
  <2> QED BY <1>4, <2>1, <2>2 DEF Effect
<1>11. CASE StatementTimeout \/ LockTimeout \/ ServerFails \/ AdminCancel
  BY <1>5, <1>11 DEF StatementTimeout, LockTimeout, ServerFails, AdminCancel
<1> QED BY <1>7, <1>8, <1>9, <1>10, <1>11 DEF Server

LEMMA ConnectionStep == IInv /\ (LinkDown \/ SeesClosed \/ ServerReaps) => IInv'
<1> SUFFICES ASSUME IInv, LinkDown \/ SeesClosed \/ ServerReaps PROVE IInv'
  OBVIOUS
<1> USE DEF IInv, Protocol
<1>1. /\ pc' = pc /\ configs' = configs /\ primary' = primary /\ plan' = plan
      /\ stats' = stats /\ outcome' = outcome /\ blocked' = blocked /\ Call' = Call
      /\ link' = "down"
  BY DEF LinkDown, SeesClosed, ServerReaps, clientVars, Call
<1>2. EvidenceOK'
  BY <1>1 DEF EvidenceOK, AllRead, ReadSoFar, InOrder, Follows, Read
<1>3. NoReply \in Replies /\ Plain("closed") \in Replies
        /\ NoReply.kind = "none" /\ Plain("closed").kind = "closed"
  BY DEF Replies, Plains, NoReply, Plain
<1>4. CASE LinkDown
  <2>1. PICK n \in 0..Len(queue) : queue' = SubSeq(queue, 1, n)
    BY <1>4 DEF LinkDown
  <2>2. /\ queue \in Seq(Requests) /\ queue' \in Seq(Requests) /\ Len(queue') = n
        /\ DOMAIN queue' = 1..n /\ DOMAIN queue = 1..Len(queue)
        /\ n \in Nat /\ Len(queue) \in Nat /\ n <= Len(queue)
        /\ \A i \in 1..n : queue'[i] = queue[i]
    BY <2>1 DEF TypeOK
  <2>3. tx' = tx /\ reply' \in {reply, NoReply} /\ link = "up"
    BY <1>4 DEF LinkDown
  <2>4. queue = <<>> => queue' = <<>>
    BY <2>2
  <2>5. QueueShape'
    <3>1. \A i \in 1..n : i \in 1..Len(queue)
      BY <2>2
    <3>2. \A i \in 1..(n - 1) : i \in 1..(Len(queue) - 1) /\ i \in 1..n /\ i + 1 \in 1..n
      BY <2>2
    <3> QED BY <1>1, <2>2, <3>1, <3>2 DEF QueueShape, Begin, Rollback
  <2>6. HeadOK'
    <3>1. queue' # <<>> => queue # <<>> /\ queue'[1] = queue[1]
      BY <2>2, <2>4
    <3> QED BY <1>1, <2>3, <3>1 DEF HeadOK, InForce, Begun, AfterRollback
  <2>7. TypeOK' /\ Pending' /\ OwnerOK'
    BY <1>1, <1>3, <2>2, <2>3 DEF TypeOK, Pending, OwnerOK
  <2>8. AnswerOK' /\ IdleOK'
    BY <1>1, <1>3, <2>3, <2>4 DEF AnswerOK, IdleOK, AfterRollback
  <2> QED BY <1>2, <2>5, <2>6, <2>7, <2>8
<1>5. CASE SeesClosed
  <2>1. queue' = queue /\ tx' = tx /\ reply' = Plain("closed") /\ link = "down" /\ pc # "idle"
    BY <1>5 DEF SeesClosed
  <2> QED BY <1>1, <1>2, <1>3, <2>1 DEF TypeOK, QueueShape, HeadOK, Pending, AnswerOK,
          IdleOK, OwnerOK, InForce, Begun, Begin, Rollback, AfterRollback
<1>6. CASE ServerReaps
  <2>1. queue' = <<>> /\ tx' = NoTx /\ reply' = reply /\ link = "down"
    BY <1>6 DEF ServerReaps
  <2>2. TypeOK'
    BY <1>1, <2>1 DEF TypeOK, NoTx, Transactions
  <2>3. QueueShape' /\ HeadOK'
    BY <2>1 DEF QueueShape, HeadOK
  <2>4. Pending' /\ AnswerOK' /\ IdleOK' /\ OwnerOK'
    BY <1>1, <2>1 DEF Pending, AnswerOK, IdleOK, OwnerOK, AfterRollback
  <2> QED BY <1>2, <2>2, <2>3, <2>4
<1> QED BY <1>4, <1>5, <1>6

\* IInv is inductive.
LEMMA IInvInductive == IInv /\ [Next]_vars => IInv'
<1> SUFFICES ASSUME IInv, [Next]_vars PROVE IInv'
  OBVIOUS
<1>1. ASSUME OthersLock \/ UNCHANGED vars PROVE IInv'
  <2>1. blocked' \subseteq LockOps
    BY <1>1 DEF OthersLock, LockOps, IInv, TypeOK, vars
  <2>2. /\ pc' = pc /\ queue' = queue /\ reply' = reply /\ link' = link /\ tx' = tx
        /\ configs' = configs /\ primary' = primary /\ plan' = plan
        /\ stats' = stats /\ outcome' = outcome
    BY <1>1 DEF OthersLock, vars, clientVars
  <2>3. TypeOK'
    BY <2>1, <2>2 DEF IInv, TypeOK
  <2>4. QueueShape'
    BY <2>2 DEF IInv, Protocol, QueueShape, Begin, Rollback, Call
  <2>5. HeadOK'
    BY <2>2 DEF IInv, Protocol, HeadOK, InForce, Begun, AfterRollback
  <2>6. Pending' /\ OwnerOK'
    BY <2>2 DEF IInv, Protocol, Pending, OwnerOK, Rollback, Call
  <2>7. AnswerOK'
    BY <2>2 DEF IInv, Protocol, AnswerOK, InForce, Begun, Call, AfterRollback
  <2>8. IdleOK'
    BY <2>2 DEF IInv, Protocol, IdleOK, Call, Rollback, AfterRollback
  <2>9. EvidenceOK'
    BY <2>2 DEF IInv, EvidenceOK, AllRead, ReadSoFar, InOrder, Follows, Read
  <2> QED BY <2>3, <2>4, <2>5, <2>6, <2>7, <2>8, <2>9 DEF IInv, Protocol
<1> QED
  BY <1>1, ConnectStep, StartPlanStep, ClientStep, AbandonStep, ServerStep,
     ConnectionStep DEF Next, Environment

\* The invariant holds in every state the planner, its session and the server
\* can reach.
THEOREM Invariance == Spec => []IInv
  BY InitIInv, IInvInductive, PTL DEF Spec

\* Every variable keeps its type.
THEOREM TypeCorrect == Spec => []TypeOK
<1>1. IInv => TypeOK
  BY DEF IInv
<1> QED BY <1>1, Invariance, PTL

\* Whatever EXPLAIN or catalog read the server executes runs in its own call's
\* read-only transaction under its own call's timeouts.
THEOREM SafeMode == Spec => []SafeModeInForce
<1>1. IInv => SafeModeInForce
  BY DEF IInv, Protocol, TypeOK, HeadOK, SafeModeInForce, Serving, InForce
<1> QED BY <1>1, Invariance, PTL

\* BEGIN never meets an earlier call's transaction, except the aborted one whose
\* ROLLBACK the server refused to the call just before, in which BEGIN fails.
THEOREM IdleSession == Spec => []BeginFindsIdleSession
<1>1. IInv => BeginFindsIdleSession
  BY DEF IInv, Protocol, TypeOK, HeadOK, AfterRollback, BeginFindsIdleSession,
     Serving
<1> QED BY <1>1, Invariance, PTL

\* A settled result means that the transaction has ended and nothing is queued.
THEOREM Settles == Spec => []SettledOutcome
<1>1. IInv => SettledOutcome
  BY DEF IInv, Protocol, IdleOK, SettledOutcome, Settled, Unsettled
<1> QED BY <1>1, Invariance, PTL

\* A planned statement carries evidence for exactly the plan's relations, once
\* each and in the plan's order.
THEOREM Evidence == Spec => []EvidenceComplete
<1>1. IInv => EvidenceComplete
  BY DEF IInv, EvidenceOK, AllRead, ReadSoFar, InOrder, Follows, Read, EvidenceComplete
<1> QED BY <1>1, Invariance, PTL

\* On a working connection no transaction outlives its call without a ROLLBACK
\* being on the way, unless the server refused the one this call sent.
THEOREM NoLeak == Spec => []NoLeakedTransaction
<1>1. ASSUME IInv PROVE NoLeakedTransaction
  <2>1. SUFFICES ASSUME link = "up", pc = "idle", tx.state # "none"
        PROVE /\ tx.state = "stranded" =>
                   tx = Stranded(Call) \/ \E i \in DOMAIN queue : queue[i] = Rollback(Call)
              /\ tx.state # "stranded" =>
                   \E i \in DOMAIN queue : queue[i] = Rollback(tx.owner)
    BY DEF NoLeakedTransaction, Rollback
  <2>2. CASE queue = <<>>
    BY <1>1, <2>1, <2>2 DEF IInv, Protocol, IdleOK, AfterRollback, NoTx, Stranded
  <2>3. CASE queue # <<>>
    <3>1. Len(queue) \in DOMAIN queue /\ queue[Len(queue)] = Rollback(Call)
      BY <1>1, <2>1, <2>3 DEF IInv, Protocol, IdleOK, TypeOK
    <3>2. tx.state \in {"open", "failed", "stranded"}
      BY <1>1, <2>1 DEF IInv, TypeOK, Transactions, NoTx
    <3> QED BY <1>1, <2>1, <3>1, <3>2 DEF IInv, Protocol, OwnerOK
  <2> QED BY <2>2, <2>3
<1> QED BY <1>1, Invariance, PTL

LEMMA ContractInit == Init => Contract!Init
  BY DEF Init, Contract!Init, NoTx

\* Every step of the planner, the server and the connection is a step of
\* PlanningContract or leaves its variables unchanged.
LEMMA ContractStep == IInv /\ [Next]_vars => [Contract!Next]_(Contract!vars)
<1>0. SUFFICES ASSUME IInv, [Next]_vars PROVE [Contract!Next]_(Contract!vars)
  OBVIOUS
<1> USE DEF Contract!vars, Settled, Unsettled
<1> DEFINE busy == pc # "idle"  open == tx.state # "none"
<1> USE DEF IInv, Protocol
<1>1. CASE Connect
  BY <1>0, <1>1 DEF Connect, IdleOK, Contract!Next, Contract!ConnectFails
<1>2. ASSUME NEW config \in Configs, StartPlan(config)
      PROVE  Contract!Start
  BY <1>2 DEF StartPlan, Send, Contract!Start
<1>3. CASE Client /\ pc' # "idle"
  BY <1>3 DEF Client, OnBegin, OnSetup, OnExplain, OnStats, OnRollback, NextStats,
     RollbackError, Send, Return, clientVars, Answered
<1>4. CASE OnBegin /\ pc' = "idle"
  BY <1>4 DEF OnBegin, Send, Return, Answered, Contract!Next, Contract!Return
<1>5. CASE OnRollback
  <2>1. outcome' \in Unsettled \/ (outcome' \in Settled /\ tx = NoTx)
    BY <1>0, <1>5 DEF OnRollback, Answered, Return, Succeeded, AnswerOK, TypeOK, Errors
  <2> QED BY <1>5, <2>1 DEF OnRollback, Answered, Return, Contract!Next, Contract!Return, NoTx
<1>6. CASE Abandon
  BY <1>6 DEF Abandon, Return, Contract!Next, Contract!Return
<1>7. CASE Server \/ ServerFails \/ AdminCancel
  <2>1. pc' = pc /\ outcome' = outcome
    BY <1>7 DEF Server, ServerFails, AdminCancel, ServeBegin, ServeSetup,
       ServeExplain, ServeStats, ServeRollback, StatementTimeout, LockTimeout,
       ServerError, Serve, Answer, clientVars
  <2>2. queue # <<>>
    BY <1>7 DEF Server, ServerFails, AdminCancel, ServeBegin, ServeSetup,
       ServeExplain, ServeStats, ServeRollback, StatementTimeout, LockTimeout,
       Serve, Serving, Waits
  <2>3. busy \/ outcome \in Unsettled
    BY <1>0, <2>2 DEF IdleOK
  <2> QED BY <2>1, <2>3 DEF Contract!Next, Contract!Open, Contract!Close
<1>8. CASE LinkDown \/ SeesClosed \/ OthersLock \/ UNCHANGED vars
  BY <1>8 DEF LinkDown, SeesClosed, OthersLock, vars, clientVars
<1>9. CASE ServerReaps
  BY <1>9 DEF ServerReaps, clientVars, NoTx, Contract!Next, Contract!Close
<1>10. CASE Client /\ pc' = "idle" /\ ~OnBegin /\ ~OnRollback
  BY <1>10 DEF Client, OnSetup, OnExplain, OnStats, NextStats, RollbackError, Send
<1> QED
  BY <1>0, <1>1, <1>2, <1>3, <1>4, <1>5, <1>6, <1>7, <1>8, <1>9, <1>10
  DEF Next, Client, Environment, Contract!Next

\* The planner implements its contract.
THEOREM Refinement == Spec => ContractSafety
  BY ContractInit, ContractStep, Invariance, PTL DEF Spec, ContractSafety, Contract!Spec
=============================================================================
