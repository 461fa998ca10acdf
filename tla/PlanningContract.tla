--------------------------- MODULE PlanningContract ---------------------------
(***************************************************************************)
(* What SafeModePlanner promises its caller about the transactions it      *)
(* opens, without saying how: a call that returns a settled result has     *)
(* already ended its transaction, and no transaction begins afterwards     *)
(* until the next call.  Only a call that was dropped, or whose BEGIN or   *)
(* ROLLBACK failed, may leave one behind.                                  *)
(***************************************************************************)
CONSTANTS Settled, Unsettled     \* two disjoint sets of results

VARIABLES
  busy,      \* a call of plan() is running
  outcome,   \* result of the last call, "none" while it runs
  open       \* the session has a transaction open on the server

vars == <<busy, outcome, open>>

Init == busy = FALSE /\ outcome = "none" /\ open = FALSE

ConnectFails ==
  /\ ~busy /\ outcome = "none"
  /\ outcome' = "Connection"
  /\ UNCHANGED <<busy, open>>

Start ==
  /\ ~busy
  /\ busy' = TRUE /\ outcome' = "none"
  /\ UNCHANGED open

Open ==
  /\ busy \/ outcome \in Unsettled
  /\ ~open /\ open' = TRUE
  /\ UNCHANGED <<busy, outcome>>

Close == open /\ open' = FALSE /\ UNCHANGED <<busy, outcome>>

Return ==
  /\ busy /\ busy' = FALSE
  /\ \/ outcome' \in Settled /\ ~open
     \/ outcome' \in Unsettled
  /\ UNCHANGED open

Next == ConnectFails \/ Start \/ Open \/ Close \/ Return

Spec == Init /\ [][Next]_vars
=============================================================================
