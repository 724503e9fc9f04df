----------------------------- MODULE VideoTask -----------------------------
(***************************************************************************)
(* Asynchronous video tasks and the money held for them.                   *)
(*                                                                         *)
(* A submit handler (controller/video.go, RelayVideoSubmit) reserves quota,*)
(* calls the upstream and inserts a task row.  Every server instance runs  *)
(* one polling goroutine (relay/task/poller.go) that fails overdue tasks,  *)
(* queries the upstream for the others and refunds or settles the charge   *)
(* (relay/task/billing.go).  All instances share one database; the status  *)
(* compare-and-swap of model/task.go is the only thing that keeps two of   *)
(* them from paying for one task twice.                                    *)
(*                                                                         *)
(* One action is one database statement or one upstream call, so that      *)
(* handlers, pollers, token deletions, deadlines and crashes interleave    *)
(* between any two of them.  A token lookup is merged with the user update *)
(* that follows it: the only event in between that could matter, deleting  *)
(* the token, has the same effect right after the update.                  *)
(***************************************************************************)
EXTENDS Integers, FiniteSets

CONSTANTS
  Nodes,             \* server instances, each with one polling goroutine
  Tasks,             \* submissions, each of which may become a task row
  Tokens, Users,     \* API tokens and the accounts that own them
  TokenOf,           \* the token a submission is made with
  OwnerOf,           \* the account a token belongs to
  Quotas,            \* prices ComputeQuota may return
  AdjustedQuotas,    \* prices AdjustBillingOnSubmit may return ({}: BaseBilling)
  FinalQuotas,       \* prices completion may return
  OpeningBalance,    \* wallet of every account at the start
  TimeoutScanLimit,  \* poller.go timeoutScanLimit
  PollBatchLimit,    \* poller.go pollBatchLimit
  MaxCrashes,        \* bound on instance crashes
  MaxDbErrors,       \* bound on failing database statements
  NoTask, NoNode

ASSUME VideoAssumption ==
  /\ IsFiniteSet(Tasks)
  /\ TokenOf \in [Tasks -> Tokens]
  /\ OwnerOf \in [Tokens -> Users]
  /\ Quotas \subseteq Nat /\ AdjustedQuotas \subseteq Nat /\ FinalQuotas \subseteq Nat
  /\ OpeningBalance \in Nat
  /\ TimeoutScanLimit \in Nat \ {0} /\ PollBatchLimit \in Nat \ {0}
  /\ MaxCrashes \in Nat /\ MaxDbErrors \in Nat
  /\ NoTask \notin Tasks /\ NoNode \notin Nodes

VARIABLES
  wallet,    \* users.quota
  live,      \* the token row still exists
  charge,    \* history: net amount the wallet has paid for a submission
  pc,        \* control location of a submit handler
  host,      \* the instance a submit handler runs on
  held,      \* the handler's local variable `charged`
  up,        \* the upstream's own state of the job
  row,       \* task row: status and quota columns
  id,        \* task row: primary key, in order of insertion
  overdue,   \* task row: submit_time is older than taskTimeout
  phase,     \* poller: inside scanTimeouts or inside pollUnfinished
  at,        \* poller: control location inside the phase
  cur,       \* poller: the task being worked on
  verdict,   \* poller: TaskInfo.Status of the last answer
  final,     \* poller: the settled price still to be recorded
  snap,      \* poller: rows as listed; NoRow when not on the list
  refundLog, \* total amount of refund log entries of a task
  crashes, dbErrors  \* counters behind MaxCrashes and MaxDbErrors

ledger   == <<wallet, live, charge>>
handlers == <<pc, host, held>>
rows     == <<row, id, overdue>>
pollers  == <<phase, at, cur, verdict, final, snap>>
faults   == <<crashes, dbErrors>>
vars     == <<ledger, handlers, up, rows, pollers, refundLog, faults>>

-----------------------------------------------------------------------------
(* Task rows. *)

NonTerminal == {"QUEUED", "IN_PROGRESS"}
TerminalStatuses == {"SUCCESS", "FAILURE"}
NoRow == [status |-> "ABSENT", quota |-> 0]
RowType == [status : {"ABSENT"} \cup NonTerminal \cup TerminalStatuses, quota : Nat]

IsTerminal(t) == row[t].status \in TerminalStatuses
Unfinished == {t \in Tasks : row[t].status \in NonTerminal}

DbMayFail == dbErrors < MaxDbErrors
DbFault == DbMayFail /\ dbErrors' = dbErrors + 1

\* The first `limit` rows of S by primary key.
Oldest(S, limit) == {t \in S : Cardinality({u \in S : id[u] < id[t]}) < limit}

Payer(t) == OwnerOf[TokenOf[t]]

-----------------------------------------------------------------------------
(* Deliberately wrong variants of definitions below, used only to check     *)
(* that each property is able to fail.                                      *)

CasMatchesAlways(t, from) == TRUE
NonTerminalGuardDropped(t) == TRUE
PreConsumeUnchecked(t, q) == q = 0 \/ live[TokenOf[t]]
HeldAfterAdjustStale(t, o, a) == held[t]
RefundThroughTokenOnly(n) ==
  IF live[TokenOf[cur[n]]] THEN snap[n][cur[n]].quota ELSE 0
SettleWholePrice(f, q) == f
NoOverdueTasks == {}
ParsedRaw(s) == s

-----------------------------------------------------------------------------
(* Quota ledger as the task code uses it. *)

\* model/token.go PostConsumeTokenQuota.  `moved` says whether the user's
\* wallet was changed, `result` what the caller is told.  A failing wallet
\* update is overwritten by the token update's result, so it reports success.
PostConsumeOutcomes(k) ==
  IF ~live[k]
  THEN {[moved |-> FALSE, result |-> "notfound", fault |-> 0]}
  ELSE {[moved |-> TRUE, result |-> "ok", fault |-> 0]}
       \cup IF DbMayFail
            THEN {[moved |-> FALSE, result |-> "error", fault |-> 1],
                  [moved |-> FALSE, result |-> "ok",    fault |-> 1],
                  [moved |-> TRUE,  result |-> "error", fault |-> 1]}
            ELSE {}

Debit(t, amount) ==
  /\ wallet' = [wallet EXCEPT ![Payer(t)] = @ - amount]
  /\ charge' = [charge EXCEPT ![t] = @ + amount]
  /\ UNCHANGED live

PostConsume(t, o, amount) ==
  /\ IF o.moved THEN Debit(t, amount) ELSE UNCHANGED ledger
  /\ dbErrors' = dbErrors + o.fault

\* model/token.go PreConsumeTokenQuota: the guard of its wallet statement.
PreConsumeAllowed(t, q) ==
  q = 0 \/ (live[TokenOf[t]] /\ wallet[Payer(t)] >= q)

-----------------------------------------------------------------------------
(* RelayVideoSubmit, one action per call that has an effect. *)

Submit(t) ==
  /\ pc[t] = "new"
  /\ \E n \in Nodes, q \in Quotas :
       /\ PreConsumeAllowed(t, q)
       /\ Debit(t, q)
       /\ held' = [held EXCEPT ![t] = q]
       /\ host' = [host EXCEPT ![t] = n]
  /\ pc' = [pc EXCEPT ![t] = "charged"]
  /\ UNCHANGED <<up, rows, pollers, refundLog, faults>>

\* The job is accepted and its id is returned.
UpstreamAccepts(t) ==
  /\ pc[t] = "charged"
  /\ up' = [up EXCEPT ![t] = "queued"]
  /\ pc' = [pc EXCEPT ![t] = "accepted"]
  /\ UNCHANGED <<ledger, host, held, rows, pollers, refundLog, faults>>

\* BuildRequestBody, DoRequest or DoResponse reports an error; after a lost
\* connection or an unreadable answer the upstream may have taken the job.
UpstreamErrors(t) ==
  /\ pc[t] = "charged"
  /\ \E s \in {"none", "queued"} : up' = [up EXCEPT ![t] = s]
  /\ pc' = [pc EXCEPT ![t] = "refund"]
  /\ UNCHANGED <<ledger, host, held, rows, pollers, refundLog, faults>>

HeldAfterAdjust(t, o, a) == IF o.result = "ok" THEN a ELSE held[t]

AdjustOnSubmit(t) ==
  /\ pc[t] = "accepted"
  /\ \/ UNCHANGED <<ledger, held, dbErrors>>
     \/ \E a \in AdjustedQuotas \ {held[t]}, o \in PostConsumeOutcomes(TokenOf[t]) :
          /\ PostConsume(t, o, a - held[t])
          /\ held' = [held EXCEPT ![t] = HeldAfterAdjust(t, o, a)]
  /\ pc' = [pc EXCEPT ![t] = "adjusted"]
  /\ UNCHANGED <<host, up, rows, pollers, refundLog, crashes>>

InsertTask(t) ==
  /\ pc[t] = "adjusted"
  /\ row' = [row EXCEPT ![t] = [status |-> "QUEUED", quota |-> held[t]]]
  /\ id' = [id EXCEPT ![t] = 1 + Cardinality({u \in Tasks : id[u] # 0})]
  /\ pc' = [pc EXCEPT ![t] = "inserted"]
  /\ UNCHANGED <<ledger, host, held, up, overdue, pollers, refundLog, faults>>

InsertTaskFails(t) ==
  /\ pc[t] = "adjusted"
  /\ DbFault
  /\ pc' = [pc EXCEPT ![t] = "refund"]
  /\ UNCHANGED <<ledger, host, held, up, rows, pollers, refundLog, crashes>>

\* The `refund` closure: whatever PostConsumeTokenQuota returns is only logged.
RefundSubmit(t) ==
  /\ pc[t] = "refund"
  /\ \E o \in PostConsumeOutcomes(TokenOf[t]) : PostConsume(t, o, -held[t])
  /\ pc' = [pc EXCEPT ![t] = "failed"]
  /\ UNCHANGED <<host, held, up, rows, pollers, refundLog, crashes>>

HandlerStep(t) ==
  \/ UpstreamAccepts(t) \/ UpstreamErrors(t) \/ AdjustOnSubmit(t)
  \/ InsertTask(t) \/ InsertTaskFails(t) \/ RefundSubmit(t)

-----------------------------------------------------------------------------
(* The polling goroutine of instance n. *)

Todo(n) == {t \in Tasks : snap[n][t].status # "ABSENT"}
Listed(S) == [t \in Tasks |-> IF t \in S THEN row[t] ELSE NoRow]

\* Task t is dealt with: go on with the loop of this phase.
Done(n, t) ==
  /\ snap' = [snap EXCEPT ![n][t] = NoRow]
  /\ at' = [at EXCEPT ![n] = "next"]
  /\ cur' = [cur EXCEPT ![n] = NoTask]
  /\ verdict' = [verdict EXCEPT ![n] = "QUEUED"]
  /\ final' = [final EXCEPT ![n] = 0]
  /\ UNCHANGED phase

\* model/task.go UpdateTaskStatus: WHERE id = ? AND status = ?.
CasMatches(t, from) == row[t].status = from

\* model/task.go UpdateTaskNonTerminal: WHERE status NOT IN terminal.
NonTerminalGuard(t) == row[t].status \in NonTerminal

SetStatus(t, s) == row' = [row EXCEPT ![t].status = s]

\* failTask, and the success branch of applyTaskInfo: only the winner of the
\* CAS goes on to the money, a loser or a failed statement drops the task.
MarkTerminal(n, t, s) ==
  \/ /\ CasMatches(t, snap[n][t].status)
     /\ SetStatus(t, s)
     /\ at' = [at EXCEPT ![n] = IF s = "SUCCESS" THEN "settle" ELSE "refund"]
     /\ cur' = [cur EXCEPT ![n] = t]
     /\ UNCHANGED <<phase, verdict, final, snap, dbErrors>>
  \/ ~CasMatches(t, snap[n][t].status) /\ Done(n, t) /\ UNCHANGED <<row, dbErrors>>
  \/ DbFault /\ Done(n, t) /\ UNCHANGED row

OverdueTasks == {t \in Unfinished : overdue[t]}

\* scanTimeouts: the query.  A failing query ends the scan with an empty list.
ListTimeouts(n) ==
  /\ phase[n] = "poll" /\ at[n] = "next" /\ Todo(n) = {}
  /\ \/ snap' = [snap EXCEPT ![n] = Listed(Oldest(OverdueTasks, TimeoutScanLimit))]
        /\ UNCHANGED dbErrors
     \/ UNCHANGED snap /\ DbFault
  /\ phase' = [phase EXCEPT ![n] = "scan"]
  /\ UNCHANGED <<ledger, handlers, up, rows, at, cur, verdict, final, refundLog, crashes>>

\* failTask for the next overdue task.
FailOverdue(n) ==
  /\ phase[n] = "scan" /\ at[n] = "next"
  /\ \E t \in Oldest(Todo(n), 1) : MarkTerminal(n, t, "FAILURE")
  /\ UNCHANGED <<ledger, handlers, up, id, overdue, refundLog, crashes>>

\* pollUnfinished: the query.
ListUnfinished(n) ==
  /\ phase[n] = "scan" /\ at[n] = "next" /\ Todo(n) = {}
  /\ \/ snap' = [snap EXCEPT ![n] = Listed(Oldest(Unfinished, PollBatchLimit))]
        /\ UNCHANGED dbErrors
     \/ UNCHANGED snap /\ DbFault
  /\ phase' = [phase EXCEPT ![n] = "poll"]
  /\ UNCHANGED <<ledger, handlers, up, rows, at, cur, verdict, final, refundLog, crashes>>

\* ParseTaskResult for the states in which it returns no error.
Parsed(s) ==
  CASE s = "queued"    -> "QUEUED"
    [] s = "running"   -> "IN_PROGRESS"
    [] s = "succeeded" -> "SUCCESS"
    [] s = "failed"    -> "FAILURE"

\* pollTask: a usable answer.  The groups are visited in map order, hence any t.
Fetch(n) ==
  /\ phase[n] = "poll" /\ at[n] = "next"
  /\ \E t \in Todo(n) :
       /\ verdict' = [verdict EXCEPT ![n] = Parsed(up[t])]
       /\ cur' = [cur EXCEPT ![n] = t]
  /\ at' = [at EXCEPT ![n] = "apply"]
  /\ UNCHANGED <<ledger, handlers, up, rows, phase, final, snap, refundLog, faults>>

\* No adaptor, a deleted channel, a network error, a non-200 answer, an
\* unparsable body: the task is left for a later round.
LeaveForNextRound(n) ==
  /\ phase[n] = "poll" /\ at[n] = "next"
  /\ \E t \in Todo(n) : Done(n, t)
  /\ UNCHANGED <<ledger, handlers, up, rows, refundLog, faults>>

\* pollOnceSafe: adaptor code panics and the rest of the round is dropped.
PanicRound(n) ==
  /\ phase[n] = "poll" /\ at[n] = "next" /\ Todo(n) # {}
  /\ snap' = [snap EXCEPT ![n] = [t \in Tasks |-> NoRow]]
  /\ UNCHANGED <<ledger, handlers, up, rows, phase, at, cur, verdict, final, refundLog, faults>>

\* applyTaskInfo, terminal answers.
ApplyTerminal(n) ==
  /\ at[n] = "apply" /\ verdict[n] \in TerminalStatuses
  /\ MarkTerminal(n, cur[n], verdict[n])
  /\ UNCHANGED <<ledger, handlers, up, id, overdue, refundLog, crashes>>

\* applyTaskInfo, default branch: refresh the status of a running task.
ApplyProgress(n) ==
  LET t == cur[n] IN
  /\ at[n] = "apply" /\ verdict[n] \in NonTerminal
  /\ \/ NonTerminalGuard(t) /\ SetStatus(t, verdict[n]) /\ UNCHANGED dbErrors
     \/ ~NonTerminalGuard(t) /\ UNCHANGED <<row, dbErrors>>
     \/ DbFault /\ UNCHANGED row
  /\ Done(n, cur[n])
  /\ UNCHANGED <<ledger, handlers, up, id, overdue, refundLog, crashes>>

\* What a refund returns: the quota column as it was listed.
RefundAmount(n) == snap[n][cur[n]].quota

\* RefundTask: through the token, or straight to the wallet once the token is
\* known to be gone; an ambiguous error is logged and left for an operator.
RefundTask(n) ==
  LET t == cur[n]
      q == RefundAmount(n)
      Logged == refundLog' = [refundLog EXCEPT ![t] = @ + q]
  IN
  /\ at[n] = "refund"
  /\ \/ q = 0 /\ UNCHANGED <<ledger, refundLog, dbErrors>>
     \/ /\ q > 0
        /\ \E o \in PostConsumeOutcomes(TokenOf[t]) :
             \/ o.result = "ok" /\ PostConsume(t, o, -q) /\ Logged
             \/ o.result = "error" /\ PostConsume(t, o, -q) /\ UNCHANGED refundLog
             \/ /\ o.result = "notfound"
                /\ \/ Debit(t, -q) /\ Logged /\ UNCHANGED dbErrors
                   \/ UNCHANGED <<ledger, refundLog>> /\ DbFault
  /\ Done(n, cur[n])
  /\ UNCHANGED <<handlers, up, rows, crashes>>

SettlementDelta(f, q) == f - q

\* SettleSuccess: charge or return the difference to the final price.
SettleSuccess(n) ==
  LET t == cur[n]
      q == snap[n][t].quota
  IN
  /\ at[n] = "settle"
  /\ \/ Done(n, cur[n]) /\ UNCHANGED <<ledger, refundLog, dbErrors>>
     \/ \E f \in FinalQuotas \ {q}, o \in PostConsumeOutcomes(TokenOf[t]) :
          /\ PostConsume(t, o, SettlementDelta(f, q))
          /\ \/ /\ o.result = "ok"
                /\ final' = [final EXCEPT ![n] = f]
                /\ at' = [at EXCEPT ![n] = "persist"]
                /\ refundLog' = [refundLog EXCEPT ![t] = @ + IF f < q THEN q - f ELSE 0]
                /\ UNCHANGED <<phase, cur, verdict, snap>>
             \/ o.result # "ok" /\ Done(n, cur[n]) /\ UNCHANGED refundLog
  /\ UNCHANGED <<handlers, up, rows, crashes>>

\* UpdateTaskQuota, the last statement of SettleSuccess.
PersistQuota(n) ==
  /\ at[n] = "persist"
  /\ \/ row' = [row EXCEPT ![cur[n]].quota = final[n]] /\ UNCHANGED dbErrors
     \/ UNCHANGED row /\ DbFault
  /\ Done(n, cur[n])
  /\ UNCHANGED <<ledger, handlers, up, id, overdue, refundLog, crashes>>

PollerStep(n) ==
  \/ ListTimeouts(n) \/ FailOverdue(n)
  \/ ListUnfinished(n) \/ Fetch(n) \/ LeaveForNextRound(n) \/ PanicRound(n)
  \/ ApplyTerminal(n) \/ ApplyProgress(n)
  \/ RefundTask(n) \/ SettleSuccess(n) \/ PersistQuota(n)

-----------------------------------------------------------------------------
(* The environment. *)

\* The upstream only moves a job forward.
UpstreamStep(t) ==
  /\ \/ up[t] = "queued" /\ up' = [up EXCEPT ![t] = "running"]
     \/ up[t] \in {"queued", "running"}
        /\ \E s \in {"succeeded", "failed"} : up' = [up EXCEPT ![t] = s]
  /\ UNCHANGED <<ledger, handlers, rows, pollers, refundLog, faults>>

PassDeadline(t) ==
  /\ row[t].status # "ABSENT" /\ ~overdue[t]
  /\ overdue' = [overdue EXCEPT ![t] = TRUE]
  /\ UNCHANGED <<ledger, handlers, up, row, id, pollers, refundLog, faults>>

\* model/token.go DeleteTokenById, by its owner at any time.
DeleteToken(k) ==
  /\ live[k]
  /\ live' = [live EXCEPT ![k] = FALSE]
  /\ UNCHANGED <<wallet, charge, handlers, up, rows, pollers, refundLog, faults>>

\* Instance n dies and restarts: what its handlers and its poller had in
\* memory is gone, the database is as it was.
Crash(n) ==
  /\ crashes < MaxCrashes
  /\ crashes' = crashes + 1
  /\ pc' = [t \in Tasks |->
              IF host[t] = n /\ pc[t] \in {"charged", "accepted", "adjusted", "refund"}
              THEN "crashed" ELSE pc[t]]
  /\ phase' = [phase EXCEPT ![n] = "poll"]
  /\ at' = [at EXCEPT ![n] = "next"]
  /\ cur' = [cur EXCEPT ![n] = NoTask]
  /\ snap' = [snap EXCEPT ![n] = [t \in Tasks |-> NoRow]]
  /\ verdict' = [verdict EXCEPT ![n] = "QUEUED"]
  /\ final' = [final EXCEPT ![n] = 0]
  /\ UNCHANGED <<ledger, host, held, up, rows, refundLog, dbErrors>>

Init ==
  /\ wallet = [u \in Users |-> OpeningBalance]
  /\ live = [k \in Tokens |-> TRUE]
  /\ charge = [t \in Tasks |-> 0]
  /\ pc = [t \in Tasks |-> "new"]
  /\ host = [t \in Tasks |-> NoNode]
  /\ held = [t \in Tasks |-> 0]
  /\ up = [t \in Tasks |-> "none"]
  /\ row = [t \in Tasks |-> NoRow]
  /\ id = [t \in Tasks |-> 0]
  /\ overdue = [t \in Tasks |-> FALSE]
  /\ phase = [n \in Nodes |-> "poll"]
  /\ at = [n \in Nodes |-> "next"]
  /\ cur = [n \in Nodes |-> NoTask]
  /\ verdict = [n \in Nodes |-> "QUEUED"]
  /\ final = [n \in Nodes |-> 0]
  /\ snap = [n \in Nodes |-> [t \in Tasks |-> NoRow]]
  /\ refundLog = [t \in Tasks |-> 0]
  /\ crashes = 0 /\ dbErrors = 0

Next ==
  \/ \E t \in Tasks : Submit(t) \/ HandlerStep(t) \/ UpstreamStep(t) \/ PassDeadline(t)
  \/ \E n \in Nodes : PollerStep(n) \/ Crash(n)
  \/ \E k \in Tokens : DeleteToken(k)

Spec == Init /\ [][Next]_vars

(* A started handler runs to its end unless its instance dies; every polling *)
(* goroutine keeps looping (poller.go StartPolling, each query has a 30s     *)
(* deadline); two hours pass.  Nothing is assumed of the upstream: fetches   *)
(* may fail and rounds may panic for ever.                                   *)
Fairness ==
  /\ \A t \in Tasks : WF_vars(HandlerStep(t)) /\ WF_vars(PassDeadline(t))
  /\ \A n \in Nodes : WF_vars(PollerStep(n))

FairSpec == Spec /\ Fairness

-----------------------------------------------------------------------------
(* Properties. *)

Locations == {"new", "charged", "accepted", "adjusted", "refund",
              "inserted", "failed", "crashed"}

\* Rows, charges and the pollers' local variables stay in the ranges the code's
\* columns and variables have: no row is half written, no phase is unknown.
TypeOK ==
  /\ wallet \in [Users -> Int] /\ live \in [Tokens -> BOOLEAN]
  /\ charge \in [Tasks -> Int] /\ held \in [Tasks -> Nat]
  /\ pc \in [Tasks -> Locations] /\ host \in [Tasks -> Nodes \cup {NoNode}]
  /\ up \in [Tasks -> {"none", "queued", "running", "succeeded", "failed"}]
  /\ row \in [Tasks -> RowType] /\ id \in [Tasks -> Nat]
  /\ overdue \in [Tasks -> BOOLEAN]
  /\ phase \in [Nodes -> {"scan", "poll"}]
  /\ at \in [Nodes -> {"next", "apply", "refund", "settle", "persist"}]
  /\ cur \in [Nodes -> Tasks \cup {NoTask}]
  /\ verdict \in [Nodes -> NonTerminal \cup TerminalStatuses]
  /\ final \in [Nodes -> Nat]
  /\ snap \in [Nodes -> [Tasks -> RowType]]
  /\ refundLog \in [Tasks -> Nat]
  /\ crashes \in Nat /\ dbErrors \in Nat

\* Poller n won the terminal transition of t and is not done with the money.
Winner(n, t) == cur[n] = t /\ at[n] \in {"refund", "settle", "persist"}
Contested(t) == \E n \in Nodes : Winner(n, t)

\* However many instances poll, a task has at most one winner, and only once
\* its row is terminal (task.go: "only the winner may touch money").
OneWinner ==
  \A t \in Tasks, n \in Nodes :
    Winner(n, t) => IsTerminal(t) /\ \A m \in Nodes : Winner(m, t) => m = n

\* No interleaving of handler, pollers and timeout scan pays a submission
\* back more than it was charged.
NeverOverRefunded == \A t \in Tasks : charge[t] >= 0

\* While a task runs, its quota column is exactly what the wallet has paid
\* for it (task.go: "the single source of truth for refunds").
RowQuotaIsCharge == \A t \in Unfinished : row[t].quota = charge[t]

\* Paid is what the wallet should have paid once the winner is done: nothing
\* for a failed task, the recorded price for a successful one.
Balanced(t) == charge[t] = IF row[t].status = "FAILURE" THEN 0 ELSE row[t].quota
Stranded == {t \in Tasks : IsTerminal(t) /\ ~Contested(t) /\ ~Balanced(t)}

\* Without faults a closed task is always balanced, whichever poller closed
\* it, whether by answer or by timeout, and whether or not its token still
\* exists.
ClosedTaskBalanced == Stranded = {}

\* Each crash and each failing statement leaves at most one closed task
\* unbalanced: a poller never has two terminal rows whose money is due.
StrandedBounded == Cardinality(Stranded) <= crashes + dbErrors

\* A reservation never overdraws a wallet (token.go PreConsumeTokenQuota's
\* guarded update): below zero there is a task that was repriced after its
\* reservation, on submission or by its settlement.
OnlyRepricingOverdraws ==
  \A u \in Users : wallet[u] < 0 =>
    \E t \in Tasks : Payer(t) = u /\ (charge[t] > held[t] \/ held[t] \in AdjustedQuotas)

\* Until something fails, the refund log entries of a closed task add up to
\* what came back to the wallet after the reservation (billing.go: RefundTask
\* "returns the full charged quota to the task owner and writes a refund log").
RefundsLogged ==
  crashes + dbErrors = 0 =>
    \A t \in Tasks : IsTerminal(t) /\ ~Contested(t) =>
      refundLog[t] = IF charge[t] < held[t] THEN held[t] - charge[t] ELSE 0

\* Only a repricing can overdraw an account, and a refund that was paid is in
\* the usage log.
RefundsAreSound == OnlyRepricingOverdraws /\ RefundsLogged

\* A terminal status is final: no slow writer takes it back (task.go,
\* UpdateTaskNonTerminal).
TerminalIsFinal ==
  [][\A t \in Tasks : IsTerminal(t) => row'[t].status = row[t].status]_vars

\* Every inserted task is resolved, even if the upstream never answers and
\* rounds keep panicking (poller.go: "eventually swept by the timeout scan").
TasksResolve == \A t \in Tasks : row[t].status # "ABSENT" ~> IsTerminal(t)

\* The owner of a failed task gets the money back, unless an instance died or
\* a statement failed.
FailuresRepaid ==
  \A t \in Tasks : row[t].status = "FAILURE" ~> charge[t] = 0 \/ crashes + dbErrors > 0
=============================================================================
