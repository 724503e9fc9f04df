-------------------------- MODULE VideoTaskProofs --------------------------
(***************************************************************************)
(* Proofs about VideoTask for any number of instances, tasks, accounts and *)
(* tokens and any prices and limits: its invariants, and that it           *)
(* implements TaskBilling, with crashes and failing statements.            *)
(***************************************************************************)
EXTENDS VideoTaskRefinement, FiniteSetTheorems, SumTheorems, TLAPS

-----------------------------------------------------------------------------
(* Helpers. *)

LEMMA OldestSubset == ASSUME NEW S, NEW limit PROVE Oldest(S, limit) \subseteq S
BY DEF Oldest

LEMMA NoRowType == NoRow \in RowType
BY DEF RowType, NoRow

\* Listing rows stores rows of the right shape.
LEMMA ListedType ==
  ASSUME NEW S, row \in [Tasks -> RowType]
  PROVE  Listed(S) \in [Tasks -> RowType]
BY NoRowType DEF Listed

LEMMA PayerType == ASSUME NEW t \in Tasks PROVE TokenOf[t] \in Tokens /\ Payer(t) \in Users
BY VideoAssumption DEF Payer

-----------------------------------------------------------------------------
(* Type correctness. *)

DoneTypes ==
  /\ phase' \in [Nodes -> {"scan", "poll"}]
  /\ at' \in [Nodes -> {"next", "apply", "refund", "settle", "persist"}]
  /\ cur' \in [Nodes -> Tasks \cup {NoTask}]
  /\ verdict' \in [Nodes -> NonTerminal \cup TerminalStatuses]
  /\ final' \in [Nodes -> Nat]
  /\ snap' \in [Nodes -> [Tasks -> RowType]]

LEMMA DoneType ==
  ASSUME TypeOK, NEW n \in Nodes, NEW t \in Tasks \cup {NoTask}, Done(n, t)
  PROVE  DoneTypes
<1>1. snap' \in [Nodes -> [Tasks -> RowType]]
  BY NoRowType DEF Done, TypeOK
<1>2. QED BY <1>1 DEF Done, TypeOK, DoneTypes, NonTerminal

LEMMA PostConsumeType ==
  ASSUME TypeOK, NEW t \in Tasks, NEW d \in Int,
         NEW o \in PostConsumeOutcomes(TokenOf[t]), PostConsume(t, o, d)
  PROVE  /\ wallet' \in [Users -> Int] /\ live' \in [Tokens -> BOOLEAN]
         /\ charge' \in [Tasks -> Int] /\ dbErrors' \in Nat
<1>1. o.fault \in Nat
  BY DEF PostConsumeOutcomes
<1>2. QED BY <1>1, PayerType DEF PostConsume, Debit, ledger, TypeOK

LEMMA SetStatusType ==
  ASSUME TypeOK, NEW t \in Tasks, NEW s \in NonTerminal \cup TerminalStatuses,
         SetStatus(t, s)
  PROVE  row' \in [Tasks -> RowType]
<1>0. row[t] \in RowType
  BY DEF TypeOK
<1>1. [row[t] EXCEPT !.status = s] \in RowType
  BY <1>0 DEF RowType
<1>2. row' = [row EXCEPT ![t] = [row[t] EXCEPT !.status = s]]
  BY DEF SetStatus
<1>3. QED BY <1>1, <1>2 DEF TypeOK

LEMMA MarkTerminalType ==
  ASSUME TypeOK, NEW n \in Nodes, NEW t \in Tasks, NEW s \in TerminalStatuses,
         MarkTerminal(n, t, s)
  PROVE  DoneTypes /\ row' \in [Tasks -> RowType] /\ dbErrors' \in Nat
<1>1. CASE Done(n, t) /\ UNCHANGED <<row, dbErrors>>
  BY <1>1, DoneType DEF TypeOK
<1>2. CASE DbFault /\ Done(n, t) /\ UNCHANGED row
  BY <1>2, DoneType DEF TypeOK, DbFault
<1>3. CASE SetStatus(t, s) /\ UNCHANGED <<phase, verdict, final, snap, dbErrors>>
           /\ at' = [at EXCEPT ![n] = IF s = "SUCCESS" THEN "settle" ELSE "refund"]
           /\ cur' = [cur EXCEPT ![n] = t]
  BY <1>3, SetStatusType DEF TypeOK, DoneTypes
<1>4. QED BY <1>1, <1>2, <1>3 DEF MarkTerminal

LEMMA TypeInit == Init => TypeOK
BY VideoAssumption, NoRowType DEF Init, TypeOK, Locations, NonTerminal

\* RelayVideoSubmit keeps the types.
LEMMA TypeHandler ==
  ASSUME TypeOK, NEW t \in Tasks, Submit(t) \/ HandlerStep(t)
  PROVE  TypeOK'
<1>1. CASE Submit(t)
  <2>1. PICK n \in Nodes, q \in Quotas :
          /\ Debit(t, q) /\ held' = [held EXCEPT ![t] = q]
          /\ host' = [host EXCEPT ![t] = n]
    BY <1>1 DEF Submit
  <2>2. q \in Nat
    BY VideoAssumption
  <2>3. wallet' \in [Users -> Int] /\ live' \in [Tokens -> BOOLEAN] /\ charge' \in [Tasks -> Int]
    BY <2>1, <2>2, PayerType DEF Debit, TypeOK
  <2>4. QED
    BY <1>1, <2>1, <2>2, <2>3
       DEF Submit, TypeOK, Locations, rows, pollers, faults
<1>2. CASE UpstreamAccepts(t) \/ UpstreamErrors(t)
  <2>1. up' \in [Tasks -> {"none", "queued", "running", "succeeded", "failed"}]
    BY <1>2 DEF UpstreamAccepts, UpstreamErrors, TypeOK
  <2>2. pc' \in [Tasks -> Locations]
    BY <1>2 DEF UpstreamAccepts, UpstreamErrors, TypeOK, Locations
  <2>3. UNCHANGED <<ledger, host, held, rows, pollers, refundLog, faults>>
    BY <1>2 DEF UpstreamAccepts, UpstreamErrors
  <2>4. QED BY <2>1, <2>2, <2>3 DEF TypeOK, ledger, rows, pollers, faults
<1>3. CASE AdjustOnSubmit(t)
  <2>1. /\ wallet' \in [Users -> Int] /\ live' \in [Tokens -> BOOLEAN]
        /\ charge' \in [Tasks -> Int] /\ dbErrors' \in Nat /\ held' \in [Tasks -> Nat]
    <3>1. CASE UNCHANGED <<ledger, held, dbErrors>>
      BY <3>1 DEF TypeOK, ledger
    <3>2. CASE \E a \in AdjustedQuotas \ {held[t]}, o \in PostConsumeOutcomes(TokenOf[t]) :
                 /\ PostConsume(t, o, a - held[t])
                 /\ held' = [held EXCEPT ![t] = HeldAfterAdjust(t, o, a)]
      <4>1. PICK a \in AdjustedQuotas, o \in PostConsumeOutcomes(TokenOf[t]) :
              /\ PostConsume(t, o, a - held[t])
              /\ held' = [held EXCEPT ![t] = HeldAfterAdjust(t, o, a)]
        BY <3>2
      <4>2. a \in Nat /\ held[t] \in Nat
        BY VideoAssumption DEF TypeOK
      <4>3. held' \in [Tasks -> Nat]
        BY <4>1, <4>2 DEF HeldAfterAdjust, TypeOK
      <4>4. QED
        BY <4>1, <4>2, <4>3, PostConsumeType
    <3>3. QED BY <1>3, <3>1, <3>2 DEF AdjustOnSubmit
  <2>2. QED BY <1>3, <2>1 DEF AdjustOnSubmit, TypeOK, Locations, rows, pollers
<1>4. CASE InsertTask(t)
  <2>1. [status |-> "QUEUED", quota |-> held[t]] \in RowType
    BY DEF RowType, NonTerminal, TypeOK
  <2>2. Cardinality({u \in Tasks : id[u] # 0}) \in Nat
    BY VideoAssumption, FS_Subset, FS_CardinalityType
  <2>3. QED
    BY <1>4, <2>1, <2>2
       DEF InsertTask, TypeOK, Locations, ledger, pollers, faults
<1>5. CASE InsertTaskFails(t)
  BY <1>5 DEF InsertTaskFails, DbFault, TypeOK, Locations, ledger, rows, pollers
<1>6. CASE RefundSubmit(t)
  <2>1. -held[t] \in Int
    BY DEF TypeOK
  <2>2. QED
    BY <1>6, <2>1, PostConsumeType DEF RefundSubmit, TypeOK, Locations, rows, pollers
<1>7. QED BY <1>1, <1>2, <1>3, <1>4, <1>5, <1>6 DEF HandlerStep

\* The polling goroutine keeps the types.
LEMMA TypePoller ==
  ASSUME TypeOK, NEW n \in Nodes, PollerStep(n),
         \A t \in Tasks : snap[n][t].status # "ABSENT" => up[t] # "none",
         at[n] # "next" => cur[n] \in Tasks
  PROVE  TypeOK'
<1> USE DEF rows, ledger, handlers
<1>1. CASE ListTimeouts(n)
  <2>1. Listed(Oldest(OverdueTasks, TimeoutScanLimit)) \in [Tasks -> RowType]
    BY ListedType DEF TypeOK
  <2>2. snap' \in [Nodes -> [Tasks -> RowType]]
    BY <1>1, <2>1 DEF ListTimeouts, TypeOK
  <2>3. dbErrors' \in Nat
    BY <1>1 DEF ListTimeouts, DbFault, TypeOK
  <2>4. QED BY <1>1, <2>2, <2>3 DEF ListTimeouts, TypeOK
<1>2. CASE FailOverdue(n)
  <2>1. PICK t \in Tasks : MarkTerminal(n, t, "FAILURE")
    BY <1>2 DEF FailOverdue, Oldest, Todo
  <2>2. QED
    BY <1>2, <2>1, MarkTerminalType DEF FailOverdue, TypeOK, DoneTypes, TerminalStatuses
<1>3. CASE ListUnfinished(n)
  <2>1. Listed(Oldest(Unfinished, PollBatchLimit)) \in [Tasks -> RowType]
    BY ListedType DEF TypeOK
  <2>2. snap' \in [Nodes -> [Tasks -> RowType]]
    BY <1>3, <2>1 DEF ListUnfinished, TypeOK
  <2>3. dbErrors' \in Nat
    BY <1>3 DEF ListUnfinished, DbFault, TypeOK
  <2>4. QED BY <1>3, <2>2, <2>3 DEF ListUnfinished, TypeOK
<1>4. CASE Fetch(n)
  <2>1. PICK t \in Todo(n) : verdict' = [verdict EXCEPT ![n] = Parsed(up[t])]
                             /\ cur' = [cur EXCEPT ![n] = t]
    BY <1>4 DEF Fetch
  <2>2. t \in Tasks /\ up[t] \in {"queued", "running", "succeeded", "failed"}
    BY DEF Todo, TypeOK
  <2>3. Parsed(up[t]) \in NonTerminal \cup TerminalStatuses
    BY <2>2 DEF Parsed, NonTerminal, TerminalStatuses
  <2>4. QED BY <1>4, <2>1, <2>2, <2>3 DEF Fetch, TypeOK, faults
<1>5. CASE LeaveForNextRound(n)
  <2>1. PICK t \in Tasks : Done(n, t)
    BY <1>5 DEF LeaveForNextRound, Todo
  <2>2. QED BY <1>5, <2>1, DoneType DEF LeaveForNextRound, DoneTypes, TypeOK, faults
<1>6. CASE PanicRound(n)
  BY <1>6, NoRowType DEF PanicRound, TypeOK, faults
<1>7. CASE ApplyTerminal(n)
  BY <1>7, MarkTerminalType DEF ApplyTerminal, DoneTypes, TypeOK
<1>8. CASE ApplyProgress(n)
  <2>1. row' \in [Tasks -> RowType] /\ dbErrors' \in Nat
    BY <1>8, SetStatusType DEF ApplyProgress, DbFault, TypeOK
  <2>2. DoneTypes
    BY <1>8, DoneType DEF ApplyProgress
  <2>3. QED BY <1>8, <2>1, <2>2 DEF ApplyProgress, DoneTypes, TypeOK
<1>9. CASE RefundTask(n)
  <2>1. cur[n] \in Tasks /\ RefundAmount(n) \in Nat
    BY <1>9 DEF RefundTask, RefundAmount, TypeOK, RowType
  <2>2. DoneTypes
    BY <1>9, DoneType, <2>1 DEF RefundTask
  <2>3. refundLog' \in [Tasks -> Nat]
    BY <1>9, <2>1 DEF RefundTask, TypeOK
  <2>4. /\ wallet' \in [Users -> Int] /\ live' \in [Tokens -> BOOLEAN]
        /\ charge' \in [Tasks -> Int] /\ dbErrors' \in Nat
    <3>0. -RefundAmount(n) \in Int
      BY <2>1
    <3>1. CASE \E o \in PostConsumeOutcomes(TokenOf[cur[n]]) :
                 PostConsume(cur[n], o, -RefundAmount(n))
      BY <3>0, <3>1, <2>1, PostConsumeType
    <3>2. CASE Debit(cur[n], -RefundAmount(n)) /\ UNCHANGED dbErrors
      BY <3>0, <3>2, <2>1, PayerType DEF Debit, TypeOK
    <3>3. CASE UNCHANGED ledger /\ (UNCHANGED dbErrors \/ DbFault)
      BY <3>3 DEF TypeOK, DbFault
    <3>4. QED BY <1>9, <3>1, <3>2, <3>3 DEF RefundTask
  <2>5. QED BY <1>9, <2>2, <2>3, <2>4 DEF RefundTask, DoneTypes, TypeOK
<1>10. CASE SettleSuccess(n)
  <2> DEFINE q == snap[n][cur[n]].quota
  <2>1. cur[n] \in Tasks /\ q \in Nat
    BY <1>10 DEF SettleSuccess, TypeOK, RowType
  <2>2. CASE Done(n, cur[n]) /\ UNCHANGED <<ledger, refundLog, dbErrors>>
    <3>1. DoneTypes
      BY <2>2, DoneType, <2>1
    <3>2. QED BY <1>10, <2>2, <3>1 DEF SettleSuccess, DoneTypes, TypeOK
  <2>3. CASE \E f \in FinalQuotas \ {q}, o \in PostConsumeOutcomes(TokenOf[cur[n]]) :
          /\ PostConsume(cur[n], o, SettlementDelta(f, q))
          /\ \/ /\ o.result = "ok"
                /\ final' = [final EXCEPT ![n] = f]
                /\ at' = [at EXCEPT ![n] = "persist"]
                /\ refundLog' = [refundLog EXCEPT ![cur[n]] = @ + IF f < q THEN q - f ELSE 0]
                /\ UNCHANGED <<phase, cur, verdict, snap>>
             \/ o.result # "ok" /\ Done(n, cur[n]) /\ UNCHANGED refundLog
    <3>1. PICK f \in FinalQuotas, o \in PostConsumeOutcomes(TokenOf[cur[n]]) :
          /\ PostConsume(cur[n], o, SettlementDelta(f, q))
          /\ \/ /\ o.result = "ok"
                /\ final' = [final EXCEPT ![n] = f]
                /\ at' = [at EXCEPT ![n] = "persist"]
                /\ refundLog' = [refundLog EXCEPT ![cur[n]] = @ + IF f < q THEN q - f ELSE 0]
                /\ UNCHANGED <<phase, cur, verdict, snap>>
             \/ o.result # "ok" /\ Done(n, cur[n]) /\ UNCHANGED refundLog
      BY <2>3
    <3>2. f \in Nat /\ SettlementDelta(f, q) \in Int
      BY <2>1, VideoAssumption DEF SettlementDelta
    <3>3. /\ wallet' \in [Users -> Int] /\ live' \in [Tokens -> BOOLEAN]
          /\ charge' \in [Tasks -> Int] /\ dbErrors' \in Nat
      BY <3>1, <3>2, <2>1, PostConsumeType
    <3>4. DoneTypes /\ refundLog' \in [Tasks -> Nat]
      <4>1. CASE Done(n, cur[n]) /\ UNCHANGED refundLog
        BY <4>1, DoneType, <2>1 DEF TypeOK
      <4>2. CASE /\ final' = [final EXCEPT ![n] = f]
                 /\ at' = [at EXCEPT ![n] = "persist"]
                 /\ refundLog' = [refundLog EXCEPT ![cur[n]] = @ + IF f < q THEN q - f ELSE 0]
                 /\ UNCHANGED <<phase, cur, verdict, snap>>
        <5>1. (IF f < q THEN q - f ELSE 0) \in Nat
          BY <3>2, <2>1
        <5>2. refundLog' \in [Tasks -> Nat]
          BY <5>1, <4>2, <2>1 DEF TypeOK
        <5>3. QED BY <4>2, <5>2, <3>2 DEF TypeOK, DoneTypes
      <4>3. QED BY <3>1, <4>1, <4>2
    <3>5. QED BY <1>10, <3>3, <3>4 DEF SettleSuccess, DoneTypes, TypeOK
  <2>4. QED BY <1>10, <2>2, <2>3 DEF SettleSuccess
<1>11. CASE PersistQuota(n)
  <2>1. cur[n] \in Tasks /\ final[n] \in Nat
    BY <1>11 DEF PersistQuota, TypeOK
  <2>2. row' \in [Tasks -> RowType] /\ dbErrors' \in Nat
    <3>0. row[cur[n]] \in RowType
      BY <2>1 DEF TypeOK
    <3>1. [row[cur[n]] EXCEPT !.quota = final[n]] \in RowType
      BY <3>0, <2>1 DEF RowType
    <3>2. CASE row' = [row EXCEPT ![cur[n]] = [row[cur[n]] EXCEPT !.quota = final[n]]]
               /\ UNCHANGED dbErrors
      BY <3>1, <3>2, <2>1 DEF TypeOK
    <3>3. CASE UNCHANGED row /\ DbFault
      BY <3>3 DEF DbFault, TypeOK
    <3>4. QED BY <1>11, <3>2, <3>3 DEF PersistQuota
  <2>3. DoneTypes
    BY <1>11, <2>1, DoneType DEF PersistQuota
  <2>4. QED BY <1>11, <2>2, <2>3 DEF PersistQuota, DoneTypes, TypeOK
<1>12. QED
  BY <1>1, <1>2, <1>3, <1>4, <1>5, <1>6, <1>7, <1>8, <1>9, <1>10, <1>11 DEF PollerStep

\* So does the environment.
LEMMA TypeEnvironment ==
  ASSUME TypeOK,
         \/ \E t \in Tasks : UpstreamStep(t) \/ PassDeadline(t)
         \/ \E n \in Nodes : Crash(n)
         \/ \E k \in Tokens : DeleteToken(k)
         \/ UNCHANGED vars
  PROVE  TypeOK'
<1> USE DEF ledger, handlers, rows, pollers, faults, TypeOK
<1>1. CASE \E t \in Tasks : UpstreamStep(t) \/ PassDeadline(t)
  BY <1>1 DEF UpstreamStep, PassDeadline
<1>2. CASE \E n \in Nodes : Crash(n)
  <2>1. PICK n \in Nodes : Crash(n)
    BY <1>2
  <2>2. pc' \in [Tasks -> Locations]
    BY <2>1 DEF Crash, Locations
  <2>3. QED BY <2>1, <2>2, NoRowType DEF Crash, NonTerminal
<1>3. CASE \E k \in Tokens : DeleteToken(k)
  BY <1>3 DEF DeleteToken
<1>4. CASE UNCHANGED vars
  BY <1>4 DEF vars
<1>5. QED BY <1>1, <1>2, <1>3, <1>4

-----------------------------------------------------------------------------
(* One winner per task.  Rows exist exactly for inserted submissions; a list *)
(* holds only rows that were running when they were listed; hence whoever    *)
(* wins the compare-and-swap found the row running, and nobody had won it.   *)

RowsOfInserted == \A t \in Tasks : row[t].status # "ABSENT" <=> pc[t] = "inserted"

AcceptedUpstream ==
  \A t \in Tasks : pc[t] \in {"accepted", "adjusted", "inserted"} => up[t] # "none"

BusyOnListed ==
  \A n \in Nodes : at[n] # "next" =>
    cur[n] \in Tasks /\ snap[n][cur[n]].status # "ABSENT"

ListedWereRunning ==
  \A n \in Nodes, t \in Tasks : snap[n][t].status # "ABSENT" =>
    snap[n][t].status \in NonTerminal /\ row[t].status # "ABSENT"

RaceInv ==
  /\ TypeOK /\ RowsOfInserted /\ AcceptedUpstream /\ BusyOnListed
  /\ ListedWereRunning /\ OneWinner

LEMMA StatusesDiffer ==
  /\ NonTerminal \cap TerminalStatuses = {}
  /\ "ABSENT" \notin NonTerminal \cup TerminalStatuses
BY DEF NonTerminal, TerminalStatuses

LEMMA RaceInit == Init => RaceInv
BY TypeInit DEF Init, RaceInv, RowsOfInserted, AcceptedUpstream, BusyOnListed,
   ListedWereRunning, OneWinner, Winner, NoRow

LEMMA RaceHandler ==
  ASSUME RaceInv, NEW t \in Tasks, Submit(t) \/ HandlerStep(t)
  PROVE  RaceInv'
<1>1. TypeOK'
  BY TypeHandler DEF RaceInv
<1>2. UNCHANGED pollers
  BY DEF Submit, HandlerStep, UpstreamAccepts, UpstreamErrors, AdjustOnSubmit,
     InsertTask, InsertTaskFails, RefundSubmit
<1>3. /\ pc[t] # "inserted"
      /\ \E s \in Locations : pc' = [pc EXCEPT ![t] = s]
      /\ \/ UNCHANGED row /\ pc'[t] # "inserted"
         \/ /\ row' = [row EXCEPT ![t] = [status |-> "QUEUED", quota |-> held[t]]]
            /\ pc'[t] = "inserted"
  BY DEF Submit, HandlerStep, UpstreamAccepts, UpstreamErrors, AdjustOnSubmit,
     InsertTask, InsertTaskFails, RefundSubmit, Locations, rows, RaceInv, TypeOK
<1>4. RowsOfInserted'
  BY <1>3 DEF RaceInv, RowsOfInserted, TypeOK
<1>5. AcceptedUpstream'
  BY DEF Submit, HandlerStep, UpstreamAccepts, UpstreamErrors, AdjustOnSubmit,
     InsertTask, InsertTaskFails, RefundSubmit, RaceInv, AcceptedUpstream, TypeOK
<1>6. row[t].status = "ABSENT"
  BY <1>3 DEF RaceInv, RowsOfInserted
<1>7. \A u \in Tasks : row[u].status # "ABSENT" => u # t /\ row'[u] = row[u]
  BY <1>3, <1>6 DEF RaceInv, TypeOK
<1>8. BusyOnListed' /\ ListedWereRunning'
  BY <1>2, <1>7 DEF RaceInv, BusyOnListed, ListedWereRunning, pollers
<1>9. OneWinner'
  <2>1. \A u \in Tasks : IsTerminal(u) => row'[u] = row[u]
    BY <1>7, StatusesDiffer DEF IsTerminal
  <2>2. QED BY <1>2, <2>1 DEF RaceInv, OneWinner, Winner, IsTerminal, pollers
<1>10. QED BY <1>1, <1>4, <1>5, <1>8, <1>9 DEF RaceInv

\* What Done and MarkTerminal do to the race part of the invariant.
LEMMA RaceDone ==
  ASSUME RaceInv, NEW n \in Nodes, NEW t \in Tasks, Done(n, t), UNCHANGED row
  PROVE  BusyOnListed' /\ ListedWereRunning' /\ OneWinner'
<1>1. BusyOnListed'
  BY DEF Done, RaceInv, BusyOnListed, TypeOK
<1>2. ListedWereRunning'
  BY DEF Done, RaceInv, ListedWereRunning, TypeOK, NoRow
<1>3. \A m \in Nodes, u \in Tasks : Winner(m, u)' => Winner(m, u)
  BY DEF Done, Winner, RaceInv, TypeOK
<1>4. OneWinner'
  BY <1>3 DEF RaceInv, OneWinner, IsTerminal
<1>5. QED BY <1>1, <1>2, <1>4

\* A status change of an existing row keeps rows and handlers in step.
LEMMA RowsKept ==
  ASSUME RaceInv, UNCHANGED pc, NEW t \in Tasks, NEW s \in NonTerminal \cup TerminalStatuses,
         row[t].status # "ABSENT", SetStatus(t, s)
  PROVE  /\ RowsOfInserted'
         /\ \A u \in Tasks : row'[u].status = IF u = t THEN s ELSE row[u].status
<1>1. \A u \in Tasks : row'[u].status = IF u = t THEN s ELSE row[u].status
  <2>1. row[t] \in RowType
    BY DEF RaceInv, TypeOK
  <2>2. [row[t] EXCEPT !.status = s].status = s
    BY <2>1 DEF RowType
  <2>3. row' = [row EXCEPT ![t] = [row[t] EXCEPT !.status = s]]
    BY DEF SetStatus
  <2>4. QED BY <2>2, <2>3 DEF RaceInv, TypeOK
<1>2. QED BY <1>1, StatusesDiffer DEF RaceInv, RowsOfInserted

LEMMA RaceMark ==
  ASSUME RaceInv, NEW n \in Nodes, NEW t \in Tasks, NEW s \in TerminalStatuses,
         UNCHANGED pc, snap[n][t].status # "ABSENT",
         at[n] = "next" \/ (at[n] = "apply" /\ cur[n] = t),
         MarkTerminal(n, t, s)
  PROVE  RowsOfInserted' /\ BusyOnListed' /\ ListedWereRunning' /\ OneWinner'
<1>1. CASE Done(n, t) /\ UNCHANGED row
  BY <1>1, RaceDone DEF RaceInv, RowsOfInserted
<1>2. CASE /\ CasMatches(t, snap[n][t].status)
           /\ SetStatus(t, s)
           /\ at' = [at EXCEPT ![n] = IF s = "SUCCESS" THEN "settle" ELSE "refund"]
           /\ cur' = [cur EXCEPT ![n] = t]
           /\ UNCHANGED snap
  <2>1. row[t].status \in NonTerminal
    BY <1>2 DEF RaceInv, ListedWereRunning, CasMatches
  <2>2. RowsOfInserted' /\ \A u \in Tasks : row'[u].status = IF u = t THEN s ELSE row[u].status
    BY <1>2, <2>1, RowsKept, StatusesDiffer
  <2>3. BusyOnListed'
    BY <1>2 DEF RaceInv, BusyOnListed, TypeOK
  <2>4. ListedWereRunning'
    BY <1>2, <2>2, StatusesDiffer DEF RaceInv, ListedWereRunning
  <2>5. \A m \in Nodes : ~Winner(m, t)
    BY <2>1, StatusesDiffer DEF RaceInv, OneWinner, IsTerminal
  <2>6. \A m \in Nodes, u \in Tasks : Winner(m, u)' => (m = n /\ u = t) \/ Winner(m, u)
    BY <1>2 DEF Winner, RaceInv, TypeOK
  <2>7. \A u \in Tasks : ~Winner(n, u)
    BY DEF Winner
  <2>8. \A u \in Tasks, m \in Nodes : Winner(m, u)' => IsTerminal(u)' /\ \A k \in Nodes : Winner(k, u)' => k = m
    <3> SUFFICES ASSUME NEW u \in Tasks, NEW m \in Nodes, Winner(m, u)'
                 PROVE  IsTerminal(u)' /\ \A k \in Nodes : Winner(k, u)' => k = m
      OBVIOUS
    <3>1. CASE u = t
      BY <3>1, <2>2, <2>5, <2>6 DEF IsTerminal
    <3>2. CASE u # t
      BY <3>2, <2>2, <2>6 DEF IsTerminal, RaceInv, OneWinner
    <3>3. QED BY <3>1, <3>2
  <2>9. OneWinner'
    BY <2>8 DEF OneWinner
  <2>10. QED BY <2>2, <2>3, <2>4, <2>9
<1>3. QED BY <1>1, <1>2 DEF MarkTerminal

LEMMA RacePoller ==
  ASSUME RaceInv, NEW n \in Nodes, PollerStep(n)
  PROVE  RaceInv'
<1> USE DEF rows, handlers
<1>1. TypeOK'
  BY TypePoller DEF RaceInv, AcceptedUpstream, ListedWereRunning, RowsOfInserted, BusyOnListed
<1>2. UNCHANGED <<pc, up>>
  BY DEF PollerStep, ListTimeouts, FailOverdue, ListUnfinished, Fetch, LeaveForNextRound,
     PanicRound, ApplyTerminal, ApplyProgress, RefundTask, SettleSuccess, PersistQuota
<1>3. AcceptedUpstream'
  BY <1>2 DEF RaceInv, AcceptedUpstream
<1>4. RowsOfInserted' /\ BusyOnListed' /\ ListedWereRunning' /\ OneWinner'
  <2>1. CASE \E S \in SUBSET Unfinished : /\ snap' = [snap EXCEPT ![n] = Listed(S)]
                                         /\ at[n] = "next" /\ UNCHANGED <<row, at, cur>>
    <3>1. PICK S \in SUBSET Unfinished : snap' = [snap EXCEPT ![n] = Listed(S)]
      BY <2>1
    <3>2. \A t \in Tasks : Listed(S)[t].status # "ABSENT" => Listed(S)[t].status \in NonTerminal
                                                            /\ row[t].status # "ABSENT"
      BY StatusesDiffer DEF Listed, NoRow, Unfinished
    <3>3. ListedWereRunning'
      BY <2>1, <3>1, <3>2 DEF RaceInv, ListedWereRunning, TypeOK
    <3>4. BusyOnListed'
      BY <2>1, <3>1 DEF RaceInv, BusyOnListed, TypeOK
    <3>5. QED BY <1>2, <2>1, <3>3, <3>4 DEF RaceInv, RowsOfInserted, OneWinner, Winner, IsTerminal
  <2>2. CASE UNCHANGED <<row, at, cur, snap>>
    BY <1>2, <2>2 DEF RaceInv, RowsOfInserted, BusyOnListed, ListedWereRunning, OneWinner, Winner, IsTerminal
  <2>3. CASE ListTimeouts(n)
    <3>1. Oldest(OverdueTasks, TimeoutScanLimit) \in SUBSET Unfinished
      BY OldestSubset DEF OverdueTasks
    <3>2. QED BY <2>1, <2>2, <2>3, <3>1 DEF ListTimeouts
  <2>4. CASE ListUnfinished(n)
    <3>1. Oldest(Unfinished, PollBatchLimit) \in SUBSET Unfinished
      BY OldestSubset
    <3>2. QED BY <2>1, <2>2, <2>4, <3>1 DEF ListUnfinished
  <2>5. CASE FailOverdue(n)
    <3>1. PICK t \in Todo(n) : MarkTerminal(n, t, "FAILURE")
      BY <2>5, OldestSubset DEF FailOverdue
    <3>2. QED BY <1>2, <2>5, <3>1, RaceMark DEF FailOverdue, Todo, TerminalStatuses
  <2>6. CASE ApplyTerminal(n)
    <3>1. cur[n] \in Tasks /\ snap[n][cur[n]].status # "ABSENT"
      BY <2>6 DEF ApplyTerminal, RaceInv, BusyOnListed
    <3>2. QED BY <1>2, <2>6, <3>1, RaceMark DEF ApplyTerminal
  <2>7. CASE Fetch(n)
    <3>1. PICK t \in Todo(n) : cur' = [cur EXCEPT ![n] = t]
      BY <2>7 DEF Fetch
    <3>2. BusyOnListed' /\ ListedWereRunning'
      BY <2>7, <3>1 DEF Fetch, Todo, RaceInv, BusyOnListed, ListedWereRunning, TypeOK
    <3>3. \A m \in Nodes, u \in Tasks : Winner(m, u)' => Winner(m, u)
      BY <2>7, <3>1 DEF Fetch, Winner, RaceInv, TypeOK
    <3>4. QED BY <2>7, <3>2, <3>3 DEF Fetch, RaceInv, RowsOfInserted, OneWinner, IsTerminal
  <2>8. CASE LeaveForNextRound(n)
    <3>1. PICK t \in Tasks : Done(n, t)
      BY <2>8 DEF LeaveForNextRound, Todo
    <3>2. QED BY <1>2, <2>8, <3>1, RaceDone DEF LeaveForNextRound, RaceInv, RowsOfInserted
  <2>9. CASE PanicRound(n)
    <3>1. BusyOnListed' /\ ListedWereRunning'
      BY <2>9 DEF PanicRound, RaceInv, BusyOnListed, ListedWereRunning, TypeOK, NoRow
    <3>2. QED BY <2>9, <3>1 DEF PanicRound, RaceInv, RowsOfInserted, OneWinner, Winner, IsTerminal
  <2>10. CASE ApplyProgress(n)
    <3>1. cur[n] \in Tasks /\ Done(n, cur[n])
      BY <2>10 DEF ApplyProgress, RaceInv, BusyOnListed
    <3>2. CASE UNCHANGED row
      BY <1>2, <3>1, <3>2, RaceDone DEF RaceInv, RowsOfInserted
    <3>3. CASE NonTerminalGuard(cur[n]) /\ SetStatus(cur[n], verdict[n]) /\ verdict[n] \in NonTerminal
      <4>1. row[cur[n]].status \in NonTerminal
        BY <3>3 DEF NonTerminalGuard
      <4>2. /\ RowsOfInserted'
            /\ \A u \in Tasks : row'[u].status = IF u = cur[n] THEN verdict[n] ELSE row[u].status
        BY <1>2, <3>1, <3>3, <4>1, RowsKept, StatusesDiffer
      <4>3. BusyOnListed'
        BY <3>1 DEF Done, RaceInv, BusyOnListed, TypeOK
      <4>4. ListedWereRunning'
        BY <3>1, <3>3, <4>2, StatusesDiffer DEF Done, RaceInv, ListedWereRunning, TypeOK, NoRow
      <4>5. \A m \in Nodes, u \in Tasks : Winner(m, u)' => Winner(m, u)
        BY <3>1 DEF Done, Winner, RaceInv, TypeOK
      <4>6. \A u \in Tasks : IsTerminal(u) => IsTerminal(u)'
        BY <4>1, <4>2, StatusesDiffer DEF IsTerminal
      <4>7. OneWinner'
        BY <4>5, <4>6 DEF RaceInv, OneWinner
      <4>8. QED BY <4>2, <4>3, <4>4, <4>7
    <3>4. QED BY <2>10, <3>2, <3>3 DEF ApplyProgress
  <2>11. CASE RefundTask(n)
    BY <1>2, <2>11, RaceDone DEF RefundTask, RaceInv, RowsOfInserted, BusyOnListed
  <2>12. CASE SettleSuccess(n)
    <3>1. cur[n] \in Tasks /\ UNCHANGED row
      BY <2>12 DEF SettleSuccess, RaceInv, BusyOnListed
    <3>2. CASE Done(n, cur[n])
      BY <1>2, <3>1, <3>2, RaceDone DEF RaceInv, RowsOfInserted
    <3>3. CASE at' = [at EXCEPT ![n] = "persist"] /\ UNCHANGED <<cur, snap>>
      <4>1. BusyOnListed' /\ ListedWereRunning'
        BY <2>12, <3>1, <3>3 DEF SettleSuccess, RaceInv, BusyOnListed, ListedWereRunning, TypeOK
      <4>2. \A m \in Nodes, u \in Tasks : Winner(m, u)' => Winner(m, u)
        BY <2>12, <3>3 DEF SettleSuccess, Winner, RaceInv, TypeOK
      <4>3. QED BY <1>2, <3>1, <4>1, <4>2 DEF RaceInv, RowsOfInserted, OneWinner, IsTerminal
    <3>4. QED BY <2>12, <3>2, <3>3 DEF SettleSuccess
  <2>13. CASE PersistQuota(n)
    <3>1. cur[n] \in Tasks /\ Done(n, cur[n])
      BY <2>13 DEF PersistQuota, RaceInv, BusyOnListed
    <3>2. \A u \in Tasks : row'[u].status = row[u].status
      <4>1. CASE row' = [row EXCEPT ![cur[n]].quota = final[n]]
        <5>1. row[cur[n]] \in RowType
          BY <3>1 DEF RaceInv, TypeOK
        <5>2. [row[cur[n]] EXCEPT !.quota = final[n]].status = row[cur[n]].status
          BY <5>1 DEF RowType
        <5>3. row' = [row EXCEPT ![cur[n]] = [row[cur[n]] EXCEPT !.quota = final[n]]]
          BY <4>1
        <5>4. QED BY <5>2, <5>3 DEF RaceInv, TypeOK
      <4>2. QED BY <2>13, <4>1 DEF PersistQuota
    <3>3. BusyOnListed' /\ ListedWereRunning'
      BY <3>1, <3>2 DEF Done, RaceInv, BusyOnListed, ListedWereRunning, TypeOK, NoRow
    <3>4. \A m \in Nodes, u \in Tasks : Winner(m, u)' => Winner(m, u)
      BY <3>1 DEF Done, Winner, RaceInv, TypeOK
    <3>5. QED BY <1>2, <3>2, <3>3, <3>4 DEF RaceInv, RowsOfInserted, OneWinner, IsTerminal
  <2>14. QED
    BY <2>3, <2>4, <2>5, <2>6, <2>7, <2>8, <2>9, <2>10, <2>11, <2>12, <2>13 DEF PollerStep
<1>5. QED BY <1>1, <1>3, <1>4 DEF RaceInv

LEMMA RaceEnvironment ==
  ASSUME RaceInv,
         \/ \E t \in Tasks : UpstreamStep(t) \/ PassDeadline(t)
         \/ \E n \in Nodes : Crash(n)
         \/ \E k \in Tokens : DeleteToken(k)
         \/ UNCHANGED vars
  PROVE  RaceInv'
<1> USE DEF handlers, rows, pollers
<1>1. TypeOK'
  BY TypeEnvironment DEF RaceInv
<1>2. CASE \E n \in Nodes : Crash(n)
  <2>1. PICK n \in Nodes : Crash(n)
    BY <1>2
  <2>2. \A t \in Tasks : pc'[t] = pc[t] \/ (pc'[t] = "crashed" /\ pc[t] # "inserted")
    BY <2>1 DEF Crash
  <2>3. row' = row /\ up' = up
    BY <2>1 DEF Crash
  <2>4. BusyOnListed' /\ ListedWereRunning'
    BY <2>1 DEF Crash, RaceInv, BusyOnListed, ListedWereRunning, TypeOK, NoRow
  <2>5. \A m \in Nodes, u \in Tasks : Winner(m, u)' => Winner(m, u)
    BY <2>1 DEF Crash, Winner, RaceInv, TypeOK
  <2>6. OneWinner'
    BY <2>3, <2>5 DEF RaceInv, OneWinner, IsTerminal
  <2>7. RowsOfInserted'
    BY <2>2, <2>3 DEF RaceInv, RowsOfInserted
  <2>8. AcceptedUpstream'
    BY <2>2, <2>3 DEF RaceInv, AcceptedUpstream
  <2>9. QED BY <1>1, <2>4, <2>6, <2>7, <2>8 DEF RaceInv
<1>3. CASE \E t \in Tasks : UpstreamStep(t)
  BY <1>1, <1>3 DEF UpstreamStep, RaceInv, TypeOK, RowsOfInserted, AcceptedUpstream,
     BusyOnListed, ListedWereRunning, OneWinner, Winner, IsTerminal
<1>4. CASE UNCHANGED <<pc, up, row, at, cur, snap>>
  BY <1>1, <1>4 DEF RaceInv, RowsOfInserted, AcceptedUpstream,
     BusyOnListed, ListedWereRunning, OneWinner, Winner, IsTerminal
<1>5. QED BY <1>2, <1>3, <1>4 DEF PassDeadline, DeleteToken, vars

LEMMA RaceInvariance == Spec => []RaceInv
<1>1. Init => RaceInv
  BY RaceInit
<1>2. RaceInv /\ [Next]_vars => RaceInv'
  BY RaceHandler, RacePoller, RaceEnvironment DEF Next
<1>3. QED BY <1>1, <1>2, PTL DEF Spec

\* Every reachable state is well typed, for any number of instances and tasks.
THEOREM TypeCorrect == Spec => []TypeOK
<1>1. RaceInv => TypeOK
  BY DEF RaceInv
<1>2. QED BY <1>1, RaceInvariance, PTL

\* However many instances poll, whatever crashes, deadlines and deletions
\* intervene, at most one of them is ever entitled to move a task's money
\* (the compare-and-swap of model/task.go UpdateTaskStatus).
THEOREM AtMostOneWinner == Spec => []OneWinner
<1>1. RaceInv => OneWinner
  BY DEF RaceInv
<1>2. QED BY <1>1, RaceInvariance, PTL

\* A poller writes a terminal status only over the running one it listed, and a
\* progress status only over a running one: a row that is terminal keeps its
\* status (task.go: UpdateTaskStatus and UpdateTaskNonTerminal).
LEMMA StatusKept ==
  ASSUME RaceInv, Next, NEW t \in Tasks, IsTerminal(t)
  PROVE  row'[t].status = row[t].status
<1>0. row[t].status \notin NonTerminal \cup {"ABSENT"}
  BY StatusesDiffer DEF IsTerminal
<1>1. ASSUME NEW u \in Tasks, NEW s \in NonTerminal \cup TerminalStatuses,
             row[u].status \in NonTerminal, SetStatus(u, s)
      PROVE  row'[t].status = row[t].status
  BY <1>0, <1>1 DEF SetStatus, RaceInv, TypeOK
<1>2. ASSUME NEW n \in Nodes, NEW u \in Tasks, NEW s \in TerminalStatuses,
             snap[n][u].status # "ABSENT", MarkTerminal(n, u, s)
      PROVE  row'[t].status = row[t].status
  <2>1. CASE UNCHANGED row
    BY <2>1
  <2>2. CASE CasMatches(u, snap[n][u].status) /\ SetStatus(u, s)
    <3>1. row[u].status \in NonTerminal
      BY <1>2, <2>2 DEF CasMatches, RaceInv, ListedWereRunning
    <3>2. QED BY <1>1, <2>2, <3>1
  <2>3. QED BY <1>2, <2>1, <2>2 DEF MarkTerminal
<1>3. ASSUME NEW u \in Tasks, Submit(u) \/ HandlerStep(u)
      PROVE  row'[t].status = row[t].status
  <2>1. CASE UNCHANGED row
    BY <2>1
  <2>2. CASE InsertTask(u)
    <3>1. row[u].status = "ABSENT"
      BY <2>2 DEF InsertTask, RaceInv, RowsOfInserted
    <3>2. QED BY <1>0, <2>2, <3>1 DEF InsertTask, RaceInv, TypeOK
  <2>3. QED BY <1>3, <2>1, <2>2 DEF Submit, HandlerStep, UpstreamAccepts, UpstreamErrors,
              AdjustOnSubmit, InsertTaskFails, RefundSubmit, rows
<1>4. ASSUME NEW n \in Nodes, PollerStep(n)
      PROVE  row'[t].status = row[t].status
  <2>1. CASE UNCHANGED row
    BY <2>1
  <2>2. CASE FailOverdue(n)
    <3>1. PICK u \in Todo(n) : MarkTerminal(n, u, "FAILURE")
      BY <2>2, OldestSubset DEF FailOverdue
    <3>2. QED BY <1>2, <3>1 DEF Todo, TerminalStatuses
  <2>3. CASE ApplyTerminal(n)
    <3>1. cur[n] \in Tasks /\ snap[n][cur[n]].status # "ABSENT"
      BY <2>3 DEF ApplyTerminal, RaceInv, BusyOnListed
    <3>2. QED BY <1>2, <2>3, <3>1 DEF ApplyTerminal
  <2>4. CASE ApplyProgress(n)
    <3>1. cur[n] \in Tasks
      BY <2>4 DEF ApplyProgress, RaceInv, BusyOnListed
    <3>2. QED BY <1>1, <2>1, <2>4, <3>1 DEF ApplyProgress, NonTerminalGuard
  <2>5. CASE PersistQuota(n)
    <3>1. cur[n] \in Tasks /\ row[cur[n]] \in RowType
      BY <2>5 DEF PersistQuota, RaceInv, BusyOnListed, TypeOK
    <3>2. CASE row' = [row EXCEPT ![cur[n]].quota = final[n]]
      <4>1. row' = [row EXCEPT ![cur[n]] = [row[cur[n]] EXCEPT !.quota = final[n]]]
        BY <3>2
      <4>2. [row[cur[n]] EXCEPT !.quota = final[n]].status = row[cur[n]].status
        BY <3>1 DEF RowType
      <4>3. QED BY <4>1, <4>2 DEF RaceInv, TypeOK
    <3>3. QED BY <2>1, <2>5, <3>2 DEF PersistQuota
  <2>6. QED BY <1>4, <2>1, <2>2, <2>3, <2>4, <2>5 DEF PollerStep, ListTimeouts, ListUnfinished,
              Fetch, LeaveForNextRound, PanicRound, RefundTask, SettleSuccess, rows
<1>5. ASSUME \/ \E u \in Tasks : UpstreamStep(u) \/ PassDeadline(u)
             \/ \E n \in Nodes : Crash(n)
             \/ \E k \in Tokens : DeleteToken(k)
      PROVE  row'[t].status = row[t].status
  BY <1>5 DEF UpstreamStep, PassDeadline, Crash, DeleteToken, rows
<1>6. QED BY <1>3, <1>4, <1>5 DEF Next

\* A finished task never runs again, however slow the writer of an old answer
\* (task.go: UpdateTaskNonTerminal).
THEOREM FinishedStaysFinished == Spec => TerminalIsFinal
<1>1. RaceInv /\ [Next]_vars => [\A t \in Tasks : IsTerminal(t) => row'[t].status = row[t].status]_vars
  BY StatusKept
<1>2. QED BY <1>1, RaceInvariance, PTL DEF Spec, TerminalIsFinal

-----------------------------------------------------------------------------
(* The money.  The charge of a submission is followed from the handler's     *)
(* local variable into the quota column and from there into the winner's     *)
(* snapshot.  A repricing hook whose ledger call fails half way (charge      *)
(* changed, error reported) would break the chain at its first link, so it   *)
(* is excluded: no adaptor of the repository overrides AdjustBillingOnSubmit.*)

NoHalfRepricing == AdjustedQuotas = {} \/ MaxDbErrors = 0
NoFaults == MaxCrashes = 0 /\ MaxDbErrors = 0

HandlerMoney ==
  \A t \in Tasks :
    /\ pc[t] = "new" => charge[t] = 0
    /\ pc[t] \in {"charged", "accepted", "adjusted", "refund"} => charge[t] = held[t]
    /\ pc[t] \in {"failed", "crashed"} => charge[t] >= 0

SnapshotMoney ==
  \A n \in Nodes, t \in Tasks :
    /\ snap[n][t].status # "ABSENT"
    /\ t \in Unfinished \/ (cur[n] = t /\ at[n] \in {"refund", "settle"})
    => snap[n][t].quota = row[t].quota

WinnerMoney ==
  \A n \in Nodes :
    /\ at[n] \in {"refund", "settle"} => charge[cur[n]] = row[cur[n]].quota
    /\ at[n] = "refund" => row[cur[n]].status = "FAILURE"
    /\ at[n] \in {"settle", "persist"} => row[cur[n]].status = "SUCCESS"
    /\ NoFaults /\ at[n] = "persist" => charge[cur[n]] = final[n]

ClosedMoney ==
  \A t \in Tasks : IsTerminal(t) =>
    charge[t] >= 0 /\ (NoFaults => Contested(t) \/ Balanced(t))

MoneyInv ==
  /\ RaceInv /\ HandlerMoney /\ RowQuotaIsCharge
  /\ SnapshotMoney /\ WinnerMoney /\ ClosedMoney

LEMMA MoneyInit == Init => MoneyInv
BY RaceInit, StatusesDiffer DEF Init, MoneyInv, HandlerMoney, RowQuotaIsCharge, SnapshotMoney,
   WinnerMoney, ClosedMoney, Unfinished, IsTerminal, NoRow

\* A refund or an adjustment of exactly d moves the charge by d or not at all,
\* and reports the truth when no statement fails.
LEMMA PostConsumeEffect ==
  ASSUME TypeOK, NEW t \in Tasks, NEW d \in Int,
         NEW o \in PostConsumeOutcomes(TokenOf[t]), PostConsume(t, o, d)
  PROVE  /\ charge' = charge \/ charge' = [charge EXCEPT ![t] = charge[t] + d]
         /\ MaxDbErrors = 0 => \/ o.result = "ok" /\ charge' = [charge EXCEPT ![t] = charge[t] + d]
                               \/ o.result = "notfound" /\ charge' = charge
<1>1. charge' = charge \/ charge' = [charge EXCEPT ![t] = charge[t] + d]
  BY DEF PostConsume, Debit, ledger
<1>2. ASSUME MaxDbErrors = 0
      PROVE  \/ o.result = "ok" /\ charge' = [charge EXCEPT ![t] = charge[t] + d]
             \/ o.result = "notfound" /\ charge' = charge
  <2>1. ~DbMayFail
    BY <1>2 DEF DbMayFail, TypeOK
  <2>2. \/ o.moved /\ o.result = "ok"
        \/ ~o.moved /\ o.result = "notfound"
    BY <2>1 DEF PostConsumeOutcomes
  <2>3. QED BY <2>2 DEF PostConsume, Debit, ledger
<1>3. QED BY <1>1, <1>2

\* A handler step changes the charge of its own submission only, which has no
\* row yet.
LEMMA MoneyHandler ==
  ASSUME MoneyInv, NoHalfRepricing, NEW t \in Tasks, Submit(t) \/ HandlerStep(t)
  PROVE  MoneyInv'
<1> USE DEF pollers
<1>1. RaceInv'
  BY RaceHandler DEF MoneyInv
<1>2. TypeOK /\ TypeOK' /\ held[t] \in Nat /\ charge[t] \in Int
  BY <1>1 DEF MoneyInv, RaceInv, TypeOK
<1>3. UNCHANGED pollers
  BY DEF Submit, HandlerStep, UpstreamAccepts, UpstreamErrors, AdjustOnSubmit,
     InsertTask, InsertTaskFails, RefundSubmit
<1>4. row[t].status = "ABSENT"
  BY DEF Submit, HandlerStep, UpstreamAccepts, UpstreamErrors, AdjustOnSubmit,
     InsertTask, InsertTaskFails, RefundSubmit, MoneyInv, RaceInv, RowsOfInserted
<1>5. \A u \in Tasks \ {t} : /\ charge'[u] = charge[u] /\ row'[u] = row[u]
                             /\ pc'[u] = pc[u] /\ held'[u] = held[u]
  BY <1>2 DEF Submit, HandlerStep, UpstreamAccepts, UpstreamErrors, AdjustOnSubmit, InsertTask,
     InsertTaskFails, RefundSubmit, PostConsume, Debit, ledger, rows, TypeOK
<1>6. /\ pc'[t] \in {"charged", "accepted", "adjusted", "refund"} =>
           charge'[t] = held'[t] /\ UNCHANGED row
      /\ pc'[t] = "failed" => charge'[t] >= 0 /\ UNCHANGED row
      /\ pc'[t] = "inserted" => /\ charge'[t] = row'[t].quota
                               /\ row'[t].status = "QUEUED"
      /\ pc'[t] \notin {"new", "crashed"}
  <2>1. CASE Submit(t)
    <3>1. PICK q \in Quotas : Debit(t, q) /\ held' = [held EXCEPT ![t] = q]
      BY <2>1 DEF Submit
    <3>2. charge[t] = 0 /\ q \in Nat
      BY <2>1, VideoAssumption DEF Submit, MoneyInv, HandlerMoney
    <3>3. QED BY <1>2, <2>1, <3>1, <3>2 DEF Submit, Debit, TypeOK, rows
  <2>2. CASE UpstreamAccepts(t) \/ UpstreamErrors(t) \/ InsertTaskFails(t)
    BY <1>2, <2>2 DEF UpstreamAccepts, UpstreamErrors, InsertTaskFails, MoneyInv, HandlerMoney,
       TypeOK, ledger, rows
  <2>3. CASE AdjustOnSubmit(t)
    <3>1. charge[t] = held[t]
      BY <2>3 DEF AdjustOnSubmit, MoneyInv, HandlerMoney
    <3>2. charge'[t] = held'[t]
      <4>1. CASE UNCHANGED <<ledger, held, dbErrors>>
        BY <3>1, <4>1 DEF ledger
      <4>2. CASE \E a \in AdjustedQuotas \ {held[t]}, o \in PostConsumeOutcomes(TokenOf[t]) :
                   /\ PostConsume(t, o, a - held[t])
                   /\ held' = [held EXCEPT ![t] = HeldAfterAdjust(t, o, a)]
        <5>1. PICK a \in AdjustedQuotas, o \in PostConsumeOutcomes(TokenOf[t]) :
                   /\ PostConsume(t, o, a - held[t])
                   /\ held' = [held EXCEPT ![t] = HeldAfterAdjust(t, o, a)]
          BY <4>2
        <5>2. a \in Nat /\ a - held[t] \in Int /\ MaxDbErrors = 0
          BY <1>2, VideoAssumption DEF NoHalfRepricing
        <5>3. \/ o.result = "ok" /\ charge' = [charge EXCEPT ![t] = charge[t] + (a - held[t])]
              \/ o.result = "notfound" /\ charge' = charge
          BY <1>2, <5>1, <5>2, PostConsumeEffect
        <5>4. QED BY <1>2, <3>1, <5>1, <5>2, <5>3 DEF HeldAfterAdjust, TypeOK
      <4>3. QED BY <2>3, <4>1, <4>2 DEF AdjustOnSubmit
    <3>3. QED BY <1>2, <2>3, <3>2 DEF AdjustOnSubmit, TypeOK, rows
  <2>4. CASE InsertTask(t)
    BY <1>2, <2>4 DEF InsertTask, MoneyInv, HandlerMoney, TypeOK, ledger
  <2>5. CASE RefundSubmit(t)
    <3>1. charge[t] = held[t] /\ -held[t] \in Int
      BY <1>2, <2>5 DEF RefundSubmit, MoneyInv, HandlerMoney
    <3>2. charge' = charge \/ charge' = [charge EXCEPT ![t] = charge[t] + (-held[t])]
      BY <1>2, <2>5, <3>1, PostConsumeEffect DEF RefundSubmit
    <3>3. QED BY <1>2, <2>5, <3>1, <3>2 DEF RefundSubmit, TypeOK, rows
  <2>6. QED BY <2>1, <2>2, <2>3, <2>4, <2>5 DEF HandlerStep
<1>7. \A u \in Tasks : row'[u] = row[u] \/ (u = t /\ row'[t].status = "QUEUED" /\ charge'[t] = row'[t].quota)
  BY <1>2, <1>5, <1>6 DEF TypeOK, Locations
<1>8. HandlerMoney'
  BY <1>5, <1>6 DEF MoneyInv, HandlerMoney
<1>9. RowQuotaIsCharge'
  BY <1>4, <1>5, <1>7, StatusesDiffer DEF MoneyInv, RowQuotaIsCharge, Unfinished
<1>10. \A n \in Nodes, u \in Tasks : snap[n][u].status # "ABSENT" => u # t
  BY <1>4 DEF MoneyInv, RaceInv, ListedWereRunning
<1>11. SnapshotMoney'
  BY <1>3, <1>5, <1>10 DEF MoneyInv, SnapshotMoney, Unfinished
<1>12. WinnerMoney'
  <2>1. \A n \in Nodes : at[n] # "next" => cur[n] \in Tasks \ {t}
    BY <1>10 DEF MoneyInv, RaceInv, BusyOnListed
  <2>2. QED BY <1>3, <1>5, <2>1 DEF MoneyInv, WinnerMoney
<1>13. ClosedMoney'
  <2>1. \A u \in Tasks : IsTerminal(u)' => u # t
    BY <1>4, <1>7, StatusesDiffer DEF IsTerminal, NonTerminal, TerminalStatuses
  <2>2. QED BY <1>3, <1>5, <2>1 DEF MoneyInv, ClosedMoney, IsTerminal, Contested, Winner, Balanced
<1>14. QED BY <1>1, <1>8, <1>9, <1>11, <1>12, <1>13 DEF MoneyInv

\* The winner of t has dealt with the money and drops the task.
LEMMA MoneyFinish ==
  ASSUME MoneyInv, RaceInv', NEW n \in Nodes, NEW t \in Tasks, Winner(n, t), Done(n, t),
         UNCHANGED <<pc, held>>,
         \A u \in Tasks \ {t} : charge'[u] = charge[u] /\ row'[u] = row[u],
         row'[t].status = row[t].status, charge'[t] >= 0, NoFaults => Balanced(t)'
  PROVE  MoneyInv'
<1>1. IsTerminal(t) /\ \A m \in Nodes : Winner(m, t) => m = n
  BY DEF MoneyInv, RaceInv, OneWinner
<1>2. pc[t] = "inserted"
  BY <1>1, StatusesDiffer DEF MoneyInv, RaceInv, RowsOfInserted, IsTerminal
<1>3. \A u \in Tasks : row'[u].status = row[u].status
  OBVIOUS
<1>4. HandlerMoney'
  BY <1>2 DEF MoneyInv, HandlerMoney
<1>5. \A u \in Unfinished' : u \in Unfinished /\ u # t
  BY <1>1, <1>3, StatusesDiffer DEF Unfinished, IsTerminal
<1>6. RowQuotaIsCharge'
  BY <1>5 DEF MoneyInv, RowQuotaIsCharge, Unfinished
<1>7. \A m \in Nodes \ {n} : /\ at'[m] = at[m] /\ cur'[m] = cur[m] /\ snap'[m] = snap[m]
                            /\ final'[m] = final[m]
  BY DEF Done, MoneyInv, RaceInv, TypeOK
<1>8. at'[n] = "next" /\ \A u \in Tasks : snap'[n][u] = IF u = t THEN NoRow ELSE snap[n][u]
  BY DEF Done, MoneyInv, RaceInv, TypeOK
<1>9. SnapshotMoney'
  <2> SUFFICES ASSUME NEW m \in Nodes, NEW u \in Tasks, snap'[m][u].status # "ABSENT",
                      u \in Unfinished' \/ (cur'[m] = u /\ at'[m] \in {"refund", "settle"})
               PROVE  snap'[m][u].quota = row'[u].quota
    BY DEF SnapshotMoney
  <2>1. CASE m = n
    BY <2>1, <1>5, <1>8 DEF MoneyInv, SnapshotMoney, NoRow
  <2>2. CASE m # n
    BY <2>2, <1>1, <1>5, <1>7 DEF MoneyInv, SnapshotMoney, Winner
  <2>3. QED BY <2>1, <2>2
<1>10. WinnerMoney'
  <2> SUFFICES ASSUME NEW m \in Nodes, at'[m] \in {"refund", "settle", "persist"}
               PROVE  /\ at'[m] \in {"refund", "settle"} => charge'[cur'[m]] = row'[cur'[m]].quota
                      /\ at'[m] = "refund" => row'[cur'[m]].status = "FAILURE"
                      /\ at'[m] \in {"settle", "persist"} => row'[cur'[m]].status = "SUCCESS"
                      /\ NoFaults /\ at'[m] = "persist" => charge'[cur'[m]] = final'[m]
    BY DEF WinnerMoney
  <2>1. m # n /\ cur[m] \in Tasks /\ at[m] = at'[m]
    BY <1>7, <1>8 DEF MoneyInv, RaceInv, BusyOnListed
  <2>2. cur[m] # t
    BY <2>1, <1>1 DEF Winner
  <2>3. QED BY <2>1, <2>2, <1>7 DEF MoneyInv, WinnerMoney
<1>11. ClosedMoney'
  <2>1. \A u \in Tasks \ {t} : Contested(u) => Contested(u)'
    BY <1>7 DEF Contested, Winner
  <2>2. \A u \in Tasks \ {t} : Balanced(u) => Balanced(u)'
    BY DEF Balanced
  <2>3. QED BY <1>3, <2>1, <2>2 DEF MoneyInv, ClosedMoney, IsTerminal
<1>12. QED BY <1>4, <1>6, <1>9, <1>10, <1>11 DEF MoneyInv

\* What a step may do to the rows without touching money.
QuotasKept == \A u \in Tasks : row'[u].quota = row[u].quota
ProgressOnly ==
  \A u \in Tasks : 
      row'[u].status = row[u].status
      \/ (row[u].status \in NonTerminal /\ row'[u].status \in NonTerminal)

LEMMA SameRows == ASSUME row' = row PROVE QuotasKept /\ ProgressOnly
BY DEF QuotasKept, ProgressOnly

\* Dropping a task that one has not won changes no money.
LEMMA MoneyDrop ==
  ASSUME MoneyInv, RaceInv', NEW n \in Nodes, NEW t \in Tasks, Done(n, t),
         at[n] \in {"next", "apply"}, UNCHANGED <<pc, held, charge>>,
         QuotasKept, ProgressOnly
  PROVE  MoneyInv'
<1>0. pc' = pc /\ held' = held /\ charge' = charge
  OBVIOUS
<1>a. \A u \in Tasks : row'[u].quota = row[u].quota
  BY DEF QuotasKept
<1>b. \A u \in Tasks : 
      row'[u].status = row[u].status
      \/ (row[u].status \in NonTerminal /\ row'[u].status \in NonTerminal)
  BY DEF ProgressOnly
<1>1. HandlerMoney'
  BY <1>0 DEF MoneyInv, HandlerMoney
<1>2. \A u \in Unfinished' : u \in Unfinished
  BY <1>b DEF Unfinished
<1>3. RowQuotaIsCharge'
  BY <1>0, <1>a, <1>2 DEF MoneyInv, RowQuotaIsCharge, Unfinished
<1>4. \A m \in Nodes \ {n} : /\ at'[m] = at[m] /\ cur'[m] = cur[m] /\ snap'[m] = snap[m]
                            /\ final'[m] = final[m]
  BY DEF Done, MoneyInv, RaceInv, TypeOK
<1>5. at'[n] = "next" /\ \A u \in Tasks : snap'[n][u] = IF u = t THEN NoRow ELSE snap[n][u]
  BY DEF Done, MoneyInv, RaceInv, TypeOK
<1>6. SnapshotMoney'
  <2> SUFFICES ASSUME NEW m \in Nodes, NEW u \in Tasks, snap'[m][u].status # "ABSENT",
                      u \in Unfinished' \/ (cur'[m] = u /\ at'[m] \in {"refund", "settle"})
               PROVE  snap'[m][u].quota = row'[u].quota
    BY DEF SnapshotMoney
  <2>1. CASE m = n
    BY <2>1, <1>a, <1>2, <1>5 DEF MoneyInv, SnapshotMoney, NoRow
  <2>2. CASE m # n
    BY <2>2, <1>a, <1>2, <1>4 DEF MoneyInv, SnapshotMoney
  <2>3. QED BY <2>1, <2>2
<1>7. \A u \in Tasks : IsTerminal(u) => row'[u].status = row[u].status
  BY <1>b, StatusesDiffer DEF IsTerminal
<1>8. \A u \in Tasks : IsTerminal(u)' => IsTerminal(u)
  BY <1>b, StatusesDiffer DEF IsTerminal
<1>9. WinnerMoney'
  <2> SUFFICES ASSUME NEW m \in Nodes, at'[m] \in {"refund", "settle", "persist"}
               PROVE  /\ at'[m] \in {"refund", "settle"} => charge'[cur'[m]] = row'[cur'[m]].quota
                      /\ at'[m] = "refund" => row'[cur'[m]].status = "FAILURE"
                      /\ at'[m] \in {"settle", "persist"} => row'[cur'[m]].status = "SUCCESS"
                      /\ NoFaults /\ at'[m] = "persist" => charge'[cur'[m]] = final'[m]
    BY DEF WinnerMoney
  <2>1. m # n /\ cur[m] \in Tasks /\ at[m] = at'[m]
    BY <1>4, <1>5 DEF MoneyInv, RaceInv, BusyOnListed
  <2>2. IsTerminal(cur[m])
    BY <2>1 DEF MoneyInv, RaceInv, OneWinner, Winner
  <2>3. QED BY <1>0, <1>a, <2>1, <2>2, <1>4, <1>7 DEF MoneyInv, WinnerMoney
<1>10. ClosedMoney'
  <2>1. \A u \in Tasks : Contested(u) => Contested(u)'
    BY <1>4 DEF Contested, Winner
  <2>2. \A u \in Tasks : IsTerminal(u) /\ Balanced(u) => Balanced(u)'
    BY <1>0, <1>a, <1>7 DEF Balanced
  <2>3. QED BY <1>0, <1>8, <2>1, <2>2 DEF MoneyInv, ClosedMoney
<1>11. QED BY <1>1, <1>3, <1>6, <1>9, <1>10 DEF MoneyInv

LEMMA MoneyMark ==
  ASSUME MoneyInv, RaceInv', NEW n \in Nodes, NEW t \in Tasks, NEW s \in TerminalStatuses,
         UNCHANGED <<pc, held, charge>>, snap[n][t].status # "ABSENT",
         at[n] = "next" \/ (at[n] = "apply" /\ cur[n] = t),
         MarkTerminal(n, t, s)
  PROVE  MoneyInv'
<1>1. CASE Done(n, t) /\ UNCHANGED row
  <2>1. row' = row /\ at[n] \in {"next", "apply"}
    BY <1>1
  <2>2. QED BY <1>1, <2>1, SameRows, MoneyDrop
<1>2. CASE /\ CasMatches(t, snap[n][t].status)
           /\ SetStatus(t, s)
           /\ at' = [at EXCEPT ![n] = IF s = "SUCCESS" THEN "settle" ELSE "refund"]
           /\ cur' = [cur EXCEPT ![n] = t]
           /\ UNCHANGED <<phase, verdict, final, snap, dbErrors>>
  <2>1. t \in Unfinished
    BY <1>2 DEF MoneyInv, RaceInv, ListedWereRunning, CasMatches, Unfinished
  <2>2. row[t] \in RowType /\ row' = [row EXCEPT ![t] = [row[t] EXCEPT !.status = s]]
    BY <1>2 DEF SetStatus, MoneyInv, RaceInv, TypeOK
  <2>3. [row[t] EXCEPT !.status = s].status = s /\ [row[t] EXCEPT !.status = s].quota = row[t].quota
    BY <2>2 DEF RowType
  <2>4. /\ \A u \in Tasks : row'[u].quota = row[u].quota
        /\ row'[t].status = s
        /\ \A u \in Tasks \ {t} : row'[u] = row[u]
    BY <2>2, <2>3 DEF MoneyInv, RaceInv, TypeOK
  <2>5. charge[t] = row[t].quota /\ snap[n][t].quota = row[t].quota /\ row[t].quota \in Nat
    BY <2>1, <2>2 DEF MoneyInv, RowQuotaIsCharge, SnapshotMoney, RowType
  <2>6. \A m \in Nodes : ~Winner(m, t)
    BY <2>1, StatusesDiffer DEF MoneyInv, RaceInv, OneWinner, IsTerminal, Unfinished
  <2>7. /\ at'[n] = IF s = "SUCCESS" THEN "settle" ELSE "refund"
        /\ cur'[n] = t
        /\ \A m \in Nodes \ {n} : at'[m] = at[m] /\ cur'[m] = cur[m]
    BY <1>2 DEF MoneyInv, RaceInv, TypeOK
  <2>8. HandlerMoney'
    BY DEF MoneyInv, HandlerMoney
  <2>9. \A u \in Unfinished' : u # t /\ u \in Unfinished
    BY <2>4, StatusesDiffer DEF Unfinished
  <2>10. RowQuotaIsCharge'
    BY <2>4, <2>9 DEF MoneyInv, RowQuotaIsCharge, Unfinished
  <2>11. SnapshotMoney'
    <3> SUFFICES ASSUME NEW m \in Nodes, NEW u \in Tasks, snap'[m][u].status # "ABSENT",
                        u \in Unfinished' \/ (cur'[m] = u /\ at'[m] \in {"refund", "settle"})
                 PROVE  snap'[m][u].quota = row'[u].quota
      BY DEF SnapshotMoney
    <3>1. CASE u \in Unfinished'
      BY <1>2, <2>4, <2>9, <3>1 DEF MoneyInv, SnapshotMoney
    <3>2. CASE m = n /\ cur'[m] = u
      BY <1>2, <2>4, <2>5, <2>7, <3>2
    <3>3. CASE m # n /\ cur'[m] = u /\ at'[m] \in {"refund", "settle"}
      BY <1>2, <2>4, <2>7, <3>3 DEF MoneyInv, SnapshotMoney
    <3>4. QED BY <3>1, <3>2, <3>3
  <2>12. WinnerMoney'
    <3> SUFFICES ASSUME NEW m \in Nodes, at'[m] \in {"refund", "settle", "persist"}
                 PROVE  /\ at'[m] \in {"refund", "settle"} => charge'[cur'[m]] = row'[cur'[m]].quota
                        /\ at'[m] = "refund" => row'[cur'[m]].status = "FAILURE"
                        /\ at'[m] \in {"settle", "persist"} => row'[cur'[m]].status = "SUCCESS"
                        /\ NoFaults /\ at'[m] = "persist" => charge'[cur'[m]] = final'[m]
      BY DEF WinnerMoney
    <3>1. CASE m = n
      BY <3>1, <2>4, <2>5, <2>7 DEF TerminalStatuses
    <3>2. CASE m # n
      <4>1. cur[m] \in Tasks /\ cur[m] # t /\ at'[m] = at[m] /\ cur'[m] = cur[m]
        BY <3>2, <2>6, <2>7 DEF MoneyInv, RaceInv, BusyOnListed, Winner
      <4>2. QED BY <1>2, <2>4, <4>1 DEF MoneyInv, WinnerMoney
    <3>3. QED BY <3>1, <3>2
  <2>13. ClosedMoney'
    <3>1. Contested(t)'
      BY <2>7 DEF Contested, Winner
    <3>2. \A u \in Tasks \ {t} : Contested(u) => Contested(u)'
      <4> SUFFICES ASSUME NEW u \in Tasks \ {t}, NEW m \in Nodes, Winner(m, u)
                   PROVE  Contested(u)'
        BY DEF Contested
      <4>1. m # n
        BY DEF Winner
      <4>2. QED BY <4>1, <2>7 DEF Contested, Winner
    <3>3. QED BY <2>4, <2>5, <3>1, <3>2 DEF MoneyInv, ClosedMoney, IsTerminal, Balanced
  <2>14. QED BY <2>8, <2>10, <2>11, <2>12, <2>13 DEF MoneyInv
<1>3. QED BY <1>1, <1>2 DEF MarkTerminal

\* New lists, a fetched answer, a forgotten list: rows and money are untouched,
\* and a list agrees with the rows it was read from.
LEMMA MoneyLook ==
  ASSUME MoneyInv, RaceInv', NEW n \in Nodes, at[n] = "next",
         UNCHANGED <<pc, held, charge, row, final>>,
         \A m \in Nodes \ {n} : at'[m] = at[m] /\ cur'[m] = cur[m] /\ snap'[m] = snap[m],
         at'[n] \in {"next", "apply"},
         \A u \in Unfinished : snap'[n][u].status # "ABSENT" => snap'[n][u].quota = row[u].quota
  PROVE  MoneyInv'
<1>1. pc' = pc /\ held' = held /\ charge' = charge /\ row' = row /\ final' = final
  OBVIOUS
<1>2. HandlerMoney' /\ RowQuotaIsCharge'
  BY <1>1 DEF MoneyInv, HandlerMoney, RowQuotaIsCharge, Unfinished
<1>3. SnapshotMoney'
  BY <1>1 DEF MoneyInv, SnapshotMoney, Unfinished
<1>4. WinnerMoney'
  BY <1>1 DEF MoneyInv, WinnerMoney
<1>5. \A u \in Tasks : Contested(u) => Contested(u)'
  <2> SUFFICES ASSUME NEW u \in Tasks, NEW m \in Nodes, Winner(m, u)
               PROVE  Contested(u)'
    BY DEF Contested
  <2>1. m # n
    BY DEF Winner
  <2>2. QED BY <2>1 DEF Contested, Winner
<1>6. ClosedMoney'
  BY <1>1, <1>5 DEF MoneyInv, ClosedMoney, IsTerminal, Balanced
<1>7. QED BY <1>2, <1>3, <1>4, <1>6 DEF MoneyInv

LEMMA MoneyPoller ==
  ASSUME MoneyInv, NEW n \in Nodes, PollerStep(n)
  PROVE  MoneyInv'
<1> USE DEF rows, handlers
<1>1. RaceInv' /\ RaceInv /\ TypeOK
  BY RacePoller DEF MoneyInv, RaceInv
<1>2. pc' = pc /\ held' = held
  BY DEF PollerStep, ListTimeouts, FailOverdue, ListUnfinished, Fetch, LeaveForNextRound,
     PanicRound, ApplyTerminal, ApplyProgress, RefundTask, SettleSuccess, PersistQuota
<1>3. at[n] # "next" => cur[n] \in Tasks /\ snap[n][cur[n]].status # "ABSENT"
  BY <1>1 DEF RaceInv, BusyOnListed
<1>4. CASE ListTimeouts(n) \/ ListUnfinished(n)
  <2>1. \/ snap' = [snap EXCEPT ![n] = Listed(Oldest(OverdueTasks, TimeoutScanLimit))]
        \/ snap' = [snap EXCEPT ![n] = Listed(Oldest(Unfinished, PollBatchLimit))]
        \/ snap' = snap
    BY <1>4 DEF ListTimeouts, ListUnfinished
  <2>2. \A S : \A u \in Tasks : Listed(S)[u].status # "ABSENT" => Listed(S)[u] = row[u]
    BY DEF Listed, NoRow
  <2>3. \A u \in Unfinished : snap'[n][u].status # "ABSENT" => snap'[n][u].quota = row[u].quota
    BY <1>1, <2>1, <2>2 DEF MoneyInv, SnapshotMoney, Unfinished, TypeOK
  <2>4. \A m \in Nodes \ {n} : snap'[m] = snap[m]
    BY <1>1, <2>1 DEF TypeOK
  <2>5. UNCHANGED <<pc, held, charge, row, final, at, cur>> /\ at[n] = "next"
    BY <1>2, <1>4 DEF ListTimeouts, ListUnfinished, ledger
  <2>6. QED BY <1>1, <2>3, <2>4, <2>5, MoneyLook
<1>5. CASE Fetch(n)
  <2>1. UNCHANGED <<pc, held, charge, row, final, snap>> /\ at[n] = "next"
    BY <1>2, <1>5 DEF Fetch, ledger
  <2>2. /\ \A m \in Nodes \ {n} : at'[m] = at[m] /\ cur'[m] = cur[m] /\ snap'[m] = snap[m]
        /\ at'[n] = "apply"
    BY <1>1, <1>5 DEF Fetch, TypeOK
  <2>3. \A u \in Unfinished : snap'[n][u].status # "ABSENT" => snap'[n][u].quota = row[u].quota
    BY <2>1 DEF MoneyInv, SnapshotMoney, Unfinished
  <2>4. QED BY <1>1, <2>1, <2>2, <2>3, MoneyLook
<1>6. CASE PanicRound(n)
  <2>1. UNCHANGED <<pc, held, charge, row, final, at, cur>> /\ at[n] = "next"
    BY <1>2, <1>6 DEF PanicRound, ledger
  <2>2. /\ \A m \in Nodes \ {n} : snap'[m] = snap[m]
        /\ \A u \in Tasks : snap'[n][u].status = "ABSENT"
    BY <1>1, <1>6 DEF PanicRound, TypeOK, NoRow
  <2>3. QED BY <1>1, <2>1, <2>2, MoneyLook DEF Unfinished
<1>7. CASE LeaveForNextRound(n)
  <2>1. PICK t \in Tasks : Done(n, t)
    BY <1>7 DEF LeaveForNextRound, Todo
  <2>2. row' = row /\ charge' = charge /\ at[n] = "next"
    BY <1>7 DEF LeaveForNextRound, ledger
  <2>3. QED BY <1>1, <1>2, <2>1, <2>2, SameRows, MoneyDrop
<1>8. CASE FailOverdue(n)
  <2>1. PICK t \in Todo(n) : MarkTerminal(n, t, "FAILURE")
    BY <1>8, OldestSubset DEF FailOverdue
  <2>2. charge' = charge /\ at[n] = "next" /\ t \in Tasks /\ snap[n][t].status # "ABSENT"
    BY <1>8 DEF FailOverdue, ledger, Todo
  <2>3. QED BY <1>1, <1>2, <2>1, <2>2, MoneyMark DEF TerminalStatuses
<1>9. CASE ApplyTerminal(n)
  <2>1. charge' = charge /\ at[n] = "apply"
    BY <1>9 DEF ApplyTerminal, ledger
  <2>2. QED BY <1>1, <1>2, <1>3, <1>9, <2>1, MoneyMark DEF ApplyTerminal
<1>10. CASE ApplyProgress(n)
  <2>1. PICK t \in Tasks : t = cur[n] /\ Done(n, t)
    BY <1>3, <1>10 DEF ApplyProgress
  <2>2. charge' = charge /\ at[n] = "apply" /\ verdict[n] \in NonTerminal
    BY <1>10 DEF ApplyProgress, ledger
  <2>3. CASE row' = row
    BY <1>1, <1>2, <2>1, <2>2, <2>3, SameRows, MoneyDrop
  <2>4. CASE NonTerminalGuard(t) /\ SetStatus(t, verdict[n])
    <3>1. row[t] \in RowType /\ row' = [row EXCEPT ![t] = [row[t] EXCEPT !.status = verdict[n]]]
      BY <1>1, <2>4 DEF SetStatus, TypeOK
    <3>2. /\ [row[t] EXCEPT !.status = verdict[n]].status = verdict[n]
          /\ [row[t] EXCEPT !.status = verdict[n]].quota = row[t].quota
      BY <3>1 DEF RowType
    <3>3. \A u \in Tasks \ {t} : row'[u] = row[u]
      BY <1>1, <3>1 DEF TypeOK
    <3>4. row'[t].quota = row[t].quota /\ row'[t].status = verdict[n]
      BY <1>1, <3>1, <3>2 DEF TypeOK
    <3>5. QuotasKept
      BY <3>3, <3>4 DEF QuotasKept
    <3>6. ProgressOnly
      BY <2>2, <2>4, <3>3, <3>4 DEF ProgressOnly, NonTerminalGuard
    <3>7. QED BY <1>1, <1>2, <2>1, <2>2, <3>5, <3>6, MoneyDrop
  <2>5. QED BY <1>10, <2>1, <2>3, <2>4 DEF ApplyProgress
<1>11. CASE RefundTask(n)
  <2> DEFINE q == RefundAmount(n)
  <2>0. PICK t \in Tasks : t = cur[n]
    BY <1>3, <1>11 DEF RefundTask
  <2>1. Winner(n, t) /\ Done(n, t) /\ row' = row
    BY <1>11, <2>0 DEF RefundTask, Winner
  <2>2. q = charge[t] /\ q \in Nat /\ row[t].status = "FAILURE"
    BY <1>1, <1>3, <1>11, <2>0
       DEF RefundTask, RefundAmount, MoneyInv, SnapshotMoney, WinnerMoney, TypeOK, RowType
  <2>3. /\ charge' = charge \/ charge' = [charge EXCEPT ![t] = charge[t] + (-q)]
        /\ NoFaults => charge'[t] = 0
    <3>1. CASE q = 0 /\ charge' = charge
      BY <2>2, <3>1
    <3>2. CASE \E o \in PostConsumeOutcomes(TokenOf[t]) :
                 o.result \in {"ok", "error"} /\ PostConsume(t, o, -q)
      <4>1. PICK o \in PostConsumeOutcomes(TokenOf[t]) :
              o.result \in {"ok", "error"} /\ PostConsume(t, o, -q)
        BY <3>2
      <4>2. -q \in Int
        BY <2>2
      <4>3. /\ charge' = charge \/ charge' = [charge EXCEPT ![t] = charge[t] + (-q)]
            /\ MaxDbErrors = 0 => charge' = [charge EXCEPT ![t] = charge[t] + (-q)]
        BY <1>1, <4>1, <4>2, PostConsumeEffect
      <4>4. QED BY <1>1, <2>2, <4>3 DEF NoFaults, TypeOK
    <3>3. CASE Debit(t, -q)
      BY <1>1, <2>2, <3>3 DEF Debit, TypeOK
    <3>4. CASE charge' = charge /\ DbFault
      BY <1>1, <3>4 DEF DbFault, DbMayFail, NoFaults, TypeOK
    <3>5. QED BY <1>11, <2>0, <3>1, <3>2, <3>3, <3>4 DEF RefundTask, ledger
  <2>4. /\ \A u \in Tasks \ {t} : charge'[u] = charge[u] /\ row'[u] = row[u]
        /\ charge'[t] >= 0 /\ row'[t].status = row[t].status
    BY <1>1, <2>1, <2>2, <2>3 DEF TypeOK
  <2>5. NoFaults => Balanced(t)'
    BY <2>1, <2>2, <2>3 DEF Balanced
  <2>6. QED BY <1>1, <1>2, <2>1, <2>4, <2>5, MoneyFinish
<1>12. CASE SettleSuccess(n)
  <2> DEFINE q == snap[n][cur[n]].quota
  <2>0. PICK t \in Tasks : t = cur[n]
    BY <1>3, <1>12 DEF SettleSuccess
  <2>1. Winner(n, t) /\ row' = row
    BY <1>12, <2>0 DEF SettleSuccess, Winner
  <2>2. q = charge[t] /\ q = row[t].quota /\ q \in Nat /\ row[t].status = "SUCCESS"
    BY <1>1, <1>3, <1>12, <2>0
       DEF SettleSuccess, MoneyInv, SnapshotMoney, WinnerMoney, TypeOK, RowType
  <2>3. ASSUME Done(n, t), NEW f \in Nat,
               charge' = charge \/ charge' = [charge EXCEPT ![t] = f],
               NoFaults => charge' = charge
        PROVE  MoneyInv'
    <3>1. charge'[t] \in Nat /\ \A u \in Tasks \ {t} : charge'[u] = charge[u]
      BY <1>1, <2>2, <2>3 DEF TypeOK
    <3>2. /\ \A u \in Tasks \ {t} : charge'[u] = charge[u] /\ row'[u] = row[u]
          /\ charge'[t] >= 0 /\ row'[t].status = row[t].status
      BY <2>1, <3>1
    <3>3. NoFaults => Balanced(t)'
      BY <2>1, <2>2, <2>3 DEF Balanced
    <3>4. QED BY <1>1, <1>2, <2>1, <2>3, <3>2, <3>3, MoneyFinish
  <2>4. CASE Done(n, t) /\ charge' = charge
    BY <2>2, <2>3, <2>4
  <2>5. CASE \E f \in FinalQuotas \ {q}, o \in PostConsumeOutcomes(TokenOf[t]) :
          /\ PostConsume(t, o, SettlementDelta(f, q))
          /\ \/ /\ o.result = "ok"
                /\ final' = [final EXCEPT ![n] = f]
                /\ at' = [at EXCEPT ![n] = "persist"]
                /\ UNCHANGED <<phase, cur, verdict, snap>>
             \/ o.result # "ok" /\ Done(n, t)
    <3>1. PICK f \in FinalQuotas, o \in PostConsumeOutcomes(TokenOf[t]) :
          /\ PostConsume(t, o, SettlementDelta(f, q))
          /\ \/ /\ o.result = "ok"
                /\ final' = [final EXCEPT ![n] = f]
                /\ at' = [at EXCEPT ![n] = "persist"]
                /\ UNCHANGED <<phase, cur, verdict, snap>>
             \/ o.result # "ok" /\ Done(n, t)
      BY <2>5
    <3>2. f \in Nat /\ SettlementDelta(f, q) \in Int /\ charge[t] + SettlementDelta(f, q) = f
      BY <2>2, VideoAssumption DEF SettlementDelta
    <3>3. /\ charge' = charge \/ charge' = [charge EXCEPT ![t] = f]
          /\ MaxDbErrors = 0 => \/ o.result = "ok" /\ charge' = [charge EXCEPT ![t] = f]
                                \/ o.result = "notfound" /\ charge' = charge
      BY <1>1, <3>1, <3>2, PostConsumeEffect
    <3>4. CASE o.result # "ok" /\ Done(n, t)
      BY <2>3, <3>2, <3>3, <3>4 DEF NoFaults
    <3>5. CASE /\ o.result = "ok"
               /\ final' = [final EXCEPT ![n] = f]
               /\ at' = [at EXCEPT ![n] = "persist"]
               /\ UNCHANGED <<phase, cur, verdict, snap>>
      <4>1. /\ at'[n] = "persist" /\ final'[n] = f
            /\ \A m \in Nodes \ {n} : at'[m] = at[m] /\ final'[m] = final[m]
            /\ cur' = cur /\ snap' = snap
        BY <1>1, <3>5 DEF TypeOK
      <4>2. /\ \A u \in Tasks \ {t} : charge'[u] = charge[u]
            /\ charge'[t] >= 0 /\ (NoFaults => charge'[t] = f)
        <5>1. charge[t] >= 0 /\ f >= 0
          BY <2>2, <3>2
        <5>2. \/ charge' = [charge EXCEPT ![t] = f]
              \/ charge' = charge /\ ~NoFaults
          BY <3>3, <3>5 DEF NoFaults
        <5>3. QED BY <1>1, <5>1, <5>2 DEF TypeOK
      <4>3. IsTerminal(t) /\ pc[t] = "inserted" /\ \A m \in Nodes : Winner(m, t) => m = n
        BY <1>1, <2>1, StatusesDiffer DEF RaceInv, OneWinner, RowsOfInserted, IsTerminal
      <4>4. HandlerMoney'
        BY <1>2, <4>2, <4>3 DEF MoneyInv, HandlerMoney
      <4>5. \A u \in Unfinished' : u \in Unfinished /\ u # t
        BY <2>1, <4>3, StatusesDiffer DEF Unfinished, IsTerminal
      <4>6. RowQuotaIsCharge'
        BY <2>1, <4>2, <4>5 DEF MoneyInv, RowQuotaIsCharge, Unfinished
      <4>7. SnapshotMoney'
        <5> SUFFICES ASSUME NEW m \in Nodes, NEW u \in Tasks, snap'[m][u].status # "ABSENT",
                            u \in Unfinished' \/ (cur'[m] = u /\ at'[m] \in {"refund", "settle"})
                     PROVE  snap'[m][u].quota = row'[u].quota
          BY DEF SnapshotMoney
        <5>1. CASE u \in Unfinished'
          BY <2>1, <4>1, <4>5, <5>1 DEF MoneyInv, SnapshotMoney
        <5>2. CASE cur'[m] = u /\ at'[m] \in {"refund", "settle"}
          BY <2>1, <4>1, <5>2 DEF MoneyInv, SnapshotMoney
        <5>3. QED BY <5>1, <5>2
      <4>8. WinnerMoney'
        <5> SUFFICES ASSUME NEW m \in Nodes, at'[m] \in {"refund", "settle", "persist"}
                     PROVE  /\ at'[m] \in {"refund", "settle"} => charge'[cur'[m]] = row'[cur'[m]].quota
                            /\ at'[m] = "refund" => row'[cur'[m]].status = "FAILURE"
                            /\ at'[m] \in {"settle", "persist"} => row'[cur'[m]].status = "SUCCESS"
                            /\ NoFaults /\ at'[m] = "persist" => charge'[cur'[m]] = final'[m]
          BY DEF WinnerMoney
        <5>1. CASE m = n
          BY <2>0, <2>1, <2>2, <4>1, <4>2, <5>1
        <5>2. CASE m # n
          <6>1. cur[m] \in Tasks \ {t} /\ at'[m] = at[m] /\ cur'[m] = cur[m] /\ final'[m] = final[m]
            BY <1>1, <4>1, <4>3, <5>2 DEF RaceInv, BusyOnListed, Winner
          <6>2. QED BY <2>1, <4>2, <6>1 DEF MoneyInv, WinnerMoney
        <5>3. QED BY <5>1, <5>2
      <4>9. ClosedMoney'
        <5>1. Contested(t)'
          BY <2>0, <4>1 DEF Contested, Winner
        <5>2. \A u \in Tasks \ {t} : Contested(u) => Contested(u)'
          <6> SUFFICES ASSUME NEW u \in Tasks \ {t}, NEW m \in Nodes, Winner(m, u)
                       PROVE  Contested(u)'
            BY DEF Contested
          <6>1. m # n
            BY <2>0 DEF Winner
          <6>2. QED BY <4>1, <6>1 DEF Contested, Winner
        <5>3. QED BY <2>1, <4>2, <5>1, <5>2 DEF MoneyInv, ClosedMoney, IsTerminal, Balanced
      <4>10. QED BY <1>1, <4>4, <4>6, <4>7, <4>8, <4>9 DEF MoneyInv
    <3>6. QED BY <3>1, <3>4, <3>5
  <2>6. QED BY <1>12, <2>0, <2>4, <2>5 DEF SettleSuccess, ledger
<1>13. CASE PersistQuota(n)
  <2>0. PICK t \in Tasks : t = cur[n]
    BY <1>3, <1>13 DEF PersistQuota
  <2>1. Winner(n, t) /\ Done(n, t) /\ charge' = charge
    BY <1>13, <2>0 DEF PersistQuota, Winner, ledger
  <2>2. /\ charge[t] >= 0 /\ (NoFaults => charge[t] = final[n]) /\ row[t].status = "SUCCESS"
        /\ row[t] \in RowType
    BY <1>1, <1>13, <2>0, <2>1 DEF PersistQuota, MoneyInv, WinnerMoney, ClosedMoney, RaceInv,
       OneWinner, TypeOK
  <2>3. CASE row' = [row EXCEPT ![t].quota = final[n]]
    <3>1. row' = [row EXCEPT ![t] = [row[t] EXCEPT !.quota = final[n]]]
      BY <2>3
    <3>2. /\ [row[t] EXCEPT !.quota = final[n]].quota = final[n]
          /\ [row[t] EXCEPT !.quota = final[n]].status = row[t].status
      BY <2>2 DEF RowType
    <3>3. /\ \A u \in Tasks \ {t} : charge'[u] = charge[u] /\ row'[u] = row[u]
          /\ charge'[t] >= 0 /\ row'[t].status = row[t].status
          /\ row'[t].quota = final[n]
      BY <1>1, <2>1, <2>2, <3>1, <3>2 DEF TypeOK
    <3>4. NoFaults => Balanced(t)'
      BY <2>1, <2>2, <3>3 DEF Balanced
    <3>5. QED BY <1>1, <1>2, <2>1, <3>3, <3>4, MoneyFinish
  <2>4. CASE row' = row /\ DbFault
    <3>1. ~NoFaults
      BY <1>1, <2>4 DEF DbFault, DbMayFail, NoFaults, TypeOK
    <3>2. /\ \A u \in Tasks \ {t} : charge'[u] = charge[u] /\ row'[u] = row[u]
          /\ charge'[t] >= 0 /\ row'[t].status = row[t].status
      BY <2>1, <2>2, <2>4
    <3>3. QED BY <1>1, <1>2, <2>1, <3>1, <3>2, MoneyFinish
  <2>5. QED BY <1>13, <2>0, <2>3, <2>4 DEF PersistQuota
<1>14. QED
  BY <1>4, <1>5, <1>6, <1>7, <1>8, <1>9, <1>10, <1>11, <1>12, <1>13 DEF PollerStep

LEMMA MoneyEnvironment ==
  ASSUME MoneyInv,
         \/ \E t \in Tasks : UpstreamStep(t) \/ PassDeadline(t)
         \/ \E n \in Nodes : Crash(n)
         \/ \E k \in Tokens : DeleteToken(k)
         \/ UNCHANGED vars
  PROVE  MoneyInv'
<1> USE DEF handlers, rows, pollers, ledger
<1>1. RaceInv' /\ RaceInv /\ TypeOK
  BY RaceEnvironment DEF MoneyInv, RaceInv
<1>2. CASE \E n \in Nodes : Crash(n)
  <2>1. PICK n \in Nodes : Crash(n)
    BY <1>2
  <2>2. held' = held /\ charge' = charge /\ row' = row
    BY <2>1 DEF Crash
  <2>3. \A t \in Tasks :
          pc'[t] = pc[t] \/ (pc'[t] = "crashed" /\ pc[t] \in {"charged", "accepted", "adjusted", "refund"})
    BY <2>1 DEF Crash
  <2>4. \A t \in Tasks : held[t] \in Nat
    BY <1>1 DEF TypeOK
  <2>5. HandlerMoney'
    BY <2>2, <2>3, <2>4 DEF MoneyInv, HandlerMoney
  <2>6. RowQuotaIsCharge'
    BY <2>2 DEF MoneyInv, RowQuotaIsCharge, Unfinished
  <2>7. /\ at'[n] = "next" /\ \A t \in Tasks : snap'[n][t].status = "ABSENT"
        /\ \A m \in Nodes \ {n} : /\ at'[m] = at[m] /\ cur'[m] = cur[m]
                                 /\ snap'[m] = snap[m] /\ final'[m] = final[m]
    BY <1>1, <2>1 DEF Crash, TypeOK, NoRow
  <2>8. SnapshotMoney'
    BY <2>2, <2>7 DEF MoneyInv, SnapshotMoney, Unfinished
  <2>9. WinnerMoney'
    BY <2>2, <2>7 DEF MoneyInv, WinnerMoney
  <2>10. ~NoFaults
    BY <1>1, <2>1, VideoAssumption DEF Crash, NoFaults, TypeOK
  <2>11. ClosedMoney'
    BY <2>2, <2>10 DEF MoneyInv, ClosedMoney, IsTerminal
  <2>12. QED BY <1>1, <2>5, <2>6, <2>8, <2>9, <2>11 DEF MoneyInv
<1>3. CASE UNCHANGED <<pc, held, charge, row, at, cur, snap, final>>
  <2>1. UNCHANGED <<HandlerMoney, RowQuotaIsCharge, SnapshotMoney>>
    BY <1>3 DEF HandlerMoney, RowQuotaIsCharge, SnapshotMoney, Unfinished
  <2>2. WinnerMoney' /\ ClosedMoney'
    BY <1>3 DEF MoneyInv, WinnerMoney, ClosedMoney, IsTerminal, Contested, Winner, Balanced
  <2>3. QED BY <1>1, <2>1, <2>2 DEF MoneyInv
<1>4. QED BY <1>2, <1>3 DEF UpstreamStep, PassDeadline, DeleteToken, vars

LEMMA MoneyInvariance == ASSUME NoHalfRepricing PROVE Spec => []MoneyInv
<1>1. Init => MoneyInv
  BY MoneyInit
<1>2. MoneyInv /\ [Next]_vars => MoneyInv'
  BY MoneyHandler, MoneyPoller, MoneyEnvironment DEF Next
<1>3. QED BY <1>1, <1>2, PTL DEF Spec

\* No submission is ever paid back more than it was charged, whatever handlers,
\* pollers, timeouts, crashes, deletions and failing statements do
\* (poller.go StartPolling: "concurrent pollers ... never double-bill").
THEOREM NoOverRefund == ASSUME NoHalfRepricing PROVE Spec => []NeverOverRefunded
<1>1. MoneyInv => NeverOverRefunded
  <2> SUFFICES ASSUME MoneyInv, NEW t \in Tasks PROVE charge[t] >= 0
    BY DEF NeverOverRefunded
  <2>1. pc[t] \in Locations /\ held[t] \in Nat /\ row[t] \in RowType
    BY DEF MoneyInv, RaceInv, TypeOK
  <2>2. CASE pc[t] # "inserted"
    BY <2>1, <2>2 DEF MoneyInv, HandlerMoney, Locations
  <2>3. CASE pc[t] = "inserted"
    <3>1. t \in Unfinished \/ IsTerminal(t)
      BY <2>1, <2>3 DEF MoneyInv, RaceInv, RowsOfInserted, RowType, Unfinished, IsTerminal
    <3>2. row[t].quota \in Nat
      BY <2>1 DEF RowType
    <3>3. QED BY <3>1, <3>2 DEF MoneyInv, RowQuotaIsCharge, ClosedMoney
  <2>4. QED BY <2>2, <2>3
<1>2. QED BY <1>1, MoneyInvariance, PTL

\* The quota column of a running task is what its owner has paid
\* (task.go: "the single source of truth for refunds").
THEOREM QuotaColumnIsCharge == ASSUME NoHalfRepricing PROVE Spec => []RowQuotaIsCharge
<1>1. MoneyInv => RowQuotaIsCharge
  BY DEF MoneyInv
<1>2. QED BY <1>1, MoneyInvariance, PTL

\* Without crashes and failing statements every closed task whose winner is
\* done is balanced: failed tasks cost nothing, successful ones their price.
THEOREM ClosedIsBalanced == ASSUME NoFaults PROVE Spec => []ClosedTaskBalanced
<1>1. NoHalfRepricing
  BY DEF NoFaults, NoHalfRepricing
<1>2. MoneyInv => ClosedTaskBalanced
  BY DEF MoneyInv, ClosedMoney, ClosedTaskBalanced, Stranded
<1>3. QED BY <1>1, <1>2, MoneyInvariance, PTL

-----------------------------------------------------------------------------
(* What faults can cost.  A submission's money is straight when the charge  *)
(* is what the next statement about it takes it to be: the handler's local  *)
(* variable, the quota column, the settled price, or, once nobody is        *)
(* working on it, what the closed row says.  No step bends more than the    *)
(* one task it works on, and only together with a crash or a failing        *)
(* statement.  The chain the money runs along is the same without faults:   *)
(* a list shows the quota column, the column still holds the handler's      *)
(* price, and a winner works on the status it wrote.                        *)

Holding == {"charged", "accepted", "adjusted", "refund"}
Paying(n, t) == cur[n] = t /\ at[n] \in {"refund", "settle"}

NewIsFree == \A t \in Tasks : pc[t] = "new" => charge[t] = 0 /\ held[t] = 0

WinnerStatus ==
  \A n \in Nodes :
    /\ at[n] = "refund" => row[cur[n]].status = "FAILURE"
    /\ at[n] \in {"settle", "persist"} => row[cur[n]].status = "SUCCESS"

HeldInRow ==
  \A t \in Tasks :
    t \in Unfinished \/ (\E n \in Nodes : Paying(n, t)) => row[t].quota = held[t]

FlowInv == RaceInv /\ NewIsFree /\ SnapshotMoney /\ WinnerStatus /\ HeldInRow

LEMMA FlowInit == Init => FlowInv
BY RaceInit, StatusesDiffer DEF Init, FlowInv, NewIsFree, SnapshotMoney, WinnerStatus, HeldInRow,
   Paying, Unfinished, NoRow

\* How a statement of the ledger moves one submission: by d or not at all, and
\* when nothing failed the caller is told which.
LEMMA PostConsumeTruth ==
  ASSUME TypeOK, NEW t \in Tasks, NEW d \in Int,
         NEW o \in PostConsumeOutcomes(TokenOf[t]), PostConsume(t, o, d)
  PROVE  /\ UNCHANGED ledger \/ Debit(t, d)
         /\ dbErrors' = dbErrors \/ dbErrors' = dbErrors + 1
         /\ dbErrors' = dbErrors => \/ o.result = "ok" /\ Debit(t, d)
                                    \/ o.result = "notfound" /\ UNCHANGED ledger
<1>1. dbErrors \in Nat BY DEF TypeOK
<1>2. dbErrors' = dbErrors + o.fault BY DEF PostConsume
<1>3. \/ o = [moved |-> FALSE, result |-> "notfound", fault |-> 0]
      \/ o = [moved |-> TRUE, result |-> "ok", fault |-> 0]
      \/ o.fault = 1
  BY DEF PostConsumeOutcomes
<1>4. CASE o.fault = 1
  BY <1>1, <1>2, <1>4 DEF PostConsume
<1>5. CASE o = [moved |-> FALSE, result |-> "notfound", fault |-> 0]
  BY <1>1, <1>2, <1>5 DEF PostConsume
<1>6. CASE o = [moved |-> TRUE, result |-> "ok", fault |-> 0]
  BY <1>1, <1>2, <1>6 DEF PostConsume
<1>7. QED BY <1>3, <1>4, <1>5, <1>6

\* Debit moves one charge.
LEMMA DebitCharge ==
  ASSUME TypeOK, NEW t \in Tasks, NEW d \in Int, Debit(t, d)
  PROVE  /\ charge'[t] = charge[t] + d /\ charge[t] \in Int
         /\ \A u \in Tasks \ {t} : charge'[u] = charge[u]
         /\ wallet'[Payer(t)] = wallet[Payer(t)] - d
         /\ \A v \in Users \ {Payer(t)} : wallet'[v] = wallet[v]
BY PayerType DEF Debit, TypeOK

-----------------------------------------------------------------------------
(* The shapes a step can have. *)

\* A handler step: its own submission, which has no row before it.
HandlerShape(t) ==
  /\ row[t].status = "ABSENT"
  /\ UNCHANGED <<pollers, refundLog, crashes>>
  /\ \A u \in Tasks \ {t} : /\ charge'[u] = charge[u] /\ pc'[u] = pc[u]
                            /\ held'[u] = held[u] /\ row'[u] = row[u]
  /\ \/ pc'[t] \in Holding \cup {"failed"} /\ row'[t] = row[t]
     \/ /\ pc[t] = "adjusted" /\ pc'[t] = "inserted" /\ row'[t].status = "QUEUED"
        /\ row'[t].quota = held[t] /\ held'[t] = held[t] /\ charge'[t] = charge[t]

LEMMA HandlerHasShape ==
  ASSUME RaceInv, NEW t \in Tasks, Submit(t) \/ HandlerStep(t)
  PROVE  HandlerShape(t)
<1>1. TypeOK /\ TypeOK'
  BY RaceHandler DEF RaceInv
<1>2. UNCHANGED <<pollers, refundLog, crashes>>
  BY DEF Submit, HandlerStep, UpstreamAccepts, UpstreamErrors, AdjustOnSubmit,
     InsertTask, InsertTaskFails, RefundSubmit, faults
<1>3. row[t].status = "ABSENT"
  BY DEF Submit, HandlerStep, UpstreamAccepts, UpstreamErrors, AdjustOnSubmit,
     InsertTask, InsertTaskFails, RefundSubmit, RaceInv, RowsOfInserted
<1>4. \A u \in Tasks \ {t} : /\ charge'[u] = charge[u] /\ row'[u] = row[u]
                             /\ pc'[u] = pc[u] /\ held'[u] = held[u]
  BY <1>1 DEF Submit, HandlerStep, UpstreamAccepts, UpstreamErrors, AdjustOnSubmit, InsertTask,
     InsertTaskFails, RefundSubmit, PostConsume, Debit, ledger, rows, TypeOK
<1>5. CASE InsertTask(t)
  BY <1>1, <1>2, <1>3, <1>4, <1>5 DEF InsertTask, HandlerShape, ledger, TypeOK
<1>6. CASE ~InsertTask(t)
  <2>1. pc'[t] \in Holding \cup {"failed"} /\ row' = row
    BY <1>1, <1>6 DEF Submit, HandlerStep, UpstreamAccepts, UpstreamErrors, AdjustOnSubmit,
       InsertTaskFails, RefundSubmit, rows, Holding, TypeOK
  <2>2. QED BY <1>2, <1>3, <1>4, <2>1 DEF HandlerShape
<1>7. QED BY <1>5, <1>6

\* A poller step that moves no money and wins nothing.
Looks(n) ==
  /\ UNCHANGED <<wallet, charge, refundLog>> /\ QuotasKept /\ ProgressOnly
  /\ at[n] \in {"next", "apply"} /\ at'[n] \in {"next", "apply"}

\* A poller step that makes n the winner of t.
Wins(n, t, s) ==
  /\ UNCHANGED <<wallet, charge, refundLog, final>> /\ QuotasKept
  /\ t \in Unfinished /\ row'[t].status = s /\ \A u \in Tasks \ {t} : row'[u] = row[u]
  /\ at[n] \in {"next", "apply"} /\ cur'[n] = t
  /\ at'[n] = IF s = "SUCCESS" THEN "settle" ELSE "refund"

PollerFrame(n) ==
  /\ UNCHANGED <<pc, held, crashes>>
  /\ dbErrors' = dbErrors \/ dbErrors' = dbErrors + 1
  /\ \A m \in Nodes \ {n} : at'[m] = at[m] /\ cur'[m] = cur[m] /\ final'[m] = final[m]
  /\ \A m \in Nodes, u \in Tasks : snap'[m][u].status # "ABSENT" =>
       snap'[m][u] = snap[m][u] \/ snap'[m][u].quota = row[u].quota

PollerShape(n) ==
  \/ Looks(n)
  \/ \E t \in Tasks, s \in TerminalStatuses : Wins(n, t, s)
  \/ RefundTask(n) \/ SettleSuccess(n) \/ PersistQuota(n)

LEMMA DoneShape ==
  ASSUME TypeOK, NEW n \in Nodes, NEW t \in Tasks, Done(n, t)
  PROVE  /\ at'[n] = "next"
         /\ \A m \in Nodes \ {n} : at'[m] = at[m] /\ cur'[m] = cur[m] /\ final'[m] = final[m]
         /\ \A m \in Nodes, u \in Tasks : snap'[m][u].status # "ABSENT" => snap'[m][u] = snap[m][u]
BY DEF Done, TypeOK, NoRow

LEMMA MarkShape ==
  ASSUME RaceInv, NEW n \in Nodes, NEW t \in Tasks, NEW s \in TerminalStatuses,
         snap[n][t].status # "ABSENT", at[n] \in {"next", "apply"},
         UNCHANGED <<ledger, handlers, refundLog, crashes>>, MarkTerminal(n, t, s)
  PROVE  PollerFrame(n) /\ (Looks(n) \/ Wins(n, t, s))
<1> USE DEF ledger, handlers
<1>0. TypeOK /\ dbErrors \in Nat BY DEF RaceInv, TypeOK
<1>1. CASE Done(n, t) /\ UNCHANGED row /\ (UNCHANGED dbErrors \/ DbFault)
  <2>1. QuotasKept /\ ProgressOnly BY <1>1, SameRows
  <2>2. PollerFrame(n) BY <1>0, <1>1, DoneShape DEF PollerFrame, DbFault
  <2>3. QED BY <1>0, <1>1, <2>1, <2>2, DoneShape DEF Looks
<1>2. CASE /\ CasMatches(t, snap[n][t].status)
           /\ SetStatus(t, s)
           /\ at' = [at EXCEPT ![n] = IF s = "SUCCESS" THEN "settle" ELSE "refund"]
           /\ cur' = [cur EXCEPT ![n] = t]
           /\ UNCHANGED <<phase, verdict, final, snap, dbErrors>>
  <2>1. t \in Unfinished
    BY <1>2 DEF RaceInv, ListedWereRunning, CasMatches, Unfinished
  <2>2. row[t] \in RowType /\ row' = [row EXCEPT ![t] = [row[t] EXCEPT !.status = s]]
    BY <1>0, <1>2 DEF SetStatus, TypeOK
  <2>3. [row[t] EXCEPT !.status = s].status = s /\ [row[t] EXCEPT !.status = s].quota = row[t].quota
    BY <2>2 DEF RowType
  <2>4. QuotasKept /\ row'[t].status = s /\ \A u \in Tasks \ {t} : row'[u] = row[u]
    BY <1>0, <2>2, <2>3 DEF TypeOK, QuotasKept
  <2>5. PollerFrame(n)
    BY <1>0, <1>2 DEF PollerFrame, TypeOK
  <2>6. at'[n] = (IF s = "SUCCESS" THEN "settle" ELSE "refund") /\ cur'[n] = t
    BY <1>0, <1>2 DEF TypeOK
  <2>7. QED BY <1>2, <2>1, <2>4, <2>5, <2>6 DEF Wins
<1>3. QED BY <1>1, <1>2 DEF MarkTerminal

LEMMA PollerHasShape ==
  ASSUME RaceInv, NEW n \in Nodes, PollerStep(n)
  PROVE  PollerFrame(n) /\ PollerShape(n)
<1> USE DEF rows, handlers, ledger
<1>1. TypeOK /\ dbErrors \in Nat BY DEF RaceInv, TypeOK
<1>2. at[n] # "next" => cur[n] \in Tasks /\ snap[n][cur[n]].status # "ABSENT"
  BY DEF RaceInv, BusyOnListed
<1>3. CASE ListTimeouts(n) \/ ListUnfinished(n)
  <2>1. \/ snap' = [snap EXCEPT ![n] = Listed(Oldest(OverdueTasks, TimeoutScanLimit))]
        \/ snap' = [snap EXCEPT ![n] = Listed(Oldest(Unfinished, PollBatchLimit))]
        \/ snap' = snap
    BY <1>3 DEF ListTimeouts, ListUnfinished
  <2>2. \A S : \A u \in Tasks : Listed(S)[u].status # "ABSENT" => Listed(S)[u] = row[u]
    BY DEF Listed, NoRow
  <2>3. \A m \in Nodes, u \in Tasks : snap'[m][u].status # "ABSENT" =>
          snap'[m][u] = snap[m][u] \/ snap'[m][u].quota = row[u].quota
    <3> DEFINE Kept(m, u) == snap'[m][u].status # "ABSENT" =>
                 snap'[m][u] = snap[m][u] \/ snap'[m][u].quota = row[u].quota
    <3>1. \A S : snap' = [snap EXCEPT ![n] = Listed(S)] => \A m \in Nodes, u \in Tasks : Kept(m, u)
      <4>1. SUFFICES ASSUME NEW S, snap' = [snap EXCEPT ![n] = Listed(S)],
                            NEW m \in Nodes, NEW u \in Tasks
                     PROVE  Kept(m, u)
        OBVIOUS
      <4>2. snap'[m] = IF m = n THEN Listed(S) ELSE snap[m] BY <1>1, <4>1 DEF TypeOK
      <4>3. CASE m = n BY <4>2, <4>3, <2>2
      <4>4. CASE m # n BY <4>2, <4>4
      <4>5. QED BY <4>3, <4>4
    <3>2. snap' = snap => \A m \in Nodes, u \in Tasks : Kept(m, u) OBVIOUS
    <3>3. \A m \in Nodes, u \in Tasks : Kept(m, u) BY <2>1, <3>1, <3>2
    <3>4. QED BY <3>3
  <2>4. /\ UNCHANGED <<pc, held, crashes, wallet, charge, refundLog, row, at, cur, final>>
        /\ at[n] = "next" /\ (UNCHANGED dbErrors \/ DbFault)
    BY <1>3 DEF ListTimeouts, ListUnfinished
  <2>5. PollerFrame(n) BY <1>1, <2>3, <2>4 DEF PollerFrame, DbFault
  <2>6. Looks(n) BY <2>4, SameRows DEF Looks
  <2>7. QED BY <2>5, <2>6 DEF PollerShape
<1>4. CASE Fetch(n)
  <2>1. UNCHANGED <<pc, held, crashes, dbErrors, wallet, charge, refundLog, row, final, snap>>
    BY <1>4 DEF Fetch, faults
  <2>2. /\ at[n] = "next" /\ at'[n] = "apply"
        /\ \A m \in Nodes \ {n} : at'[m] = at[m] /\ cur'[m] = cur[m]
    BY <1>1, <1>4 DEF Fetch, TypeOK
  <2>3. PollerFrame(n) BY <2>1, <2>2 DEF PollerFrame
  <2>4. Looks(n) BY <2>1, <2>2, SameRows DEF Looks
  <2>5. QED BY <2>3, <2>4 DEF PollerShape
<1>5. CASE PanicRound(n)
  <2>1. UNCHANGED <<pc, held, crashes, dbErrors, wallet, charge, refundLog, row, final, at, cur>>
    BY <1>5 DEF PanicRound, faults
  <2>2. at[n] = "next" /\ \A m \in Nodes, u \in Tasks : snap'[m][u].status # "ABSENT" => snap'[m][u] = snap[m][u]
    BY <1>1, <1>5 DEF PanicRound, TypeOK, NoRow
  <2>3. PollerFrame(n) BY <2>1, <2>2 DEF PollerFrame
  <2>4. Looks(n) BY <2>1, <2>2, SameRows DEF Looks
  <2>5. QED BY <2>3, <2>4 DEF PollerShape
<1>6. CASE LeaveForNextRound(n)
  <2>1. PICK t \in Tasks : Done(n, t)
    BY <1>6 DEF LeaveForNextRound, Todo
  <2>2. UNCHANGED <<pc, held, crashes, dbErrors, wallet, charge, refundLog, row>> /\ at[n] = "next"
    BY <1>6 DEF LeaveForNextRound, faults
  <2>3. PollerFrame(n) BY <1>1, <2>1, <2>2, DoneShape DEF PollerFrame
  <2>4. Looks(n) BY <1>1, <2>1, <2>2, SameRows, DoneShape DEF Looks
  <2>5. QED BY <2>3, <2>4 DEF PollerShape
<1>7. CASE FailOverdue(n)
  <2>1. PICK t \in Todo(n) : MarkTerminal(n, t, "FAILURE")
    BY <1>7, OldestSubset DEF FailOverdue
  <2>2. /\ UNCHANGED <<ledger, handlers, refundLog, crashes>> /\ at[n] = "next" /\ t \in Tasks
        /\ snap[n][t].status # "ABSENT" /\ "FAILURE" \in TerminalStatuses
    BY <1>7 DEF FailOverdue, Todo, TerminalStatuses
  <2>3. PollerFrame(n) /\ (Looks(n) \/ Wins(n, t, "FAILURE"))
    BY <2>1, <2>2, MarkShape
  <2>4. QED BY <2>2, <2>3 DEF PollerShape
<1>8. CASE ApplyTerminal(n)
  <2>1. /\ UNCHANGED <<ledger, handlers, refundLog, crashes>> /\ at[n] = "apply"
        /\ verdict[n] \in TerminalStatuses /\ MarkTerminal(n, cur[n], verdict[n])
    BY <1>8 DEF ApplyTerminal
  <2>2. PollerFrame(n) /\ (Looks(n) \/ Wins(n, cur[n], verdict[n]))
    BY <1>2, <2>1, MarkShape
  <2>3. QED BY <1>2, <2>1, <2>2 DEF PollerShape
<1>9. CASE ApplyProgress(n)
  <2>1. PICK t \in Tasks : t = cur[n] /\ Done(n, t)
    BY <1>2, <1>9 DEF ApplyProgress
  <2>2. /\ UNCHANGED <<pc, held, crashes, wallet, charge, refundLog>> /\ at[n] = "apply"
        /\ verdict[n] \in NonTerminal /\ (UNCHANGED dbErrors \/ DbFault)
    BY <1>9 DEF ApplyProgress
  <2>3. PollerFrame(n) BY <1>1, <2>1, <2>2, DoneShape DEF PollerFrame, DbFault
  <2>4. QuotasKept /\ ProgressOnly
    <3>1. CASE row' = row BY <3>1, SameRows
    <3>2. CASE NonTerminalGuard(t) /\ SetStatus(t, verdict[n])
      <4>1. row[t] \in RowType /\ row' = [row EXCEPT ![t] = [row[t] EXCEPT !.status = verdict[n]]]
        BY <1>1, <3>2 DEF SetStatus, TypeOK
      <4>2. /\ [row[t] EXCEPT !.status = verdict[n]].status = verdict[n]
            /\ [row[t] EXCEPT !.status = verdict[n]].quota = row[t].quota
        BY <4>1 DEF RowType
      <4>3. \A u \in Tasks \ {t} : row'[u] = row[u]
        BY <1>1, <4>1 DEF TypeOK
      <4>4. row'[t].quota = row[t].quota /\ row'[t].status = verdict[n]
        BY <1>1, <4>1, <4>2 DEF TypeOK
      <4>5. QuotasKept
        BY <4>3, <4>4 DEF QuotasKept
      <4>6. ProgressOnly
        BY <2>2, <3>2, <4>3, <4>4 DEF ProgressOnly, NonTerminalGuard
      <4>7. QED BY <4>5, <4>6
    <3>3. QED BY <1>9, <2>1, <3>1, <3>2 DEF ApplyProgress
  <2>5. Looks(n) BY <1>1, <2>1, <2>2, <2>4, DoneShape DEF Looks
  <2>6. QED BY <2>3, <2>5 DEF PollerShape
<1>10. CASE RefundTask(n)
  <2>1. PICK t \in Tasks : t = cur[n] /\ Done(n, t)
    BY <1>2, <1>10 DEF RefundTask
  <2>2. RefundAmount(n) \in Nat
    BY <1>1, <2>1 DEF RefundAmount, TypeOK, RowType
  <2>3. dbErrors' = dbErrors \/ dbErrors' = dbErrors + 1
    <3>1. -RefundAmount(n) \in Int BY <2>2
    <3>2. ASSUME NEW o \in PostConsumeOutcomes(TokenOf[t]), PostConsume(t, o, -RefundAmount(n))
          PROVE  dbErrors' = dbErrors \/ dbErrors' = dbErrors + 1
      BY <1>1, <3>1, <3>2, PostConsumeTruth
    <3>3. QED BY <1>10, <2>1, <3>2 DEF RefundTask, DbFault
  <2>4. UNCHANGED <<pc, held, crashes>> BY <1>10 DEF RefundTask
  <2>5. PollerFrame(n) BY <1>1, <2>1, <2>3, <2>4, DoneShape DEF PollerFrame
  <2>6. QED BY <1>10, <2>5 DEF PollerShape
<1>11. CASE SettleSuccess(n)
  <2>1. PICK t \in Tasks : t = cur[n]
    BY <1>2, <1>11 DEF SettleSuccess
  <2> DEFINE q == snap[n][t].quota
  <2>2. q \in Nat BY <1>1 DEF TypeOK, RowType
  <2>3. UNCHANGED <<pc, held, crashes>> BY <1>11 DEF SettleSuccess
  <2>4. CASE Done(n, t) /\ UNCHANGED dbErrors
    BY <1>1, <2>3, <2>4, <1>11, DoneShape DEF PollerFrame, PollerShape
  <2>5. CASE \E f \in FinalQuotas \ {q}, o \in PostConsumeOutcomes(TokenOf[t]) :
          /\ PostConsume(t, o, SettlementDelta(f, q))
          /\ \/ final' = [final EXCEPT ![n] = f] /\ at' = [at EXCEPT ![n] = "persist"]
                /\ UNCHANGED <<cur, snap>>
             \/ Done(n, t)
    <3>1. PICK f \in FinalQuotas, o \in PostConsumeOutcomes(TokenOf[t]) :
          /\ PostConsume(t, o, SettlementDelta(f, q))
          /\ \/ final' = [final EXCEPT ![n] = f] /\ at' = [at EXCEPT ![n] = "persist"]
                /\ UNCHANGED <<cur, snap>>
             \/ Done(n, t)
      BY <2>5
    <3>2. SettlementDelta(f, q) \in Int
      BY <2>2, VideoAssumption DEF SettlementDelta
    <3>3. dbErrors' = dbErrors \/ dbErrors' = dbErrors + 1
      BY <1>1, <3>1, <3>2, PostConsumeTruth
    <3>4. /\ \A m \in Nodes \ {n} : at'[m] = at[m] /\ cur'[m] = cur[m] /\ final'[m] = final[m]
          /\ \A m \in Nodes, u \in Tasks : snap'[m][u].status # "ABSENT" => snap'[m][u] = snap[m][u]
      BY <1>1, <3>1, DoneShape DEF TypeOK
    <3>5. QED BY <1>11, <2>3, <3>3, <3>4 DEF PollerFrame, PollerShape
  <2>6. QED BY <1>11, <2>1, <2>4, <2>5 DEF SettleSuccess
<1>12. CASE PersistQuota(n)
  <2>1. PICK t \in Tasks : t = cur[n] /\ Done(n, t)
    BY <1>2, <1>12 DEF PersistQuota
  <2>2. UNCHANGED <<pc, held, crashes>> /\ (UNCHANGED dbErrors \/ DbFault)
    BY <1>12 DEF PersistQuota
  <2>3. PollerFrame(n) BY <1>1, <2>1, <2>2, DoneShape DEF PollerFrame, DbFault
  <2>4. QED BY <1>12, <2>3 DEF PollerShape
<1>13. QED
  BY <1>3, <1>4, <1>5, <1>6, <1>7, <1>8, <1>9, <1>10, <1>11, <1>12 DEF PollerStep

-----------------------------------------------------------------------------
(* The chain is kept by every step, faults included. *)

\* A refund, a settlement and a recorded price are the winner's.
PaymentShape(n) ==
  /\ cur[n] \in Tasks /\ Winner(n, cur[n]) /\ at[n] \in {"refund", "settle", "persist"}
  /\ \A u \in Tasks : row'[u].status = row[u].status /\ (u # cur[n] => row'[u] = row[u])
  /\ at'[n] = "next" \/ (at[n] = "settle" /\ at'[n] = "persist" /\ cur'[n] = cur[n])

LEMMA PaymentHasShape ==
  ASSUME RaceInv, NEW n \in Nodes, RefundTask(n) \/ SettleSuccess(n) \/ PersistQuota(n)
  PROVE  PaymentShape(n)
<1> USE DEF rows
<1>0. TypeOK BY DEF RaceInv
<1>1. cur[n] \in Tasks /\ Winner(n, cur[n]) /\ at[n] \in {"refund", "settle", "persist"}
  BY DEF RaceInv, BusyOnListed, Winner, RefundTask, SettleSuccess, PersistQuota
<1>2. CASE RefundTask(n)
  BY <1>0, <1>1, <1>2, DoneShape DEF RefundTask, PaymentShape
<1>3. CASE SettleSuccess(n)
  <2>1. at'[n] = "next" \/ (at'[n] = "persist" /\ cur'[n] = cur[n])
    BY <1>0, <1>1, <1>3, DoneShape DEF SettleSuccess, TypeOK
  <2>2. row' = row /\ at[n] = "settle" BY <1>3 DEF SettleSuccess
  <2>3. QED BY <1>1, <2>1, <2>2 DEF PaymentShape
<1>4. CASE PersistQuota(n)
  <2>1. at'[n] = "next" BY <1>0, <1>1, <1>4, DoneShape DEF PersistQuota
  <2>2. CASE row' = row BY <1>1, <2>1, <2>2 DEF PaymentShape
  <2>3. CASE row' = [row EXCEPT ![cur[n]].quota = final[n]]
    <3>1. row[cur[n]] \in RowType BY <1>0, <1>1 DEF TypeOK
    <3>2. row' = [row EXCEPT ![cur[n]] = [row[cur[n]] EXCEPT !.quota = final[n]]] BY <2>3
    <3>3. [row[cur[n]] EXCEPT !.quota = final[n]].status = row[cur[n]].status BY <3>1 DEF RowType
    <3>4. \A u \in Tasks : row'[u].status = row[u].status /\ (u # cur[n] => row'[u] = row[u])
      BY <1>0, <1>1, <3>2, <3>3 DEF TypeOK
    <3>5. QED BY <1>1, <2>1, <3>4 DEF PaymentShape
  <2>4. QED BY <1>4, <2>2, <2>3 DEF PersistQuota
<1>5. QED BY <1>2, <1>3, <1>4

\* Before the record is written, quotas stay as they are.
LEMMA QuotasAtPayment ==
  ASSUME RaceInv, NEW n \in Nodes, RefundTask(n) \/ SettleSuccess(n) \/ PersistQuota(n),
         NEW u \in Tasks, u \in Unfinished \/ \E m \in Nodes : Paying(m, u)
  PROVE  \/ row'[u] = row[u]
         \/ u = cur[n] /\ at[n] = "persist" /\ at'[n] = "next"
<1>1. PaymentShape(n) BY PaymentHasShape
<1>2. CASE u # cur[n] BY <1>1, <1>2 DEF PaymentShape
<1>3. CASE PersistQuota(n)
  BY <1>1, <1>3 DEF PaymentShape, PersistQuota
<1>4. CASE RefundTask(n) \/ SettleSuccess(n)
  BY <1>4 DEF RefundTask, SettleSuccess, rows
<1>5. QED BY <1>2, <1>3, <1>4

LEMMA FlowHandler ==
  ASSUME FlowInv, NEW t \in Tasks, Submit(t) \/ HandlerStep(t)
  PROVE  FlowInv'
<1> USE DEF pollers
<1>1. RaceInv' /\ HandlerShape(t)
  BY RaceHandler, HandlerHasShape DEF FlowInv
<1>2. NewIsFree'
  BY <1>1 DEF FlowInv, NewIsFree, HandlerShape, Holding
<1>3. \A n \in Nodes, u \in Tasks : snap[n][u].status # "ABSENT" => u # t
  BY <1>1 DEF FlowInv, RaceInv, ListedWereRunning, HandlerShape
<1>4. \A n \in Nodes : at[n] # "next" => cur[n] \in Tasks \ {t}
  BY <1>3 DEF FlowInv, RaceInv, BusyOnListed
<1>5. \A u \in Tasks \ {t} : row'[u] = row[u] /\ held'[u] = held[u]
  BY <1>1 DEF HandlerShape
<1>6. UNCHANGED pollers BY <1>1 DEF HandlerShape
<1>7. SnapshotMoney'
  BY <1>3, <1>5, <1>6 DEF FlowInv, SnapshotMoney, Unfinished
<1>8. WinnerStatus'
  BY <1>4, <1>5, <1>6 DEF FlowInv, WinnerStatus
<1>9. HeldInRow'
  <2> SUFFICES ASSUME NEW u \in Tasks, u \in Unfinished' \/ \E n \in Nodes : Paying(n, u)'
               PROVE  row'[u].quota = held'[u]
    BY DEF HeldInRow
  <2>1. CASE u = t
    <3>1. t \notin Unfinished BY <1>1, StatusesDiffer DEF HandlerShape, Unfinished
    <3>2. \A n \in Nodes : ~Paying(n, t)' BY <1>4, <1>6 DEF Paying
    <3>3. row'[t].status \in NonTerminal BY <2>1, <3>2 DEF Unfinished
    <3>4. QED BY <1>1, <2>1, <3>3, <3>1 DEF HandlerShape, Unfinished
  <2>2. CASE u # t
    BY <1>5, <1>6, <2>2 DEF FlowInv, HeldInRow, Paying, Unfinished
  <2>3. QED BY <2>1, <2>2
<1>10. QED BY <1>1, <1>2, <1>7, <1>8, <1>9 DEF FlowInv

LEMMA FlowPoller ==
  ASSUME FlowInv, NEW n \in Nodes, PollerStep(n)
  PROVE  FlowInv'
<1>1. RaceInv /\ RaceInv' /\ PollerFrame(n) /\ PollerShape(n)
  BY RacePoller, PollerHasShape DEF FlowInv
<1>2. NewIsFree'
  <2> SUFFICES ASSUME NEW t \in Tasks, pc[t] = "new" PROVE charge'[t] = charge[t]
    BY <1>1 DEF FlowInv, NewIsFree, PollerFrame
  <2>1. row[t].status = "ABSENT" BY <1>1 DEF RaceInv, RowsOfInserted
  <2>2. CASE charge' = charge BY <2>2
  <2>3. CASE RefundTask(n) \/ SettleSuccess(n) \/ PersistQuota(n)
    <3>1. PaymentShape(n) BY <1>1, <2>3, PaymentHasShape
    <3>2. cur[n] # t /\ cur[n] \in Tasks
      BY <1>1, <2>1, <3>1, StatusesDiffer DEF PaymentShape, RaceInv, OneWinner, IsTerminal
    <3>3. QED BY <1>1, <2>3, <3>2 DEF RefundTask, SettleSuccess, PersistQuota, PostConsume,
                 Debit, ledger, RaceInv, TypeOK
  <2>4. QED BY <1>1, <2>2, <2>3 DEF PollerShape, Looks, Wins
<1>3. CASE Looks(n)
  <2>1. \A u \in Tasks : row'[u].quota = row[u].quota /\ (u \in Unfinished' => u \in Unfinished)
    BY <1>3 DEF Looks, QuotasKept, ProgressOnly, Unfinished
  <2>2. \A m \in Nodes, u \in Tasks : Paying(m, u)' => Paying(m, u)
    BY <1>1, <1>3 DEF Paying, Looks, PollerFrame
  <2>3. SnapshotMoney'
    BY <1>1, <2>1, <2>2 DEF FlowInv, SnapshotMoney, PollerFrame, Paying
  <2>4. HeldInRow'
    BY <1>1, <2>1, <2>2 DEF FlowInv, HeldInRow, PollerFrame
  <2>5. WinnerStatus'
    <3> SUFFICES ASSUME NEW m \in Nodes, at'[m] \in {"refund", "settle", "persist"}
                 PROVE  /\ at'[m] = "refund" => row'[cur'[m]].status = "FAILURE"
                        /\ at'[m] \in {"settle", "persist"} => row'[cur'[m]].status = "SUCCESS"
      BY DEF WinnerStatus
    <3>1. m # n BY <1>3 DEF Looks
    <3>2. at'[m] = at[m] /\ cur'[m] = cur[m] BY <1>1, <3>1 DEF PollerFrame
    <3>3. cur[m] \in Tasks /\ IsTerminal(cur[m])
      BY <1>1, <3>2 DEF RaceInv, BusyOnListed, OneWinner, Winner
    <3>4. row'[cur[m]].status = row[cur[m]].status
      BY <1>3, <3>3, StatusesDiffer DEF Looks, ProgressOnly, IsTerminal
    <3>5. QED BY <3>2, <3>4 DEF FlowInv, WinnerStatus
  <2>6. QED BY <1>1, <1>2, <2>3, <2>4, <2>5 DEF FlowInv
<1>4. ASSUME NEW t \in Tasks, NEW s \in TerminalStatuses, Wins(n, t, s) PROVE FlowInv'
  <2>1. \A u \in Tasks : row'[u].quota = row[u].quota
    BY <1>4 DEF Wins, QuotasKept
  <2>2. \A u \in Tasks : u \in Unfinished' => u \in Unfinished
    BY <1>4 DEF Wins, Unfinished
  <2>3. \A m \in Nodes, u \in Tasks : Paying(m, u)' => Paying(m, u) \/ u \in Unfinished
    BY <1>1, <1>4 DEF Paying, Wins, PollerFrame
  <2>4. SnapshotMoney'
    BY <1>1, <2>1, <2>2, <2>3 DEF FlowInv, SnapshotMoney, PollerFrame, Paying
  <2>5. HeldInRow'
    BY <1>1, <2>1, <2>2, <2>3 DEF FlowInv, HeldInRow, PollerFrame
  <2>6. WinnerStatus'
    <3> SUFFICES ASSUME NEW m \in Nodes, at'[m] \in {"refund", "settle", "persist"}
                 PROVE  /\ at'[m] = "refund" => row'[cur'[m]].status = "FAILURE"
                        /\ at'[m] \in {"settle", "persist"} => row'[cur'[m]].status = "SUCCESS"
      BY DEF WinnerStatus
    <3>1. CASE m = n BY <1>4, <3>1 DEF Wins, TerminalStatuses
    <3>2. CASE m # n
      <4>1. at'[m] = at[m] /\ cur'[m] = cur[m] BY <1>1, <3>2 DEF PollerFrame
      <4>2. cur[m] \in Tasks /\ IsTerminal(cur[m])
        BY <1>1, <4>1 DEF RaceInv, BusyOnListed, OneWinner, Winner
      <4>3. row'[cur[m]] = row[cur[m]]
        BY <1>4, <4>2, StatusesDiffer DEF Wins, Unfinished, IsTerminal
      <4>4. QED BY <4>1, <4>3 DEF FlowInv, WinnerStatus
    <3>3. QED BY <3>1, <3>2
  <2>7. QED BY <1>1, <1>2, <2>4, <2>5, <2>6 DEF FlowInv
<1>5. CASE RefundTask(n) \/ SettleSuccess(n) \/ PersistQuota(n)
  <2>1. PaymentShape(n) BY <1>1, <1>5, PaymentHasShape
  <2>2. \A u \in Tasks : u \in Unfinished' => u \in Unfinished
    BY <2>1 DEF PaymentShape, Unfinished
  <2>3. \A m \in Nodes, u \in Tasks : Paying(m, u)' => m # n /\ Paying(m, u)
    BY <1>1, <2>1 DEF Paying, PaymentShape, PollerFrame
  <2>4. \A m \in Nodes, u \in Tasks : m # n /\ Paying(m, u) => u # cur[n]
    BY <1>1, <2>1 DEF RaceInv, OneWinner, PaymentShape, Winner, Paying
  <2>5. \A u \in Unfinished : u # cur[n]
    BY <1>1, <2>1, StatusesDiffer DEF RaceInv, OneWinner, PaymentShape, IsTerminal, Unfinished
  <2>6. \A u \in Tasks : u # cur[n] => row'[u] = row[u] BY <2>1 DEF PaymentShape
  <2>7. SnapshotMoney'
    <3> SUFFICES ASSUME NEW m \in Nodes, NEW u \in Tasks, snap'[m][u].status # "ABSENT",
                        u \in Unfinished' \/ Paying(m, u)'
                 PROVE  snap'[m][u].quota = row'[u].quota
      BY DEF SnapshotMoney, Paying
    <3>1. u # cur[n] /\ (u \in Unfinished \/ Paying(m, u))
      BY <2>2, <2>3, <2>4, <2>5
    <3>2. row'[u] = row[u] BY <2>6, <3>1
    <3>3. snap'[m][u] = snap[m][u] \/ snap'[m][u].quota = row[u].quota BY <1>1 DEF PollerFrame
    <3>4. QED BY <3>1, <3>2, <3>3 DEF FlowInv, SnapshotMoney, Paying
  <2>8. HeldInRow'
    BY <1>1, <2>2, <2>3, <2>4, <2>5, <2>6 DEF FlowInv, HeldInRow, PollerFrame
  <2>9. WinnerStatus'
    <3> SUFFICES ASSUME NEW m \in Nodes, at'[m] \in {"refund", "settle", "persist"}
                 PROVE  /\ at'[m] = "refund" => row'[cur'[m]].status = "FAILURE"
                        /\ at'[m] \in {"settle", "persist"} => row'[cur'[m]].status = "SUCCESS"
      BY DEF WinnerStatus
    <3>1. CASE m = n BY <2>1, <3>1 DEF PaymentShape, FlowInv, WinnerStatus
    <3>2. CASE m # n
      <4>1. at'[m] = at[m] /\ cur'[m] = cur[m] BY <1>1, <3>2 DEF PollerFrame
      <4>2. cur[m] \in Tasks BY <1>1, <4>1 DEF RaceInv, BusyOnListed
      <4>3. row'[cur[m]].status = row[cur[m]].status BY <2>1, <4>2 DEF PaymentShape
      <4>4. QED BY <4>1, <4>3 DEF FlowInv, WinnerStatus
    <3>3. QED BY <3>1, <3>2
  <2>10. QED BY <1>1, <1>2, <2>7, <2>8, <2>9 DEF FlowInv
<1>6. QED BY <1>1, <1>3, <1>4, <1>5 DEF PollerShape

\* What the environment does: a crash forgets, the rest touches no money.
CrashShape(n) ==
  /\ UNCHANGED <<ledger, held, row, refundLog, dbErrors>> /\ crashes' = crashes + 1
  /\ \A t \in Tasks : pc'[t] = pc[t] \/ (pc[t] \in Holding /\ pc'[t] = "crashed")
  /\ at'[n] = "next" /\ \A u \in Tasks : snap'[n][u].status = "ABSENT"
  /\ \A m \in Nodes \ {n} : at'[m] = at[m] /\ cur'[m] = cur[m] /\ final'[m] = final[m] /\ snap'[m] = snap[m]

LEMMA CrashHasShape ==
  ASSUME TypeOK, NEW n \in Nodes, Crash(n)
  PROVE  CrashShape(n)
<1>1. \A t \in Tasks : pc'[t] = pc[t] \/ (pc[t] \in Holding /\ pc'[t] = "crashed")
  BY DEF Crash, Holding
<1>2. at'[n] = "next" /\ \A u \in Tasks : snap'[n][u].status = "ABSENT"
  BY DEF Crash, TypeOK, NoRow
<1>3. \A m \in Nodes \ {n} : at'[m] = at[m] /\ cur'[m] = cur[m] /\ final'[m] = final[m] /\ snap'[m] = snap[m]
  BY DEF Crash, TypeOK
<1>4. UNCHANGED <<ledger, held, row, refundLog, dbErrors>> /\ crashes' = crashes + 1
  BY DEF Crash, ledger, rows
<1>5. QED BY <1>1, <1>2, <1>3, <1>4 DEF CrashShape

QuietStep ==
  UNCHANGED <<wallet, charge, pc, held, row, at, cur, final, snap, refundLog, crashes, dbErrors>>

LEMMA EnvironmentShape ==
  ASSUME TypeOK,
         \/ \E t \in Tasks : UpstreamStep(t) \/ PassDeadline(t)
         \/ \E n \in Nodes : Crash(n)
         \/ \E k \in Tokens : DeleteToken(k)
         \/ UNCHANGED vars
  PROVE  QuietStep \/ \E n \in Nodes : CrashShape(n)
<1>1. CASE \E n \in Nodes : Crash(n)
  BY <1>1, CrashHasShape
<1>2. CASE ~\E n \in Nodes : Crash(n)
  BY <1>2 DEF UpstreamStep, PassDeadline, DeleteToken, vars, QuietStep, ledger, handlers, rows,
     pollers, faults
<1>3. QED BY <1>1, <1>2

LEMMA FlowEnvironment ==
  ASSUME FlowInv, RaceInv', QuietStep \/ \E n \in Nodes : CrashShape(n)
  PROVE  FlowInv'
<1>1. CASE QuietStep
  BY <1>1 DEF QuietStep, FlowInv, NewIsFree, SnapshotMoney, WinnerStatus, HeldInRow, Paying, Unfinished
<1>2. ASSUME NEW n \in Nodes, CrashShape(n) PROVE FlowInv'
  <2>1. NewIsFree' BY <1>2 DEF FlowInv, NewIsFree, CrashShape, ledger
  <2>2. \A m \in Nodes, u \in Tasks : Paying(m, u)' => m # n /\ Paying(m, u)
    BY <1>2 DEF CrashShape, Paying
  <2>3. row' = row /\ held' = held BY <1>2 DEF CrashShape
  <2>4. HeldInRow' BY <2>2, <2>3 DEF FlowInv, HeldInRow, Unfinished
  <2>5. SnapshotMoney'
    <3> SUFFICES ASSUME NEW m \in Nodes, NEW u \in Tasks, snap'[m][u].status # "ABSENT",
                        u \in Unfinished' \/ Paying(m, u)'
                 PROVE  snap'[m][u].quota = row'[u].quota
      BY DEF SnapshotMoney, Paying
    <3>1. m # n /\ snap'[m] = snap[m] BY <1>2 DEF CrashShape
    <3>2. u \in Unfinished \/ Paying(m, u) BY <2>2, <2>3 DEF Unfinished
    <3>3. QED BY <2>3, <3>1, <3>2 DEF FlowInv, SnapshotMoney, Paying
  <2>6. WinnerStatus' BY <1>2, <2>3 DEF FlowInv, WinnerStatus, CrashShape
  <2>7. QED BY <2>1, <2>4, <2>5, <2>6 DEF FlowInv
<1>3. QED BY <1>1, <1>2

LEMMA FlowStep == FlowInv /\ [Next]_vars => FlowInv'
<1> SUFFICES ASSUME FlowInv, [Next]_vars PROVE FlowInv'
  OBVIOUS
<1>1. CASE \E t \in Tasks : Submit(t) \/ HandlerStep(t)
  BY <1>1, FlowHandler
<1>2. CASE \E n \in Nodes : PollerStep(n)
  BY <1>2, FlowPoller
<1>3. CASE \/ \E t \in Tasks : UpstreamStep(t) \/ PassDeadline(t)
           \/ \E n \in Nodes : Crash(n)
           \/ \E k \in Tokens : DeleteToken(k)
           \/ UNCHANGED vars
  <2>1. TypeOK /\ RaceInv' BY <1>3, RaceEnvironment DEF FlowInv, RaceInv
  <2>2. QuietStep \/ \E n \in Nodes : CrashShape(n) BY <1>3, <2>1, EnvironmentShape
  <2>3. QED BY <2>1, <2>2, FlowEnvironment
<1>4. QED BY <1>1, <1>2, <1>3 DEF Next

-----------------------------------------------------------------------------
(* At most one task is bent per fault. *)

Straight(t) ==
  /\ pc[t] \in Holding => charge[t] = held[t]
  /\ t \in Unfinished => charge[t] = row[t].quota
  /\ \A n \in Nodes : Paying(n, t) => charge[t] = row[t].quota
  /\ \A n \in Nodes : cur[n] = t /\ at[n] = "persist" => charge[t] = final[n]
  /\ IsTerminal(t) => Contested(t) \/ Balanced(t)

Skewed == {t \in Tasks : ~Straight(t)}
SkewBounded == Cardinality(Skewed) <= crashes + dbErrors

LEMMA SkewedIsFinite == IsFiniteSet(Skewed) /\ Cardinality(Skewed) \in Nat
BY VideoAssumption, FS_Subset, FS_CardinalityType DEF Skewed

\* Counting: one task may be added when a fault is counted, none otherwise.
LEMMA SkewCounts ==
  ASSUME TypeOK, TypeOK', SkewBounded,
         \/ Skewed' \subseteq Skewed /\ crashes + dbErrors <= crashes' + dbErrors'
         \/ /\ crashes' + dbErrors' = crashes + dbErrors + 1
            /\ \E t \in Tasks : Skewed' \subseteq Skewed \cup {t}
  PROVE  SkewBounded'
<1> DEFINE c == crashes + dbErrors
           k == Cardinality(Skewed)
<1>1. c \in Nat /\ k \in Nat /\ IsFiniteSet(Skewed) /\ k <= c
  BY SkewedIsFinite DEF TypeOK, SkewBounded
<1>2. CASE Skewed' \subseteq Skewed /\ c <= crashes' + dbErrors' /\ crashes' + dbErrors' \in Nat
  <2>1. Cardinality(Skewed') \in Nat /\ Cardinality(Skewed') <= k
    BY <1>1, <1>2, FS_Subset, FS_CardinalityType
  <2>2. Cardinality(Skewed') <= crashes' + dbErrors' BY <1>1, <1>2, <2>1
  <2>3. QED BY <2>2 DEF SkewBounded
<1>3. ASSUME crashes' + dbErrors' = c + 1, NEW t \in Tasks, Skewed' \subseteq Skewed \cup {t} PROVE SkewBounded'
  <2>1. /\ IsFiniteSet(Skewed \cup {t}) /\ Cardinality(Skewed \cup {t}) \in Nat
        /\ Cardinality(Skewed \cup {t}) <= k + 1
    BY <1>1, OneMore
  <2>2. Cardinality(Skewed') \in Nat /\ Cardinality(Skewed') <= Cardinality(Skewed \cup {t})
    BY <1>3, <2>1, FS_Subset, FS_CardinalityType
  <2>3. Cardinality(Skewed') <= crashes' + dbErrors' BY <1>1, <1>3, <2>1, <2>2
  <2>4. QED BY <2>3 DEF SkewBounded
<1>4. crashes' + dbErrors' \in Nat
  <2>1. crashes' \in Nat /\ dbErrors' \in Nat BY DEF TypeOK
  <2>2. \A x, y \in Nat : x + y \in Nat OBVIOUS
  <2>3. QED BY <2>1, <2>2
<1>5. QED BY <1>2, <1>3, <1>4

LEMMA SkewHandler ==
  ASSUME FlowInv, FlowInv', SkewBounded, NEW t \in Tasks, Submit(t) \/ HandlerStep(t)
  PROVE  SkewBounded'
<1>1. TypeOK /\ TypeOK' /\ HandlerShape(t) /\ held[t] \in Nat /\ charge[t] \in Int
  BY HandlerHasShape DEF FlowInv, RaceInv, TypeOK
<1>2. ASSUME NEW u \in Tasks \ {t}, Straight(u) PROVE Straight(u)'
  BY <1>1, <1>2 DEF HandlerShape, pollers, Straight, Unfinished, IsTerminal, Paying, Contested,
     Winner, Balanced
<1>3. \A n \in Nodes : ~Paying(n, t) /\ ~(cur[n] = t /\ at[n] = "persist")
  BY <1>1 DEF HandlerShape, FlowInv, RaceInv, BusyOnListed, ListedWereRunning, Paying
<1>4. t \notin Unfinished /\ ~IsTerminal(t) BY <1>1, StatusesDiffer DEF HandlerShape, Unfinished, IsTerminal
<1>5. ASSUME pc'[t] \in Holding \cup {"failed"}, pc'[t] \in Holding => charge'[t] = held'[t]
      PROVE  Straight(t)'
  <2>1. row'[t] = row[t] /\ UNCHANGED pollers
    BY <1>1, <1>5 DEF HandlerShape, Holding
  <2>2. t \notin Unfinished' /\ ~IsTerminal(t)' BY <1>4, <2>1 DEF Unfinished, IsTerminal
  <2>3. QED BY <1>3, <1>5, <2>1, <2>2 DEF Straight, Paying, pollers
<1>6. ASSUME Straight(t) => Straight(t)', dbErrors' = dbErrors PROVE SkewBounded'
  <2>1. Skewed' \subseteq Skewed BY <1>2, <1>6 DEF Skewed
  <2>2. crashes' = crashes BY <1>1 DEF HandlerShape
  <2>3. crashes + dbErrors <= crashes' + dbErrors' BY <1>1, <1>6, <2>2 DEF TypeOK
  <2>4. QED BY <1>1, <2>1, <2>3, SkewCounts
<1>7. ASSUME dbErrors' = dbErrors + 1 PROVE SkewBounded'
  <2>1. Skewed' \subseteq Skewed \cup {t} BY <1>2 DEF Skewed
  <2>2. crashes' = crashes BY <1>1 DEF HandlerShape
  <2>3. crashes' + dbErrors' = crashes + dbErrors + 1 BY <1>1, <1>7, <2>2 DEF TypeOK
  <2>4. QED BY <1>1, <2>1, <2>3, SkewCounts
<1>8. CASE Submit(t)
  <2>1. PICK q \in Quotas : Debit(t, q) /\ held' = [held EXCEPT ![t] = q]
    BY <1>8 DEF Submit
  <2>2. charge[t] = 0 /\ q \in Nat
    BY <1>8, VideoAssumption DEF Submit, FlowInv, NewIsFree
  <2>3. charge'[t] = held'[t] /\ pc'[t] = "charged"
    BY <1>1, <1>8, <2>1, <2>2, DebitCharge DEF Submit, TypeOK
  <2>4. Straight(t)' BY <1>5, <2>3 DEF Holding
  <2>5. dbErrors' = dbErrors BY <1>8 DEF Submit, faults
  <2>6. QED BY <1>6, <2>4, <2>5
<1>9. CASE UpstreamAccepts(t) \/ UpstreamErrors(t)
  <2>1. /\ charge' = charge /\ held' = held /\ pc[t] = "charged" /\ pc'[t] \in {"accepted", "refund"}
        /\ dbErrors' = dbErrors
    BY <1>1, <1>9 DEF UpstreamAccepts, UpstreamErrors, ledger, faults, TypeOK
  <2>2. Straight(t) => Straight(t)' BY <1>5, <2>1 DEF Straight, Holding
  <2>3. QED BY <1>6, <2>1, <2>2
<1>10. CASE InsertTaskFails(t)
  BY <1>7, <1>10 DEF InsertTaskFails, DbFault
<1>11. CASE RefundSubmit(t)
  <2>1. PICK o \in PostConsumeOutcomes(TokenOf[t]) : PostConsume(t, o, -held[t])
    BY <1>11 DEF RefundSubmit
  <2>2. dbErrors' = dbErrors \/ dbErrors' = dbErrors + 1
    <3>1. -held[t] \in Int BY <1>1
    <3>2. QED BY <1>1, <2>1, <3>1, PostConsumeTruth
  <2>3. pc'[t] = "failed" BY <1>1, <1>11 DEF RefundSubmit, TypeOK
  <2>4. Straight(t)' BY <1>5, <2>3 DEF Holding
  <2>5. QED BY <1>6, <1>7, <2>2, <2>4
<1>12. CASE InsertTask(t)
  <2>1. /\ row'[t].status = "QUEUED" /\ row'[t].quota = held[t] /\ charge'[t] = charge[t]
        /\ pc[t] = "adjusted" /\ pc'[t] = "inserted" /\ UNCHANGED pollers /\ dbErrors' = dbErrors
    BY <1>1, <1>12 DEF InsertTask, HandlerShape, TypeOK, faults, ledger
  <2>2. ~IsTerminal(t)' BY <2>1 DEF IsTerminal, TerminalStatuses
  <2>3. Straight(t) => Straight(t)'
    BY <1>3, <2>1, <2>2 DEF Straight, Holding, Paying, pollers
  <2>4. QED BY <1>6, <2>1, <2>3
<1>13. CASE AdjustOnSubmit(t)
  <2>1. pc[t] = "accepted" /\ pc'[t] = "adjusted"
    BY <1>1, <1>13 DEF AdjustOnSubmit, TypeOK
  <2>2. CASE UNCHANGED <<ledger, held, dbErrors>>
    BY <1>5, <1>6, <2>1, <2>2 DEF Straight, Holding, ledger
  <2>3. CASE \E a \in AdjustedQuotas \ {held[t]}, o \in PostConsumeOutcomes(TokenOf[t]) :
               /\ PostConsume(t, o, a - held[t])
               /\ held' = [held EXCEPT ![t] = HeldAfterAdjust(t, o, a)]
    <3>1. PICK a \in AdjustedQuotas, o \in PostConsumeOutcomes(TokenOf[t]) :
               /\ PostConsume(t, o, a - held[t])
               /\ held' = [held EXCEPT ![t] = HeldAfterAdjust(t, o, a)]
      BY <2>3
    <3>2. a \in Nat /\ a - held[t] \in Int BY <1>1, VideoAssumption
    <3>3. CASE dbErrors' = dbErrors + 1 BY <1>7, <3>3
    <3>4. CASE o.result = "ok" /\ Debit(t, a - held[t]) /\ dbErrors' = dbErrors
      <4>1. charge'[t] = charge[t] + (a - held[t]) BY <1>1, <3>2, <3>4, DebitCharge
      <4>2. held'[t] = a BY <1>1, <3>1, <3>4 DEF HeldAfterAdjust, TypeOK
      <4>3. Straight(t) => charge'[t] = held'[t] BY <1>1, <2>1, <3>2, <4>1, <4>2 DEF Straight, Holding
      <4>4. QED BY <1>5, <1>6, <2>1, <3>4, <4>3 DEF Holding
    <3>5. CASE o.result = "notfound" /\ UNCHANGED ledger /\ dbErrors' = dbErrors
      <4>1. charge' = charge /\ held'[t] = held[t]
        BY <1>1, <3>1, <3>5 DEF HeldAfterAdjust, TypeOK, ledger
      <4>2. QED BY <1>5, <1>6, <2>1, <3>5, <4>1 DEF Straight, Holding
    <3>6. QED BY <1>1, <3>1, <3>2, <3>3, <3>4, <3>5, PostConsumeTruth
  <2>4. QED BY <1>13, <2>2, <2>3 DEF AdjustOnSubmit
<1>14. QED BY <1>8, <1>9, <1>10, <1>11, <1>12, <1>13 DEF HandlerStep

\* What a payment does to the bent tasks other than its own: nothing.
LEMMA SkewOthers ==
  ASSUME FlowInv, NEW n \in Nodes, PollerFrame(n), PaymentShape(n),
         \A u \in Tasks \ {cur[n]} : charge'[u] = charge[u],
         NEW u \in Tasks \ {cur[n]}, Straight(u)
  PROVE  Straight(u)'
<1>1. row'[u] = row[u] /\ charge'[u] = charge[u] /\ pc' = pc /\ held' = held
  BY DEF PaymentShape, PollerFrame
<1>2. /\ \A m \in Nodes : Winner(m, u)' <=> Winner(m, u)
      /\ \A m \in Nodes : Winner(m, u) => at'[m] = at[m] /\ cur'[m] = cur[m] /\ final'[m] = final[m]
  <2>1. \A m \in Nodes \ {n} : at'[m] = at[m] /\ cur'[m] = cur[m] /\ final'[m] = final[m]
    BY DEF PollerFrame
  <2>2. ~Winner(n, u) /\ ~Winner(n, u)' BY DEF PaymentShape, Winner
  <2>3. QED BY <2>1, <2>2 DEF Winner
<1>3. Contested(u)' <=> Contested(u) BY <1>2 DEF Contested
<1>4. u \in Unfinished' => u \in Unfinished BY <1>1 DEF Unfinished
<1>5. IsTerminal(u)' => IsTerminal(u) BY <1>1 DEF IsTerminal
<1>6. Balanced(u) => Balanced(u)' BY <1>1 DEF Balanced
<1>7. \A m \in Nodes : Paying(m, u)' => Paying(m, u) BY <1>2 DEF Paying, Winner
<1>8. \A m \in Nodes : cur'[m] = u /\ at'[m] = "persist" => cur[m] = u /\ at[m] = "persist" /\ final'[m] = final[m]
  BY <1>2 DEF Winner
<1>9. QED BY <1>1, <1>3, <1>4, <1>5, <1>6, <1>7, <1>8 DEF Straight

\* A step that bends nothing.
LEMMA SkewKept ==
  ASSUME FlowInv, FlowInv', SkewBounded, UNCHANGED crashes,
         dbErrors' = dbErrors \/ dbErrors' = dbErrors + 1,
         \A u \in Tasks : Straight(u) => Straight(u)'
  PROVE  SkewBounded'
<1>1. TypeOK /\ TypeOK' BY DEF FlowInv, RaceInv
<1>2. Skewed' \subseteq Skewed BY DEF Skewed
<1>3. crashes \in Nat /\ dbErrors \in Nat BY <1>1 DEF TypeOK
<1>4. \A x, y \in Nat : x + y <= x + y /\ x + y <= x + (y + 1) OBVIOUS
<1>5. crashes + dbErrors <= crashes' + dbErrors' BY <1>3, <1>4
<1>6. QED BY <1>1, <1>2, <1>5, SkewCounts

\* A payment that is whole leaves its task straight; one that is not counts.
LEMMA SkewPaid ==
  ASSUME FlowInv, FlowInv', SkewBounded, NEW n \in Nodes, PollerFrame(n), PaymentShape(n),
         NEW t \in Tasks, t = cur[n],
         \A u \in Tasks \ {cur[n]} : charge'[u] = charge[u],
         dbErrors' = dbErrors /\ Straight(t) => Straight(t)'
  PROVE  SkewBounded'
<1>1. TypeOK /\ TypeOK' /\ cur[n] \in Tasks BY DEF FlowInv, RaceInv, PaymentShape
<1>2. UNCHANGED crashes /\ (dbErrors' = dbErrors \/ dbErrors' = dbErrors + 1) BY DEF PollerFrame
<1>3. \A u \in Tasks \ {cur[n]} : Straight(u) => Straight(u)' BY SkewOthers
<1>4. CASE dbErrors' = dbErrors
  <2>1. ASSUME NEW u \in Tasks, Straight(u) PROVE Straight(u)'
    <3>1. CASE u = t BY <1>4, <2>1, <3>1
    <3>2. CASE u # t BY <1>3, <2>1, <3>2
    <3>3. QED BY <3>1, <3>2
  <2>2. QED BY <1>2, <2>1, SkewKept
<1>5. CASE dbErrors' = dbErrors + 1
  <2>1. Skewed' \subseteq Skewed \cup {cur[n]} BY <1>3 DEF Skewed
  <2>2. crashes' + dbErrors' = crashes + dbErrors + 1 BY <1>1, <1>2, <1>5 DEF TypeOK
  <2>3. QED BY <1>1, <2>1, <2>2, SkewCounts
<1>6. QED BY <1>2, <1>4, <1>5

\* What is straight about a task whose winner works on it: its charge.
LEMMA WonTask ==
  ASSUME FlowInv, NEW n \in Nodes, PollerFrame(n), PaymentShape(n), NEW t \in Tasks, t = cur[n]
  PROVE  /\ pc[t] = "inserted" /\ pc'[t] = "inserted"
         /\ IsTerminal(t) /\ t \notin Unfinished'
         /\ \A m \in Nodes \ {n} : ~Winner(m, t) /\ ~Winner(m, t)'
<1>1. IsTerminal(t) /\ \A m \in Nodes : Winner(m, t) => m = n
  BY DEF PaymentShape, FlowInv, RaceInv, OneWinner
<1>2. pc[t] = "inserted"
  BY <1>1, StatusesDiffer DEF FlowInv, RaceInv, RowsOfInserted, IsTerminal
<1>3. t \notin Unfinished' BY <1>1, StatusesDiffer DEF PaymentShape, Unfinished, IsTerminal
<1>4. \A m \in Nodes \ {n} : ~Winner(m, t) /\ ~Winner(m, t)'
  BY <1>1 DEF PollerFrame, Winner
<1>5. QED BY <1>1, <1>2, <1>3, <1>4 DEF PollerFrame

LEMMA StraightAtEnd ==
  ASSUME FlowInv, NEW n \in Nodes, PollerFrame(n), PaymentShape(n), NEW t \in Tasks, t = cur[n],
         at'[n] = "next", charge'[t] = IF row'[t].status = "FAILURE" THEN 0 ELSE row'[t].quota
  PROVE  Straight(t)'
<1>1. /\ pc'[t] = "inserted" /\ t \notin Unfinished'
      /\ \A m \in Nodes : ~Winner(m, t)'
  BY WonTask DEF Winner
<1>2. QED BY <1>1 DEF Straight, Balanced, Paying, Winner, Holding

LEMMA SkewLooks ==
  ASSUME FlowInv, FlowInv', SkewBounded, NEW n \in Nodes, PollerFrame(n),
         Looks(n) \/ \E t \in Tasks, s \in TerminalStatuses : Wins(n, t, s)
  PROVE  SkewBounded'
<1>1. /\ UNCHANGED crashes /\ (dbErrors' = dbErrors \/ dbErrors' = dbErrors + 1)
      /\ pc' = pc /\ held' = held /\ charge' = charge
      /\ \A u \in Tasks : row'[u].quota = row[u].quota
      /\ \A m \in Nodes \ {n} : at'[m] = at[m] /\ cur'[m] = cur[m] /\ final'[m] = final[m]
      /\ at[n] \in {"next", "apply"}
  BY DEF PollerFrame, Looks, Wins, QuotasKept
<1>2. \A u \in Tasks : Contested(u) => Contested(u)'
  <2> SUFFICES ASSUME NEW u \in Tasks, NEW m \in Nodes, Winner(m, u) PROVE Contested(u)'
    BY DEF Contested
  <2>1. m # n BY <1>1 DEF Winner
  <2>2. QED BY <1>1, <2>1 DEF Contested, Winner
<1>3. CASE Looks(n)
  <2>1. \A u \in Tasks : /\ u \in Unfinished' => u \in Unfinished
                         /\ IsTerminal(u)' => IsTerminal(u) /\ row'[u].status = row[u].status
    BY <1>3, StatusesDiffer DEF Looks, ProgressOnly, Unfinished, IsTerminal
  <2>2. \A m \in Nodes, u \in Tasks : at'[m] \notin {"next", "apply"} => m # n
    BY <1>3 DEF Looks
  <2>3. ASSUME NEW u \in Tasks, Straight(u) PROVE Straight(u)'
    <3>1. Balanced(u) /\ IsTerminal(u)' => Balanced(u)' BY <1>1, <2>1 DEF Balanced
    <3>2. /\ pc'[u] \in Holding => charge'[u] = held'[u]
          /\ u \in Unfinished' => charge'[u] = row'[u].quota
      BY <1>1, <2>1, <2>3 DEF Straight
    <3>3. \A m \in Nodes : Paying(m, u)' => charge'[u] = row'[u].quota
      BY <1>1, <2>2, <2>3 DEF Straight, Paying
    <3>4. \A m \in Nodes : cur'[m] = u /\ at'[m] = "persist" => charge'[u] = final'[m]
      BY <1>1, <2>2, <2>3 DEF Straight
    <3>5. IsTerminal(u)' => Contested(u)' \/ Balanced(u)'
      BY <1>2, <2>1, <2>3, <3>1 DEF Straight
    <3>6. QED BY <3>2, <3>3, <3>4, <3>5 DEF Straight
  <2>4. QED BY <1>1, <2>3, SkewKept
<1>4. ASSUME NEW t \in Tasks, NEW s \in TerminalStatuses, Wins(n, t, s) PROVE SkewBounded'
  <2>1. ASSUME NEW u \in Tasks, Straight(u) PROVE Straight(u)'
    <3>1. /\ pc'[u] \in Holding => charge'[u] = held'[u]
          /\ u \in Unfinished' => charge'[u] = row'[u].quota
      BY <1>1, <1>4, <2>1, StatusesDiffer DEF Straight, Wins, Unfinished
    <3>2. \A m \in Nodes : Paying(m, u)' => charge'[u] = row'[u].quota
      BY <1>1, <1>4, <2>1 DEF Straight, Paying, Wins
    <3>3. \A m \in Nodes : cur'[m] = u /\ at'[m] = "persist" => charge'[u] = final'[m]
      BY <1>1, <1>4, <2>1 DEF Straight, Wins
    <3>4. IsTerminal(u)' => Contested(u)' \/ Balanced(u)'
      <4>1. CASE u = t
        <5>1. Winner(n, t)' BY <1>4 DEF Wins, Winner
        <5>2. QED BY <4>1, <5>1 DEF Contested
      <4>2. CASE u # t
        BY <1>1, <1>2, <1>4, <2>1, <4>2 DEF Straight, Wins, IsTerminal, Balanced
      <4>3. QED BY <4>1, <4>2
    <3>5. QED BY <3>1, <3>2, <3>3, <3>4 DEF Straight
  <2>2. QED BY <1>1, <2>1, SkewKept
<1>5. QED BY <1>3, <1>4

LEMMA SkewRefund ==
  ASSUME FlowInv, FlowInv', SkewBounded, NEW n \in Nodes, RefundTask(n), PollerFrame(n)
  PROVE  SkewBounded'
<1>1. TypeOK /\ PaymentShape(n) BY PaymentHasShape DEF FlowInv, RaceInv
<1>2. PICK t \in Tasks : t = cur[n] BY <1>1 DEF PaymentShape
<1> DEFINE q == RefundAmount(n)
<1>3. at[n] = "refund" /\ at'[n] = "next" /\ row' = row
  BY <1>1, <1>2, DoneShape DEF RefundTask, rows
<1>4. /\ q = row[t].quota /\ q \in Nat /\ -q \in Int /\ row[t].status = "FAILURE"
      /\ charge[t] \in Int
  <2>1. snap[n][t].status # "ABSENT" BY <1>2, <1>3 DEF FlowInv, RaceInv, BusyOnListed
  <2>2. QED BY <1>1, <1>2, <1>3, <2>1 DEF RefundAmount, FlowInv, SnapshotMoney, WinnerStatus, TypeOK, RowType
<1>5. \/ Debit(t, -q)
      \/ UNCHANGED ledger /\ (q = 0 \/ dbErrors' = dbErrors + 1)
      \/ UNCHANGED ledger /\ dbErrors' # dbErrors
  <2>1. CASE q = 0 /\ UNCHANGED ledger BY <2>1
  <2>2. CASE \E o \in PostConsumeOutcomes(TokenOf[t]) : o.result # "notfound" /\ PostConsume(t, o, -q)
    BY <1>1, <1>4, <2>2, PostConsumeTruth
  <2>3. CASE Debit(t, -q) BY <2>3
  <2>4. CASE UNCHANGED ledger /\ DbFault BY <2>4 DEF DbFault
  <2>5. QED BY <1>2, <2>1, <2>2, <2>3, <2>4 DEF RefundTask
<1>6. \A u \in Tasks \ {t} : charge'[u] = charge[u]
  BY <1>1, <1>4, <1>5, DebitCharge DEF ledger
<1>7. ASSUME dbErrors' = dbErrors, Straight(t) PROVE Straight(t)'
  <2>1. charge[t] = q BY <1>2, <1>3, <1>4, <1>7 DEF Straight, Paying
  <2>2. charge'[t] = 0
    <3>1. dbErrors' # dbErrors + 1 BY <1>1, <1>7 DEF TypeOK
    <3>2. CASE Debit(t, -q) BY <1>1, <1>4, <2>1, <3>2, DebitCharge
    <3>3. CASE UNCHANGED ledger /\ q = 0 BY <2>1, <3>3 DEF ledger
    <3>4. QED BY <1>5, <1>7, <3>1, <3>2, <3>3
  <2>3. QED BY <1>1, <1>2, <1>3, <1>4, <2>2, StraightAtEnd
<1>8. QED BY <1>1, <1>2, <1>6, <1>7, SkewPaid

LEMMA SkewSettle ==
  ASSUME FlowInv, FlowInv', SkewBounded, NEW n \in Nodes, SettleSuccess(n), PollerFrame(n)
  PROVE  SkewBounded'
<1>1. TypeOK /\ PaymentShape(n) BY PaymentHasShape DEF FlowInv, RaceInv
<1>2. PICK t \in Tasks : t = cur[n] BY <1>1 DEF PaymentShape
<1> DEFINE q == snap[n][t].quota
<1>3. at[n] = "settle" /\ row' = row
  BY DEF SettleSuccess, rows
<1>4. q = row[t].quota /\ q \in Nat /\ row[t].status = "SUCCESS" /\ charge[t] \in Int
  <2>1. snap[n][t].status # "ABSENT" BY <1>2, <1>3 DEF FlowInv, RaceInv, BusyOnListed
  <2>2. QED BY <1>1, <1>2, <1>3, <2>1 DEF FlowInv, SnapshotMoney, WinnerStatus, TypeOK, RowType
<1>5. Straight(t) => charge[t] = q BY <1>2, <1>3, <1>4 DEF Straight, Paying
<1>6. ASSUME charge' = charge, at'[n] = "next" PROVE SkewBounded'
  <2>1. Straight(t) => Straight(t)' BY <1>1, <1>2, <1>3, <1>4, <1>5, <1>6, StraightAtEnd
  <2>2. QED BY <1>1, <1>2, <1>6, <2>1, SkewPaid
<1>7. CASE Done(n, t) /\ UNCHANGED ledger
  BY <1>1, <1>6, <1>7, DoneShape DEF ledger
<1>8. CASE \E f \in FinalQuotas \ {q}, o \in PostConsumeOutcomes(TokenOf[t]) :
          /\ PostConsume(t, o, SettlementDelta(f, q))
          /\ \/ /\ o.result = "ok"
                /\ final' = [final EXCEPT ![n] = f]
                /\ at' = [at EXCEPT ![n] = "persist"]
                /\ UNCHANGED <<phase, cur, verdict, snap>>
             \/ o.result # "ok" /\ Done(n, t)
  <2>1. PICK f \in FinalQuotas, o \in PostConsumeOutcomes(TokenOf[t]) :
          /\ PostConsume(t, o, SettlementDelta(f, q))
          /\ \/ /\ o.result = "ok"
                /\ final' = [final EXCEPT ![n] = f]
                /\ at' = [at EXCEPT ![n] = "persist"]
                /\ UNCHANGED <<phase, cur, verdict, snap>>
             \/ o.result # "ok" /\ Done(n, t)
    BY <1>8
  <2>2. f \in Nat /\ SettlementDelta(f, q) \in Int /\ q + SettlementDelta(f, q) = f
    BY <1>4, VideoAssumption DEF SettlementDelta
  <2>3. /\ UNCHANGED ledger \/ Debit(t, SettlementDelta(f, q))
        /\ dbErrors' = dbErrors => \/ o.result = "ok" /\ Debit(t, SettlementDelta(f, q))
                                   \/ o.result = "notfound" /\ UNCHANGED ledger
    BY <1>1, <2>1, <2>2, PostConsumeTruth
  <2>4. \A u \in Tasks \ {t} : charge'[u] = charge[u]
    BY <1>1, <2>2, <2>3, DebitCharge DEF ledger
  <2>5. ASSUME dbErrors' = dbErrors, Straight(t) PROVE Straight(t)'
    <3>1. CASE o.result = "ok"
      <4>1. charge'[t] = f BY <1>1, <1>5, <2>2, <2>3, <2>5, <3>1, DebitCharge
      <4>2. at'[n] = "persist" /\ final'[n] = f /\ cur'[n] = t
        BY <1>1, <1>2, <2>1, <3>1 DEF TypeOK
      <4>3. /\ pc'[t] = "inserted" /\ t \notin Unfinished'
            /\ \A m \in Nodes \ {n} : ~Winner(m, t)'
        BY <1>1, <1>2, WonTask
      <4>4. Contested(t)' BY <4>2 DEF Contested, Winner
      <4>5. QED BY <4>1, <4>2, <4>3, <4>4 DEF Straight, Paying, Winner, Holding
    <3>2. CASE o.result = "notfound" /\ UNCHANGED ledger
      <4>1. Done(n, t) /\ charge' = charge BY <2>1, <3>2 DEF ledger
      <4>2. at'[n] = "next" BY <1>1, <4>1, DoneShape
      <4>3. QED BY <1>1, <1>2, <1>3, <1>4, <1>5, <2>5, <4>1, <4>2, StraightAtEnd
    <3>3. QED BY <2>3, <2>5, <3>1, <3>2
  <2>6. QED BY <1>1, <1>2, <2>4, <2>5, SkewPaid
<1>9. QED BY <1>2, <1>7, <1>8 DEF SettleSuccess

LEMMA SkewPersist ==
  ASSUME FlowInv, FlowInv', SkewBounded, NEW n \in Nodes, PersistQuota(n), PollerFrame(n)
  PROVE  SkewBounded'
<1>1. TypeOK /\ PaymentShape(n) BY PaymentHasShape DEF FlowInv, RaceInv
<1>2. PICK t \in Tasks : t = cur[n] BY <1>1 DEF PaymentShape
<1>3. at[n] = "persist" /\ charge' = charge /\ at'[n] = "next"
  BY <1>1, <1>2, DoneShape DEF PersistQuota, ledger
<1>4. row[t].status = "SUCCESS" /\ row[t] \in RowType
  BY <1>1, <1>2, <1>3 DEF FlowInv, WinnerStatus, TypeOK
<1>5. ASSUME dbErrors' = dbErrors, Straight(t) PROVE Straight(t)'
  <2>1. row' = [row EXCEPT ![t] = [row[t] EXCEPT !.quota = final[n]]]
    BY <1>1, <1>2, <1>5 DEF PersistQuota, DbFault, TypeOK
  <2>2. /\ [row[t] EXCEPT !.quota = final[n]].quota = final[n]
        /\ [row[t] EXCEPT !.quota = final[n]].status = row[t].status
    BY <1>4 DEF RowType
  <2>3. row'[t].quota = final[n] /\ row'[t].status = "SUCCESS"
    BY <1>1, <1>4, <2>1, <2>2 DEF TypeOK
  <2>4. charge[t] = final[n] BY <1>2, <1>3, <1>5 DEF Straight
  <2>5. QED BY <1>1, <1>2, <1>3, <2>3, <2>4, StraightAtEnd
<1>6. QED BY <1>1, <1>2, <1>3, <1>5, SkewPaid

\* A crash bends at most the task its poller was paying for.
LEMMA SkewEnvironment ==
  ASSUME FlowInv, FlowInv', SkewBounded, QuietStep \/ \E n \in Nodes : CrashShape(n)
  PROVE  SkewBounded'
<1>1. CASE QuietStep
  BY <1>1 DEF QuietStep, SkewBounded, Skewed, Straight, Paying, Unfinished, IsTerminal, Contested,
     Winner, Balanced
<1>2. ASSUME NEW n \in Nodes, CrashShape(n) PROVE SkewBounded'
  <2>1. TypeOK /\ TypeOK' BY DEF FlowInv, RaceInv
  <2>2. \A u \in Tasks : u # cur[n] => (Contested(u) => Contested(u)')
    <3> SUFFICES ASSUME NEW u \in Tasks, u # cur[n], NEW m \in Nodes, Winner(m, u) PROVE Contested(u)'
      BY DEF Contested
    <3>1. m # n BY DEF Winner
    <3>2. QED BY <1>2, <3>1 DEF CrashShape, Contested, Winner
  <2>3. ASSUME NEW u \in Tasks, u # cur[n], Straight(u) PROVE Straight(u)'
    <3>1. row' = row /\ held' = held /\ charge' = charge BY <1>2 DEF CrashShape, ledger
    <3>2. pc'[u] \in Holding => pc[u] \in Holding BY <1>2 DEF CrashShape, Holding
    <3>3. \A m \in Nodes : at'[m] # "next" => m # n /\ at'[m] = at[m] /\ cur'[m] = cur[m] /\ final'[m] = final[m]
      BY <1>2 DEF CrashShape
    <3>4. \A m \in Nodes : Paying(m, u)' => charge'[u] = row'[u].quota
      BY <2>3, <3>1, <3>3 DEF Straight, Paying
    <3>5. \A m \in Nodes : cur'[m] = u /\ at'[m] = "persist" => charge'[u] = final'[m]
      BY <2>3, <3>1, <3>3 DEF Straight
    <3>6. IsTerminal(u)' => Contested(u)' \/ Balanced(u)'
      BY <2>2, <2>3, <3>1 DEF Straight, IsTerminal, Balanced
    <3>7. QED BY <2>3, <3>1, <3>2, <3>4, <3>5, <3>6 DEF Straight, Unfinished
  <2>4. crashes' + dbErrors' = crashes + dbErrors + 1 BY <1>2, <2>1 DEF CrashShape, TypeOK
  <2>5. CASE cur[n] \in Tasks
    <3>1. Skewed' \subseteq Skewed \cup {cur[n]} BY <2>3 DEF Skewed
    <3>2. QED BY <2>1, <2>4, <2>5, <3>1, SkewCounts
  <2>6. CASE cur[n] \notin Tasks
    <3>1. Skewed' \subseteq Skewed BY <2>3, <2>6 DEF Skewed
    <3>2. crashes + dbErrors <= crashes' + dbErrors'
      <4>1. crashes + dbErrors \in Nat BY <2>1 DEF TypeOK
      <4>2. \A x \in Nat : x <= x + 1 OBVIOUS
      <4>3. QED BY <2>4, <4>1, <4>2
    <3>3. QED BY <2>1, <3>1, <3>2, SkewCounts
  <2>7. QED BY <2>5, <2>6
<1>3. QED BY <1>1, <1>2

LEMMA SkewInit == Init => SkewBounded
<1> SUFFICES ASSUME Init PROVE SkewBounded
  OBVIOUS
<1>1. Skewed = {}
  BY StatusesDiffer DEF Init, Skewed, Straight, Holding, Unfinished, Paying, IsTerminal, NoRow
<1>2. QED BY <1>1, FS_EmptySet DEF Init, SkewBounded

LEMMA SkewStep == FlowInv /\ SkewBounded /\ [Next]_vars => SkewBounded'
<1> SUFFICES ASSUME FlowInv, SkewBounded, [Next]_vars PROVE SkewBounded'
  OBVIOUS
<1>0. FlowInv' BY FlowStep
<1>1. CASE \E t \in Tasks : Submit(t) \/ HandlerStep(t)
  BY <1>0, <1>1, SkewHandler
<1>2. ASSUME NEW n \in Nodes, PollerStep(n) PROVE SkewBounded'
  <2>1. PollerFrame(n) /\ PollerShape(n) BY <1>2, PollerHasShape DEF FlowInv
  <2>2. QED BY <1>0, <2>1, SkewLooks, SkewRefund, SkewSettle, SkewPersist DEF PollerShape
<1>3. CASE \/ \E t \in Tasks : UpstreamStep(t) \/ PassDeadline(t)
           \/ \E n \in Nodes : Crash(n)
           \/ \E k \in Tokens : DeleteToken(k)
           \/ UNCHANGED vars
  <2>1. TypeOK BY DEF FlowInv, RaceInv
  <2>2. QuietStep \/ \E n \in Nodes : CrashShape(n) BY <1>3, <2>1, EnvironmentShape
  <2>3. QED BY <1>0, <2>2, SkewEnvironment
<1>4. QED BY <1>1, <1>2, <1>3 DEF Next

LEMMA SkewInvariance == Spec => [](FlowInv /\ SkewBounded)
<1>1. Init => FlowInv /\ SkewBounded BY FlowInit, SkewInit
<1>2. FlowInv /\ SkewBounded /\ [Next]_vars => (FlowInv /\ SkewBounded)'
  BY FlowStep, SkewStep
<1>3. QED BY <1>1, <1>2, PTL DEF Spec

\* However many instances crash and statements fail, wherever and in whatever
\* order, each leaves the money of at most one closed task wrong (relay/task/
\* billing.go: what is logged for an operator to repair is one task at a time).
THEOREM FaultsStrandOneTaskEach == Spec => []StrandedBounded
<1>1. ASSUME FlowInv, SkewBounded PROVE StrandedBounded
  <2>1. Stranded \subseteq Skewed BY DEF Stranded, Skewed, Straight
  <2>2. Cardinality(Stranded) <= Cardinality(Skewed) /\ Cardinality(Stranded) \in Nat
    BY <2>1, SkewedIsFinite, FS_Subset, FS_CardinalityType
  <2>3. crashes + dbErrors \in Nat BY <1>1 DEF FlowInv, RaceInv, TypeOK
  <2>4. QED BY <1>1, <2>2, <2>3, SkewedIsFinite DEF SkewBounded, StrandedBounded
<1>2. QED BY <1>1, SkewInvariance, PTL

-----------------------------------------------------------------------------
(* The refund log.  While nothing has failed every task is straight, so what *)
(* a winner gives back is what it logs.                                      *)

Returned(t) == IF charge[t] < held[t] THEN held[t] - charge[t] ELSE 0

LogIsReturned ==
  crashes + dbErrors = 0 =>
    \A t \in Tasks : refundLog[t] = IF pc[t] = "inserted" THEN Returned(t) ELSE 0

LEMMA NothingSkewed ==
  ASSUME SkewBounded, crashes + dbErrors = 0, NEW t \in Tasks
  PROVE  Straight(t)
<1>1. Skewed = {} BY SkewedIsFinite, FS_EmptySet DEF SkewBounded
<1>2. QED BY <1>1 DEF Skewed

\* A step that ends without a fault began without one.
LEMMA StillFaultless ==
  ASSUME TypeOK, TypeOK', dbErrors' = dbErrors \/ dbErrors' = dbErrors + 1,
         crashes' = crashes \/ crashes' = crashes + 1, crashes' + dbErrors' = 0
  PROVE  crashes + dbErrors = 0 /\ dbErrors' = dbErrors /\ crashes' = crashes
<1>1. crashes \in Nat /\ dbErrors \in Nat BY DEF TypeOK
<1>2. \A x, y \in Nat : x + y = 0 => x = 0 /\ y = 0 OBVIOUS
<1>3. \A x, y \in Nat : x + (y + 1) # 0 /\ (x + 1) + y # 0 /\ (x + 1) + (y + 1) # 0 OBVIOUS
<1>4. dbErrors' = dbErrors /\ crashes' = crashes BY <1>1, <1>3
<1>5. QED BY <1>4

LEMMA LogHandler ==
  ASSUME FlowInv, FlowInv', SkewBounded, LogIsReturned, NEW t \in Tasks, Submit(t) \/ HandlerStep(t)
  PROVE  LogIsReturned'
<1>1. TypeOK /\ TypeOK' /\ HandlerShape(t) /\ held[t] \in Nat
  BY HandlerHasShape DEF FlowInv, RaceInv, TypeOK
<1>2. SUFFICES ASSUME crashes' + dbErrors' = 0, NEW u \in Tasks
               PROVE  refundLog'[u] = IF pc'[u] = "inserted" THEN Returned(u)' ELSE 0
  BY DEF LogIsReturned
<1>3. crashes' = crashes /\ refundLog' = refundLog BY <1>1 DEF HandlerShape
<1>4. dbErrors' = dbErrors \/ dbErrors' = dbErrors + 1
  <2>1. CASE UNCHANGED dbErrors BY <2>1
  <2>2. CASE InsertTaskFails(t) BY <2>2 DEF InsertTaskFails, DbFault
  <2>3. CASE RefundSubmit(t)
    <3>1. -held[t] \in Int BY <1>1
    <3>2. QED BY <1>1, <2>3, <3>1, PostConsumeTruth DEF RefundSubmit
  <2>4. CASE AdjustOnSubmit(t)
    <3>1. \A a \in AdjustedQuotas : a - held[t] \in Int BY <1>1, VideoAssumption
    <3>2. ASSUME NEW a \in AdjustedQuotas, NEW o \in PostConsumeOutcomes(TokenOf[t]),
                 PostConsume(t, o, a - held[t])
          PROVE  dbErrors' = dbErrors \/ dbErrors' = dbErrors + 1
      BY <1>1, <3>1, <3>2, PostConsumeTruth
    <3>3. QED BY <2>4, <3>2 DEF AdjustOnSubmit
  <2>5. QED BY <2>1, <2>2, <2>3, <2>4 DEF Submit, HandlerStep, UpstreamAccepts, UpstreamErrors,
               InsertTask, faults
<1>5. crashes + dbErrors = 0 BY <1>1, <1>2, <1>3, <1>4, StillFaultless
<1>6. refundLog[u] = IF pc[u] = "inserted" THEN Returned(u) ELSE 0 BY <1>5 DEF LogIsReturned
<1>7. CASE u # t BY <1>1, <1>3, <1>6, <1>7 DEF HandlerShape, Returned
<1>8. CASE u = t
  <2>1. pc[t] # "inserted" BY <1>1 DEF HandlerShape, FlowInv, RaceInv, RowsOfInserted
  <2>2. CASE pc'[t] # "inserted" BY <1>3, <1>6, <1>8, <2>1, <2>2
  <2>3. CASE pc'[t] = "inserted"
    <3>1. pc[t] = "adjusted" /\ held'[t] = held[t] /\ charge'[t] = charge[t]
      BY <1>1, <2>3 DEF HandlerShape, Holding
    <3>2. charge[t] = held[t] BY <1>5, <3>1, NothingSkewed DEF Straight, Holding
    <3>3. Returned(t)' = 0 BY <1>1, <3>1, <3>2 DEF Returned
    <3>4. QED BY <1>3, <1>6, <1>8, <2>1, <2>3, <3>3
  <2>4. QED BY <2>2, <2>3
<1>9. QED BY <1>7, <1>8

\* The winner's snapshot shows the price the wallet has paid.
LEMMA PayingKnowsPrice ==
  ASSUME FlowInv, NEW n \in Nodes, NEW t \in Tasks, Paying(n, t)
  PROVE  /\ snap[n][t].quota = row[t].quota /\ row[t].quota = held[t] /\ held[t] \in Nat
         /\ pc[t] = "inserted" /\ (Straight(t) => charge[t] = held[t])
<1>1. TypeOK /\ snap[n][t].status # "ABSENT"
  BY DEF FlowInv, RaceInv, BusyOnListed, Paying
<1>2. snap[n][t].quota = row[t].quota /\ row[t].quota = held[t]
  BY <1>1 DEF FlowInv, SnapshotMoney, HeldInRow, Paying
<1>3. IsTerminal(t) BY DEF FlowInv, RaceInv, OneWinner, Winner, Paying
<1>4. pc[t] = "inserted" BY <1>3, StatusesDiffer DEF FlowInv, RaceInv, RowsOfInserted, IsTerminal
<1>5. QED BY <1>1, <1>2, <1>4 DEF TypeOK, Straight

LEMMA LogPoller ==
  ASSUME FlowInv, FlowInv', SkewBounded, LogIsReturned, NEW n \in Nodes, PollerStep(n)
  PROVE  LogIsReturned'
<1>1. TypeOK /\ TypeOK' /\ PollerFrame(n) /\ PollerShape(n)
  BY PollerHasShape DEF FlowInv, RaceInv
<1>2. SUFFICES ASSUME crashes' + dbErrors' = 0
               PROVE  \A u \in Tasks : refundLog'[u] = IF pc'[u] = "inserted" THEN Returned(u)' ELSE 0
  BY DEF LogIsReturned
<1>3. crashes + dbErrors = 0 /\ dbErrors' = dbErrors
  BY <1>1, <1>2, StillFaultless DEF PollerFrame
<1>4. \A u \in Tasks : refundLog[u] = IF pc[u] = "inserted" THEN Returned(u) ELSE 0
  BY <1>3 DEF LogIsReturned
<1>5. pc' = pc /\ held' = held BY <1>1 DEF PollerFrame
<1>6. CASE charge' = charge /\ refundLog' = refundLog
  BY <1>4, <1>5, <1>6 DEF Returned
<1>7. ASSUME NEW t \in Tasks, Paying(n, t), NEW d \in Int, Debit(t, d),
             refundLog' = [refundLog EXCEPT ![t] = @ + (IF d < 0 THEN -d ELSE 0)]
      PROVE  \A u \in Tasks : refundLog'[u] = IF pc'[u] = "inserted" THEN Returned(u)' ELSE 0
  <2>1. charge[t] = held[t] /\ pc[t] = "inserted" /\ held[t] \in Nat
    BY <1>3, <1>7, NothingSkewed, PayingKnowsPrice
  <2>2. charge'[t] = held[t] + d /\ \A u \in Tasks \ {t} : charge'[u] = charge[u]
    BY <1>1, <1>7, <2>1, DebitCharge
  <2>3. refundLog[t] = 0 BY <1>4, <2>1 DEF Returned
  <2>4. /\ refundLog'[t] = IF d < 0 THEN -d ELSE 0
        /\ \A u \in Tasks \ {t} : refundLog'[u] = refundLog[u]
    BY <1>1, <1>7, <2>3 DEF TypeOK
  <2>5. Returned(t)' = IF d < 0 THEN -d ELSE 0 BY <1>5, <2>1, <2>2 DEF Returned
  <2>6. QED BY <1>4, <1>5, <2>1, <2>2, <2>4, <2>5 DEF Returned
<1>8. CASE RefundTask(n)
  <2>1. PICK t \in Tasks : t = cur[n] /\ Paying(n, t)
    BY <1>8, PaymentHasShape DEF FlowInv, PaymentShape, RefundTask, Paying
  <2> DEFINE q == RefundAmount(n)
  <2>2. q \in Nat /\ -q \in Int BY <2>1, PayingKnowsPrice DEF RefundAmount
  <2>3. ASSUME q > 0, Debit(t, -q), refundLog' = [refundLog EXCEPT ![t] = @ + q]
        PROVE  \A u \in Tasks : refundLog'[u] = IF pc'[u] = "inserted" THEN Returned(u)' ELSE 0
    <3>1. (IF -q < 0 THEN -(-q) ELSE 0) = q BY <2>2, <2>3
    <3>2. QED BY <1>7, <2>1, <2>2, <2>3, <3>1
  <2>4. ~DbFault BY <1>1, <1>3 DEF DbFault, TypeOK
  <2>5. ASSUME q > 0, NEW o \in PostConsumeOutcomes(TokenOf[t]), o.result = "error", PostConsume(t, o, -q)
        PROVE  FALSE
    BY <1>1, <1>3, <2>2, <2>5, PostConsumeTruth
  <2>6. ASSUME q > 0, NEW o \in PostConsumeOutcomes(TokenOf[t]), o.result = "ok", PostConsume(t, o, -q)
        PROVE  Debit(t, -q)
    BY <1>1, <1>3, <2>2, <2>6, PostConsumeTruth
  <2>7. \/ q = 0 /\ charge' = charge /\ refundLog' = refundLog
        \/ q > 0 /\ Debit(t, -q) /\ refundLog' = [refundLog EXCEPT ![t] = @ + q]
    BY <1>8, <2>1, <2>4, <2>5, <2>6 DEF RefundTask, ledger
  <2>8. QED BY <1>6, <2>3, <2>7
<1>9. CASE SettleSuccess(n)
  <2>1. PICK t \in Tasks : t = cur[n] /\ Paying(n, t)
    BY <1>9, PaymentHasShape DEF FlowInv, PaymentShape, SettleSuccess, Paying
  <2> DEFINE q == snap[n][t].quota
  <2>2. q \in Nat BY <2>1, PayingKnowsPrice
  <2>3. CASE charge' = charge /\ refundLog' = refundLog BY <1>6, <2>3
  <2>4. CASE \E f \in FinalQuotas, o \in PostConsumeOutcomes(TokenOf[t]) :
          /\ PostConsume(t, o, SettlementDelta(f, q))
          /\ \/ /\ o.result = "ok"
                /\ refundLog' = [refundLog EXCEPT ![t] = @ + IF f < q THEN q - f ELSE 0]
             \/ o.result # "ok" /\ UNCHANGED refundLog
    <3>1. PICK f \in FinalQuotas, o \in PostConsumeOutcomes(TokenOf[t]) :
          /\ PostConsume(t, o, SettlementDelta(f, q))
          /\ \/ /\ o.result = "ok"
                /\ refundLog' = [refundLog EXCEPT ![t] = @ + IF f < q THEN q - f ELSE 0]
             \/ o.result # "ok" /\ UNCHANGED refundLog
      BY <2>4
    <3> DEFINE d == SettlementDelta(f, q)
    <3>2. d \in Int /\ (IF d < 0 THEN -d ELSE 0) = (IF f < q THEN q - f ELSE 0)
      BY <2>2, VideoAssumption DEF SettlementDelta
    <3>3. \/ o.result = "ok" /\ Debit(t, d)
          \/ o.result = "notfound" /\ UNCHANGED ledger
      BY <1>1, <1>3, <3>1, <3>2, PostConsumeTruth
    <3>4. CASE o.result = "ok" /\ Debit(t, d) BY <1>7, <2>1, <3>1, <3>2, <3>4
    <3>5. CASE o.result = "notfound" /\ UNCHANGED ledger BY <2>3, <3>1, <3>5 DEF ledger
    <3>6. QED BY <3>3, <3>4, <3>5
  <2>5. QED BY <1>9, <2>1, <2>3, <2>4 DEF SettleSuccess, ledger
<1>10. CASE PersistQuota(n) BY <1>6, <1>10 DEF PersistQuota, ledger
<1>11. CASE Looks(n) \/ \E t \in Tasks, s \in TerminalStatuses : Wins(n, t, s)
  BY <1>6, <1>11 DEF Looks, Wins
<1>12. QED BY <1>1, <1>8, <1>9, <1>10, <1>11 DEF PollerShape

LEMMA LogStep == FlowInv /\ SkewBounded /\ LogIsReturned /\ [Next]_vars => LogIsReturned'
<1> SUFFICES ASSUME FlowInv, SkewBounded, LogIsReturned, [Next]_vars PROVE LogIsReturned'
  OBVIOUS
<1>0. FlowInv' BY FlowStep
<1>1. CASE \E t \in Tasks : Submit(t) \/ HandlerStep(t)
  BY <1>0, <1>1, LogHandler
<1>2. CASE \E n \in Nodes : PollerStep(n)
  BY <1>0, <1>2, LogPoller
<1>3. CASE \/ \E t \in Tasks : UpstreamStep(t) \/ PassDeadline(t)
           \/ \E n \in Nodes : Crash(n)
           \/ \E k \in Tokens : DeleteToken(k)
           \/ UNCHANGED vars
  <2>1. TypeOK /\ TypeOK' BY <1>0 DEF FlowInv, RaceInv
  <2>2. CASE QuietStep BY <2>2 DEF QuietStep, LogIsReturned, Returned
  <2>3. ASSUME NEW n \in Nodes, CrashShape(n) PROVE LogIsReturned'
    <3>1. crashes' + dbErrors' # 0
      <4>1. crashes \in Nat /\ dbErrors \in Nat BY <2>1 DEF TypeOK
      <4>2. \A x, y \in Nat : (x + 1) + y # 0 OBVIOUS
      <4>3. QED BY <2>3, <4>1, <4>2 DEF CrashShape
    <3>2. QED BY <3>1 DEF LogIsReturned
  <2>4. QED BY <1>3, <2>1, <2>2, <2>3, EnvironmentShape
<1>4. QED BY <1>1, <1>2, <1>3 DEF Next

-----------------------------------------------------------------------------
(* Overdrafts.  A submission that was repriced upwards stays so for ever,   *)
(* and until one is, every reservation found the wallet it was drawn from.  *)

Repriced(t) == charge[t] > held[t] \/ held[t] \in AdjustedQuotas

\* Money moves for a submission that is at its price and gets some back, or
\* that is repriced by this very step.
LEMMA OverdrawKept ==
  ASSUME FlowInv, OnlyRepricingOverdraws, NEW t \in Tasks, NEW d \in Int,
         UNCHANGED ledger \/ Debit(t, d),
         \A u \in Tasks \ {t} : held'[u] = held[u],
         \/ d <= 0 /\ held'[t] = held[t] /\ charge[t] = held[t]
         \/ Repriced(t)'
  PROVE  OnlyRepricingOverdraws'
<1>0. TypeOK /\ held[t] \in Nat BY DEF FlowInv, RaceInv, TypeOK
<1>1. SUFFICES ASSUME NEW v \in Users, wallet'[v] < 0
               PROVE  \E u \in Tasks : Payer(u) = v /\ Repriced(u)'
  BY DEF OnlyRepricingOverdraws, Repriced
<1>2. \A u \in Tasks \ {t} : Repriced(u)' <=> Repriced(u)
  BY <1>0, DebitCharge DEF Repriced, ledger
<1>3. CASE Payer(t) = v /\ Repriced(t)' BY <1>3
<1>4. CASE Payer(t) # v
  <2>1. wallet'[v] = wallet[v] BY <1>0, <1>4, DebitCharge DEF ledger
  <2>2. PICK u \in Tasks : Payer(u) = v /\ Repriced(u)
    BY <1>1, <2>1 DEF OnlyRepricingOverdraws, Repriced
  <2>3. QED BY <1>2, <1>4, <2>2
<1>5. CASE Payer(t) = v /\ d <= 0 /\ held'[t] = held[t] /\ charge[t] = held[t]
  <2>1. wallet[v] <= wallet'[v] /\ wallet[v] \in Int
    <3>1. wallet[v] \in Int BY <1>0 DEF TypeOK
    <3>2. CASE UNCHANGED ledger BY <3>1, <3>2 DEF ledger
    <3>3. CASE Debit(t, d)
      <4>1. wallet'[v] = wallet[v] - d BY <1>0, <1>5, <3>3, DebitCharge
      <4>2. QED BY <1>5, <3>1, <4>1
    <3>4. QED BY <3>2, <3>3
  <2>2. wallet[v] < 0
    <3>1. wallet'[v] \in Int BY <1>0, <1>5, DebitCharge, <2>1 DEF ledger
    <3>2. QED BY <1>1, <2>1, <3>1
  <2>3. PICK u \in Tasks : Payer(u) = v /\ Repriced(u)
    BY <2>2 DEF OnlyRepricingOverdraws, Repriced
  <2>4. CASE u = t
    <3>1. held[t] \in AdjustedQuotas BY <1>0, <1>5, <2>3, <2>4 DEF Repriced
    <3>2. QED BY <1>5, <3>1 DEF Repriced
  <2>5. QED BY <1>2, <2>3, <2>4
<1>6. QED BY <1>3, <1>4, <1>5

LEMMA OverdrawUntouched ==
  ASSUME OnlyRepricingOverdraws, UNCHANGED <<wallet, charge, held>>
  PROVE  OnlyRepricingOverdraws'
BY DEF OnlyRepricingOverdraws

LEMMA OverdrawHandler ==
  ASSUME NoHalfRepricing, FlowInv, MoneyInv, OnlyRepricingOverdraws, NEW t \in Tasks,
         Submit(t) \/ HandlerStep(t)
  PROVE  OnlyRepricingOverdraws'
<1>1. TypeOK /\ HandlerShape(t) /\ held[t] \in Nat /\ charge[t] \in Int
  BY HandlerHasShape DEF FlowInv, RaceInv, TypeOK
<1>2. \A u \in Tasks \ {t} : held'[u] = held[u] BY <1>1 DEF HandlerShape
<1>3. CASE Submit(t)
  <2>1. PICK q \in Quotas : PreConsumeAllowed(t, q) /\ Debit(t, q) /\ held' = [held EXCEPT ![t] = q]
    BY <1>3 DEF Submit
  <2>2. charge[t] = 0 /\ held[t] = 0 /\ q \in Nat
    BY <1>3, VideoAssumption DEF Submit, FlowInv, NewIsFree
  <2>3. CASE q = 0
    <3>1. held'[t] = held[t] /\ q \in Int /\ q <= 0 BY <1>1, <2>1, <2>2, <2>3 DEF TypeOK
    <3>2. QED BY <1>2, <2>1, <2>2, <3>1, OverdrawKept
  <2>4. CASE q # 0
    <3>1. wallet[Payer(t)] >= q BY <2>1, <2>4 DEF PreConsumeAllowed
    <3>2. SUFFICES ASSUME NEW v \in Users, wallet'[v] < 0
                   PROVE  \E u \in Tasks : Payer(u) = v /\ Repriced(u)'
      BY DEF OnlyRepricingOverdraws, Repriced
    <3>3. v # Payer(t)
      <4>1. wallet'[Payer(t)] = wallet[Payer(t)] - q /\ wallet[Payer(t)] \in Int
        BY <1>1, <2>1, <2>2, DebitCharge, PayerType DEF TypeOK
      <4>2. wallet'[Payer(t)] >= 0 BY <2>2, <3>1, <4>1
      <4>3. QED BY <3>2, <4>1, <4>2, <2>2
    <3>4. wallet'[v] = wallet[v] BY <1>1, <2>1, <2>2, <3>3, DebitCharge
    <3>5. PICK u \in Tasks : Payer(u) = v /\ Repriced(u)
      BY <3>2, <3>4 DEF OnlyRepricingOverdraws, Repriced
    <3>6. u # t BY <3>3, <3>5
    <3>7. charge'[u] = charge[u] /\ held'[u] = held[u] BY <1>1, <3>6 DEF HandlerShape
    <3>8. QED BY <3>5, <3>7 DEF Repriced
  <2>5. QED BY <2>3, <2>4
<1>4. CASE UpstreamAccepts(t) \/ UpstreamErrors(t) \/ InsertTask(t) \/ InsertTaskFails(t)
  BY <1>4, OverdrawUntouched DEF UpstreamAccepts, UpstreamErrors, InsertTask, InsertTaskFails, ledger
<1>5. CASE RefundSubmit(t)
  <2>1. PICK o \in PostConsumeOutcomes(TokenOf[t]) : PostConsume(t, o, -held[t])
    BY <1>5 DEF RefundSubmit
  <2>2. -held[t] \in Int /\ -held[t] <= 0 BY <1>1
  <2>3. UNCHANGED ledger \/ Debit(t, -held[t]) BY <1>1, <2>1, <2>2, PostConsumeTruth
  <2>4. held'[t] = held[t] /\ charge[t] = held[t]
    BY <1>5 DEF RefundSubmit, MoneyInv, HandlerMoney
  <2>5. QED BY <1>2, <2>2, <2>3, <2>4, OverdrawKept
<1>6. CASE AdjustOnSubmit(t)
  <2>1. CASE UNCHANGED <<ledger, held, dbErrors>> BY <2>1, OverdrawUntouched DEF ledger
  <2>2. CASE \E a \in AdjustedQuotas \ {held[t]}, o \in PostConsumeOutcomes(TokenOf[t]) :
               /\ PostConsume(t, o, a - held[t])
               /\ held' = [held EXCEPT ![t] = HeldAfterAdjust(t, o, a)]
    <3>1. PICK a \in AdjustedQuotas, o \in PostConsumeOutcomes(TokenOf[t]) :
               /\ PostConsume(t, o, a - held[t])
               /\ held' = [held EXCEPT ![t] = HeldAfterAdjust(t, o, a)]
      BY <2>2
    <3>2. a - held[t] \in Int /\ MaxDbErrors = 0
      BY <1>1, VideoAssumption DEF NoHalfRepricing
    <3>3. UNCHANGED ledger \/ Debit(t, a - held[t]) BY <1>1, <3>1, <3>2, PostConsumeTruth
    <3>4. \/ o.result = "ok"
          \/ o.result = "notfound" /\ charge' = charge /\ wallet' = wallet
      <4>1. ~DbMayFail BY <1>1, <3>2 DEF DbMayFail, TypeOK
      <4>2. \/ o.result = "ok"
            \/ o = [moved |-> FALSE, result |-> "notfound", fault |-> 0]
        BY <3>1, <4>1 DEF PostConsumeOutcomes
      <4>3. QED BY <3>1, <4>2 DEF PostConsume, ledger
    <3>5. CASE o.result = "ok"
      <4>1. held'[t] = a BY <1>1, <3>1, <3>5 DEF HeldAfterAdjust, TypeOK
      <4>2. Repriced(t)' BY <4>1 DEF Repriced
      <4>3. QED BY <1>2, <3>2, <3>3, <4>2, OverdrawKept
    <3>6. CASE o.result = "notfound" /\ charge' = charge /\ wallet' = wallet
      <4>1. held'[t] = held[t] BY <1>1, <3>1, <3>6 DEF HeldAfterAdjust, TypeOK
      <4>2. \A u \in Tasks : held'[u] = held[u] BY <1>2, <4>1
      <4>3. QED BY <3>6, <4>2 DEF OnlyRepricingOverdraws
    <3>7. QED BY <3>4, <3>5, <3>6
  <2>3. QED BY <1>6, <2>1, <2>2 DEF AdjustOnSubmit
<1>7. QED BY <1>3, <1>4, <1>5, <1>6 DEF HandlerStep

LEMMA OverdrawPoller ==
  ASSUME FlowInv, MoneyInv, OnlyRepricingOverdraws, NEW n \in Nodes, PollerStep(n)
  PROVE  OnlyRepricingOverdraws'
<1>1. TypeOK /\ PollerFrame(n) /\ PollerShape(n) /\ held' = held
  BY PollerHasShape DEF FlowInv, RaceInv, PollerFrame
<1>2. ASSUME NEW t \in Tasks, Paying(n, t)
      PROVE  charge[t] = held[t] /\ snap[n][t].quota = held[t] /\ held[t] \in Nat
  BY <1>2, PayingKnowsPrice DEF MoneyInv, WinnerMoney, Paying
<1>3. CASE RefundTask(n)
  <2>1. PICK t \in Tasks : t = cur[n] /\ Paying(n, t)
    BY <1>3, PaymentHasShape DEF FlowInv, PaymentShape, RefundTask, Paying
  <2> DEFINE q == RefundAmount(n)
  <2>2. -q \in Int /\ -q <= 0 BY <1>2, <2>1 DEF RefundAmount
  <2>3. UNCHANGED ledger \/ Debit(t, -q)
    <3>1. ASSUME NEW o \in PostConsumeOutcomes(TokenOf[t]), PostConsume(t, o, -q)
          PROVE  UNCHANGED ledger \/ Debit(t, -q)
      BY <1>1, <2>2, <3>1, PostConsumeTruth
    <3>2. QED BY <1>3, <2>1, <3>1 DEF RefundTask
  <2>4. QED BY <1>1, <1>2, <2>1, <2>2, <2>3, OverdrawKept
<1>4. CASE SettleSuccess(n)
  <2>1. PICK t \in Tasks : t = cur[n] /\ Paying(n, t)
    BY <1>4, PaymentHasShape DEF FlowInv, PaymentShape, SettleSuccess, Paying
  <2> DEFINE q == snap[n][t].quota
  <2>2. q \in Nat /\ q = held[t] /\ charge[t] = q BY <1>2, <2>1
  <2>3. CASE UNCHANGED ledger BY <1>1, <2>3, OverdrawUntouched DEF ledger
  <2>4. ASSUME NEW f \in FinalQuotas, Debit(t, SettlementDelta(f, q)) PROVE OnlyRepricingOverdraws'
    <3>1. f \in Nat /\ SettlementDelta(f, q) = f - q BY <2>2, VideoAssumption DEF SettlementDelta
    <3>2. SettlementDelta(f, q) \in Int BY <2>2, <3>1
    <3>3. charge'[t] = f BY <1>1, <2>2, <2>4, <3>1, <3>2, DebitCharge
    <3>4. SettlementDelta(f, q) <= 0 \/ Repriced(t)'
      BY <1>1, <2>2, <3>1, <3>3 DEF Repriced
    <3>5. QED BY <1>1, <2>2, <2>4, <3>2, <3>4, OverdrawKept
  <2>5. ASSUME NEW f \in FinalQuotas, NEW o \in PostConsumeOutcomes(TokenOf[t]),
               PostConsume(t, o, SettlementDelta(f, q))
        PROVE  OnlyRepricingOverdraws'
    <3>1. SettlementDelta(f, q) \in Int BY <2>2, VideoAssumption DEF SettlementDelta
    <3>2. QED BY <1>1, <2>3, <2>4, <2>5, <3>1, PostConsumeTruth
  <2>6. QED BY <1>4, <2>1, <2>3, <2>5 DEF SettleSuccess
<1>5. CASE PersistQuota(n) BY <1>1, <1>5, OverdrawUntouched DEF PersistQuota, ledger
<1>6. CASE Looks(n) \/ \E t \in Tasks, s \in TerminalStatuses : Wins(n, t, s)
  BY <1>1, <1>6, OverdrawUntouched DEF Looks, Wins
<1>7. QED BY <1>1, <1>3, <1>4, <1>5, <1>6 DEF PollerShape

LEMMA OverdrawStep ==
  ASSUME NoHalfRepricing
  PROVE  FlowInv /\ MoneyInv /\ OnlyRepricingOverdraws /\ [Next]_vars => OnlyRepricingOverdraws'
<1> SUFFICES ASSUME FlowInv, MoneyInv, OnlyRepricingOverdraws, [Next]_vars
             PROVE  OnlyRepricingOverdraws'
  OBVIOUS
<1>1. CASE \E t \in Tasks : Submit(t) \/ HandlerStep(t)
  BY <1>1, OverdrawHandler
<1>2. CASE \E n \in Nodes : PollerStep(n)
  BY <1>2, OverdrawPoller
<1>3. CASE \/ \E t \in Tasks : UpstreamStep(t) \/ PassDeadline(t)
           \/ \E n \in Nodes : Crash(n)
           \/ \E k \in Tokens : DeleteToken(k)
           \/ UNCHANGED vars
  <2>1. TypeOK BY DEF FlowInv, RaceInv
  <2>2. UNCHANGED <<wallet, charge, held>>
    BY <1>3, <2>1, EnvironmentShape DEF QuietStep, CrashShape, ledger
  <2>3. QED BY <2>2, OverdrawUntouched
<1>4. QED BY <1>1, <1>2, <1>3 DEF Next

\* An account is overdrawn only by a task that was repriced after its
\* reservation (model/token.go PreConsumeTokenQuota guards every reservation),
\* and until something fails the log of refunds is what was given back
\* (billing.go RefundTask, SettleSuccess).
THEOREM RefundsStaySound == ASSUME NoHalfRepricing PROVE Spec => []RefundsAreSound
<1>1. Init => LogIsReturned /\ OnlyRepricingOverdraws
  BY VideoAssumption DEF Init, LogIsReturned, OnlyRepricingOverdraws
<1>2. /\ FlowInv /\ SkewBounded /\ MoneyInv /\ LogIsReturned /\ OnlyRepricingOverdraws /\ [Next]_vars
      => LogIsReturned' /\ OnlyRepricingOverdraws'
  BY LogStep, OverdrawStep
<1>3. FlowInv /\ LogIsReturned /\ OnlyRepricingOverdraws => RefundsAreSound
  <2> SUFFICES ASSUME FlowInv, LogIsReturned, crashes + dbErrors = 0, NEW t \in Tasks, IsTerminal(t)
               PROVE  refundLog[t] = IF charge[t] < held[t] THEN held[t] - charge[t] ELSE 0
    BY DEF RefundsAreSound, RefundsLogged
  <2>1. pc[t] = "inserted" BY StatusesDiffer DEF FlowInv, RaceInv, RowsOfInserted, IsTerminal
  <2>2. QED BY <2>1 DEF LogIsReturned, Returned
<1>4. Spec => []MoneyInv BY MoneyInvariance
<1>5. QED BY <1>1, <1>2, <1>3, <1>4, SkewInvariance, PTL DEF Spec

-----------------------------------------------------------------------------
(* How the stage of a submission is read, before and after a step. *)

WithHandler == {"charged", "accepted", "adjusted", "refund"}

StageRule(t) ==
  /\ pc[t] = "new" => StageOf(t) = "new"
  /\ pc[t] \in WithHandler => StageOf(t) = "reserved"
  /\ pc[t] \in {"failed", "crashed"} => StageOf(t) = "closed"
  /\ pc[t] = "inserted" =>
       /\ ~IsTerminal(t) => StageOf(t) = "open"
       /\ IsTerminal(t) /\ OwnedFor(t, "refund") => StageOf(t) = "refunding"
       /\ IsTerminal(t) /\ ~OwnedFor(t, "refund") /\ OwnedFor(t, "settle") =>
            StageOf(t) = "settling"
       /\ IsTerminal(t) /\ ~OwnedFor(t, "refund") /\ ~OwnedFor(t, "settle") =>
            StageOf(t) = "closed"

LEMMA StageRules == ASSUME NEW t \in Tasks PROVE StageRule(t) /\ StageRule(t)'
BY DEF StageRule, StageOf, WithHandler

\* The stage depends on the handler, the row being terminal, and its owners.
LEMMA StageKept ==
  ASSUME NEW t \in Tasks, pc'[t] = pc[t], IsTerminal(t)' <=> IsTerminal(t),
         OwnedFor(t, "refund")' <=> OwnedFor(t, "refund"),
         OwnedFor(t, "settle")' <=> OwnedFor(t, "settle")
  PROVE  StageOf(t)' = StageOf(t)
BY DEF StageOf

-----------------------------------------------------------------------------
(* A step that moves one submission, and what it may do to it. *)

Same(t) == StageOf(t)' = StageOf(t) /\ charge'[t] = charge[t]
OthersSame(t) == \A u \in Tasks \ {t} : Same(u)
AllPrices == Quotas \cup AdjustedQuotas \cup FinalQuotas

PromisedStep(t) ==
  \/ StageOf(t) = "new" /\ StageOf(t)' = "reserved" /\ charge'[t] \in AllPrices
  \/ StageOf(t) = "reserved" /\ StageOf(t)' = "reserved" /\ charge'[t] \in AllPrices
  \/ StageOf(t) = "reserved" /\ StageOf(t)' = "closed" /\ charge'[t] \in {0, charge[t]}
  \/ StageOf(t) = "reserved" /\ StageOf(t)' = "open" /\ charge'[t] = charge[t]
  \/ StageOf(t) = "open" /\ StageOf(t)' \in {"refunding", "settling"} /\ charge'[t] = charge[t]
  \/ StageOf(t) = "refunding" /\ StageOf(t)' = "closed" /\ charge'[t] \in {0, charge[t]}
  \/ StageOf(t) = "settling" /\ StageOf(t)' = "closed" /\ charge'[t] \in AllPrices \cup {charge[t]}

\* Nothing moved: the abstract step is a stutter.
LEMMA Stutter ==
  ASSUME TypeOK, TypeOK', \A t \in Tasks : Same(t)
  PROVE  UNCHANGED Billing!bvars
<1>1. charge' = charge
  BY DEF TypeOK, Same
<1>2. [t \in Tasks |-> StageOf(t)'] = [t \in Tasks |-> StageOf(t)]
  BY DEF Same
<1>3. QED BY <1>1, <1>2 DEF Billing!bvars

\* One submission moved as promised: the abstract step is the matching one.
LEMMA OneMoves ==
  ASSUME TypeOK, TypeOK', NEW t \in Tasks, OthersSame(t), PromisedStep(t)
  PROVE  Billing!BNext
<1> DEFINE stg == [u \in Tasks |-> StageOf(u)]
<1>1. [u \in Tasks |-> StageOf(u)'] = [stg EXCEPT ![t] = StageOf(t)'] /\ stg[t] = StageOf(t)
  BY DEF OthersSame, Same
<1>2. charge' = [charge EXCEPT ![t] = charge'[t]]
  BY DEF OthersSame, Same, TypeOK
<1>3. charge'[t] = charge[t] => charge' = charge
  BY <1>2 DEF TypeOK
<1>4. StageOf(t)' = StageOf(t) => [u \in Tasks |-> StageOf(u)'] = stg
  BY <1>1
<1>5. CASE StageOf(t) = "new" /\ StageOf(t)' = "reserved" /\ charge'[t] \in AllPrices
  <2>1. Billing!Reserve(t)
    BY <1>1, <1>2, <1>5 DEF Billing!Reserve, Billing!To, Billing!Pay, AllPrices
  <2>2. QED BY <2>1 DEF Billing!BNext
<1>6. CASE StageOf(t) = "reserved" /\ StageOf(t)' = "reserved" /\ charge'[t] \in AllPrices
  <2>1. Billing!Reprice(t)
    BY <1>1, <1>2, <1>4, <1>6 DEF Billing!Reprice, Billing!Pay, AllPrices
  <2>2. QED BY <2>1 DEF Billing!BNext
<1>7. CASE StageOf(t) = "reserved" /\ StageOf(t)' = "closed" /\ charge'[t] \in {0, charge[t]}
  <2>1. Billing!Release(t)
    BY <1>1, <1>2, <1>7 DEF Billing!Release, Billing!To, Billing!Pay
  <2>2. QED BY <2>1 DEF Billing!BNext
<1>8. CASE StageOf(t) = "reserved" /\ StageOf(t)' = "open" /\ charge'[t] = charge[t]
  <2>1. Billing!Open(t)
    BY <1>1, <1>3, <1>8 DEF Billing!Open, Billing!To
  <2>2. QED BY <2>1 DEF Billing!BNext
<1>9. CASE StageOf(t) = "open" /\ StageOf(t)' \in {"refunding", "settling"} /\ charge'[t] = charge[t]
  <2>1. Billing!Fail(t) \/ Billing!Succeed(t)
    BY <1>1, <1>3, <1>9 DEF Billing!Fail, Billing!Succeed, Billing!To
  <2>2. QED BY <2>1 DEF Billing!BNext
<1>10. CASE StageOf(t) = "refunding" /\ StageOf(t)' = "closed" /\ charge'[t] \in {0, charge[t]}
  <2>1. Billing!Refund(t)
    BY <1>1, <1>2, <1>10 DEF Billing!Refund, Billing!To, Billing!Pay
  <2>2. QED BY <2>1 DEF Billing!BNext
<1>11. CASE StageOf(t) = "settling" /\ StageOf(t)' = "closed" /\ charge'[t] \in AllPrices \cup {charge[t]}
  <2>1. Billing!Settle(t)
    BY <1>1, <1>2, <1>11 DEF Billing!Settle, Billing!To, Billing!Pay, AllPrices
  <2>2. QED BY <2>1 DEF Billing!BNext
<1>12. QED BY <1>5, <1>6, <1>7, <1>8, <1>9, <1>10, <1>11 DEF PromisedStep

-----------------------------------------------------------------------------
(* Handlers. *)

\* A handler works on a submission without a row and touches no poller.
LEMMA HandlerFrame ==
  ASSUME RaceInv, NEW t \in Tasks, Submit(t) \/ HandlerStep(t)
  PROVE  /\ OthersSame(t) /\ ~IsTerminal(t) /\ ~IsTerminal(t)'
         /\ row[t].status = "ABSENT" /\ UNCHANGED <<at, cur>>
<1>1. UNCHANGED <<at, cur>>
  BY DEF Submit, HandlerStep, UpstreamAccepts, UpstreamErrors, AdjustOnSubmit,
     InsertTask, InsertTaskFails, RefundSubmit, pollers
<1>2. row[t].status = "ABSENT"
  BY DEF Submit, HandlerStep, UpstreamAccepts, UpstreamErrors, AdjustOnSubmit,
     InsertTask, InsertTaskFails, RefundSubmit, RaceInv, RowsOfInserted
<1>3. \A u \in Tasks \ {t} : charge'[u] = charge[u] /\ row'[u] = row[u] /\ pc'[u] = pc[u]
  BY DEF Submit, HandlerStep, UpstreamAccepts, UpstreamErrors, AdjustOnSubmit, InsertTask,
     InsertTaskFails, RefundSubmit, PostConsume, Debit, ledger, rows, RaceInv, TypeOK
<1>4. row'[t].status \in {"ABSENT", "QUEUED"}
  BY <1>2 DEF Submit, HandlerStep, UpstreamAccepts, UpstreamErrors, AdjustOnSubmit, InsertTask,
     InsertTaskFails, RefundSubmit, rows, RaceInv, TypeOK
<1>5. OthersSame(t)
  BY <1>1, <1>3, StageKept DEF OthersSame, Same, IsTerminal, OwnedFor
<1>6. QED BY <1>1, <1>2, <1>4, <1>5 DEF IsTerminal, TerminalStatuses

\* Each handler step is the reservation, a repricing, the release or the opening
\* of its submission, or nothing the promise speaks of.
LEMMA HandlerImplements ==
  ASSUME MoneyInv, MoneyInv', NoHalfRepricing, NEW t \in Tasks, Submit(t) \/ HandlerStep(t)
  PROVE  Billing!BNext \/ UNCHANGED Billing!bvars
<1>1. TypeOK /\ TypeOK' /\ RaceInv /\ held[t] \in Nat /\ charge[t] \in Int
  BY DEF MoneyInv, RaceInv, TypeOK
<1>2. OthersSame(t) /\ ~IsTerminal(t) /\ ~IsTerminal(t)'
  BY <1>1, HandlerFrame
<1>3. StageRule(t) /\ StageRule(t)'
  BY StageRules
<1>4. ASSUME PromisedStep(t) \/ Same(t)
      PROVE  Billing!BNext \/ UNCHANGED Billing!bvars
  <2>1. CASE PromisedStep(t)
    BY <1>1, <1>2, <2>1, OneMoves
  <2>2. CASE Same(t)
    BY <1>1, <1>2, <2>2, Stutter DEF OthersSame
  <2>3. QED BY <1>4, <2>1, <2>2
<1>5. CASE Submit(t)
  <2>1. PICK q \in Quotas : Debit(t, q)
    BY <1>5 DEF Submit
  <2>2. charge[t] = 0 /\ q \in Nat /\ charge'[t] = charge[t] + q
    BY <1>1, <1>5, <2>1, VideoAssumption DEF Submit, MoneyInv, HandlerMoney, Debit, TypeOK
  <2>3. pc[t] = "new" /\ pc'[t] = "charged"
    BY <1>1, <1>5 DEF Submit, TypeOK
  <2>4. PromisedStep(t)
    BY <1>3, <2>2, <2>3 DEF StageRule, WithHandler, PromisedStep, AllPrices
  <2>5. QED BY <1>4, <2>4
<1>6. CASE UpstreamAccepts(t) \/ UpstreamErrors(t) \/ InsertTaskFails(t)
  <2>1. pc[t] \in WithHandler /\ pc'[t] \in WithHandler /\ charge' = charge
    BY <1>1, <1>6 DEF UpstreamAccepts, UpstreamErrors, InsertTaskFails, WithHandler, ledger, TypeOK
  <2>2. Same(t)
    BY <1>3, <2>1 DEF StageRule, Same
  <2>3. QED BY <1>4, <2>2
<1>7. CASE AdjustOnSubmit(t)
  <2>1. pc[t] \in WithHandler /\ pc'[t] \in WithHandler /\ charge[t] = held[t]
    BY <1>1, <1>7 DEF AdjustOnSubmit, WithHandler, TypeOK, MoneyInv, HandlerMoney
  <2>2. charge'[t] = charge[t] \/ charge'[t] \in AdjustedQuotas
    <3>1. CASE UNCHANGED <<ledger, held, dbErrors>>
      BY <3>1 DEF ledger
    <3>2. CASE \E a \in AdjustedQuotas \ {held[t]}, o \in PostConsumeOutcomes(TokenOf[t]) :
                 PostConsume(t, o, a - held[t])
      <4>1. PICK a \in AdjustedQuotas, o \in PostConsumeOutcomes(TokenOf[t]) :
              PostConsume(t, o, a - held[t])
        BY <3>2
      <4>2. a \in Nat /\ a - held[t] \in Int
        BY <1>1, VideoAssumption
      <4>3. charge' = charge \/ charge' = [charge EXCEPT ![t] = charge[t] + (a - held[t])]
        BY <1>1, <4>1, <4>2, PostConsumeEffect
      <4>4. QED BY <1>1, <2>1, <4>1, <4>2, <4>3 DEF TypeOK
    <3>3. QED BY <1>7, <3>1, <3>2 DEF AdjustOnSubmit
  <2>3. PromisedStep(t) \/ Same(t)
    BY <1>3, <2>1, <2>2 DEF StageRule, PromisedStep, Same, AllPrices
  <2>4. QED BY <1>4, <2>3
<1>8. CASE InsertTask(t)
  <2>1. pc[t] = "adjusted" /\ pc'[t] = "inserted" /\ charge' = charge
    BY <1>1, <1>8 DEF InsertTask, ledger, TypeOK
  <2>2. PromisedStep(t)
    BY <1>2, <1>3, <2>1 DEF StageRule, WithHandler, PromisedStep
  <2>3. QED BY <1>4, <2>2
<1>9. CASE RefundSubmit(t)
  <2>1. pc[t] = "refund" /\ pc'[t] = "failed" /\ charge[t] = held[t] /\ -held[t] \in Int
    BY <1>1, <1>9 DEF RefundSubmit, TypeOK, MoneyInv, HandlerMoney
  <2>2. charge' = charge \/ charge' = [charge EXCEPT ![t] = charge[t] + (-held[t])]
    BY <1>1, <1>9, <2>1, PostConsumeEffect DEF RefundSubmit
  <2>3. charge'[t] \in {0, charge[t]}
    BY <1>1, <2>1, <2>2 DEF TypeOK
  <2>4. PromisedStep(t)
    BY <1>3, <2>1, <2>3 DEF StageRule, WithHandler, PromisedStep
  <2>5. QED BY <1>4, <2>4
<1>10. QED BY <1>5, <1>6, <1>7, <1>8, <1>9 DEF HandlerStep

-----------------------------------------------------------------------------
(* Pollers. *)

\* What a step of poller n leaves of the ownership of a task, when n neither
\* takes it nor gives it up.
OwnershipKept(u) ==
  /\ OwnedFor(u, "refund")' <=> OwnedFor(u, "refund")
  /\ OwnedFor(u, "settle")' <=> OwnedFor(u, "settle")

\* A poller that is not a winner and moves on owns nothing before or after.
LEMMA IdleOwnership ==
  ASSUME TypeOK, NEW n \in Nodes,
         at[n] \in {"next", "apply", "persist"}, at'[n] \in {"next", "apply", "persist"},
         \A m \in Nodes \ {n} : at'[m] = at[m] /\ cur'[m] = cur[m]
  PROVE  \A u \in Tasks : OwnershipKept(u)
BY DEF OwnedFor, OwnershipKept

\* Dropping a task whose status is kept terminal or running moves no stage.
LEMMA DropImplements ==
  ASSUME TypeOK, TypeOK', NEW n \in Nodes, UNCHANGED <<pc, charge>>,
         at[n] \in {"next", "apply", "persist"}, at'[n] \in {"next", "apply", "persist"},
         \A m \in Nodes \ {n} : at'[m] = at[m] /\ cur'[m] = cur[m],
         \A u \in Tasks : IsTerminal(u)' <=> IsTerminal(u)
  PROVE  UNCHANGED Billing!bvars
<1>1. \A u \in Tasks : OwnershipKept(u)
  BY IdleOwnership
<1>2. \A u \in Tasks : Same(u)
  BY <1>1, StageKept DEF OwnershipKept, Same
<1>3. QED BY <1>2, Stutter

LEMMA DoneFrame ==
  ASSUME TypeOK, NEW n \in Nodes, NEW t \in Tasks, Done(n, t)
  PROVE  at'[n] = "next" /\ \A m \in Nodes \ {n} : at'[m] = at[m] /\ cur'[m] = cur[m]
BY DEF Done, TypeOK

\* The winner of the compare-and-swap takes an open task to its one payment.
LEMMA MarkImplements ==
  ASSUME MoneyInv, MoneyInv', NEW n \in Nodes, NEW t \in Tasks, NEW s \in TerminalStatuses,
         UNCHANGED <<pc, charge>>, snap[n][t].status # "ABSENT",
         at[n] = "next" \/ (at[n] = "apply" /\ cur[n] = t),
         MarkTerminal(n, t, s)
  PROVE  Billing!BNext \/ UNCHANGED Billing!bvars
<1>1. TypeOK /\ TypeOK' /\ RaceInv /\ OneWinner /\ OneWinner'
  BY DEF MoneyInv, RaceInv
<1>2. CASE Done(n, t) /\ UNCHANGED row
  BY <1>1, <1>2, DoneFrame, DropImplements DEF IsTerminal
<1>3. CASE /\ CasMatches(t, snap[n][t].status) /\ SetStatus(t, s)
           /\ at' = [at EXCEPT ![n] = IF s = "SUCCESS" THEN "settle" ELSE "refund"]
           /\ cur' = [cur EXCEPT ![n] = t]
  <2>1. row[t].status \in NonTerminal
    BY <1>1, <1>3 DEF CasMatches, RaceInv, ListedWereRunning
  <2>2. \A u \in Tasks : row'[u].status = IF u = t THEN s ELSE row[u].status
    BY <1>1, <1>3, <2>1, RowsKept, StatusesDiffer
  <2>3. pc[t] = "inserted" /\ ~IsTerminal(t) /\ IsTerminal(t)'
    BY <1>1, <2>1, <2>2, StatusesDiffer DEF RaceInv, RowsOfInserted, IsTerminal
  <2>4. /\ at'[n] \in {"settle", "refund"} /\ cur'[n] = t
        /\ \A m \in Nodes \ {n} : at'[m] = at[m] /\ cur'[m] = cur[m]
    BY <1>1, <1>3 DEF TypeOK
  <2>5. OwnedFor(t, "refund")' \/ OwnedFor(t, "settle")'
    BY <2>4 DEF OwnedFor
  <2>6. \A u \in Tasks \ {t} : OwnershipKept(u)
    BY <2>4 DEF OwnershipKept, OwnedFor
  <2>7. OthersSame(t)
    BY <2>2, <2>6, StageKept DEF OthersSame, Same, OwnershipKept, IsTerminal
  <2>8. StageRule(t) /\ StageRule(t)'
    BY StageRules
  <2>9. PromisedStep(t)
    BY <2>3, <2>5, <2>8 DEF StageRule, PromisedStep
  <2>10. QED BY <1>1, <2>7, <2>9, OneMoves
<1>4. QED BY <1>2, <1>3 DEF MarkTerminal

\* The winner pays and drops its task.
LEMMA PayImplements ==
  ASSUME MoneyInv, MoneyInv', NEW n \in Nodes, NEW t \in Tasks, UNCHANGED <<pc, row>>,
         Winner(n, t), at[n] \in {"refund", "settle"}, at'[n] \in {"next", "persist"},
         \A m \in Nodes \ {n} : at'[m] = at[m] /\ cur'[m] = cur[m],
         \A u \in Tasks \ {t} : charge'[u] = charge[u],
         \/ charge'[t] = charge[t]
         \/ at[n] = "refund" /\ charge'[t] = 0
         \/ at[n] = "settle" /\ charge'[t] \in FinalQuotas
  PROVE  Billing!BNext
<1>1. TypeOK /\ TypeOK' /\ IsTerminal(t) /\ \A m \in Nodes : Winner(m, t) => m = n
  BY DEF MoneyInv, RaceInv, OneWinner
<1>2. pc[t] = "inserted" /\ pc'[t] = "inserted" /\ IsTerminal(t)'
  BY <1>1, StatusesDiffer DEF MoneyInv, RaceInv, RowsOfInserted, IsTerminal
<1>3. /\ at[n] = "refund" => OwnedFor(t, "refund")
      /\ at[n] = "settle" => ~OwnedFor(t, "refund") /\ OwnedFor(t, "settle")
  BY <1>1 DEF OwnedFor, Winner
<1>4. ~OwnedFor(t, "refund")' /\ ~OwnedFor(t, "settle")'
  BY <1>1 DEF OwnedFor, Winner
<1>5. \A u \in Tasks \ {t} : OwnershipKept(u)
  BY DEF OwnershipKept, OwnedFor, Winner
<1>6. OthersSame(t)
  BY <1>5, StageKept DEF OthersSame, Same, OwnershipKept, IsTerminal
<1>7. StageRule(t) /\ StageRule(t)'
  BY StageRules
<1>8. PromisedStep(t)
  BY <1>1, <1>2, <1>3, <1>4, <1>7 DEF StageRule, PromisedStep, AllPrices
<1>9. QED BY <1>1, <1>6, <1>8, OneMoves

\* The adjustments of a winner: exactly the amount asked for, or nothing.
LEMMA RefundPays ==
  ASSUME MoneyInv, NEW n \in Nodes, RefundTask(n)
  PROVE  /\ cur[n] \in Tasks /\ Winner(n, cur[n]) /\ at[n] = "refund" /\ Done(n, cur[n])
         /\ \A u \in Tasks \ {cur[n]} : charge'[u] = charge[u]
         /\ charge'[cur[n]] \in {0, charge[cur[n]]}
<1> DEFINE t == cur[n]
           q == snap[n][t].quota
<1>1. t \in Tasks /\ snap[n][t].status # "ABSENT" /\ at[n] = "refund" /\ Winner(n, t)
  BY DEF RefundTask, MoneyInv, RaceInv, BusyOnListed, Winner
<1>2. charge[t] = q /\ q \in Nat /\ -q \in Int /\ charge \in [Tasks -> Int] /\ TypeOK
  <2>1. charge[t] = row[t].quota /\ q = row[t].quota
    BY <1>1 DEF MoneyInv, WinnerMoney, SnapshotMoney
  <2>2. row[t] \in RowType /\ TypeOK /\ charge \in [Tasks -> Int]
    BY <1>1 DEF MoneyInv, RaceInv, TypeOK
  <2>3. row[t].quota \in Nat
    BY <2>2 DEF RowType
  <2>4. QED BY <2>1, <2>2, <2>3
<1>3. charge' = charge \/ charge' = [charge EXCEPT ![t] = charge[t] + (-q)]
  <2>1. CASE UNCHANGED ledger
    BY <2>1 DEF ledger
  <2>2. CASE \E o \in PostConsumeOutcomes(TokenOf[t]) : PostConsume(t, o, -q)
    BY <1>1, <1>2, <2>2, PostConsumeEffect
  <2>3. CASE Debit(t, -q)
    BY <1>2, <2>3 DEF Debit
  <2>4. QED BY <2>1, <2>2, <2>3 DEF RefundTask, RefundAmount
<1>4. QED BY <1>1, <1>2, <1>3 DEF RefundTask

LEMMA SettlePays ==
  ASSUME MoneyInv, NEW n \in Nodes, SettleSuccess(n)
  PROVE  /\ cur[n] \in Tasks /\ Winner(n, cur[n]) /\ at[n] = "settle"
         /\ at'[n] \in {"next", "persist"}
         /\ \A m \in Nodes \ {n} : at'[m] = at[m] /\ cur'[m] = cur[m]
         /\ \A u \in Tasks \ {cur[n]} : charge'[u] = charge[u]
         /\ charge'[cur[n]] \in FinalQuotas \cup {charge[cur[n]]}
<1> DEFINE t == cur[n]
           q == snap[n][t].quota
<1>1. t \in Tasks /\ snap[n][t].status # "ABSENT" /\ at[n] = "settle" /\ Winner(n, t)
  BY DEF SettleSuccess, MoneyInv, RaceInv, BusyOnListed, Winner
<1>2. charge[t] = q /\ q \in Nat /\ charge \in [Tasks -> Int] /\ TypeOK
  <2>1. charge[t] = row[t].quota /\ q = row[t].quota
    BY <1>1 DEF MoneyInv, WinnerMoney, SnapshotMoney
  <2>2. row[t] \in RowType /\ TypeOK /\ charge \in [Tasks -> Int]
    BY <1>1 DEF MoneyInv, RaceInv, TypeOK
  <2>3. row[t].quota \in Nat
    BY <2>2 DEF RowType
  <2>4. QED BY <2>1, <2>2, <2>3
<1>3. CASE Done(n, t) /\ UNCHANGED ledger
  BY <1>1, <1>2, <1>3, DoneFrame DEF ledger
<1>4. CASE \E f \in FinalQuotas \ {q}, o \in PostConsumeOutcomes(TokenOf[t]) :
             /\ PostConsume(t, o, SettlementDelta(f, q))
             /\ \/ at' = [at EXCEPT ![n] = "persist"] /\ UNCHANGED cur
                \/ Done(n, t)
  <2>1. PICK f \in FinalQuotas, o \in PostConsumeOutcomes(TokenOf[t]) :
             /\ PostConsume(t, o, SettlementDelta(f, q))
             /\ \/ at' = [at EXCEPT ![n] = "persist"] /\ UNCHANGED cur
                \/ Done(n, t)
    BY <1>4
  <2>2. f \in Nat /\ SettlementDelta(f, q) = f - q /\ f - q \in Int
    BY <1>2, VideoAssumption DEF SettlementDelta
  <2>3. charge' = charge \/ charge' = [charge EXCEPT ![t] = charge[t] + (f - q)]
    BY <1>1, <1>2, <2>1, <2>2, PostConsumeEffect
  <2>4. charge'[t] \in FinalQuotas \cup {charge[t]} /\ \A u \in Tasks \ {t} : charge'[u] = charge[u]
    BY <1>1, <1>2, <2>2, <2>3
  <2>5. at'[n] \in {"next", "persist"} /\ \A m \in Nodes \ {n} : at'[m] = at[m] /\ cur'[m] = cur[m]
    <3>1. CASE at' = [at EXCEPT ![n] = "persist"] /\ UNCHANGED cur
      BY <1>2, <3>1 DEF TypeOK
    <3>2. CASE Done(n, t)
      BY <1>1, <1>2, <3>2, DoneFrame
    <3>3. QED BY <2>1, <3>1, <3>2
  <2>6. QED BY <1>1, <2>4, <2>5
<1>5. QED BY <1>3, <1>4 DEF SettleSuccess

\* Each step of a poller is a verdict, the one payment after it, or nothing.
LEMMA PollerImplements ==
  ASSUME MoneyInv, MoneyInv', NEW n \in Nodes, PollerStep(n)
  PROVE  Billing!BNext \/ UNCHANGED Billing!bvars
<1> USE DEF handlers, rows
<1>1. TypeOK /\ TypeOK' /\ RaceInv
  BY DEF MoneyInv, RaceInv
<1>2. CASE ListTimeouts(n) \/ ListUnfinished(n) \/ PanicRound(n)
  <2>1. UNCHANGED <<pc, charge, row, at, cur>> /\ at[n] = "next"
    BY <1>2 DEF ListTimeouts, ListUnfinished, PanicRound, ledger
  <2>2. QED BY <1>1, <2>1, DropImplements DEF IsTerminal
<1>3. CASE Fetch(n)
  <2>1. UNCHANGED <<pc, charge, row>> /\ at[n] = "next" /\ at'[n] = "apply"
        /\ \A m \in Nodes \ {n} : at'[m] = at[m] /\ cur'[m] = cur[m]
    BY <1>1, <1>3 DEF Fetch, ledger, TypeOK
  <2>2. QED BY <1>1, <2>1, DropImplements DEF IsTerminal
<1>4. CASE LeaveForNextRound(n)
  <2>1. PICK t \in Tasks : Done(n, t)
    BY <1>4 DEF LeaveForNextRound, Todo
  <2>2. UNCHANGED <<pc, charge, row>> /\ at[n] = "next"
    BY <1>4 DEF LeaveForNextRound, ledger
  <2>3. QED BY <1>1, <2>1, <2>2, DoneFrame, DropImplements DEF IsTerminal
<1>5. CASE FailOverdue(n)
  <2>1. PICK t \in Todo(n) : MarkTerminal(n, t, "FAILURE")
    BY <1>5, OldestSubset DEF FailOverdue
  <2>2. t \in Tasks /\ snap[n][t].status # "ABSENT" /\ "FAILURE" \in TerminalStatuses
    BY DEF Todo, TerminalStatuses
  <2>3. UNCHANGED <<pc, charge>> /\ at[n] = "next"
    BY <1>5 DEF FailOverdue, ledger
  <2>4. QED BY <2>1, <2>2, <2>3, MarkImplements
<1>6. CASE ApplyTerminal(n)
  <2>1. cur[n] \in Tasks /\ snap[n][cur[n]].status # "ABSENT" /\ at[n] = "apply"
    BY <1>1, <1>6 DEF ApplyTerminal, RaceInv, BusyOnListed
  <2>2. UNCHANGED <<pc, charge>> /\ verdict[n] \in TerminalStatuses
        /\ MarkTerminal(n, cur[n], verdict[n])
    BY <1>6 DEF ApplyTerminal, ledger
  <2>3. QED BY <2>1, <2>2, MarkImplements
<1>7. CASE ApplyProgress(n)
  <2>1. /\ cur[n] \in Tasks /\ at[n] = "apply" /\ verdict[n] \in NonTerminal
        /\ Done(n, cur[n]) /\ UNCHANGED <<pc, charge>>
    BY <1>1, <1>7 DEF ApplyProgress, RaceInv, BusyOnListed, ledger
  <2>2. \A u \in Tasks : IsTerminal(u)' <=> IsTerminal(u)
    <3>1. CASE UNCHANGED row
      BY <3>1 DEF IsTerminal
    <3>2. CASE NonTerminalGuard(cur[n]) /\ SetStatus(cur[n], verdict[n])
      <4>1. \A u \in Tasks : row'[u].status = IF u = cur[n] THEN verdict[n] ELSE row[u].status
        BY <1>1, <2>1, <3>2, RowsKept, StatusesDiffer DEF NonTerminalGuard
      <4>2. QED BY <2>1, <3>2, <4>1, StatusesDiffer DEF IsTerminal, NonTerminalGuard
    <3>3. QED BY <1>7, <3>1, <3>2 DEF ApplyProgress
  <2>3. QED BY <1>1, <2>1, <2>2, DoneFrame, DropImplements
<1>8. CASE RefundTask(n)
  <2>1. UNCHANGED <<pc, row>>
    BY <1>8 DEF RefundTask
  <2>2. QED BY <1>1, <1>8, <2>1, RefundPays, DoneFrame, PayImplements
<1>9. CASE SettleSuccess(n)
  <2>1. UNCHANGED <<pc, row>>
    BY <1>9 DEF SettleSuccess
  <2>2. QED BY <1>1, <1>9, <2>1, SettlePays, PayImplements
<1>10. CASE PersistQuota(n)
  <2>1. cur[n] \in Tasks /\ row[cur[n]] \in RowType /\ at[n] = "persist" /\ Done(n, cur[n])
        /\ UNCHANGED <<pc, charge>>
    BY <1>1, <1>10 DEF PersistQuota, RaceInv, BusyOnListed, TypeOK, ledger
  <2>2. \A u \in Tasks : row'[u].status = row[u].status
    <3>1. CASE row' = [row EXCEPT ![cur[n]].quota = final[n]]
      <4>1. row' = [row EXCEPT ![cur[n]] = [row[cur[n]] EXCEPT !.quota = final[n]]]
        BY <3>1
      <4>2. [row[cur[n]] EXCEPT !.quota = final[n]].status = row[cur[n]].status
        BY <2>1 DEF RowType
      <4>3. QED BY <1>1, <4>1, <4>2 DEF TypeOK
    <3>2. QED BY <1>10, <3>1 DEF PersistQuota
  <2>3. QED BY <1>1, <2>1, <2>2, DoneFrame, DropImplements DEF IsTerminal
<1>11. QED
  BY <1>2, <1>3, <1>4, <1>5, <1>6, <1>7, <1>8, <1>9, <1>10 DEF PollerStep

-----------------------------------------------------------------------------
(* The environment. *)

\* A crash abandons what the instance held: its handlers' reservations and the
\* payment its poller was about to make.
LEMMA CrashImplements ==
  ASSUME MoneyInv, MoneyInv', NEW n \in Nodes, Crash(n)
  PROVE  Billing!BNext
<1> DEFINE H == {t \in Tasks : host[t] = n /\ pc[t] \in WithHandler}
           P == {t \in Tasks : Winner(n, t) /\ at[n] \in {"refund", "settle"}}
<1>1. TypeOK /\ TypeOK' /\ RaceInv /\ OneWinner
  BY DEF MoneyInv, RaceInv
<1>2. /\ UNCHANGED <<charge, row>> /\ at'[n] = "next"
      /\ \A m \in Nodes \ {n} : at'[m] = at[m] /\ cur'[m] = cur[m]
      /\ \A t \in Tasks : pc'[t] = IF t \in H THEN "crashed" ELSE pc[t]
  BY <1>1 DEF Crash, WithHandler, ledger, rows, TypeOK
<1>3. \A t \in H : StageOf(t) = "reserved" /\ StageOf(t)' = "closed"
  BY <1>2, StageRules DEF StageRule
<1>4. \A t \in P : StageOf(t) \in {"refunding", "settling"} /\ StageOf(t)' = "closed"
  <2> SUFFICES ASSUME NEW t \in P
               PROVE  StageOf(t) \in {"refunding", "settling"} /\ StageOf(t)' = "closed"
    OBVIOUS
  <2>1. IsTerminal(t) /\ IsTerminal(t)' /\ \A m \in Nodes : Winner(m, t) => m = n
    BY <1>1, <1>2 DEF OneWinner, IsTerminal
  <2>2. pc[t] = "inserted" /\ pc'[t] = "inserted"
    BY <1>1, <1>2, <2>1, StatusesDiffer DEF RaceInv, RowsOfInserted, IsTerminal, WithHandler
  <2>3. OwnedFor(t, "refund") \/ OwnedFor(t, "settle")
    BY DEF OwnedFor, Winner
  <2>4. ~OwnedFor(t, "refund")' /\ ~OwnedFor(t, "settle")'
    BY <1>2, <2>1 DEF OwnedFor, Winner
  <2>5. QED BY <2>1, <2>2, <2>3, <2>4, StageRules DEF StageRule
<1>5. \A t \in Tasks \ (H \cup P) : StageOf(t)' = StageOf(t)
  <2> SUFFICES ASSUME NEW t \in Tasks \ (H \cup P) PROVE StageOf(t)' = StageOf(t)
    OBVIOUS
  <2>1. OwnershipKept(t)
    BY <1>2 DEF OwnershipKept, OwnedFor, Winner
  <2>2. QED BY <1>2, <2>1, StageKept DEF OwnershipKept, IsTerminal
<1>6. Billing!Abandon(H \cup P)
  <2>1. \A t \in H \cup P :
          /\ StageOf(t) \in {"reserved", "refunding", "settling"} /\ StageOf(t)' = "closed"
    BY <1>3, <1>4
  <2>2. [t \in Tasks |-> StageOf(t)'] =
          [t \in Tasks |-> IF t \in H \cup P THEN "closed" ELSE StageOf(t)]
    BY <1>5, <2>1
  <2>3. QED BY <1>2, <2>1, <2>2 DEF Billing!Abandon
<1>7. H \cup P \in SUBSET Tasks
  OBVIOUS
<1>8. QED BY <1>6, <1>7 DEF Billing!BNext

LEMMA EnvironmentImplements ==
  ASSUME MoneyInv, MoneyInv',
         \/ \E t \in Tasks : UpstreamStep(t) \/ PassDeadline(t)
         \/ \E n \in Nodes : Crash(n)
         \/ \E k \in Tokens : DeleteToken(k)
         \/ UNCHANGED vars
  PROVE  Billing!BNext \/ UNCHANGED Billing!bvars
<1>1. CASE \E n \in Nodes : Crash(n)
  BY <1>1, CrashImplements
<1>2. CASE UNCHANGED <<pc, charge, row, at, cur>>
  <2>1. TypeOK /\ TypeOK'
    BY DEF MoneyInv, RaceInv
  <2>2. \A t \in Tasks : Same(t)
    BY <1>2, StageKept DEF Same, IsTerminal, OwnedFor
  <2>3. QED BY <2>1, <2>2, Stutter
<1>3. QED
  BY <1>1, <1>2 DEF UpstreamStep, PassDeadline, DeleteToken, vars, ledger, handlers, rows, pollers

-----------------------------------------------------------------------------
\* At the start nothing is reserved.
LEMMA InitImplements == ASSUME Init PROVE Billing!BInit
<1>1. \A t \in Tasks : StageOf(t) = "new"
  BY StageRules DEF Init, StageRule
<1>2. QED BY <1>1 DEF Init, Billing!BInit

\* However handlers, pollers, timeouts, deletions, crashes and failing statements
\* interleave, a submission is reserved once, gets one verdict, and money moves
\* for it at most once after that (poller.go StartPolling, billing.go).
THEOREM VideoTaskImplementsBilling == ASSUME NoHalfRepricing PROVE Spec => ImplementsBilling
<1>1. Init => Billing!BInit
  BY InitImplements
<1>2. MoneyInv /\ MoneyInv' /\ [Next]_vars => [Billing!BNext]_(Billing!bvars)
  <2> SUFFICES ASSUME MoneyInv, MoneyInv', [Next]_vars
               PROVE  Billing!BNext \/ UNCHANGED Billing!bvars
    OBVIOUS
  <2>1. CASE \E t \in Tasks : Submit(t) \/ HandlerStep(t)
    BY <2>1, HandlerImplements
  <2>2. CASE \E n \in Nodes : PollerStep(n)
    BY <2>2, PollerImplements
  <2>3. QED BY <2>1, <2>2, EnvironmentImplements DEF Next
<1>3. QED BY <1>1, <1>2, MoneyInvariance, PTL DEF Spec, ImplementsBilling, Billing!BSpec
=============================================================================
