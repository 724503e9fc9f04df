------------------------------ MODULE QuotaWarning ------------------------------
(***************************************************************************)
(* The low-balance reminder: a reservation deducts, reads the balance back *)
(* in a second statement, and decides by the two under a cooldown that is   *)
(* kept in memory.  Other deductions (settlements, image calls) never ask.  *)
(***************************************************************************)
EXTENDS Integers, FiniteSets

CONSTANTS
  WarnedUsers, Reservers,    \* users, and requests reserving quota
  Costs, ThresholdQuota, CooldownHours, FirstBalance,
  MaxHours, MaxReservations  \* bounds on the clock and on deductions

ASSUME WarnAssumption ==
  /\ Costs \subseteq Nat /\ ThresholdQuota \in Nat /\ FirstBalance \in Int
  /\ CooldownHours \in Nat /\ MaxHours \in Nat

VARIABLES
  balance,   \* users.quota
  reserver,  \* what each request has still to do
  lastSent,  \* quotaWarningLastSent: user -> set of at most one hour
  hour,
  attempts,  \* history: the hours at which a reminder to a user was attempted
  crossing,  \* history: how the balance last went below the threshold
  reservations

warnVars == <<balance, reserver, lastSent, hour, attempts, crossing, reservations>>

Resting == [pc |-> "idle", user |-> "none", cost |-> 0, seen |-> 0]

WarnInit ==
  /\ balance = [u \in WarnedUsers |-> FirstBalance] /\ reserver = [r \in Reservers |-> Resting]
  /\ lastSent = [u \in WarnedUsers |-> {}] /\ hour = 0 /\ attempts = [u \in WarnedUsers |-> {}]
  /\ crossing = [u \in WarnedUsers |-> "none"] /\ reservations = 0

-----------------------------------------------------------------------------
(* Deliberately wrong variants of definitions below, used only to check     *)
(* that the property is able to fail.                                       *)

StrictlyCrossed(pre, post) == pre > ThresholdQuota /\ post < ThresholdQuota
OnlyPrunes(u) == [v \in WarnedUsers |-> IF \E t \in lastSent[v] : hour - t >= CooldownHours THEN {} ELSE lastSent[v]]
KeepsAll(u) == [v \in WarnedUsers |-> IF v = u THEN lastSent[v] \cup {hour} ELSE lastSent[v]]

-----------------------------------------------------------------------------
\* A deduction by cost takes u's balance below the threshold; when a reserving
\* request has deducted and not yet read the balance, its reading is spoiled,
\* and so is that of a deduction no reminder follows.
Crosses(u, cost, asks) ==
  crossing' =
    [crossing EXCEPT ![u] =
       IF \E r \in Reservers : reserver[r].pc = "read" /\ reserver[r].user = u THEN "blurred"
       ELSE IF balance[u] >= ThresholdQuota /\ balance[u] - cost < ThresholdQuota
            THEN IF asks THEN "plain" ELSE "silent"
       ELSE @]

\* The deduction of PreConsumeTokenQuota, with its guard.
Reserve(r, u, cost) ==
  /\ reserver[r].pc = "idle" /\ balance[u] >= cost /\ reservations < MaxReservations
  /\ balance' = [balance EXCEPT ![u] = @ - cost] /\ reservations' = reservations + 1
  /\ reserver' = [reserver EXCEPT ![r] = [pc |-> "read", user |-> u, cost |-> cost, seen |-> 0]]
  /\ Crosses(u, cost, TRUE)
  /\ UNCHANGED <<lastSent, hour, attempts>>

\* A settlement, an image call, or a top-up.
Settle(u, cost) ==
  /\ reservations < MaxReservations /\ reservations' = reservations + 1
  /\ balance' = [balance EXCEPT ![u] = @ - cost] /\ Crosses(u, cost, FALSE)
  /\ UNCHANGED <<reserver, lastSent, hour, attempts>>

GetUserQuota(r) ==
  /\ reserver[r].pc = "read"
  /\ reserver' = [reserver EXCEPT ![r].pc = "decide", ![r].seen = balance[reserver[r].user]]
  /\ UNCHANGED <<balance, lastSent, hour, attempts, crossing, reservations>>

\* quotaWarningCooldownAllows: u may be reminded, and the map afterwards.
CooldownOver(u) == \A t \in lastSent[u] : hour - t >= CooldownHours
RecordSent(u) ==
  [v \in WarnedUsers |-> IF v = u THEN {hour}
                         ELSE IF \E t \in lastSent[v] : hour - t >= CooldownHours THEN {} ELSE lastSent[v]]

crossedThreshold(pre, post) == pre >= ThresholdQuota /\ post < ThresholdQuota
shouldSendQuotaWarning(pre, post) == crossedThreshold(pre, post) \/ post <= 0

\* The send time is recorded whether or not the mail can be delivered.
maybeSendQuotaWarning(r) ==
  LET u == reserver[r].user  post == reserver[r].seen
      send == shouldSendQuotaWarning(post + reserver[r].cost, post) IN
  /\ reserver[r].pc = "decide" /\ reserver' = [reserver EXCEPT ![r] = Resting]
  /\ IF send /\ CooldownOver(u)
     THEN /\ lastSent' = RecordSent(u) /\ attempts' = [attempts EXCEPT ![u] = @ \cup {hour}]
          /\ crossing' = [crossing EXCEPT ![u] = "told"]
     ELSE /\ UNCHANGED <<lastSent, attempts>>
          /\ crossing' = IF send THEN [crossing EXCEPT ![u] = "cooled"] ELSE crossing
  /\ UNCHANGED <<balance, hour, reservations>>

HourPasses ==
  /\ hour < MaxHours /\ hour' = hour + 1
  /\ UNCHANGED <<balance, reserver, lastSent, attempts, crossing, reservations>>

WarnNext ==
  \/ \E r \in Reservers : \/ \E u \in WarnedUsers, c \in Costs : Reserve(r, u, c)
                          \/ GetUserQuota(r) \/ maybeSendQuotaWarning(r)
  \/ \E u \in WarnedUsers, c \in Costs \cup {-ThresholdQuota} : Settle(u, c)
  \/ HourPasses

WarnSpec == WarnInit /\ [][WarnNext]_warnVars

-----------------------------------------------------------------------------
(* Properties. *)

\* Every variable has its type.
WarnTypeOK ==
  /\ balance \in [WarnedUsers -> Int] /\ hour \in 0 .. MaxHours
  /\ \A u \in WarnedUsers : Cardinality(lastSent[u]) <= 1 /\ lastSent[u] \subseteq attempts[u]
  /\ \A r \in Reservers : reserver[r].pc \in {"idle", "read", "decide"}

\* A reservation that takes the balance below the threshold leads to a reminder
\* by the time it is through, unless a cooldown was running or another deduction came between the
\* reservation and its reading; and two reminders are a cooldown apart.
CrossingIsReminded ==
  \A u \in WarnedUsers :
    /\ crossing[u] = "plain" => \E r \in Reservers : reserver[r].user = u
    /\ \A s, t \in attempts[u] : s < t => t - s >= CooldownHours
===============================================================================
