----------------------------- MODULE TopupOrder -----------------------------
(***************************************************************************)
(* Paid recharge orders: the order row, the payment at the gateway, the    *)
(* gateway's at-least-once webhooks, and the handlers that funnel them     *)
(* into CompleteTopup and FailTopup, each a transaction that locks the     *)
(* order row, decides on what it read, writes and commits.                 *)
(*                                                                         *)
(* Gateways: Stripe Checkout, E-Pay, and NOWPayments for crypto.           *)
(***************************************************************************)
EXTENDS Integers, FiniteSets, Functions

CONSTANTS
  Orders, Users, UserOf,
  GatewayOf,      \* order -> "stripe", "epay" or "crypto"
  Handlers,       \* requests being served at the same time
  NoHandler, NoOrder,
  Prices,         \* order amounts in cents
  LossyPrices,    \* cents c for which int64((c / 100.0) * 100) = c - 1, e.g. 402
  Payments,       \* cents an E-Pay customer may actually pay
  AsyncPayments,  \* Stripe delayed payment methods are enabled
  MaxCrashes, MaxDbErrors

Gateways == {"stripe", "epay", "crypto"}

ASSUME TopupAssumption ==
  /\ Prices \subseteq Nat \ {0} /\ LossyPrices \subseteq Prices /\ Payments \subseteq Nat
  /\ UserOf \in [Orders -> Users] /\ GatewayOf \in [Orders -> Gateways]
  /\ NoHandler \notin Handlers /\ NoOrder \notin Orders
  /\ AsyncPayments \in BOOLEAN

VARIABLES
  order,          \* rows of table topups
  wallet,         \* users.quota, counted from the opening balance
  credits,        \* history: how often an order was credited
  lock,           \* order -> transaction holding its row lock
  pay,            \* the payment as the gateway sees it
  sent, acked,    \* events the gateway has sent, and those answered with a success
  handler,
  crashes, faults

gateway == <<pay, sent>>
vars == <<order, wallet, credits, lock, pay, sent, acked, handler, crashes, faults>>

OrderRow == [status : {"absent", "pending", "success", "failed"}, money : Int]
Payment == [state : {"none", "open", "unpaid", "paid", "expired", "refunded"}, amount : Int]
Kinds == {"paid", "latePaid", "failed", "refunded", "waiting"}
Events == Orders \X Kinds

Jobs == {"complete", "admin", "fail", "cancel", "ignore"}
Results == {"none", "already", "refused", "short", "credited", "failed", "nothing", "ignored", "dberror"}
Handling == [pc : {"idle", "begin", "write", "reply"}, order : Orders \cup {NoOrder}, job : Jobs,
             kind : Kinds, amount : Int, result : Results]
Idle == [pc |-> "idle", order |-> NoOrder, job |-> "ignore", kind |-> "waiting",
         amount |-> 0, result |-> "none"]

Init ==
  /\ order = [o \in Orders |-> [status |-> "absent", money |-> 0]]
  /\ wallet = [u \in Users |-> 0]
  /\ credits = [o \in Orders |-> 0]
  /\ lock = [o \in Orders |-> NoHandler]
  /\ pay = [o \in Orders |-> [state |-> "none", amount |-> 0]]
  /\ sent = {} /\ acked = {}
  /\ handler = [h \in Handlers |-> Idle]
  /\ crashes = 0 /\ faults = 0

-----------------------------------------------------------------------------
(* Deliberately wrong variants of definitions below, used only to check     *)
(* that each property is able to fail.                                      *)

LockIgnored(o) == TRUE
DecideWithoutAmount(job, status, money, amount) ==
  CASE status = "success" -> "already"
    [] status = "pending" -> "credited"
    [] OTHER -> "refused"
FailEvenFinished(status) == "failed"
MarkRefunded(o) ==
  /\ order' = [order EXCEPT ![o].status = "refunded"]
  /\ UNCHANGED <<wallet, credits>>
AcceptedAlways(job, result) == TRUE
ResultIgnoringPaid(g, kind) == "ignore"

-----------------------------------------------------------------------------
(* Opening an order. *)

\* RequestStripePay, RequestEpayPay, RequestCryptoPay: the pending row first.
Request(o) ==
  /\ order[o].status = "absent"
  /\ \E p \in Prices : order' = [order EXCEPT ![o] = [status |-> "pending", money |-> p]]
  /\ UNCHANGED <<wallet, credits, lock, gateway, acked, handler, crashes, faults>>

\* CreateOrder succeeds: the customer gets the payment page.
CreateOrder(o) ==
  /\ order[o].status = "pending" /\ pay[o].state = "none"
  /\ pay' = [pay EXCEPT ![o].state = "open"]
  /\ UNCHANGED <<order, wallet, credits, lock, sent, acked, handler, crashes, faults>>

Start(h, o, job, kind, amount) ==
  handler' = [handler EXCEPT ![h] =
    [pc |-> "begin", order |-> o, job |-> job, kind |-> kind, amount |-> amount, result |-> "none"]]

\* CreateOrder fails (E-Pay builds a URL and cannot): the handler calls FailTopup.
CreateOrderFails(h, o) ==
  /\ handler[h].pc = "idle"
  /\ order[o].status = "pending" /\ pay[o].state = "none" /\ GatewayOf[o] # "epay"
  /\ pay' = [pay EXCEPT ![o].state = "expired"]
  /\ Start(h, o, "cancel", "failed", 0)
  /\ UNCHANGED <<order, wallet, credits, lock, sent, acked, crashes, faults>>

-----------------------------------------------------------------------------
(* The gateway. *)

Becomes(o, from, to, kind) ==
  /\ pay[o].state = from
  /\ pay' = [pay EXCEPT ![o].state = to]
  /\ sent' = sent \cup {<<o, kind>>}

\* Stripe and NOWPayments finish at the price they were asked to collect; an
\* E-Pay merchant reports whatever the buyer sent.
PaidWith(o, from, kind) ==
  /\ pay[o].state = from
  /\ \E a \in (IF GatewayOf[o] = "epay" THEN Payments ELSE {order[o].money}) :
       pay' = [pay EXCEPT ![o] = [state |-> "paid", amount |-> a]]
  /\ sent' = sent \cup {<<o, kind>>}

GatewayStep(o) ==
  /\ \/ PaidWith(o, "open", "paid")
     \/ GatewayOf[o] # "epay" /\ Becomes(o, "open", "expired", "failed")
     \/ GatewayOf[o] # "stripe" /\ Becomes(o, "open", "open", "waiting")
     \/ GatewayOf[o] = "crypto" /\ Becomes(o, "paid", "refunded", "refunded")
     \/ GatewayOf[o] = "stripe" /\ AsyncPayments /\
          \/ Becomes(o, "open", "unpaid", "waiting")
          \/ PaidWith(o, "unpaid", "latePaid")
          \/ Becomes(o, "unpaid", "expired", "failed")
  /\ UNCHANGED <<order, wallet, credits, lock, acked, handler, crashes, faults>>

-----------------------------------------------------------------------------
(* Webhooks. *)

\* HandleCallback / HandleWebhook: which event means what.
Meaning(g, kind) ==
  CASE kind = "paid" -> "complete"
    [] kind \in {"failed", "refunded"} /\ g # "epay" -> "fail"
    [] OTHER -> "ignore"

\* The amount the parsed event reports; NOWPayments' is converted by truncation.
Reported(o) ==
  IF GatewayOf[o] = "crypto" /\ pay[o].amount \in LossyPrices THEN pay[o].amount - 1 ELSE pay[o].amount

Deliver(h, e) ==
  LET job == Meaning(GatewayOf[e[1]], e[2]) IN
  /\ handler[h].pc = "idle" /\ e \in sent
  /\ handler' = [handler EXCEPT ![h] =
       [pc |-> IF job = "ignore" THEN "reply" ELSE "begin", order |-> e[1], job |-> job,
        kind |-> e[2], amount |-> Reported(e[1]),
        result |-> IF job = "ignore" THEN "ignored" ELSE "none"]]
  /\ UNCHANGED <<order, wallet, credits, lock, gateway, acked, crashes, faults>>

\* AdminCompleteTopup: the sentinel amount passes every amount check.
AdminMark(h, o) ==
  /\ handler[h].pc = "idle" /\ order[o].status # "absent"
  /\ Start(h, o, "admin", "paid", 0)
  /\ UNCHANGED <<order, wallet, credits, lock, gateway, acked, crashes, faults>>

\* CompleteTopup's checks, in order.
DecideComplete(job, status, money, amount) ==
  CASE status = "success" -> "already"
    [] status \notin {"success", "pending"} -> "refused"
    [] status = "pending" /\ job = "complete" /\ amount < money -> "short"
    [] OTHER -> "credited"

DecideFail(status) == IF status = "pending" THEN "failed" ELSE "nothing"

Decision(w) ==
  IF w.job \in {"complete", "admin"}
  THEN DecideComplete(w.job, order[w.order].status, order[w.order].money, w.amount)
  ELSE DecideFail(order[w.order].status)

LockFree(o) == lock[o] = NoHandler

\* BEGIN; SELECT ... FOR UPDATE; the checks.  Without anything to write the
\* transaction ends here.
Begin(h) ==
  LET w == handler[h] IN
  /\ w.pc = "begin" /\ LockFree(w.order)
  /\ \/ /\ Decision(w) \in {"credited", "failed"}
        /\ lock' = [lock EXCEPT ![w.order] = h]
        /\ handler' = [handler EXCEPT ![h].pc = "write", ![h].result = Decision(w)]
        /\ UNCHANGED faults
     \/ /\ Decision(w) \notin {"credited", "failed"}
        /\ handler' = [handler EXCEPT ![h].pc = "reply", ![h].result = Decision(w)]
        /\ UNCHANGED <<lock, faults>>
     \/ /\ faults < MaxDbErrors /\ faults' = faults + 1
        /\ handler' = [handler EXCEPT ![h].pc = "reply", ![h].result = "dberror"]
        /\ UNCHANGED lock
  /\ UNCHANGED <<order, wallet, credits, gateway, acked, crashes>>

\* UPDATE users, SAVE topups, COMMIT; or a rollback that leaves nothing behind.
Quota(o) == order[o].money

Credit(o) ==
  /\ wallet' = [wallet EXCEPT ![UserOf[o]] = @ + Quota(o)]
  /\ credits' = [credits EXCEPT ![o] = @ + 1]
  /\ order' = [order EXCEPT ![o].status = "success"]

MarkFailed(o) ==
  /\ order' = [order EXCEPT ![o].status = "failed"]
  /\ UNCHANGED <<wallet, credits>>

Commit(h) ==
  LET o == handler[h].order IN
  /\ handler[h].pc = "write"
  /\ lock' = [lock EXCEPT ![o] = NoHandler]
  /\ \/ /\ handler[h].result = "credited" /\ Credit(o)
        /\ handler' = [handler EXCEPT ![h].pc = "reply"]
        /\ UNCHANGED faults
     \/ /\ handler[h].result = "failed" /\ MarkFailed(o)
        /\ handler' = [handler EXCEPT ![h].pc = "reply"]
        /\ UNCHANGED faults
     \/ /\ faults < MaxDbErrors /\ faults' = faults + 1
        /\ handler' = [handler EXCEPT ![h].pc = "reply", ![h].result = "dberror"]
        /\ UNCHANGED <<order, wallet, credits>>
  /\ UNCHANGED <<gateway, acked, crashes>>

\* The answer to the gateway: 200 or "success", unless CompleteTopup failed;
\* FailTopup's error is only logged.
Accepted(job, result) == job = "complete" => result \in {"already", "credited"}

Reply(h) ==
  LET w == handler[h] IN
  /\ w.pc = "reply"
  /\ handler' = [handler EXCEPT ![h] = Idle]
  /\ \/ acked' = IF w.job \notin {"admin", "cancel"} /\ Accepted(w.job, w.result)
                 THEN acked \cup {<<w.order, w.kind>>} ELSE acked
     \/ UNCHANGED acked       \* the answer is lost; the gateway will ask again
  /\ UNCHANGED <<order, wallet, credits, lock, gateway, crashes, faults>>

HandlerStep(h) == Begin(h) \/ Commit(h) \/ Reply(h)

\* The server dies: transactions in progress are rolled back.
Crash ==
  /\ crashes < MaxCrashes /\ crashes' = crashes + 1
  /\ handler' = [h \in Handlers |-> Idle]
  /\ lock' = [o \in Orders |-> NoHandler]
  /\ UNCHANGED <<order, wallet, credits, gateway, acked, faults>>

Next ==
  \/ \E o \in Orders : Request(o) \/ CreateOrder(o) \/ GatewayStep(o)
  \/ \E h \in Handlers, o \in Orders : CreateOrderFails(h, o) \/ AdminMark(h, o)
  \/ \E h \in Handlers, e \in Events : Deliver(h, e)
  \/ \E h \in Handlers : HandlerStep(h)
  \/ Crash

Spec == Init /\ [][Next]_vars

\* A gateway repeats an event until it is acknowledged; an answer is not lost
\* for ever; the server runs.
Redeliver(e) == e \notin acked /\ \E h \in Handlers : Deliver(h, e)
Acknowledge(e) == \E h \in Handlers : Reply(h) /\ e \notin acked /\ e \in acked'

FairSpec ==
  /\ Spec
  /\ \A h \in Handlers : WF_vars(HandlerStep(h))
  /\ \A e \in Events : SF_vars(Redeliver(e)) /\ SF_vars(Acknowledge(e))

-----------------------------------------------------------------------------
\* Order rows, payments and handlers stay in their ranges: a status is one
\* CompleteTopup and FailTopup know.
TypeOK ==
  /\ order \in [Orders -> OrderRow] /\ wallet \in [Users -> Int] /\ credits \in [Orders -> Nat]
  /\ lock \in [Orders -> Handlers \cup {NoHandler}]
  /\ pay \in [Orders -> Payment]
  /\ sent \subseteq Events /\ acked \subseteq Events
  /\ handler \in [Handlers -> Handling]
  /\ crashes \in Nat /\ faults \in Nat

\* Whatever duplicates, concurrent webhooks, admins, crashes and failing
\* transactions do, an order is credited once if it is marked success and never
\* otherwise (the idempotency contract of CompleteTopup).
CreditedOnce ==
  \A o \in Orders : credits[o] = IF order[o].status = "success" THEN 1 ELSE 0

\* The quota a user got is the sum of the orders marked success.
WalletIsSumOfOrders ==
  \A u \in Users :
    wallet[u] = SumFunctionOnSet([o \in Orders |-> Quota(o)],
                                 {o \in Orders : UserOf[o] = u /\ order[o].status = "success"})

\* A finished order never changes again: a late failure does not undo a
\* success, a late payment does not revive a failure.
FinishedIsFinal ==
  [][\A o \in Orders : order[o].status \in {"success", "failed"} => order'[o] = order[o]]_vars

\* Only an administrator completes an order that was not paid in full.
PaidInFull(o) == pay[o].state \in {"paid", "refunded"} /\ pay[o].amount >= order[o].money

NoFreeCredit ==
  [][\A o \in Orders : credits'[o] > credits[o] =>
       PaidInFull(o) \/ \E h \in Handlers : handler[h].order = o /\ handler[h].job = "admin"]_vars

\* When the gateway has nothing left to say, a payment in full has been
\* credited.  Stripe's delayed payment methods are left aside: the event that
\* confirms them is acknowledged and ignored (stripe.go:137).
Settled(o) ==
  /\ \A k \in Kinds : <<o, k>> \in sent => <<o, k>> \in acked
  /\ \A h \in Handlers : handler[h].order # o

AcknowledgedPaymentCredited ==
  \A o \in Orders :
    Settled(o) /\ PaidInFull(o) /\ <<o, "latePaid">> \notin sent => order[o].status = "success"

\* An order marked success was credited once and any other never, the wallet
\* holds the orders marked success, and a payment in full the gateway has
\* nothing more to say about was credited: whatever duplicates, concurrent
\* webhooks, crashes and failing statements do.
OrdersAreWhole == TypeOK /\ CreditedOnce /\ WalletIsSumOfOrders /\ AcknowledgedPaymentCredited

\* A finished order never changes again, and only an administrator completes one
\* that was not paid in full.
OrdersOnlyMoveOn == FinishedIsFinal /\ NoFreeCredit

\* A payment in full is credited in the end, unless the gateway gave the money
\* back first.
PaymentsCredited ==
  \A o \in Orders : PaidInFull(o) ~> order[o].status = "success" \/ pay[o].state = "refunded"

\* topup.go:88: 'status is "pending" and paid >= expected: credits quota'.
FullPaymentNotShort ==
  \A h \in Handlers : handler[h].result = "short" => ~PaidInFull(handler[h].order)
=============================================================================
