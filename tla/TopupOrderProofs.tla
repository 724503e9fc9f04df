-------------------------- MODULE TopupOrderProofs --------------------------
(***************************************************************************)
(* TopupOrder for any number of orders, users, handlers and gateways: type *)
(* correctness, one credit per successful order, the finality of a         *)
(* finished order, what the wallet holds, and what an acknowledged payment *)
(* is worth.  The inductive invariant says what the row lock is for: a     *)
(* handler about to write holds the lock of an order that is pending.  Its *)
(* second part says that a request never claims more than the gateway and  *)
(* the order row do.                                                       *)
(***************************************************************************)
EXTENDS TopupOrder, FiniteSetTheorems, SumTheorems, TLAPS

\* A request at work names an order.
Named(w) == w.pc # "idle" => w.order \in Orders

\* Between the checks and the commit the decision stays right.
Holds(h) ==
  LET w == handler[h] IN
  w.pc = "write" =>
    /\ lock[w.order] = h
    /\ order[w.order].status = "pending"
    /\ w.result \in {"credited", "failed"}

NamedInv == \A h \in Handlers : Named(handler[h])
LockInv == \A h \in Handlers : Holds(h)

Inv == TypeOK /\ NamedInv /\ LockInv /\ CreditedOnce

-----------------------------------------------------------------------------
(* Rows. *)

LEMMA HandlerRow ==
  ASSUME handler \in [Handlers -> Handling], NEW h \in Handlers, NEW w \in Handling,
         handler' = [handler EXCEPT ![h] = w], NamedInv, Named(w)
  PROVE  /\ handler' \in [Handlers -> Handling] /\ handler'[h] = w
         /\ \A g \in Handlers \ {h} : handler'[g] = handler[g]
         /\ \A g \in Handlers : Named(handler'[g])
BY DEF NamedInv

LEMMA IdleTyped == Idle \in Handling /\ Named(Idle)
BY DEF Idle, Handling, Jobs, Kinds, Results, Named

LEMMA DecisionTyped ==
  ASSUME NEW w PROVE Decision(w) \in Results
BY DEF Decision, DecideComplete, DecideFail, Results

-----------------------------------------------------------------------------
(* Types. *)

LEMMA TypeStart ==
  ASSUME TypeOK, NamedInv, NEW h \in Handlers, NEW o \in Orders, NEW job \in Jobs,
         NEW kind \in Kinds, NEW amount \in Int, Start(h, o, job, kind, amount)
  PROVE  /\ handler' \in [Handlers -> Handling] /\ NamedInv'
         /\ handler'[h].pc = "begin"
         /\ \A g \in Handlers \ {h} : handler'[g] = handler[g]
<1> DEFINE w == [pc |-> "begin", order |-> o, job |-> job, kind |-> kind,
                 amount |-> amount, result |-> "none"]
<1>1. w \in Handling /\ Named(w) BY DEF Handling, Results, Named
<1>2. handler' = [handler EXCEPT ![h] = w] BY DEF Start
<1>3. QED BY <1>1, <1>2, HandlerRow DEF TypeOK, NamedInv

LEMMA TypeOrder ==
  ASSUME TypeOK, NamedInv, NEW o \in Orders, Request(o) \/ CreateOrder(o)
  PROVE  TypeOK' /\ NamedInv'
<1>1. CASE Request(o)
  <2>1. PICK p \in Prices : order' = [order EXCEPT ![o] = [status |-> "pending", money |-> p]]
    BY <1>1 DEF Request
  <2>2. [status |-> "pending", money |-> p] \in OrderRow BY TopupAssumption DEF OrderRow
  <2>3. order' \in [Orders -> OrderRow] BY <2>1, <2>2 DEF TypeOK
  <2>4. QED BY <2>3, <1>1 DEF Request, TypeOK, NamedInv, gateway
<1>2. CASE CreateOrder(o)
  <2>1. pay' \in [Orders -> Payment] BY <1>2 DEF CreateOrder, TypeOK, Payment
  <2>2. QED BY <2>1, <1>2 DEF CreateOrder, TypeOK, NamedInv
<1>3. QED BY <1>1, <1>2

LEMMA TypeBecomes ==
  ASSUME TypeOK, NEW o \in Orders, NEW from, NEW to \in {"open", "unpaid", "expired", "refunded"},
         NEW kind \in Kinds, Becomes(o, from, to, kind)
  PROVE  pay' \in [Orders -> Payment] /\ sent' \subseteq Events
BY DEF Becomes, TypeOK, Payment, Events

LEMMA TypePaidWith ==
  ASSUME TypeOK, NEW o \in Orders, NEW from, NEW kind \in Kinds, PaidWith(o, from, kind)
  PROVE  pay' \in [Orders -> Payment] /\ sent' \subseteq Events
<1>1. PICK a \in (IF GatewayOf[o] = "epay" THEN Payments ELSE {order[o].money}) :
         pay' = [pay EXCEPT ![o] = [state |-> "paid", amount |-> a]]
  BY DEF PaidWith
<1>2. a \in Int BY <1>1, TopupAssumption DEF TypeOK, OrderRow
<1>3. [state |-> "paid", amount |-> a] \in Payment BY <1>2 DEF Payment
<1>4. QED BY <1>1, <1>3 DEF PaidWith, TypeOK, Events

LEMMA TypeGateway ==
  ASSUME TypeOK, NamedInv, NEW o \in Orders, GatewayStep(o)
  PROVE  TypeOK' /\ NamedInv'
<1>1. pay' \in [Orders -> Payment] /\ sent' \subseteq Events
  BY TypeBecomes, TypePaidWith DEF GatewayStep, Kinds
<1>2. QED BY <1>1 DEF GatewayStep, TypeOK, NamedInv

LEMMA TypeDeliver ==
  ASSUME TypeOK, NamedInv, NEW h \in Handlers, NEW e \in Events, Deliver(h, e)
  PROVE  /\ TypeOK' /\ NamedInv' /\ handler'[h].pc # "write"
         /\ \A g \in Handlers \ {h} : handler'[g] = handler[g]
<1> DEFINE job == Meaning(GatewayOf[e[1]], e[2])
           w == [pc |-> IF job = "ignore" THEN "reply" ELSE "begin", order |-> e[1], job |-> job,
                 kind |-> e[2], amount |-> Reported(e[1]),
                 result |-> IF job = "ignore" THEN "ignored" ELSE "none"]
<1>1. e[1] \in Orders /\ e[2] \in Kinds BY DEF Events
<1>2. job \in Jobs BY DEF Meaning, Jobs
<1>3. pay[e[1]].amount \in Int BY <1>1 DEF TypeOK, Payment
<1>4. Reported(e[1]) \in Int BY <1>3 DEF Reported
<1>5. w \in Handling /\ Named(w) BY <1>1, <1>2, <1>4 DEF Handling, Results, Named
<1>6. handler' = [handler EXCEPT ![h] = w] BY DEF Deliver
<1>7. /\ handler' \in [Handlers -> Handling] /\ handler'[h] = w /\ NamedInv'
      /\ \A g \in Handlers \ {h} : handler'[g] = handler[g]
  BY <1>5, <1>6, HandlerRow DEF TypeOK, NamedInv
<1>8. handler'[h].pc # "write" BY <1>7
<1>9. QED BY <1>7, <1>8 DEF Deliver, TypeOK, gateway

LEMMA TypeBegin ==
  ASSUME TypeOK, NamedInv, NEW h \in Handlers, Begin(h)
  PROVE  /\ TypeOK' /\ NamedInv' /\ handler'[h].order = handler[h].order
         /\ \A g \in Handlers \ {h} : handler'[g] = handler[g]
<1> DEFINE w == handler[h]
<1>1. w \in Handling /\ w.order \in Orders BY DEF TypeOK, NamedInv, Named, Begin
<1>2. PICK pc \in {"write", "reply"}, r \in Results :
         handler' = [handler EXCEPT ![h].pc = pc, ![h].result = r]
  <2>1. Decision(w) \in Results /\ "dberror" \in Results BY DecisionTyped DEF Results
  <2>2. QED BY <2>1 DEF Begin
<1> DEFINE v == [w EXCEPT !.pc = pc, !.result = r]
<1>3. v \in Handling /\ v.order = w.order /\ Named(v) BY <1>1 DEF Handling, Named
<1>4. handler' = [handler EXCEPT ![h] = v] BY <1>2 DEF TypeOK
<1>5. /\ handler' \in [Handlers -> Handling] /\ handler'[h] = v /\ NamedInv'
      /\ \A g \in Handlers \ {h} : handler'[g] = handler[g]
  BY <1>3, <1>4, HandlerRow DEF TypeOK, NamedInv
<1>6. lock' \in [Orders -> Handlers \cup {NoHandler}] /\ faults' \in Nat
  BY <1>1 DEF Begin, TypeOK
<1>7. QED BY <1>3, <1>5, <1>6 DEF Begin, TypeOK, gateway

LEMMA TypeCommit ==
  ASSUME TypeOK, NamedInv, NEW h \in Handlers, Commit(h)
  PROVE  /\ TypeOK' /\ NamedInv' /\ handler'[h].pc # "write"
         /\ \A g \in Handlers \ {h} : handler'[g] = handler[g]
<1> DEFINE w == handler[h]
           o == w.order
<1>1. w \in Handling /\ o \in Orders BY DEF TypeOK, NamedInv, Named, Commit
<1>2. PICK r \in Results : handler' = [handler EXCEPT ![h].pc = "reply", ![h].result = r]
  <2>1. CASE handler' = [handler EXCEPT ![h].pc = "reply"]
    <3>1. w.result \in Results BY <1>1 DEF Handling
    <3>2. [w EXCEPT !.pc = "reply"] = [w EXCEPT !.pc = "reply", !.result = w.result]
      BY <1>1 DEF Handling
    <3>3. handler' = [handler EXCEPT ![h].pc = "reply", ![h].result = w.result]
      BY <2>1, <3>2 DEF TypeOK
    <3>4. QED BY <3>1, <3>3
  <2>2. CASE handler' = [handler EXCEPT ![h].pc = "reply", ![h].result = "dberror"]
    <3>1. "dberror" \in Results BY DEF Results
    <3>2. QED BY <2>2, <3>1
  <2>3. QED BY <2>1, <2>2 DEF Commit
<1> DEFINE v == [w EXCEPT !.pc = "reply", !.result = r]
<1>3. v \in Handling /\ v.pc = "reply" /\ Named(v) BY <1>1 DEF Handling, Named
<1>4. handler' = [handler EXCEPT ![h] = v] BY <1>2 DEF TypeOK
<1>5. /\ handler' \in [Handlers -> Handling] /\ handler'[h] = v /\ NamedInv'
      /\ \A g \in Handlers \ {h} : handler'[g] = handler[g]
  BY <1>3, <1>4, HandlerRow DEF TypeOK, NamedInv
<1>6. lock' \in [Orders -> Handlers \cup {NoHandler}] /\ faults' \in Nat
  BY <1>1 DEF Commit, TypeOK
<1>7. order' \in [Orders -> OrderRow] /\ credits' \in [Orders -> Nat] /\ wallet' \in [Users -> Int]
  <2>1. CASE Credit(o)
    <3>1. order[o].money \in Int /\ UserOf[o] \in Users
      BY <1>1, TopupAssumption DEF TypeOK, OrderRow
    <3>2. wallet' \in [Users -> Int] BY <2>1, <3>1 DEF Credit, Quota, TypeOK
    <3>3. QED BY <2>1, <1>1, <3>2 DEF Credit, TypeOK, OrderRow
  <2>2. CASE MarkFailed(o) BY <2>2, <1>1 DEF MarkFailed, TypeOK, OrderRow
  <2>3. CASE UNCHANGED <<order, wallet, credits>> BY <2>3 DEF TypeOK
  <2>4. QED BY <2>1, <2>2, <2>3 DEF Commit
<1>8. handler'[h].pc # "write" BY <1>3, <1>5
<1>9. QED BY <1>5, <1>6, <1>7, <1>8 DEF Commit, TypeOK, gateway

LEMMA TypeReply ==
  ASSUME TypeOK, NamedInv, NEW h \in Handlers, Reply(h)
  PROVE  /\ TypeOK' /\ NamedInv' /\ handler'[h].pc # "write"
         /\ \A g \in Handlers \ {h} : handler'[g] = handler[g]
<1>1. handler[h] \in Handling /\ handler[h].order \in Orders /\ handler[h].kind \in Kinds
  BY DEF TypeOK, NamedInv, Named, Reply, Handling
<1>2. /\ handler' \in [Handlers -> Handling] /\ handler'[h] = Idle /\ NamedInv'
      /\ \A g \in Handlers \ {h} : handler'[g] = handler[g]
  BY IdleTyped, HandlerRow DEF Reply, TypeOK, NamedInv
<1>3. acked' \subseteq Events BY <1>1 DEF Reply, TypeOK, Events
<1>4. handler'[h].pc # "write" BY <1>2 DEF Idle
<1>5. QED BY <1>2, <1>3, <1>4 DEF Reply, TypeOK, gateway

LEMMA TypeStarts ==
  ASSUME TypeOK, NamedInv, NEW h \in Handlers, NEW o \in Orders,
         CreateOrderFails(h, o) \/ AdminMark(h, o)
  PROVE  /\ TypeOK' /\ NamedInv' /\ handler'[h].pc # "write"
         /\ \A g \in Handlers \ {h} : handler'[g] = handler[g]
<1>1. CASE CreateOrderFails(h, o)
  <2>1. pay' \in [Orders -> Payment] BY <1>1 DEF CreateOrderFails, TypeOK, Payment
  <2>2. Start(h, o, "cancel", "failed", 0) BY <1>1 DEF CreateOrderFails
  <2>3. /\ handler' \in [Handlers -> Handling] /\ NamedInv' /\ handler'[h].pc # "write"
        /\ \A g \in Handlers \ {h} : handler'[g] = handler[g]
    BY <2>2, TypeStart DEF Jobs, Kinds
  <2>4. QED BY <2>1, <2>3, <1>1 DEF CreateOrderFails, TypeOK
<1>2. CASE AdminMark(h, o)
  <2>1. Start(h, o, "admin", "paid", 0) BY <1>2 DEF AdminMark
  <2>2. /\ handler' \in [Handlers -> Handling] /\ NamedInv' /\ handler'[h].pc # "write"
        /\ \A g \in Handlers \ {h} : handler'[g] = handler[g]
    BY <2>1, TypeStart DEF Jobs, Kinds
  <2>3. QED BY <2>2, <1>2 DEF AdminMark, TypeOK, gateway
<1>3. QED BY <1>1, <1>2

LEMMA TypeCrash ==
  ASSUME TypeOK, Crash
  PROVE  TypeOK' /\ NamedInv' /\ \A h \in Handlers : handler'[h].pc = "idle"
<1>1. handler' = [h \in Handlers |-> Idle] BY DEF Crash
<1>2. handler' \in [Handlers -> Handling] /\ NamedInv' BY <1>1, IdleTyped DEF NamedInv
<1>3. \A h \in Handlers : handler'[h].pc = "idle" BY <1>1 DEF Idle
<1>4. QED BY <1>2, <1>3 DEF Crash, TypeOK, gateway

-----------------------------------------------------------------------------
(* The lock, and what it protects. *)

\* A step that keeps the other handlers, the locks and the pending orders keeps
\* what the other handlers hold.
LEMMA HoldsKept ==
  ASSUME NEW g \in Handlers, handler'[g] = handler[g], Holds(g), NamedInv,
         \A o \in Orders : lock[o] = g => lock'[o] = g,
         \A o \in Orders : lock[o] = g /\ order[o].status = "pending" => order'[o].status = "pending"
  PROVE  Holds(g)'
<1>1. handler[g].pc = "write" => handler[g].order \in Orders BY DEF NamedInv, Named
<1>2. QED BY <1>1 DEF Holds

LEMMA NotWriting ==
  ASSUME NEW g \in Handlers, handler'[g].pc # "write" PROVE Holds(g)'
BY DEF Holds

\* A handler may move without touching rows or locks, as long as it does not
\* go on to write.
LEMMA LockQuiet ==
  ASSUME TypeOK, NamedInv, LockInv, CreditedOnce, NEW h \in Handlers, handler'[h].pc # "write",
         \A g \in Handlers \ {h} : handler'[g] = handler[g],
         UNCHANGED <<order, credits, lock>>
  PROVE  LockInv' /\ CreditedOnce'
<1>1. \A g \in Handlers \ {h} : Holds(g)' BY HoldsKept DEF LockInv
<1>2. Holds(h)' BY NotWriting
<1>3. QED BY <1>1, <1>2 DEF LockInv, CreditedOnce

LEMMA LockRows ==
  ASSUME TypeOK, NamedInv, LockInv, CreditedOnce, NEW o \in Orders,
         Request(o) \/ CreateOrder(o) \/ GatewayStep(o)
  PROVE  LockInv' /\ CreditedOnce'
<1>1. UNCHANGED <<handler, lock, credits>> BY DEF Request, CreateOrder, GatewayStep
<1>2. \A p \in Orders : /\ order[p].status = "pending" => order'[p] = order[p]
                        /\ order'[p].status = "success" <=> order[p].status = "success"
  <2>1. CASE Request(o)
    <3>1. PICK p \in Prices : order' = [order EXCEPT ![o] = [status |-> "pending", money |-> p]]
      BY <2>1 DEF Request
    <3>2. order[o].status = "absent" BY <2>1 DEF Request
    <3>3. QED BY <3>1, <3>2 DEF TypeOK
  <2>2. CASE CreateOrder(o) \/ GatewayStep(o) BY <2>2 DEF CreateOrder, GatewayStep
  <2>3. QED BY <2>1, <2>2
<1>3. LockInv'
  <2>1. \A g \in Handlers : Holds(g)' BY <1>1, <1>2, HoldsKept DEF LockInv
  <2>2. QED BY <2>1 DEF LockInv
<1>4. QED BY <1>1, <1>2, <1>3 DEF CreditedOnce

LEMMA LockBegin ==
  ASSUME TypeOK, NamedInv, LockInv, CreditedOnce, NEW h \in Handlers, Begin(h),
         handler'[h].order = handler[h].order,
         \A g \in Handlers \ {h} : handler'[g] = handler[g]
  PROVE  LockInv' /\ CreditedOnce'
<1> DEFINE w == handler[h]
           o == w.order
<1>1. w \in Handling /\ o \in Orders BY DEF TypeOK, NamedInv, Named, Begin
<1>2. UNCHANGED <<order, credits>> BY DEF Begin
<1>3. CASE /\ Decision(w) \in {"credited", "failed"} /\ lock' = [lock EXCEPT ![o] = h]
           /\ handler' = [handler EXCEPT ![h].pc = "write", ![h].result = Decision(w)]
  <2>1. \A g \in Handlers : \A p \in Orders : lock[p] = g => lock'[p] = g
    BY <1>3, <1>1, TopupAssumption DEF Begin, LockFree, TypeOK
  <2>2. \A g \in Handlers \ {h} : Holds(g)' BY <1>2, <2>1, HoldsKept DEF LockInv
  <2>3. order[o].status = "pending" BY <1>3 DEF Decision, DecideComplete, DecideFail
  <2>4. handler'[h].result = Decision(w) /\ lock'[o] = h BY <1>1, <1>3 DEF TypeOK, Handling
  <2>5. Holds(h)' BY <1>2, <1>3, <2>3, <2>4 DEF Holds
  <2>6. QED BY <1>2, <2>2, <2>5 DEF LockInv, CreditedOnce
<1>4. CASE UNCHANGED lock /\ handler'[h].pc = "reply"
  <2>1. handler'[h].pc # "write" BY <1>4
  <2>2. QED BY <1>2, <1>4, <2>1, LockQuiet
<1>5. CASE UNCHANGED lock /\ \E r \in Results : handler' = [handler EXCEPT ![h].pc = "reply", ![h].result = r]
  <2>1. handler'[h].pc = "reply" BY <1>1, <1>5 DEF TypeOK, Handling
  <2>2. QED BY <1>4, <1>5, <2>1
<1>6. Decision(w) \in Results /\ "dberror" \in Results BY DecisionTyped DEF Results
<1>7. QED BY <1>3, <1>5, <1>6 DEF Begin

\* What a commit writes: the order it holds leaves "pending", the others stay.
LEMMA CommitRows ==
  ASSUME TypeOK, NamedInv, LockInv, NEW h \in Handlers, Commit(h)
  PROVE  /\ handler[h].order \in Orders /\ order[handler[h].order].status = "pending"
         /\ lock[handler[h].order] = h
         /\ \A p \in Orders \ {handler[h].order} : order'[p] = order[p] /\ credits'[p] = credits[p]
<1>1. handler[h].order \in Orders BY DEF NamedInv, Named, Commit
<1>2. Holds(h) /\ handler[h].pc = "write" BY DEF LockInv, Commit
<1>3. \A p \in Orders \ {handler[h].order} : order'[p] = order[p] /\ credits'[p] = credits[p]
  BY <1>1 DEF Commit, Credit, MarkFailed, TypeOK
<1>4. QED BY <1>1, <1>2, <1>3 DEF Holds

LEMMA LockCommit ==
  ASSUME TypeOK, NamedInv, LockInv, CreditedOnce, NEW h \in Handlers, Commit(h),
         handler'[h].pc # "write",
         \A g \in Handlers \ {h} : handler'[g] = handler[g]
  PROVE  LockInv' /\ CreditedOnce'
<1> DEFINE o == handler[h].order
<1>1. /\ o \in Orders /\ order[o].status = "pending" /\ lock[o] = h
      /\ \A p \in Orders \ {o} : order'[p] = order[p] /\ credits'[p] = credits[p]
  BY CommitRows
<1>2. ASSUME NEW g \in Handlers \ {h} PROVE Holds(g)'
  <2>1. handler'[g] = handler[g] /\ Holds(g) BY DEF LockInv
  <2>2. handler[g].pc = "write" => handler[g].order \in Orders /\ handler[g].order # o
    BY <1>1, <2>1 DEF Holds, NamedInv, Named
  <2>3. \A p \in Orders \ {o} : lock'[p] = lock[p] BY <1>1 DEF Commit, TypeOK
  <2>4. QED BY <1>1, <2>1, <2>2, <2>3 DEF Holds
<1>3. LockInv' BY <1>2, NotWriting DEF LockInv
<1>4. credits[o] = 0 BY <1>1 DEF CreditedOnce
<1>5. credits'[o] = IF order'[o].status = "success" THEN 1 ELSE 0
  <2>1. CASE Credit(o)
    <3>1. credits'[o] = credits[o] + 1 BY <2>1, <1>1 DEF Credit, TypeOK
    <3>2. order'[o].status = "success" BY <2>1, <1>1 DEF Credit, TypeOK, OrderRow
    <3>3. QED BY <3>1, <3>2, <1>4
  <2>2. CASE MarkFailed(o)
    <3>1. order'[o].status = "failed" /\ credits'[o] = 0
      BY <2>2, <1>1, <1>4 DEF MarkFailed, TypeOK, OrderRow
    <3>2. QED BY <3>1
  <2>3. CASE UNCHANGED <<order, wallet, credits>> BY <2>3, <1>1, <1>4
  <2>4. QED BY <2>1, <2>2, <2>3 DEF Commit
<1>6. CreditedOnce' BY <1>1, <1>5 DEF CreditedOnce
<1>7. QED BY <1>3, <1>6

-----------------------------------------------------------------------------
(* The invariant of the specification. *)

LEMMA InvInit == Init => Inv
<1> SUFFICES ASSUME Init PROVE Inv OBVIOUS
<1>1. TypeOK
  <2>1. order \in [Orders -> OrderRow] /\ pay \in [Orders -> Payment] BY DEF Init, OrderRow, Payment
  <2>2. QED BY <2>1, IdleTyped DEF Init, TypeOK
<1>2. NamedInv BY IdleTyped DEF Init, NamedInv
<1>3. LockInv BY DEF Init, LockInv, Holds, Idle
<1>4. CreditedOnce BY DEF Init, CreditedOnce
<1>5. QED BY <1>1, <1>2, <1>3, <1>4 DEF Inv

LEMMA InvNext == Inv /\ [Next]_vars => Inv'
<1> SUFFICES ASSUME Inv, [Next]_vars PROVE Inv' OBVIOUS
<1>0. TypeOK /\ NamedInv /\ LockInv /\ CreditedOnce BY DEF Inv
<1>1. ASSUME NEW o \in Orders, Request(o) \/ CreateOrder(o) \/ GatewayStep(o) PROVE Inv'
  BY <1>0, <1>1, TypeOrder, TypeGateway, LockRows DEF Inv
<1>2. ASSUME NEW h \in Handlers, NEW o \in Orders, CreateOrderFails(h, o) \/ AdminMark(h, o)
      PROVE  Inv'
  <2>1. UNCHANGED <<order, credits, lock>> BY <1>2 DEF CreateOrderFails, AdminMark
  <2>2. QED BY <1>0, <1>2, <2>1, TypeStarts, LockQuiet DEF Inv
<1>3. ASSUME NEW h \in Handlers, NEW e \in Events, Deliver(h, e) PROVE Inv'
  <2>1. UNCHANGED <<order, credits, lock>> BY <1>3 DEF Deliver
  <2>2. QED BY <1>0, <1>3, <2>1, TypeDeliver, LockQuiet DEF Inv
<1>4. ASSUME NEW h \in Handlers, Begin(h) PROVE Inv'
  BY <1>0, <1>4, TypeBegin, LockBegin DEF Inv
<1>5. ASSUME NEW h \in Handlers, Commit(h) PROVE Inv'
  BY <1>0, <1>5, TypeCommit, LockCommit DEF Inv
<1>6. ASSUME NEW h \in Handlers, Reply(h) PROVE Inv'
  <2>1. UNCHANGED <<order, credits, lock>> BY <1>6 DEF Reply
  <2>2. QED BY <1>0, <1>6, <2>1, TypeReply, LockQuiet DEF Inv
<1>7. CASE Crash
  <2>1. TypeOK' /\ NamedInv' /\ \A h \in Handlers : handler'[h].pc = "idle"
    BY <1>0, <1>7, TypeCrash
  <2>2. LockInv' BY <2>1 DEF LockInv, Holds
  <2>3. CreditedOnce' BY <1>0, <1>7 DEF Crash, CreditedOnce
  <2>4. QED BY <2>1, <2>2, <2>3 DEF Inv
<1>8. CASE UNCHANGED vars
  BY <1>0, <1>8 DEF Inv, TypeOK, NamedInv, LockInv, Holds, CreditedOnce, vars
<1>9. QED BY <1>1, <1>2, <1>3, <1>4, <1>5, <1>6, <1>7, <1>8 DEF Next, HandlerStep

LEMMA InvAlways == Spec => []Inv
BY InvInit, InvNext, PTL DEF Spec

-----------------------------------------------------------------------------
\* Every variable keeps its type, for any orders, gateways and handlers.
THEOREM TypeCorrect == Spec => []TypeOK
<1>1. Inv => TypeOK BY DEF Inv
<1>2. QED BY <1>1, InvAlways, PTL

\* The idempotency contract of CompleteTopup: however many webhooks, admins,
\* crashes and failing transactions there are, an order marked success was
\* credited exactly once and any other order never.
THEOREM OneCreditPerOrder == Spec => []CreditedOnce
<1>1. Inv => CreditedOnce BY DEF Inv
<1>2. QED BY <1>1, InvAlways, PTL

LEMMA FinalStep ==
  ASSUME Inv, [Next]_vars, NEW o \in Orders, order[o].status \in {"success", "failed"}
  PROVE  order'[o] = order[o]
<1>1. ASSUME NEW p \in Orders, Request(p) PROVE order'[o] = order[o]
  <2>1. order[p].status = "absent" BY <1>1 DEF Request
  <2>2. o # p BY <2>1
  <2>3. PICK q \in Prices : order' = [order EXCEPT ![p] = [status |-> "pending", money |-> q]]
    BY <1>1 DEF Request
  <2>4. QED BY <2>2, <2>3 DEF Inv, TypeOK
<1>2. ASSUME NEW h \in Handlers, Commit(h) PROVE order'[o] = order[o]
  BY <1>2, CommitRows DEF Inv
<1>3. CASE UNCHANGED order BY <1>3
<1>4. Next \/ UNCHANGED vars OBVIOUS
<1>5. \/ \E p \in Orders : Request(p)
      \/ \E h \in Handlers : Commit(h)
      \/ UNCHANGED order
  BY <1>4 DEF Next, CreateOrder, GatewayStep, CreateOrderFails, AdminMark, Deliver, HandlerStep,
              Begin, Reply, Crash, vars
<1>6. QED BY <1>1, <1>2, <1>3, <1>5

\* No later webhook, admin action or cancellation changes a finished order.
THEOREM FinishedOrdersStay == Spec => FinishedIsFinal
<1>1. Inv /\ [Next]_vars =>
        [\A o \in Orders : order[o].status \in {"success", "failed"} => order'[o] = order[o]]_vars
  BY FinalStep
<1>2. QED BY <1>1, InvAlways, PTL DEF Spec, FinishedIsFinal

-----------------------------------------------------------------------------
(* What a request says of its order: a webhook for a payment carries an     *)
(* amount the customer sent, a request that credits has compared it with    *)
(* the price, and an answer that the order is credited is true.             *)

Paid(o) == pay[o].state \in {"paid", "refunded"}

Sincere(w) ==
  w.pc # "idle" =>
    /\ w.kind = "paid" => w.job \in {"complete", "admin"}
    /\ w.job = "complete" => Paid(w.order) /\ w.amount <= pay[w.order].amount
    /\ w.pc = "write" /\ w.result = "credited" =>
         /\ w.job \in {"complete", "admin"}
         /\ w.job = "complete" => order[w.order].money <= w.amount
    /\ w.pc = "reply" /\ w.result \in {"already", "credited"} => order[w.order].status = "success"

Sincerity == \A h \in Handlers : Sincere(handler[h])

\* The gateway has announced what was paid, and what was acknowledged as paid
\* was credited.
Announced ==
  \A o \in Orders :
    /\ <<o, "paid">> \in sent => Paid(o)
    /\ Paid(o) => <<o, "paid">> \in sent \/ <<o, "latePaid">> \in sent
    /\ <<o, "paid">> \in acked => order[o].status = "success"

SuccessOf(ord, u) == {o \in Orders : UserOf[o] = u /\ ord[o].status = "success"}
BoughtBy(ord, u) == SumFunctionOnSet([o \in Orders |-> ord[o].money], SuccessOf(ord, u))

WalletInv ==
  \A u \in Users : IsFiniteSet(SuccessOf(order, u)) /\ wallet[u] = BoughtBy(order, u)

WholeInv == Inv /\ Sincerity /\ Announced /\ WalletInv

\* What no step takes back.
Keeps ==
  \A o \in Orders :
    /\ Paid(o) => pay'[o].state \in {"paid", "refunded"} /\ pay'[o].amount = pay[o].amount
    /\ order[o].status = "success" => order'[o].status = "success"
    /\ order[o].status = "pending" => order'[o].money = order[o].money

LEMMA StepKeeps == ASSUME Inv, [Next]_vars PROVE Keeps
<1>0. order \in [Orders -> OrderRow] /\ pay \in [Orders -> Payment] BY DEF Inv, TypeOK
<1>1. CASE UNCHANGED <<order, pay>> BY <1>1 DEF Keeps, Paid
<1>2. ASSUME NEW p \in Orders, Request(p) PROVE Keeps
  <2>1. PICK c \in Prices : order' = [order EXCEPT ![p] = [status |-> "pending", money |-> c]]
    BY <1>2 DEF Request
  <2>2. UNCHANGED pay /\ order[p].status = "absent" BY <1>2 DEF Request, gateway
  <2>3. QED BY <1>0, <2>1, <2>2 DEF Keeps, Paid
<1>3. ASSUME NEW p \in Orders, CreateOrder(p) PROVE Keeps
  BY <1>0, <1>3 DEF CreateOrder, Keeps, Paid
<1>4. ASSUME NEW p \in Orders, GatewayStep(p) PROVE Keeps
  <2>1. \A o \in Orders : Paid(o) => pay'[o].state \in {"paid", "refunded"} /\ pay'[o].amount = pay[o].amount
    BY <1>0, <1>4 DEF GatewayStep, Becomes, PaidWith, Paid, Payment
  <2>2. UNCHANGED order BY <1>4 DEF GatewayStep
  <2>3. QED BY <2>1, <2>2 DEF Keeps
<1>5. ASSUME NEW h \in Handlers, NEW p \in Orders, CreateOrderFails(h, p) PROVE Keeps
  BY <1>0, <1>5 DEF CreateOrderFails, Keeps, Paid
<1>6. ASSUME NEW h \in Handlers, Commit(h) PROVE Keeps
  <2>1. UNCHANGED pay BY <1>6 DEF Commit, gateway
  <2>2. /\ handler[h].order \in Orders /\ order[handler[h].order].status = "pending"
        /\ \A q \in Orders \ {handler[h].order} : order'[q] = order[q]
    BY <1>6, CommitRows DEF Inv
  <2>3. order'[handler[h].order].money = order[handler[h].order].money
    BY <1>0, <1>6, <2>2 DEF Commit, Credit, MarkFailed, OrderRow
  <2>4. QED BY <2>1, <2>2, <2>3 DEF Keeps, Paid
<1>7. \/ UNCHANGED <<order, pay>>
      \/ \E p \in Orders : Request(p) \/ CreateOrder(p) \/ GatewayStep(p)
      \/ \E h \in Handlers, p \in Orders : CreateOrderFails(h, p)
      \/ \E h \in Handlers : Commit(h)
  <2>1. Next \/ UNCHANGED vars OBVIOUS
  <2>2. QED BY <2>1 DEF Next, AdminMark, Deliver, HandlerStep, Begin, Reply, Crash, vars, gateway
<1>8. QED BY <1>1, <1>2, <1>3, <1>4, <1>5, <1>6, <1>7

\* A request that does not move stays sincere.
LEMMA SincereKept ==
  ASSUME Keeps, TypeOK, NEW w, w \in Handling, Named(w), Sincere(w),
         w.pc = "write" => order[w.order].status = "pending"
  PROVE  Sincere(w)'
BY DEF Keeps, Named, Sincere, Paid

LEMMA OthersSincere ==
  ASSUME WholeInv, Keeps, NEW g \in Handlers, handler'[g] = handler[g]
  PROVE  Sincere(handler[g])'
<1>1. TypeOK /\ Named(handler[g]) /\ Sincere(handler[g]) /\ handler[g] \in Handling /\ Holds(g)
  BY DEF WholeInv, Inv, NamedInv, LockInv, Sincerity, TypeOK
<1>2. ASSUME NEW w, w = handler[g] PROVE Sincere(w)'
  <2>1. w.pc = "write" => order[w.order].status = "pending" BY <1>1, <1>2 DEF Holds
  <2>2. QED BY <1>1, <1>2, <2>1, SincereKept
<1>3. ASSUME NEW w, w = handler[g], Sincere(w)' PROVE Sincere(handler[g])'
  <2>1. handler'[g] = w BY <1>3
  <2>2. QED BY <1>3, <2>1 DEF Sincere, Paid
<1>4. QED BY <1>2, <1>3

\* One request moves on.
LEMMA SincerityMoves ==
  ASSUME WholeInv, Keeps, NEW h \in Handlers, NEW w, handler'[h] = w, Sincere(w)',
         \A g \in Handlers \ {h} : handler'[g] = handler[g]
  PROVE  Sincerity'
<1>1. Sincere(handler[h])' BY DEF Sincere, Paid
<1>2. ASSUME NEW g \in Handlers \ {h} PROVE Sincere(handler[g])' BY OthersSincere
<1>3. QED BY <1>1, <1>2 DEF Sincerity

\* Nothing was sent or acknowledged.
LEMMA AnnouncedKept ==
  ASSUME WholeInv, Keeps, UNCHANGED <<sent, acked>>, \A o \in Orders : Paid(o)' => Paid(o)
  PROVE  Announced'
BY DEF WholeInv, Keeps, Announced, Paid

-----------------------------------------------------------------------------
(* The wallet. *)

LEMMA MoneyInt == ASSUME Inv PROVE \A o \in Orders : order[o].money \in Int
BY DEF Inv, TypeOK, OrderRow

\* Orders marked success stay as they are, and no order becomes one.
LEMMA WalletKept ==
  ASSUME WholeInv, UNCHANGED wallet,
         \A o \in Orders : /\ order'[o].status = "success" <=> order[o].status = "success"
                           /\ order[o].status = "success" => order'[o] = order[o]
  PROVE  WalletInv'
<1>1. ASSUME NEW u \in Users
      PROVE  IsFiniteSet(SuccessOf(order', u)) /\ wallet'[u] = BoughtBy(order', u)
  <2> DEFINE S == SuccessOf(order, u)
             f == [o \in Orders |-> order[o].money]
             g == [o \in Orders |-> order'[o].money]
  <2>1. SuccessOf(order', u) = S BY DEF SuccessOf
  <2>2. IsFiniteSet(S) /\ wallet[u] = BoughtBy(order, u) BY DEF WholeInv, WalletInv
  <2>3. \A o \in S : f[o] \in Int /\ f[o] = g[o] BY MoneyInt DEF SuccessOf, WholeInv
  <2>4. BoughtBy(order, u) = SumFunctionOnSet(f, S) BY DEF BoughtBy
  <2>5. BoughtBy(order', u) = SumFunctionOnSet(g, S) BY <2>1 DEF BoughtBy
  <2> HIDE DEF S, f, g
  <2>6. SumFunctionOnSet(f, S) = SumFunctionOnSet(g, S) BY <2>2, <2>3, SumOfSame
  <2>7. QED BY <2>1, <2>2, <2>4, <2>5, <2>6
<1>2. QED BY <1>1 DEF WalletInv

LEMMA WalletCredited ==
  ASSUME WholeInv, NEW o \in Orders, order[o].status = "pending", Credit(o)
  PROVE  WalletInv'
<1>1. order \in [Orders -> OrderRow] /\ wallet \in [Users -> Int] /\ UserOf[o] \in Users
  BY TopupAssumption DEF WholeInv, Inv, TypeOK
<1>2. order'[o].status = "success" /\ \A p \in Orders : order'[p].money = order[p].money
  BY <1>1 DEF Credit, OrderRow
<1>3. \A p \in Orders \ {o} : order'[p] = order[p] BY <1>1 DEF Credit
<1>4. ASSUME NEW u \in Users
      PROVE  IsFiniteSet(SuccessOf(order', u)) /\ wallet'[u] = BoughtBy(order', u)
  <2> DEFINE S == SuccessOf(order, u)
             f == [p \in Orders |-> order[p].money]
  <2>1. IsFiniteSet(S) /\ wallet[u] = BoughtBy(order, u) BY DEF WholeInv, WalletInv
  <2>2. [p \in Orders |-> order'[p].money] = f BY <1>2
  <2>3. BoughtBy(order', u) = SumFunctionOnSet(f, SuccessOf(order', u)) BY <2>2 DEF BoughtBy
  <2>4. BoughtBy(order, u) = SumFunctionOnSet(f, S) BY DEF BoughtBy
  <2>5. \A p \in S \cup {o} : f[p] \in Int BY MoneyInt DEF SuccessOf, WholeInv
  <2>6. f[o] = order[o].money /\ o \notin S BY DEF SuccessOf
  <2>7. CASE UserOf[o] = u
    <3>1. SuccessOf(order', u) = S \cup {o} BY <1>2, <1>3, <2>7 DEF SuccessOf
    <3>2. wallet'[u] = wallet[u] + order[o].money BY <1>1, <2>7 DEF Credit, Quota
    <3> HIDE DEF S, f
    <3>3. SumFunctionOnSet(f, S \cup {o}) = f[o] + SumFunctionOnSet(f, S)
      BY <2>1, <2>5, <2>6, SumWith
    <3>4. SumFunctionOnSet(f, S) \in Int /\ f[o] \in Int BY <2>1, <2>5, SumIsInt
    <3>5. IsFiniteSet(S \cup {o}) BY <2>1, FS_AddElement
    <3>6. QED BY <2>1, <2>3, <2>4, <2>6, <3>1, <3>2, <3>3, <3>4, <3>5
  <2>8. CASE UserOf[o] # u
    <3>1. SuccessOf(order', u) = S BY <1>3, <2>8 DEF SuccessOf
    <3>2. wallet'[u] = wallet[u] BY <1>1, <2>8 DEF Credit
    <3> HIDE DEF S, f
    <3>3. QED BY <2>1, <2>3, <2>4, <3>1, <3>2
  <2>9. QED BY <2>7, <2>8
<1>5. QED BY <1>4 DEF WalletInv

-----------------------------------------------------------------------------
(* The actions. *)

LEMMA WholeRows ==
  ASSUME WholeInv, Inv', Keeps, NEW o \in Orders, Request(o) \/ CreateOrder(o) \/ GatewayStep(o)
  PROVE  WholeInv'
<1>0. /\ order \in [Orders -> OrderRow] /\ pay \in [Orders -> Payment]
      /\ UNCHANGED <<handler, acked, wallet>>
  BY DEF WholeInv, Inv, TypeOK, Request, CreateOrder, GatewayStep, gateway
<1>1. Sincerity'
  <2>1. \A g \in Handlers : handler'[g] = handler[g] BY <1>0
  <2>2. QED BY <2>1, OthersSincere DEF Sincerity
<1>2. Announced'
  <2>1. CASE Request(o) \/ CreateOrder(o)
    <3>1. UNCHANGED <<sent, acked>> BY <2>1 DEF Request, CreateOrder, gateway
    <3>2. \A p \in Orders : Paid(p)' => Paid(p)
      BY <1>0, <2>1 DEF Request, CreateOrder, gateway, Paid, Payment
    <3>3. QED BY <3>1, <3>2, AnnouncedKept
  <2>2. CASE GatewayStep(o)
    <3>1. ASSUME NEW from, NEW kind \in {"paid", "latePaid"}, PaidWith(o, from, kind),
                 from \in {"open", "unpaid"}
          PROVE  Announced'
      <4>1. /\ sent' = sent \cup {<<o, kind>>} /\ pay'[o].state = "paid"
            /\ \A p \in Orders \ {o} : pay'[p] = pay[p]
        BY <1>0, <3>1 DEF PaidWith
      <4>2. QED BY <1>0, <3>1, <4>1 DEF WholeInv, Keeps, Announced, Paid
    <3>2. ASSUME NEW from, NEW to, NEW kind, Becomes(o, from, to, kind), kind \notin {"paid", "latePaid"},
                 from \in {"paid", "refunded"} <=> to \in {"paid", "refunded"}
          PROVE  Announced'
      <4>1. /\ sent' = sent \cup {<<o, kind>>} /\ pay[o].state = from /\ pay'[o].state = to
            /\ \A p \in Orders \ {o} : pay'[p] = pay[p]
        BY <1>0, <3>2 DEF Becomes, Payment
      <4>2. \A p \in Orders : Paid(p)' <=> Paid(p) BY <3>2, <4>1 DEF Paid
      <4>3. \A p \in Orders : \A k \in {"paid", "latePaid"} : <<p, k>> \in sent' <=> <<p, k>> \in sent
        BY <3>2, <4>1
      <4>4. QED BY <1>0, <4>2, <4>3 DEF WholeInv, Keeps, Announced
    <3>3. QED BY <2>2, <3>1, <3>2 DEF GatewayStep
  <2>3. QED BY <2>1, <2>2
<1>3. WalletInv'
  <2>1. \A p \in Orders : /\ order'[p].status = "success" <=> order[p].status = "success"
                          /\ order[p].status = "success" => order'[p] = order[p]
    <3>1. CASE Request(o)
      <4>1. PICK c \in Prices : order' = [order EXCEPT ![o] = [status |-> "pending", money |-> c]]
        BY <3>1 DEF Request
      <4>2. order[o].status = "absent" BY <3>1 DEF Request
      <4>3. QED BY <1>0, <4>1, <4>2
    <3>2. CASE CreateOrder(o) \/ GatewayStep(o) BY <3>2 DEF CreateOrder, GatewayStep
    <3>3. QED BY <3>1, <3>2
  <2>2. QED BY <1>0, <2>1, WalletKept
<1>4. QED BY <1>1, <1>2, <1>3 DEF WholeInv

\* Requests that only start, read or answer leave the rows alone.
LEMMA WholeQuiet ==
  ASSUME WholeInv, Inv', Keeps, Sincerity', Announced', UNCHANGED <<order, wallet>>
  PROVE  WholeInv'
<1>1. WalletInv' BY WalletKept
<1>2. QED BY <1>1 DEF WholeInv

LEMMA WholeStarts ==
  ASSUME WholeInv, Inv', Keeps, NEW h \in Handlers, NEW o \in Orders,
         CreateOrderFails(h, o) \/ AdminMark(h, o)
  PROVE  WholeInv'
<1>0. pay \in [Orders -> Payment] /\ handler \in [Handlers -> Handling]
  BY DEF WholeInv, Inv, TypeOK
<1>1. UNCHANGED <<order, wallet, sent, acked>> BY DEF CreateOrderFails, AdminMark, gateway
<1>2. Announced'
  <2>1. \A p \in Orders : Paid(p)' => Paid(p)
    BY <1>0 DEF CreateOrderFails, AdminMark, gateway, Paid, Payment
  <2>2. QED BY <1>1, <2>1, AnnouncedKept
<1>3. Sincerity'
  <2>1. ASSUME NEW job \in {"cancel", "admin"}, NEW kind, kind = "paid" => job = "admin",
               Start(h, o, job, kind, 0)
        PROVE  Sincerity'
    <3> DEFINE w == [pc |-> "begin", order |-> o, job |-> job, kind |-> kind,
                     amount |-> 0, result |-> "none"]
    <3>1. handler'[h] = w /\ \A g \in Handlers \ {h} : handler'[g] = handler[g]
      BY <1>0, <2>1 DEF Start
    <3>2. w.pc = "begin" /\ w.kind = kind /\ w.job = job OBVIOUS
    <3> HIDE DEF w
    <3>3. Sincere(w)' BY <2>1, <3>2 DEF Sincere
    <3>4. QED BY <3>1, <3>3, SincerityMoves
  <2>2. QED BY <2>1 DEF CreateOrderFails, AdminMark
<1>4. QED BY <1>1, <1>2, <1>3, WholeQuiet

LEMMA WholeDeliver ==
  ASSUME WholeInv, Inv', Keeps, NEW h \in Handlers, NEW e \in Events, Deliver(h, e)
  PROVE  WholeInv'
<1>0. pay \in [Orders -> Payment] /\ handler \in [Handlers -> Handling]
  BY DEF WholeInv, Inv, TypeOK
<1>1. UNCHANGED <<order, wallet, pay, sent, acked>> BY DEF Deliver, gateway
<1>2. Announced' BY <1>1, AnnouncedKept DEF Paid
<1> DEFINE o == e[1]
           kind == e[2]
           job == Meaning(GatewayOf[o], kind)
           w == [pc |-> IF job = "ignore" THEN "reply" ELSE "begin", order |-> o, job |-> job,
                 kind |-> kind, amount |-> Reported(o),
                 result |-> IF job = "ignore" THEN "ignored" ELSE "none"]
<1>3. o \in Orders /\ e = <<o, kind>> /\ e \in sent BY DEF Events, Deliver
<1>4. handler'[h] = w /\ \A g \in Handlers \ {h} : handler'[g] = handler[g]
  BY <1>0 DEF Deliver
<1>5. job = "complete" <=> kind = "paid" BY DEF Meaning
<1>6. kind = "paid" => Paid(o) BY <1>3 DEF WholeInv, Announced
<1>7. Reported(o) <= pay[o].amount
  <2>1. pay[o].amount \in Int BY <1>0, <1>3 DEF Payment
  <2>2. QED BY <2>1 DEF Reported
<1>8. /\ w.pc \in {"reply", "begin"} /\ w.order = o /\ w.job = job /\ w.kind = kind
      /\ w.amount = Reported(o) /\ w.result \notin {"already", "credited"}
  OBVIOUS
<1>9. UNCHANGED pay BY <1>1
<1> HIDE DEF w, job, kind, o
<1>10. PICK z : z = w OBVIOUS
<1>10a. Sincere(z)' BY <1>5, <1>6, <1>7, <1>8, <1>9, <1>10 DEF Sincere, Paid
<1>11. Sincerity' BY <1>4, <1>10, <1>10a, SincerityMoves
<1>12. QED BY <1>1, <1>2, <1>11, WholeQuiet

LEMMA WholeBegin ==
  ASSUME WholeInv, Inv', Keeps, NEW h \in Handlers, Begin(h)
  PROVE  WholeInv'
<1>0. pay \in [Orders -> Payment] /\ handler \in [Handlers -> Handling] /\ order \in [Orders -> OrderRow]
  BY DEF WholeInv, Inv, TypeOK
<1>1. UNCHANGED <<order, wallet, pay, sent, acked>> BY DEF Begin, gateway
<1>2. Announced' BY <1>1, AnnouncedKept DEF Paid
<1> DEFINE w == handler[h]
<1>3. /\ w \in Handling /\ w.order \in Orders /\ Sincere(w) /\ w.pc = "begin"
      /\ w.amount \in Int /\ w.job \in Jobs
  BY <1>0 DEF WholeInv, Inv, NamedInv, Named, Sincerity, Begin, Handling
<1>4. PICK pc \in {"write", "reply"}, r \in {Decision(w), "dberror"} :
        /\ handler' = [handler EXCEPT ![h].pc = pc, ![h].result = r]
        /\ pc = "write" => r \in {"credited", "failed"}
        /\ pc = "reply" => r # "credited"
  BY DEF Begin
<1> DEFINE v == [w EXCEPT !.pc = pc, !.result = r]
<1>5. handler'[h] = v /\ \A g \in Handlers \ {h} : handler'[g] = handler[g]
  BY <1>0, <1>4
<1>6. /\ v.pc = pc /\ v.order = w.order /\ v.job = w.job /\ v.kind = w.kind
      /\ v.amount = w.amount /\ v.result = r
  BY <1>3 DEF Handling
<1>7. /\ r = "credited" => /\ w.job \in {"complete", "admin"}
                           /\ w.job = "complete" => order[w.order].money <= w.amount
      /\ r = "already" => order[w.order].status = "success"
  <2>1. order[w.order].money \in Int BY <1>0, <1>3 DEF OrderRow
  <2>2. QED BY <1>3, <2>1 DEF Decision, DecideComplete, DecideFail
<1> HIDE DEF v
<1>8. PICK z : z = v OBVIOUS
<1>8a. Sincere(z)'
  <2>1. UNCHANGED <<order, pay>> BY <1>1
  <2>2. PICK x : x = w OBVIOUS
  <2>3. Sincere(x) /\ x.pc = "begin" BY <1>3, <2>2
  <2>4. QED BY <1>4, <1>6, <1>7, <1>8, <2>1, <2>2, <2>3 DEF Sincere, Paid
<1>9. Sincerity' BY <1>5, <1>8, <1>8a, SincerityMoves
<1>10. QED BY <1>1, <1>2, <1>9, WholeQuiet

LEMMA WholeCommit ==
  ASSUME WholeInv, Inv', Keeps, NEW h \in Handlers, Commit(h)
  PROVE  WholeInv'
<1>0. handler \in [Handlers -> Handling] /\ order \in [Orders -> OrderRow]
  BY DEF WholeInv, Inv, TypeOK
<1>1. UNCHANGED <<pay, sent, acked>> BY DEF Commit, gateway
<1>2. Announced' BY <1>1, AnnouncedKept DEF Paid
<1> DEFINE w == handler[h]
<1>3. /\ w \in Handling /\ w.order \in Orders /\ Sincere(w) /\ w.pc = "write"
      /\ order[w.order].status = "pending" /\ w.result \in {"credited", "failed"}
  BY <1>0, CommitRows DEF WholeInv, Inv, NamedInv, Named, LockInv, Holds, Sincerity, Commit
<1>4. PICK r \in {w.result, "dberror"} :
        /\ handler' = [handler EXCEPT ![h].pc = "reply", ![h].result = r]
        /\ r = "credited" => Credit(w.order)
        /\ Credit(w.order) \/ MarkFailed(w.order) \/ UNCHANGED <<order, wallet, credits>>
  <2>1. CASE handler' = [handler EXCEPT ![h].pc = "reply"]
    <3>1. handler' = [handler EXCEPT ![h].pc = "reply", ![h].result = w.result]
      <4>1. [w EXCEPT !.pc = "reply"] = [w EXCEPT !.pc = "reply", !.result = w.result]
        BY <1>3 DEF Handling
      <4>2. QED BY <1>0, <2>1, <4>1
    <3>2. handler'[h].result = w.result BY <1>0, <1>3, <2>1 DEF Handling
    <3>3. w.result = "dberror" => FALSE BY <1>3
    <3>4. /\ w.result = "credited" => Credit(w.order)
          /\ Credit(w.order) \/ MarkFailed(w.order)
      <4>1. CASE w.result = "credited" /\ Credit(w.order) BY <4>1
      <4>2. CASE w.result = "failed" /\ MarkFailed(w.order) BY <4>2
      <4>3. CASE handler' = [handler EXCEPT ![h].pc = "reply", ![h].result = "dberror"]
        <5>1. handler'[h].result = "dberror" BY <1>0, <1>3, <4>3 DEF Handling
        <5>2. QED BY <3>2, <3>3, <5>1
      <4>4. QED BY <4>1, <4>2, <4>3 DEF Commit
    <3>5. QED BY <3>1, <3>4
  <2>2. CASE /\ handler' = [handler EXCEPT ![h].pc = "reply", ![h].result = "dberror"]
             /\ UNCHANGED <<order, wallet, credits>>
    BY <2>2
  <2>3. QED BY <2>1, <2>2 DEF Commit
<1> DEFINE v == [w EXCEPT !.pc = "reply", !.result = r]
<1>5. handler'[h] = v /\ \A g \in Handlers \ {h} : handler'[g] = handler[g]
  BY <1>0, <1>4
<1>6. /\ v.pc = "reply" /\ v.order = w.order /\ v.job = w.job /\ v.kind = w.kind
      /\ v.amount = w.amount /\ v.result = r
  BY <1>3 DEF Handling
<1>7. r \in {"already", "credited"} => order'[w.order].status = "success"
  BY <1>0, <1>3, <1>4 DEF Credit, OrderRow
<1> HIDE DEF v
<1>8. PICK z : z = v OBVIOUS
<1>8a. Sincere(z)'
  <2>1. UNCHANGED pay BY <1>1
  <2>2. PICK x : x = w OBVIOUS
  <2>3. Sincere(x) /\ x.pc = "write" BY <1>3, <2>2
  <2>4. PICK q : q = w.order OBVIOUS
  <2>5. z.order = q /\ x.order = q /\ (r \in {"already", "credited"} => order'[q].status = "success")
    BY <1>6, <1>7, <1>8, <2>2, <2>4
  <2>6. QED BY <1>6, <1>8, <2>1, <2>2, <2>3, <2>5 DEF Sincere, Paid
<1>9. Sincerity' BY <1>5, <1>8, <1>8a, SincerityMoves
<1>10. WalletInv'
  <2>1. CASE Credit(w.order) BY <1>3, <2>1, WalletCredited
  <2>2. CASE MarkFailed(w.order)
    <3>1. UNCHANGED wallet BY <2>2 DEF MarkFailed
    <3>2. \A p \in Orders : /\ order'[p].status = "success" <=> order[p].status = "success"
                            /\ order[p].status = "success" => order'[p] = order[p]
      BY <1>0, <1>3, <2>2 DEF MarkFailed, OrderRow
    <3>3. QED BY <3>1, <3>2, WalletKept
  <2>3. CASE UNCHANGED <<order, wallet, credits>> BY <2>3, WalletKept
  <2>4. QED BY <1>4, <2>1, <2>2, <2>3
<1>11. QED BY <1>2, <1>9, <1>10 DEF WholeInv

LEMMA WholeReply ==
  ASSUME WholeInv, Inv', Keeps, NEW h \in Handlers, Reply(h)
  PROVE  WholeInv'
<1>0. handler \in [Handlers -> Handling] BY DEF WholeInv, Inv, TypeOK
<1>1. UNCHANGED <<order, wallet, pay, sent>> BY DEF Reply, gateway
<1>2. Sincerity'
  <2>1. handler'[h] = Idle /\ \A g \in Handlers \ {h} : handler'[g] = handler[g]
    BY <1>0 DEF Reply
  <2>2. Sincere(Idle)' BY DEF Sincere, Idle
  <2>3. QED BY <2>1, <2>2, SincerityMoves
<1>3. Announced'
  <2> DEFINE w == handler[h]
  <2>1. w \in Handling /\ w.order \in Orders /\ Sincere(w) /\ w.pc = "reply"
    BY <1>0 DEF WholeInv, Inv, NamedInv, Named, Sincerity, Reply
  <2>2. ASSUME NEW p \in Orders, <<p, "paid">> \in acked', <<p, "paid">> \notin acked
        PROVE  order[p].status = "success"
    <3>1. /\ w.order = p /\ w.kind = "paid" /\ w.job \notin {"admin", "cancel"}
          /\ Accepted(w.job, w.result)
      BY <2>2 DEF Reply
    <3>2. w.job = "complete" BY <2>1, <3>1 DEF Sincere
    <3>3. w.result \in {"already", "credited"} BY <3>1, <3>2 DEF Accepted
    <3>4. QED BY <2>1, <3>1, <3>3 DEF Sincere
  <2>3. QED BY <1>1, <2>2 DEF WholeInv, Announced, Paid
<1>4. QED BY <1>1, <1>2, <1>3, WholeQuiet

LEMMA WholeNext == WholeInv /\ [Next]_vars => WholeInv'
<1> SUFFICES ASSUME WholeInv, [Next]_vars PROVE WholeInv' OBVIOUS
<1>1. Inv' /\ Keeps BY InvNext, StepKeeps DEF WholeInv
<1>2. ASSUME NEW o \in Orders, Request(o) \/ CreateOrder(o) \/ GatewayStep(o) PROVE WholeInv'
  BY <1>1, <1>2, WholeRows
<1>3. ASSUME NEW h \in Handlers, NEW o \in Orders, CreateOrderFails(h, o) \/ AdminMark(h, o)
      PROVE  WholeInv'
  BY <1>1, <1>3, WholeStarts
<1>4. ASSUME NEW h \in Handlers, NEW e \in Events, Deliver(h, e) PROVE WholeInv'
  BY <1>1, <1>4, WholeDeliver
<1>5. ASSUME NEW h \in Handlers, HandlerStep(h) PROVE WholeInv'
  BY <1>1, <1>5, WholeBegin, WholeCommit, WholeReply DEF HandlerStep
<1>6. CASE Crash
  <2>1. UNCHANGED <<order, wallet, pay, sent, acked>> BY <1>6 DEF Crash, gateway
  <2>2. Sincerity' BY <1>6 DEF Crash, Sincerity, Sincere, Idle
  <2>3. Announced' BY <1>1, <2>1, AnnouncedKept DEF Paid
  <2>4. QED BY <1>1, <2>1, <2>2, <2>3, WholeQuiet
<1>7. CASE UNCHANGED vars
  <2>1. UNCHANGED <<order, wallet, pay, sent, acked, handler>> BY <1>7 DEF vars
  <2>2. Sincerity'
    <3>1. \A g \in Handlers : handler'[g] = handler[g] BY <2>1
    <3>2. QED BY <1>1, <3>1, OthersSincere DEF Sincerity
  <2>3. Announced' BY <1>1, <2>1, AnnouncedKept DEF Paid
  <2>4. QED BY <1>1, <2>1, <2>2, <2>3, WholeQuiet
<1>8. QED BY <1>2, <1>3, <1>4, <1>5, <1>6, <1>7 DEF Next

LEMMA WholeInit == Init => WholeInv
<1> SUFFICES ASSUME Init PROVE WholeInv OBVIOUS
<1>1. Inv BY InvInit
<1>2. Sincerity BY DEF Init, Sincerity, Sincere, Idle
<1>3. Announced BY DEF Init, Announced, Paid
<1>4. WalletInv
  <2>1. ASSUME NEW u \in Users PROVE IsFiniteSet(SuccessOf(order, u)) /\ wallet[u] = BoughtBy(order, u)
    <3>1. SuccessOf(order, u) = {} /\ wallet[u] = 0 BY DEF Init, SuccessOf
    <3>2. SumFunctionOnSet([o \in Orders |-> order[o].money], {}) = 0 BY SumOverNone
    <3>3. QED BY <3>1, <3>2, FS_EmptySet DEF BoughtBy
  <2>2. QED BY <2>1 DEF WalletInv
<1>5. QED BY <1>1, <1>2, <1>3, <1>4 DEF WholeInv

LEMMA WholeAlways == Spec => []WholeInv
BY WholeInit, WholeNext, PTL DEF Spec

\* However often webhooks repeat and whatever fails in between, CompleteTopup
\* credits an order once, the wallet holds the orders marked success, and a
\* payment in full the gateway has nothing more to say about was credited.
THEOREM OrdersStayWhole == Spec => []OrdersAreWhole
<1>1. ASSUME WholeInv PROVE OrdersAreWhole
  <2>1. TypeOK /\ CreditedOnce /\ Announced /\ WalletInv BY <1>1 DEF WholeInv, Inv
  <2>2. WalletIsSumOfOrders
    BY <2>1 DEF WalletInv, WalletIsSumOfOrders, BoughtBy, SuccessOf, Quota
  <2>3. AcknowledgedPaymentCredited
    BY <2>1 DEF AcknowledgedPaymentCredited, Announced, Settled, PaidInFull, Paid, Kinds
  <2>4. QED BY <2>1, <2>2, <2>3 DEF OrdersAreWhole
<1>2. QED BY <1>1, WholeAlways, PTL

LEMMA PaidForStep ==
  ASSUME WholeInv, [Next]_vars, NEW o \in Orders, credits'[o] > credits[o]
  PROVE  PaidInFull(o) \/ \E h \in Handlers : handler[h].order = o /\ handler[h].job = "admin"
<1>0. TypeOK BY DEF WholeInv, Inv
<1>1. credits[o] \in Nat /\ credits'[o] # credits[o] BY <1>0 DEF TypeOK
<1>2. PICK h \in Handlers : Commit(h)
  <2>1. Next BY <1>1 DEF vars
  <2>2. QED BY <1>1, <2>1 DEF Next, Request, CreateOrder, GatewayStep, CreateOrderFails, AdminMark,
                              Deliver, HandlerStep, Begin, Reply, Crash
<1> DEFINE w == handler[h]
<1>3. w.order = o BY <1>1, <1>2, CommitRows DEF WholeInv, Inv
<1>4. w \in Handling /\ w.pc = "write" /\ Sincere(w) /\ w.result = "credited"
  <2>1. w \in Handling /\ w.pc = "write" /\ Sincere(w)
    BY <1>0, <1>2 DEF TypeOK, Commit, WholeInv, Sincerity
  <2>2. w.result = "credited" BY <1>1, <1>2, <1>3 DEF Commit, MarkFailed
  <2>3. QED BY <2>1, <2>2
<1>5. CASE w.job = "admin" BY <1>3, <1>5
<1>6. CASE w.job = "complete"
  <2>1. Paid(o) /\ w.amount <= pay[o].amount /\ order[o].money <= w.amount
    BY <1>3, <1>4, <1>6 DEF Sincere
  <2>2. w.amount \in Int /\ pay[o].amount \in Int /\ order[o].money \in Int
    BY <1>0, <1>4 DEF TypeOK, Handling, Payment, OrderRow
  <2>3. QED BY <2>1, <2>2 DEF PaidInFull, Paid
<1>7. QED BY <1>4, <1>5, <1>6 DEF Sincere

\* A finished order never changes again, and CompleteTopup credits an order that
\* was not paid in full only for an administrator.
THEOREM OrdersMoveOn == Spec => OrdersOnlyMoveOn
<1>1. WholeInv /\ [Next]_vars =>
        [\A o \in Orders : credits'[o] > credits[o] =>
           PaidInFull(o) \/ \E h \in Handlers : handler[h].order = o /\ handler[h].job = "admin"]_vars
  BY PaidForStep
<1>2. Spec => NoFreeCredit BY <1>1, WholeAlways, PTL DEF Spec, NoFreeCredit
<1>3. QED BY <1>2, FinishedOrdersStay, PTL DEF OrdersOnlyMoveOn
=============================================================================
