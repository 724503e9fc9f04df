------------------------------ MODULE MCAccounts ------------------------------
(* Instance of UserAccount, SignIn, Checkin and TopupOrder.  They share no   *)
(* variable, so a behaviour follows one of them, chosen at the start, and    *)
(* their state spaces add up instead of multiplying.                         *)
EXTENDS UserAccount, SignIn, Checkin, TLC

CONSTANTS o1, o2, NoHandler, NoOrder

VARIABLES focus, order, orderWallet, orderCredits, orderLock, pay, sent, acked, webhook,
          orderCrashes, orderFaults

orderVars == <<order, orderWallet, orderCredits, orderLock, pay, sent, acked, webhook,
               orderCrashes, orderFaults>>
everything == <<focus, accountVars, signInVars, vars, orderVars>>

\* There is a user to own the orders, and the null values are no elements.
ASSUME OrdersAssumption == Users # {} /\ NoHandler \notin Browsers /\ NoOrder \notin {o1, o2}

\* A Stripe and an E-Pay order of one user, and two requests served at once.
T == INSTANCE TopupOrder WITH
       Orders <- {o1, o2}, UserOf <- [o \in {o1, o2} |-> CHOOSE u \in Users : TRUE],
       GatewayOf <- [o \in {o1, o2} |-> IF o = o1 THEN "stripe" ELSE "epay"], Handlers <- Browsers,
       Prices <- {2}, LossyPrices <- {}, Payments <- {1, 2}, AsyncPayments <- TRUE,
       wallet <- orderWallet, credits <- orderCredits, lock <- orderLock, handler <- webhook,
       crashes <- orderCrashes, faults <- orderFaults

MCAdminEdits ==
  {[Blank EXCEPT !.quota = 5], [Blank EXCEPT !.role = RoleAdminUser],
   [Blank EXCEPT !.status = UserStatusDisabled, !.pw = 9]}
\* A capped and an uncapped bonus.
MCSettings == {[daily |-> 1, bonus |-> 1, cap |-> 2], [daily |-> 0, bonus |-> 2, cap |-> 0]}

AllInit ==
  /\ AccountInit /\ SignInInit /\ Init /\ T!Init
  /\ focus \in {"rows", "sign-in", "check-in", "orders"}
  /\ focus # "rows" => user[2] = UserRow(RoleCommonUser, None, None)
  /\ focus # "check-in" => setting.cap = 0
\* Secrets handed out and assertions signed, together.
MCBound == \A k \in Keys : generation + device[k] =< 2
\* A crash or a failing statement while a reward is claimed, not both; neither
\* once the page has shown what a claim will pay, nor under the uncapped bonus,
\* which differs in its amounts alone.
MCFaults == crashes + faults =< IF setting.cap = 0 \/ promised # {} THEN 0 ELSE 1
AllNext ==
  /\ UNCHANGED focus
  /\ \/ focus = "rows" /\ AccountNext /\ UNCHANGED <<signInVars, vars, orderVars>>
     \/ focus = "sign-in" /\ SignInNext /\ MCBound' /\ UNCHANGED <<accountVars, vars, orderVars>>
     \/ focus = "check-in" /\ Next /\ MCFaults' /\ UNCHANGED <<accountVars, signInVars, orderVars>>
     \/ focus = "orders" /\ T!Next /\ UNCHANGED <<accountVars, signInVars, vars>>
AllSpec == AllInit /\ [][AllNext]_everything

\* An order marked success was credited once, the wallet holds the orders marked
\* success, and an acknowledged payment in full was credited (TopupOrder).
OrdersAreWhole == T!OrdersAreWhole

\* A finished order never changes again, and only an administrator completes one
\* that was not paid in full (TopupOrder).
OrdersOnlyMoveOn == T!OrdersOnlyMoveOn

\* The cfg gives the forms, the browsers and the clicks the same two names.
Interchangeable == Permutations(Browsers)
===============================================================================
