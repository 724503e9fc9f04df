----------------------------- MODULE MCRequestsEnd -----------------------------
(* Instance of Redemption and of RelayBilling under their fairness: requests  *)
(* to redeem a code are answered, and relayed calls close their reservation.  *)
(* The two share no variable, so a behaviour follows one of them, chosen at   *)
(* the start.                                                                 *)
EXTENDS Redemption, TLC

CONSTANTS
  admin, u1, k1,
  Requests, Tokens, Estimates, Bills, OpeningWallet, OpeningCap, RetryTimes, TrustFactor, MaxDeletes

VARIABLES relayWallet, token, call, tokenForm, relayCrashes, relayFaults, focus

MCCreatorOf == [k \in Codes |-> admin]

\* The dashboard's forms are in the instance of MCRelayBilling.
B == INSTANCE RelayBilling WITH
       TokenOf <- [r \in Requests |-> k1], OwnerOf <- [k \in Tokens |-> u1],
       Forms <- {}, Caps <- {},
       wallet <- relayWallet, form <- tokenForm, crashes <- relayCrashes, faults <- relayFaults

relayVars == <<relayWallet, token, call, tokenForm, relayCrashes, relayFaults>>

BothInit ==
  /\ Init /\ B!Init /\ focus \in {"code", "call"}
  /\ focus = "code" => ~token[k1].unlimited
  /\ focus = "call" => \A h \in Handlers : handler[h].user = u1
\* A crash or a failing statement while a code is redeemed, not both.
MCMishaps == crashes + faults <= 1
BothNext ==
  /\ UNCHANGED focus
  /\ \/ focus = "code" /\ Next /\ MCMishaps' /\ UNCHANGED relayVars
     \/ focus = "call" /\ B!Next /\ UNCHANGED vars

\* The fairness of the two specifications.
BothSpec ==
  /\ BothInit /\ [][BothNext]_<<vars, relayVars, focus>>
  /\ \A h \in Handlers : SF_vars(focus = "code" /\ HandlerStep(h))
  /\ \A c \in B!Calls : WF_relayVars(focus = "call" /\ B!CallStep(c))

\* Once the upstream answered, the reservation is returned or settled, whatever
\* fails in the goroutine that does it.
AnsweredCallsClose == B!AnsweredCallsClose
===============================================================================
