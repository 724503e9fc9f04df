---------------------------- MODULE TaskBilling ----------------------------
(***************************************************************************)
(* What the task subsystem promises about the money of a submission,       *)
(* without handlers, pollers, rows or statuses.                            *)
(*                                                                         *)
(* A price is reserved once.  The reservation is released or the task is   *)
(* opened; an open task is closed by exactly one verdict, and the one      *)
(* payment that follows the verdict is the last time money moves for it.   *)
(* A crash may suppress a payment that is due, nothing may repeat one.     *)
(***************************************************************************)
EXTENDS Naturals

CONSTANTS Tasks, Prices

VARIABLES stage, net

bvars == <<stage, net>>

To(t, s) == stage' = [stage EXCEPT ![t] = s]
Pay(t, amounts) == \E a \in amounts : net' = [net EXCEPT ![t] = a]

Reserve(t) == stage[t] = "new" /\ To(t, "reserved") /\ Pay(t, Prices)
Reprice(t) == stage[t] = "reserved" /\ UNCHANGED stage /\ Pay(t, Prices)
Release(t) == stage[t] = "reserved" /\ To(t, "closed") /\ Pay(t, {0, net[t]})
Open(t)    == stage[t] = "reserved" /\ To(t, "open") /\ UNCHANGED net
Fail(t)    == stage[t] = "open" /\ To(t, "refunding") /\ UNCHANGED net
Succeed(t) == stage[t] = "open" /\ To(t, "settling") /\ UNCHANGED net
Refund(t)  == stage[t] = "refunding" /\ To(t, "closed") /\ Pay(t, {0, net[t]})
Settle(t)  == stage[t] = "settling" /\ To(t, "closed") /\ Pay(t, Prices \cup {net[t]})

\* An instance dies: what it was about to do for the tasks of S is not done.
Abandon(S) ==
  /\ \A t \in S : stage[t] \in {"reserved", "refunding", "settling"}
  /\ stage' = [t \in Tasks |-> IF t \in S THEN "closed" ELSE stage[t]]
  /\ UNCHANGED net

BInit == stage = [t \in Tasks |-> "new"] /\ net = [t \in Tasks |-> 0]

BNext ==
  \/ \E t \in Tasks :
       Reserve(t) \/ Reprice(t) \/ Release(t) \/ Open(t)
       \/ Fail(t) \/ Succeed(t) \/ Refund(t) \/ Settle(t)
  \/ \E S \in SUBSET Tasks : Abandon(S)

BSpec == BInit /\ [][BNext]_bvars
=============================================================================
