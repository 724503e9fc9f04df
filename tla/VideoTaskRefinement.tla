------------------------ MODULE VideoTaskRefinement ------------------------
(***************************************************************************)
(* VideoTask implements TaskBilling: where a submission stands with its    *)
(* money is read off the handler, the row and the poller that owns it.     *)
(***************************************************************************)
EXTENDS VideoTask

OwnedFor(t, location) == \E n \in Nodes : cur[n] = t /\ at[n] = location

StageOf(t) ==
  IF pc[t] = "inserted"
  THEN IF ~IsTerminal(t) THEN "open"
       ELSE IF OwnedFor(t, "refund") THEN "refunding"
       ELSE IF OwnedFor(t, "settle") THEN "settling"
       ELSE "closed"
  ELSE IF pc[t] = "new" THEN "new"
  ELSE IF pc[t] \in {"failed", "crashed"} THEN "closed"
  ELSE "reserved"

Billing == INSTANCE TaskBilling WITH
  stage <- [t \in Tasks |-> StageOf(t)],
  net <- charge,
  Prices <- Quotas \cup AdjustedQuotas \cup FinalQuotas

\* Handlers, pollers, timeouts, deletions and crashes together do no more
\* than the billing promise allows: one reservation, one verdict, at most one
\* payment after it.
ImplementsBilling == Billing!BSpec
=============================================================================
