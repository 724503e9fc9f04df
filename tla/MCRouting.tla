------------------------------ MODULE MCRouting ------------------------------
(* Instance of ChannelRouting and ChannelMetric.  The two share no variable, *)
(* so a behaviour follows one of them, chosen at the start, and their state  *)
(* spaces add up instead of multiplying.                                     *)
EXTENDS ChannelRouting, ChannelMetric, TLC

CONSTANTS c1, c2, r1, r2, g1, g2

VARIABLE focus
vars == <<focus, routingVars, metricVars>>

MCGroupOf == r1 :> g1 @@ r2 :> g2
MCTypeOf == c1 :> "OpenAI" @@ c2 :> "DeepSeek"
\* A channel of both groups; a preferred one of one group, which an edit also
\* switches off.
MCBodies ==
  {[routes |-> {r1, r2}, priority |-> 1, status |-> 0],
   [routes |-> {r1}, priority |-> 2, status |-> ManuallyDisabled]}
\* An account that is used up.
MCReplies == {[fail |-> FALSE, listed |-> TRUE, granted |-> 1, used |-> 1]}

Init ==
  /\ RoutingInit /\ MetricInit
  /\ \/ focus = "channels"
     \/ focus = "metric" /\ channel[c1].priority = 1
Next ==
  /\ UNCHANGED focus
  /\ \/ focus = "channels" /\ RoutingNext /\ UNCHANGED metricVars
     \/ focus = "metric" /\ MetricNext /\ UNCHANGED routingVars
Spec == Init /\ [][Next]_vars

Interchangeable == Permutations(Handlers)
===============================================================================
