---------------------------- MODULE ChannelMetric ----------------------------
(***************************************************************************)
(* The success rate of a channel: relays emit outcomes, two goroutines, one *)
(* for successes and one for failures, keep the window of recent ones in a *)
(* map they share without a lock, and the second one has a channel         *)
(* disabled.  Each access to the map is a step.                            *)
(***************************************************************************)
EXTENDS Integers, Sequences

CONSTANTS
  MetricChannels,
  MetricQueueSize,
  MetricSuccessRateThreshold,   \* in percent
  MaxOutcomes                   \* bound on the outcomes relays emit

ASSUME MetricAssumption == MetricQueueSize \in Nat /\ MaxOutcomes \in Nat

VARIABLES
  store,       \* the windows
  emitted,     \* outcomes on their way: how many of each kind per channel
  consumer,    \* the two goroutines
  aborted,     \* how the process ended, if it did
  seen,        \* history: per channel, the outcomes consumed since it was reset
  torn,        \* history: channels the two goroutines were in at once since then
  verdict,     \* history: per channel, the last order to disable it
  outcomes

metricVars == <<store, emitted, consumer, aborted, seen, torn, verdict, outcomes>>

Success == TRUE      \* an outcome is a bool
Failure == FALSE
Kinds == {Success, Failure}
AtRest == [pc |-> "receive", ch |-> 0, window |-> <<>>, rate |-> 100]
NoVerdict == [given |-> FALSE, seen |-> <<>>, torn |-> FALSE]
Successes(w) == Len(SelectSeq(w, LAMBDA x : x = Success))
Rate(good, total) == IF total = 0 THEN 100 ELSE (100 * good) \div total
Recent(w) == SubSeq(w, IF Len(w) > MetricQueueSize + 1 THEN Len(w) - MetricQueueSize ELSE 1, Len(w))

-----------------------------------------------------------------------------
(* Deliberately wrong variants of definitions below, used only to check     *)
(* that each property is able to fail.                                      *)

AtLimit(w) == Len(w) >= MetricQueueSize
TooEarly(c) == consumer[Failure].rate < MetricSuccessRateThreshold

-----------------------------------------------------------------------------
MetricInit ==
  /\ store = [c \in MetricChannels |-> <<>>]
  /\ emitted = [c \in MetricChannels |-> [k \in Kinds |-> 0]]
  /\ consumer = [k \in Kinds |-> AtRest] /\ aborted = "no"
  /\ seen = [c \in MetricChannels |-> <<>>] /\ torn = {}
  /\ verdict = [c \in MetricChannels |-> NoVerdict] /\ outcomes = 0

Emit(c, success) ==
  /\ outcomes < MaxOutcomes /\ outcomes' = outcomes + 1
  /\ emitted' = [emitted EXCEPT ![c][success] = @ + 1]
  /\ UNCHANGED <<store, consumer, aborted, seen, torn, verdict>>

\* The other goroutine.
Other(k) == IF k = Success THEN Failure ELSE Success
InMap(k) == consumer[k].pc # "receive"
Meets(k, c) == InMap(Other(k)) /\ consumer[Other(k)].ch = c
Goto(k, pc) == consumer' = [consumer EXCEPT ![k].pc = pc]

Receive(k, c) ==
  /\ consumer[k].pc = "receive" /\ emitted[c][k] > 0
  /\ emitted' = [emitted EXCEPT ![c][k] = @ - 1]
  /\ consumer' = [consumer EXCEPT ![k] = [AtRest EXCEPT !.pc = "trim", !.ch = c]]
  /\ seen' = [seen EXCEPT ![c] = Recent(Append(@, k))]
  /\ torn' = IF Meets(k, c) THEN torn \cup {c} ELSE torn
  /\ UNCHANGED <<store, aborted, verdict, outcomes>>

\* The oldest entry goes when there are more than the size; the length, the
\* entries and the new value are three accesses.
Long(w) == Len(w) > MetricQueueSize
Check(k) ==
  /\ consumer[k].pc = "trim"
  /\ IF Long(store[consumer[k].ch]) THEN Goto(k, "cut") ELSE Goto(k, "read")
  /\ UNCHANGED <<store, emitted, aborted, seen, torn, verdict, outcomes>>
\* Cutting a window that was reset in between is a panic.
Cut(k) ==
  LET w == store[consumer[k].ch] IN
  /\ consumer[k].pc = "cut"
  /\ IF w = <<>> THEN aborted' = "sliceBounds" /\ consumer' = consumer
     ELSE consumer' = [consumer EXCEPT ![k].pc = "trimmed", ![k].window = Tail(w)] /\ aborted' = aborted
  /\ UNCHANGED <<store, emitted, seen, torn, verdict, outcomes>>
StoreTrimmed(k) ==
  /\ consumer[k].pc = "trimmed" /\ Goto(k, "read")
  /\ store' = [store EXCEPT ![consumer[k].ch] = consumer[k].window]
  /\ UNCHANGED <<emitted, aborted, seen, torn, verdict, outcomes>>
ReadWindow(k) ==
  /\ consumer[k].pc = "read"
  /\ consumer' = [consumer EXCEPT ![k].pc = "append", ![k].window = store[consumer[k].ch]]
  /\ UNCHANGED <<store, emitted, aborted, seen, torn, verdict, outcomes>>

\* Two appends to the same window may share the array behind it, and then the
\* entry is the one written last to the array.
AppendOutcome(k) ==
  LET c == consumer[k].ch IN
  /\ consumer[k].pc = "append"
  /\ \E x \in Kinds :
       /\ x = k \/ (Meets(k, c) /\ consumer[Other(k)].pc \in {"append", "count"})
       /\ store' = [store EXCEPT ![c] = Append(consumer[k].window, x)]
  /\ IF k = Success THEN consumer' = [consumer EXCEPT ![k] = AtRest] ELSE Goto(k, "count")
  /\ UNCHANGED <<emitted, aborted, seen, torn, verdict, outcomes>>

\* consumeFail counts the successes, then asks for the length, twice.
Count ==
  /\ consumer[Failure].pc = "count"
  /\ consumer' = [consumer EXCEPT ![Failure].pc = "rate", ![Failure].window = store[consumer[Failure].ch]]
  /\ UNCHANGED <<store, emitted, aborted, seen, torn, verdict, outcomes>>
SuccessRate ==
  LET n == Len(store[consumer[Failure].ch]) IN
  /\ consumer[Failure].pc = "rate"
  /\ consumer' = [consumer EXCEPT ![Failure].pc = "judge",
                    ![Failure].rate = Rate(Successes(consumer[Failure].window), n)]
  /\ UNCHANGED <<store, emitted, aborted, seen, torn, verdict, outcomes>>
TooLow(c) == Len(store[c]) >= MetricQueueSize /\ consumer[Failure].rate < MetricSuccessRateThreshold
Judge ==
  LET c == consumer[Failure].ch IN
  /\ consumer[Failure].pc = "judge"
  /\ IF TooLow(c)
     THEN Goto(Failure, "reset") ELSE consumer' = [consumer EXCEPT ![Failure] = AtRest]
  /\ UNCHANGED <<store, emitted, aborted, seen, torn, verdict, outcomes>>

\* The window starts again and the channel is disabled.
Reset ==
  LET c == consumer[Failure].ch IN
  /\ consumer[Failure].pc = "reset" /\ consumer' = [consumer EXCEPT ![Failure] = AtRest]
  /\ store' = [store EXCEPT ![c] = <<>>]
  /\ verdict' = [verdict EXCEPT ![c] = [given |-> TRUE, seen |-> seen[c], torn |-> c \in torn]]
  /\ seen' = [seen EXCEPT ![c] = <<>>]
  /\ torn' = IF Meets(Failure, c) THEN torn ELSE torn \ {c}
  /\ UNCHANGED <<emitted, aborted, outcomes>>

\* The runtime ends the process when it notices the two goroutines in the map,
\* whichever channels they are about.
ConcurrentMapAccess ==
  /\ InMap(Success) /\ InMap(Failure) /\ aborted' = "concurrentMapAccess"
  /\ UNCHANGED <<store, emitted, consumer, seen, torn, verdict, outcomes>>

MetricNext ==
  /\ aborted = "no"
  /\ \/ \E c \in MetricChannels, k \in Kinds : Emit(c, k) \/ Receive(k, c)
     \/ \E k \in Kinds : Check(k) \/ Cut(k) \/ StoreTrimmed(k) \/ ReadWindow(k) \/ AppendOutcome(k)
     \/ Count \/ SuccessRate \/ Judge \/ Reset \/ ConcurrentMapAccess

MetricSpec == MetricInit /\ [][MetricNext]_metricVars

-----------------------------------------------------------------------------
(* Properties. *)

\* Every variable has its type.
MetricTypeOK ==
  /\ \A c \in MetricChannels, k \in Kinds : emitted[c][k] \in 0 .. MaxOutcomes
  /\ \A k \in Kinds : consumer[k].pc \in {"receive", "trim", "cut", "trimmed", "read", "append", "count", "rate", "judge", "reset"}
  /\ torn \subseteq MetricChannels /\ aborted \in {"no", "sliceBounds", "concurrentMapAccess"}

\* Outside the two goroutines a window holds the most recent outcomes, one
\* more than its size of them, unless the goroutines met on the channel.
WindowIsRecent ==
  \A c \in MetricChannels \ torn :
    (\E k \in Kinds : InMap(k) /\ consumer[k].ch = c) \/ store[c] = seen[c]

\* A channel is disabled for its rate only over a full window of its own
\* outcomes whose rate is too low, unless the goroutines met on it.
DisabledOnEvidence ==
  \A c \in MetricChannels : verdict[c].given =>
    \/ verdict[c].torn
    \/ /\ Len(verdict[c].seen) >= MetricQueueSize
       /\ Rate(Successes(verdict[c].seen), Len(verdict[c].seen)) < MetricSuccessRateThreshold

\* The window holds recent outcomes and a channel is disabled for a low rate
\* only on the evidence of its own, unless the two goroutines met on it.
RateIsMeasured == MetricTypeOK /\ WindowIsRecent /\ DisabledOnEvidence
===============================================================================
