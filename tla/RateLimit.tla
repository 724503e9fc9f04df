------------------------------- MODULE RateLimit -------------------------------
(***************************************************************************)
(* The request limiters, for one client and one mark: the in-memory one,   *)
(* which takes each decision under its mutex, and the Redis one, whose      *)
(* commands interleave with those of other requests.                        *)
(***************************************************************************)
EXTENDS Integers, FiniteSets, Sequences, SequencesExt

CONSTANTS
  LimitRequests,            \* requests under way at once
  maxRequestNum, duration,
  RateLimitKeyExpirationDuration,
  MaxNow, MaxAdmitted       \* bounds on the clock and on the admitted requests

VARIABLES
  limiter,    \* "memory" or "redis"
  clock,      \* seconds
  window,     \* the queue of the key, newest first; no key is the empty one
  request,    \* what each Redis request has read
  admitted    \* history: times of the admitted requests, oldest first

limitVars == <<limiter, clock, window, request, admitted>>

ASSUME LimitAssumption ==
  /\ duration \in Nat /\ RateLimitKeyExpirationDuration \in Nat
  /\ duration <= RateLimitKeyExpirationDuration
  /\ maxRequestNum \in Nat \ {0} /\ MaxNow \in Nat /\ MaxAdmitted \in Nat
  /\ IsFiniteSet(LimitRequests) /\ LimitRequests # {}

LimitInit ==
  /\ limiter \in {"memory", "redis"} /\ clock = 0 /\ window = <<>> /\ admitted = <<>>
  /\ request = [r \in LimitRequests |-> "none"]

-----------------------------------------------------------------------------
(* A deliberately wrong variant of a definition below, used only to check   *)
(* that the property is able to fail.                                       *)

ForgetsEarly(q) == q # <<>> /\ clock - Last(q) > 0

-----------------------------------------------------------------------------
Admit == Len(admitted) < MaxAdmitted /\ admitted' = Append(admitted, clock)

\* InMemoryRateLimiter.Request: room in the queue, or its oldest entry is old.
Request ==
  /\ limiter = "memory" /\ Admit
  /\ \/ Len(window) < maxRequestNum /\ window' = <<clock>> \o window
     \/ /\ Len(window) >= maxRequestNum /\ clock - Last(window) >= duration
        /\ window' = <<clock>> \o Front(window)
  /\ UNCHANGED <<limiter, clock, request>>

\* clearExpiredItems drops a key whose newest entry is old.
Expired(q) == q # <<>> /\ clock - Head(q) > RateLimitKeyExpirationDuration
clearExpiredItems ==
  /\ limiter = "memory" /\ Expired(window) /\ window' = <<>>
  /\ UNCHANGED <<limiter, clock, request, admitted>>

\* redisRateLimiter: LLEN and what it leads to are separate commands.
redisLLen(r) ==
  /\ limiter = "redis" /\ request[r] = "none"
  /\ request' = [request EXCEPT ![r] = IF Len(window) < maxRequestNum THEN "room" ELSE "full"]
  /\ UNCHANGED <<limiter, clock, window, admitted>>

redisLIndex(r) ==
  /\ request[r] = "full"
  /\ request' = [request EXCEPT ![r] = IF window # <<>> /\ clock - Last(window) >= duration THEN "pass" ELSE "none"]
  /\ UNCHANGED <<limiter, clock, window, admitted>>

redisLPush(r) ==
  /\ request[r] \in {"room", "pass"} /\ Admit
  /\ window' = <<clock>> \o window
  /\ request' = [request EXCEPT ![r] = IF @ = "pass" THEN "trim" ELSE "none"]
  /\ UNCHANGED <<limiter, clock>>

redisLTrim(r) ==
  /\ request[r] = "trim" /\ request' = [request EXCEPT ![r] = "none"]
  /\ window' = SubSeq(window, 1, IF Len(window) < maxRequestNum THEN Len(window) ELSE maxRequestNum)
  /\ UNCHANGED <<limiter, clock, admitted>>

\* The key expires some time after it was last touched.  A refused request
\* touches it too; that only delays what this action may leave undone as long.
redisExpire ==
  /\ limiter = "redis" /\ window # <<>> /\ clock - Head(window) >= RateLimitKeyExpirationDuration
  /\ window' = <<>> /\ UNCHANGED <<limiter, clock, request, admitted>>

LimitTick == clock < MaxNow /\ clock' = clock + 1 /\ UNCHANGED <<limiter, window, request, admitted>>

LimitNext ==
  \/ Request \/ clearExpiredItems \/ redisExpire \/ LimitTick
  \/ \E r \in LimitRequests : redisLLen(r) \/ redisLIndex(r) \/ redisLPush(r) \/ redisLTrim(r)

LimitSpec == LimitInit /\ [][LimitNext]_limitVars

-----------------------------------------------------------------------------
(* Properties. *)

\* Every variable has its type.
LimitTypeOK ==
  /\ clock \in 0 .. MaxNow /\ window \in Seq(0 .. MaxNow) /\ admitted \in Seq(0 .. MaxNow)
  /\ request \in [LimitRequests -> {"none", "room", "full", "pass", "trim"}]

\* No period shorter than the duration sees more than maxRequestNum requests
\* pass; through Redis, requests that overlap can add two each but the first.
LimitHolds ==
  LET most == maxRequestNum + (IF limiter = "redis" THEN 2 * (Cardinality(LimitRequests) - 1) ELSE 0) IN
  \A i \in 1 .. Len(admitted) - most : admitted[i + most] - admitted[i] >= duration
===============================================================================
