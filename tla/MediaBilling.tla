------------------------------ MODULE MediaBilling ------------------------------
(***************************************************************************)
(* The image, audio and proxy relays and what they do to a user's balance: *)
(* check it (through the Redis cache when there is one), call the upstream, *)
(* deduct.  Deductions are written at once or queued for the batch updater. *)
(* One user with one token; a retry by the relay is another call.  The      *)
(* counters of used quota are left out.                                     *)
(***************************************************************************)
EXTENDS Integers, FiniteSets, Sequences, Functions

CONSTANTS
  MediaCalls,
  ImageRequests,       \* decoded bodies: model, size, hd, n, prompt length, channel
  ImageSizeRatios, ImageGenerationAmounts, ImagePromptLengthLimitations,
  Speeches,            \* prices of speech requests
  Transcripts,         \* prices of transcriptions, known when they are done
  PreConsumedQuota, TrustFactor,
  StartQuota, UnlimitedQuota,
  MaxExtra             \* bound on top-ups, crashes and failing statements together

VARIABLES
  mode,     \* BatchUpdateEnabled and RedisEnabled
  purse,    \* users.quota, tokens.remain_quota
  batch,    \* batchUpdateStores and the flush under way
  cached,   \* the Redis key user_quota
  call,     \* the calls
  lost,     \* history: deltas that went down with a crash or a failing flush
  extra     \* top-ups and faults so far; history: did a fault lose credit of the user?

mediaVars == <<mode, purse, batch, cached, call, lost, extra>>

Ledgers == {"user", "token"}
NoDelta == [l \in Ledgers |-> 0]
NoCall == [pc |-> "idle", kind |-> "none", price |-> 0, reserved |-> 0, estimate |-> 0, seen |-> 0,
           todo |-> <<>>, outcome |-> "none", paid |-> NoDelta, misled |-> FALSE, hurt |-> FALSE]
NoCache == [there |-> FALSE, quota |-> 0]
FlushOrder == <<"user", "token">>

MediaInit ==
  /\ mode \in [batch : BOOLEAN, redis : BOOLEAN]
  /\ purse = [l \in Ledgers |-> StartQuota]
  /\ batch = [store |-> NoDelta, at |-> 0, taken |-> 0]
  /\ cached = NoCache /\ call = [c \in MediaCalls |-> NoCall]
  /\ lost = NoDelta /\ extra = [topups |-> 0, faults |-> 0, short |-> FALSE]

MayHappen == extra.topups + extra.faults < MaxExtra

\* What the flush holds of ledger l, and what the books say of it.
Taken(l) == IF batch.at # 0 /\ FlushOrder[batch.at] = l THEN batch.taken ELSE 0
Pool(l) == purse[l] + batch.store[l] + Taken(l)
\* A fault that takes this much from the user's books.
Fault(gone) == extra' = [extra EXCEPT !.faults = @ + 1, !.short = @ \/ gone > 0]

-----------------------------------------------------------------------------
(* Deliberately wrong variants of definitions below, used only to check     *)
(* that each property is able to fail.                                      *)

ClearsStoreLate(l) == [batch EXCEPT !.taken = batch.store[l]]
EnoughForOne(k) == k.seen >= 0

-----------------------------------------------------------------------------
(* The price of an image. *)

isValidImageSize(r) ==
  r.model = "cogview-3" \/ r.model \notin DOMAIN ImageSizeRatios \/ r.size \in DOMAIN ImageSizeRatios[r.model]
isValidImagePromptLength(r) ==
  r.model \in DOMAIN ImagePromptLengthLimitations => r.prompt <= ImagePromptLengthLimitations[r.model]
isWithinRange(r) ==
  r.model \in DOMAIN ImageGenerationAmounts =>
    ImageGenerationAmounts[r.model][1] <= r.n /\ r.n <= ImageGenerationAmounts[r.model][2]
validateImageRequest(r) ==
  r.prompt > 0 /\ isValidImageSize(r) /\ isValidImagePromptLength(r) /\ isWithinRange(r)
getImageSizeRatio(r) ==
  IF r.model \in DOMAIN ImageSizeRatios /\ r.size \in DOMAIN ImageSizeRatios[r.model]
  THEN ImageSizeRatios[r.model][r.size] ELSE 1
\* In halves, for the factor one and a half.
getImageCostRatio(r) ==
  getImageSizeRatio(r) * (IF r.hd /\ r.model = "dall-e-3" THEN IF r.size = "1024x1024" THEN 4 ELSE 3 ELSE 2)
ImageQuota(r) == (getImageCostRatio(r) \div 2) * (IF r.channel = "Replicate" THEN 1 ELSE r.n)

-----------------------------------------------------------------------------
(* Requests. *)

Asks(c, k) == call' = [call EXCEPT ![c] = k] /\ UNCHANGED <<mode, purse, batch, cached, lost, extra>>
Ends(k, how) == [k EXCEPT !.pc = "done", !.outcome = how, !.seen = 0]

\* What a body leaves out has a default: one image.
getImageRequest(r) == [r EXCEPT !.n = IF @ = 0 THEN 1 ELSE @]
ASSUME MediaAssumption ==
  /\ IsFiniteSet(MediaCalls) /\ StartQuota \in Nat /\ UnlimitedQuota \in BOOLEAN
  /\ PreConsumedQuota \in Nat /\ TrustFactor \in Nat /\ Speeches \subseteq Nat /\ Transcripts \subseteq Nat
  /\ \A r \in ImageRequests : ImageQuota(getImageRequest(r)) \in Int
RelayImageHelper(c, body) ==
  LET r == getImageRequest(body) IN
  /\ call[c].pc = "idle"
  /\ Asks(c, IF validateImageRequest(r) THEN [NoCall EXCEPT !.pc = "get", !.kind = "image", !.price = ImageQuota(r)]
             ELSE Ends([NoCall EXCEPT !.kind = "image"], "refused"))

\* The cost of a transcription is only known with its text.
RelayAudioHelper(c, kind, price) ==
  /\ call[c].pc = "idle"
  /\ Asks(c, [NoCall EXCEPT !.pc = "get", !.kind = kind, !.price = price,
                            !.estimate = IF kind = "speech" THEN price ELSE PreConsumedQuota])

\* The proxy relay neither checks nor charges.
RelayProxyHelper(c) ==
  call[c].pc = "idle" /\ \E how \in {"served", "failed"} : Asks(c, Ends([NoCall EXCEPT !.kind = "proxy"], how))

-----------------------------------------------------------------------------
(* The balance a call sees. *)

Moves(c, k) == call' = [call EXCEPT ![c] = k]

\* What follows CacheGetUserQuota: the check, or the write of CacheUpdateUserQuota.
AfterGet(k) == CASE k.pc \in {"get", "fill"} -> "decide" [] OTHER -> "put"

CacheGetUserQuota(c) ==
  LET k == call[c]
      hit == mode.redis /\ cached.there /\ cached.quota > PreConsumedQuota
      seen == IF hit THEN cached.quota ELSE purse["user"]
  IN
  /\ k.pc \in {"get", "reget"}
  /\ Moves(c, [k EXCEPT !.seen = seen, !.misled = @ \/ (k.pc = "get" /\ seen # Pool("user")),
                        !.pc = IF hit \/ ~mode.redis THEN AfterGet(k) ELSE IF @ = "get" THEN "fill" ELSE "refill"])
  /\ UNCHANGED <<mode, purse, batch, cached, lost, extra>>

RedisSet(c) == cached' = [there |-> TRUE, quota |-> call[c].seen]
fetchAndUpdateUserQuota(c) ==
  /\ call[c].pc \in {"fill", "refill"} /\ RedisSet(c) /\ Moves(c, [call[c] EXCEPT !.pc = AfterGet(call[c])])
  /\ UNCHANGED <<mode, purse, batch, lost, extra>>

CacheUpdateUserQuota(c) ==
  /\ call[c].pc = "put" /\ RedisSet(c) /\ Moves(c, Ends(call[c], call[c].outcome))
  /\ UNCHANGED <<mode, purse, batch, lost, extra>>

Expire ==
  /\ cached.there /\ cached' = NoCache
  /\ UNCHANGED <<mode, purse, batch, call, lost, extra>>

Affordable(k) == k.seen >= (IF k.kind = "image" THEN k.price ELSE k.estimate)

Decide(c) ==
  LET k == call[c] IN
  /\ k.pc = "decide"
  /\ Moves(c, CASE ~Affordable(k) -> Ends(k, "refused")
                [] Affordable(k) /\ k.kind = "image" -> [k EXCEPT !.pc = "upstream", !.seen = 0]
                [] OTHER -> [k EXCEPT !.pc = IF mode.redis THEN "shrink" ELSE "trust"])
  /\ UNCHANGED <<mode, purse, batch, cached, lost, extra>>

\* RedisDecrease makes the key when it has expired.
CacheDecreaseUserQuota(c) ==
  /\ call[c].pc = "shrink"
  /\ cached' = [there |-> TRUE, quota |-> cached.quota - call[c].estimate]
  /\ Moves(c, [call[c] EXCEPT !.pc = "trust"])
  /\ UNCHANGED <<mode, purse, batch, lost, extra>>

-----------------------------------------------------------------------------
(* Deductions. *)

Stmt2(l, d) == [ledger |-> l, delta |-> d]
\* PostConsumeTokenQuota: the user, then the token unless it has no cap.
PostConsumeTokenQuota(quota) ==
  IF UnlimitedQuota THEN <<Stmt2("user", -quota)>> ELSE <<Stmt2("user", -quota), Stmt2("token", -quota)>>

\* Has the call looked at the balance without having paid yet?
Deciding(k) ==
  \/ k.pc \in {"fill", "decide", "shrink", "trust", "legacy", "reserveToken", "reserveUser"}
  \/ k.pc = "upstream" /\ k.reserved = 0
  \/ k.pc = "post" /\ Head(k.todo).ledger = "user"
\* A payment misleads the other calls that are deciding.
Misleads(c, d, cs) ==
  [x \in MediaCalls |-> IF x # c /\ d < 0 /\ Deciding(cs[x]) THEN [cs[x] EXCEPT !.misled = TRUE] ELSE cs[x]]

Pay(c, l, d, k) ==
  call' = Misleads(c, IF l = "user" THEN d ELSE 0, [call EXCEPT ![c] = [k EXCEPT !.paid[l] = @ - d]])

\* Increase and Decrease: queued when updates are batched, one UPDATE otherwise.
addNewRecord(l, d) == batch' = [batch EXCEPT !.store[l] = @ + d]
Write(l, d) ==
  IF mode.batch THEN addNewRecord(l, d) /\ purse' = purse
  ELSE purse' = [purse EXCEPT ![l] = @ + d] /\ batch' = batch

\* PreConsumeTokenQuota: a user with much more than the estimate is trusted;
\* the token's deduction is undone when the user's is refused.
PreConsumeTokenQuota(c) ==
  LET k == call[c]  q == k.estimate IN
  /\ \/ /\ k.pc = "trust" /\ UNCHANGED <<purse, batch>>
        /\ Moves(c, [k EXCEPT !.seen = 0, !.pc = IF k.seen > TrustFactor * q \/ q = 0 THEN "upstream"
                                                ELSE IF mode.batch THEN "legacy"
                                                ELSE IF UnlimitedQuota THEN "reserveUser" ELSE "reserveToken"])
     \/ /\ k.pc = "reserveToken"
        /\ IF purse["token"] >= q THEN Write("token", -q) /\ Pay(c, "token", -q, [k EXCEPT !.pc = "reserveUser"])
           ELSE Moves(c, Ends(k, "refused")) /\ UNCHANGED <<purse, batch>>
     \/ /\ k.pc = "reserveUser"
        /\ IF purse["user"] >= q
           THEN Write("user", -q) /\ Pay(c, "user", -q, [k EXCEPT !.pc = "upstream", !.reserved = q])
           ELSE /\ UNCHANGED <<purse, batch>>
                /\ Moves(c, IF UnlimitedQuota THEN Ends(k, "refused")
                            ELSE [k EXCEPT !.pc = "post", !.outcome = "refused", !.todo = <<Stmt2("token", q)>>])
  /\ UNCHANGED <<mode, cached, lost, extra>>

\* The batched path checks the rows and queues.
preConsumeTokenQuotaLegacy(c) ==
  LET k == call[c]  q == k.estimate IN
  /\ k.pc = "legacy"
  /\ Moves(c, IF purse["user"] < q \/ (~UnlimitedQuota /\ purse["token"] < q) THEN Ends(k, "refused")
              ELSE [k EXCEPT !.pc = "post", !.outcome = "reserving", !.reserved = q, !.todo = PostConsumeTokenQuota(q),
                             !.misled = @ \/ purse["user"] # Pool("user")])
  /\ UNCHANGED <<mode, purse, batch, cached, lost, extra>>

\* The answer of the upstream.  An image that was made but could not be passed
\* on is charged as well; a failed audio call gives its reservation back.
ImageAnswered(c) ==
  LET k == call[c] IN
  /\ k.kind = "image" /\ k.pc = "upstream"
  /\ \E how \in {"served", "failed", "undelivered"} :
       Moves(c, IF how = "failed" THEN Ends(k, how)
                ELSE [k EXCEPT !.pc = "post", !.outcome = how, !.todo = PostConsumeTokenQuota(k.price)])
  /\ UNCHANGED <<mode, purse, batch, cached, lost, extra>>

AudioAnswered(c) ==
  LET k == call[c] IN
  /\ k.kind \in {"speech", "transcription"} /\ k.pc = "upstream"
  /\ \/ Moves(c, [k EXCEPT !.pc = "post", !.outcome = "served", !.todo = PostConsumeTokenQuota(k.price - k.reserved)])
     \/ Moves(c, IF k.reserved = 0 THEN Ends(k, "failed")
                 ELSE [k EXCEPT !.pc = "post", !.outcome = "failed", !.todo = PostConsumeTokenQuota(-k.reserved)])
  /\ UNCHANGED <<mode, purse, batch, cached, lost, extra>>

\* The next statement of a deduction, and what follows the last one.
AfterPost(k) ==
  CASE k.outcome = "reserving" -> "upstream"
    [] k.outcome \in {"served", "undelivered"} /\ mode.redis -> "reget"
    [] OTHER -> "done"

Post(c) ==
  LET k == call[c]  s == Head(k.todo)  rest == Tail(k.todo) IN
  /\ k.pc = "post" /\ Write(s.ledger, s.delta)
  /\ Pay(c, s.ledger, s.delta, [k EXCEPT !.todo = rest, !.pc = IF rest = <<>> THEN AfterPost(k) ELSE @])
  /\ UNCHANGED <<mode, cached, lost, extra>>

-----------------------------------------------------------------------------
(* The batch updater, top-ups and faults. *)

\* One type of record: take the store and put an empty one in its place.
TakeStore(l) == [batch EXCEPT !.taken = batch.store[l], !.store[l] = 0]

batchUpdate ==
  /\ mode.batch
  /\ \/ /\ batch.at = 0 /\ \E l \in Ledgers : batch.store[l] # 0
        /\ batch' = [TakeStore("user") EXCEPT !.at = 1] /\ UNCHANGED <<purse, lost, extra>>
     \/ /\ batch.at # 0
        /\ \E fails \in BOOLEAN :
             LET l == FlushOrder[batch.at] IN
             /\ fails => MayHappen
             /\ IF fails THEN Fault(IF l = "user" THEN batch.taken ELSE 0) ELSE extra' = extra
             /\ purse' = IF fails THEN purse ELSE [purse EXCEPT ![l] = @ + batch.taken]
             /\ lost' = IF fails THEN [lost EXCEPT ![l] = @ + batch.taken] ELSE lost
             /\ batch' = IF batch.at = Len(FlushOrder) THEN [batch EXCEPT !.at = 0, !.taken = 0]
                         ELSE [TakeStore(FlushOrder[batch.at + 1]) EXCEPT !.at = @ + 1]
  /\ UNCHANGED <<mode, cached, call>>

IncreaseUserQuota ==
  /\ MayHappen /\ extra' = [extra EXCEPT !.topups = @ + 1] /\ Write("user", 1)
  /\ UNCHANGED <<mode, cached, call, lost>>

\* The process ends: queued records and calls under way are gone.
Crash ==
  /\ MayHappen /\ Fault(batch.store["user"] + Taken("user"))
  /\ lost' = [l \in Ledgers |-> lost[l] + batch.store[l] + Taken(l)]
  /\ batch' = [store |-> NoDelta, at |-> 0, taken |-> 0]
  /\ call' = [c \in MediaCalls |-> IF call[c].pc \in {"idle", "done"} THEN call[c]
                                   ELSE [call[c] EXCEPT !.pc = "done", !.hurt = TRUE, !.todo = <<>>]]
  /\ UNCHANGED <<mode, purse, cached>>

MediaNext ==
  \/ \E c \in MediaCalls :
       \/ \E r \in ImageRequests : RelayImageHelper(c, r)
       \/ \E p \in Speeches : RelayAudioHelper(c, "speech", p)
       \/ \E p \in Transcripts : RelayAudioHelper(c, "transcription", p)
       \/ RelayProxyHelper(c) \/ CacheGetUserQuota(c) \/ fetchAndUpdateUserQuota(c) \/ CacheUpdateUserQuota(c)
       \/ Decide(c) \/ CacheDecreaseUserQuota(c) \/ PreConsumeTokenQuota(c) \/ preConsumeTokenQuotaLegacy(c)
       \/ ImageAnswered(c) \/ AudioAnswered(c) \/ Post(c)
  \/ Expire \/ batchUpdate \/ IncreaseUserQuota \/ Crash

MediaSpec == MediaInit /\ [][MediaNext]_mediaVars

-----------------------------------------------------------------------------
(* Properties. *)

\* Every variable has its type.
MediaTypeOK ==
  /\ purse \in [Ledgers -> Int] /\ batch.store \in [Ledgers -> Int] /\ batch.at \in 0 .. 2
  /\ cached.there \in BOOLEAN /\ cached.quota \in Int
  /\ \A c \in MediaCalls : call[c].reserved \in Nat /\ call[c].price \in Int

\* What an undisturbed call costs: its price once the upstream answered, even
\* when an image could not be passed on, and nothing otherwise.
Cost(k) == IF k.outcome \in {"served", "undelivered"} THEN k.price ELSE 0

\* No deduction is lost or made twice: the rows, the queued records and the
\* flush under way add up to the start, the top-ups and what the calls paid,
\* less what a crash or a failing flush lost; and every finished call paid its
\* cost, from the user and from a capped token.
MediaBooksBalance ==
  /\ Pool("user") = StartQuota + extra.topups - lost["user"] - SumFunction([c \in MediaCalls |-> call[c].paid["user"]])
  /\ Pool("token") = StartQuota - lost["token"] - SumFunction([c \in MediaCalls |-> call[c].paid["token"]])
  /\ \A c \in MediaCalls : call[c].pc = "done" /\ ~call[c].hurt =>
       /\ call[c].paid["user"] = Cost(call[c])
       /\ call[c].paid["token"] = IF UnlimitedQuota THEN 0 ELSE Cost(call[c])

\* The balance falls below zero only by calls that decided on a balance other
\* than the true one (a cached one, one without the queued records, or one that
\* another call was about to change), by what they did not reserve, and by
\* transcriptions that cost more than was asked of them, as long as no top-up or
\* refund was lost on its way to the row.
Exempt(c) == call[c].misled \/ call[c].kind = "transcription"
AtLeast0(n) == IF n > 0 THEN n ELSE 0
Unreserved(c) ==
  IF mode.batch THEN AtLeast0(call[c].price) + call[c].estimate ELSE AtLeast0(call[c].price - call[c].reserved)
OverdraftMeansMisled ==
  ~extra.short =>
    Pool("user") >= -SumFunctionOnSet([c \in MediaCalls |-> Unreserved(c)], {c \in MediaCalls : Exempt(c)})

\* Image and audio calls pay their cost once, and the balance falls below zero
\* only over what a call could not have known.
MediaIsPaidOnce == MediaBooksBalance /\ OverdraftMeansMisled
===============================================================================
