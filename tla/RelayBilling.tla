---------------------------- MODULE RelayBilling ----------------------------
(***************************************************************************)
(* The money of a relayed text request, one SQL statement at a time: the   *)
(* token check of TokenAuth, preConsumeQuota and PreConsumeTokenQuota      *)
(* before the upstream call, the goroutines that return or settle the      *)
(* reservation after it, the retry loop of Relay, and what the dashboard   *)
(* does to the same token row meanwhile.                                   *)
(*                                                                         *)
(* A call <<r, i>> is the i-th run of RelayTextHelper for request r.  Its  *)
(* row keeps the handler's local variables and, as history, what the call  *)
(* has taken from the wallet (charged) and from the token (drawn).         *)
(* Redis and the batch updater are off, and tokens do not expire.          *)
(***************************************************************************)
EXTENDS Integers, FiniteSets, Functions

CONSTANTS
  Requests, Tokens, Users,
  TokenOf,        \* request -> its token
  OwnerOf,        \* token -> its owner
  Forms,          \* UpdateToken requests of the dashboard, one edit each
  Estimates,      \* quotas getPreConsumedQuota may compute
  Bills,          \* quotas postConsumeQuota may compute
  Caps,           \* remain_quota a form may post
  OpeningWallet, OpeningCap,
  RetryTimes,     \* config.RetryTimes
  TrustFactor,    \* a wallet above TrustFactor * estimate is not pre-consumed (100)
  MaxDeletes, MaxCrashes, MaxDbErrors

ASSUME RelayAssumption ==
  /\ Estimates \subseteq Nat /\ Bills \subseteq Nat /\ Caps \subseteq Int
  /\ OpeningWallet \in Nat /\ OpeningCap \in Nat
  /\ RetryTimes \in Nat /\ TrustFactor \in Nat
  /\ TokenOf \in [Requests -> Tokens] /\ OwnerOf \in [Tokens -> Users]
  /\ IsFiniteSet(Requests)

VARIABLES wallet, token, call, form, crashes, faults

vars == <<wallet, token, call, form, crashes, faults>>

Calls == Requests \X (1 .. RetryTimes + 1)

Key(c) == TokenOf[c[1]]
Payer(c) == OwnerOf[Key(c)]

Reserving == {"estimate", "load", "debitToken", "debitUser", "rollback"}
Paying == {"payLoad", "payUser", "payToken", "record"}
Steps == {"idle", "mark", "upstream", "done"} \cup Reserving \cup Paying
Outcomes == {"none", "denied", "refused", "dropped", "error", "unmetered", "served", "crashed"}

CallRow == [pc : Steps, outcome : Outcomes, held : Int, capped : BOOLEAN,
            bill : Int, delta : Int, charged : Int, drawn : Int, logged : Int]
NewCall == [pc |-> "idle", outcome |-> "none", held |-> 0, capped |-> FALSE,
            bill |-> 0, delta |-> 0, charged |-> 0, drawn |-> 0, logged |-> 0]

TokenRow == [live : BOOLEAN, status : {"enabled", "disabled", "exhausted"},
             remain : Int, used : Int, unlimited : BOOLEAN]
\* A wrong variant: the default status is forgotten.
NewTokenUnset(free) == [live |-> TRUE, status |-> "unset", remain |-> OpeningCap,
                        used |-> 0, unlimited |-> free]
NewToken(free) == [live |-> TRUE, status |-> "enabled", remain |-> OpeningCap,
                   used |-> 0, unlimited |-> free]

Editing == [pc : {"idle", "write", "done"}, token : Tokens, row : TokenRow, statusOnly : BOOLEAN]

Init ==
  /\ wallet = [u \in Users |-> OpeningWallet]
  /\ token \in [Tokens -> {NewToken(free) : free \in BOOLEAN}]
  /\ call = [c \in Calls |-> NewCall]
  /\ form \in [Forms -> {[pc |-> "idle", token |-> k, row |-> NewToken(FALSE), statusOnly |-> FALSE]
                          : k \in Tokens}]
  /\ crashes = 0
  /\ faults = 0

-----------------------------------------------------------------------------
(* Deliberately wrong variants of definitions below, used only to check     *)
(* that each property is able to fail.                                      *)

ReturnedDeltaPositive(c) == call[c].held
SettledDeltaWhole(c, bill) == bill
WalletUnchecked(balance, q) == TRUE
RefuseWithoutUndo(c) == call' = [call EXCEPT ![c].pc = "done", ![c].outcome = "refused"]
AfterPaymentRetried(c) == IF ~token[Key(c)].live THEN "payLoad" ELSE "done"
AfterUserNoToken(c) == IF call[c].outcome = "served" THEN "record" ELSE "done"

-----------------------------------------------------------------------------
\* A statement that fails changes nothing; its caller takes the error branch.
StatementFails == faults < MaxDbErrors /\ faults' = faults + 1

Move(c, pc) == call' = [call EXCEPT ![c].pc = pc]
End(c, outcome) == call' = [call EXCEPT ![c].pc = "done", ![c].outcome = outcome]

\* UPDATE tokens SET remain_quota = remain_quota - amount, used_quota = ...:
\* no row, no effect.
DrawToken(k, amount) ==
  token' = IF token[k].live
           THEN [token EXCEPT ![k].remain = @ - amount, ![k].used = @ + amount]
           ELSE token
Drawn(c, amount) == IF token[Key(c)].live THEN call[c].drawn + amount ELSE call[c].drawn

DrawWallet(u, amount) == wallet' = [wallet EXCEPT ![u] = @ - amount]

\* ValidateUserToken: the row is read here; the status found exhausted is
\* written back by a later statement.
Exhausted(row) == ~row.unlimited /\ row.remain <= 0

Authenticate(c) ==
  LET row == token[Key(c)] IN
  /\ call[c].pc = "idle" /\ c[2] = 1
  /\ \/ (~row.live \/ row.status # "enabled") /\ End(c, "denied")
     \/ row.live /\ row.status = "enabled" /\ Exhausted(row) /\ Move(c, "mark")
     \/ row.live /\ row.status = "enabled" /\ ~Exhausted(row) /\ Move(c, "estimate")
  /\ UNCHANGED <<wallet, token, form, crashes, faults>>

MarkExhausted(c) ==
  /\ call[c].pc = "mark"
  /\ \/ token' = [token EXCEPT ![Key(c)].status = "exhausted"] /\ UNCHANGED faults
     \/ StatementFails /\ UNCHANGED token
  /\ End(c, "denied")
  /\ UNCHANGED <<wallet, form, crashes>>

\* preConsumeQuota: the wallet is read, a rich user is trusted.
Trusted(balance, q) == q = 0 \/ balance > TrustFactor * q

Estimate(c) ==
  LET balance == wallet[Payer(c)] IN
  /\ call[c].pc = "estimate"
  /\ \/ \E q \in Estimates :
          /\ UNCHANGED faults
          /\ \/ balance < q /\ End(c, "refused")
             \/ balance >= q /\ Trusted(balance, q) /\ Move(c, "upstream")
             \/ /\ balance >= q /\ ~Trusted(balance, q)
                /\ call' = [call EXCEPT ![c].pc = "load", ![c].held = q]
     \/ StatementFails /\ End(c, "refused")
  /\ UNCHANGED <<wallet, token, form, crashes>>

\* PreConsumeTokenQuota, statement by statement.
LoadToken(c) ==
  LET row == token[Key(c)] IN
  /\ call[c].pc = "load"
  /\ \/ ~row.live /\ End(c, "refused") /\ UNCHANGED faults
     \/ /\ row.live /\ UNCHANGED faults
        /\ call' = [call EXCEPT ![c].capped = ~row.unlimited,
                                ![c].pc = IF row.unlimited THEN "debitUser" ELSE "debitToken"]
     \/ StatementFails /\ End(c, "refused")
  /\ UNCHANGED <<wallet, token, form, crashes>>

TokenCovers(row, q) == row.live /\ row.remain >= q

DebitToken(c) ==
  LET q == call[c].held IN
  /\ call[c].pc = "debitToken"
  /\ \/ /\ TokenCovers(token[Key(c)], q)
        /\ DrawToken(Key(c), q)
        /\ call' = [call EXCEPT ![c].pc = "debitUser", ![c].drawn = q]
        /\ UNCHANGED faults
     \/ /\ ~TokenCovers(token[Key(c)], q)
        /\ End(c, "refused") /\ UNCHANGED <<token, faults>>
     \/ StatementFails /\ End(c, "refused") /\ UNCHANGED token
  /\ UNCHANGED <<wallet, form, crashes>>

WalletCovers(balance, q) == balance >= q

UndoOrRefuse(c) == IF call[c].capped THEN Move(c, "rollback") ELSE End(c, "refused")

DebitUser(c) ==
  LET q == call[c].held IN
  /\ call[c].pc = "debitUser"
  /\ \/ /\ WalletCovers(wallet[Payer(c)], q)
        /\ DrawWallet(Payer(c), q)
        /\ call' = [call EXCEPT ![c].pc = "upstream", ![c].charged = q]
        /\ UNCHANGED faults
     \/ /\ ~WalletCovers(wallet[Payer(c)], q)
        /\ UndoOrRefuse(c) /\ UNCHANGED <<wallet, faults>>
     \/ StatementFails /\ UndoOrRefuse(c) /\ UNCHANGED wallet
  /\ UNCHANGED <<token, form, crashes>>

\* The rollback is best effort: its error is dropped.
RollBack(c) ==
  /\ call[c].pc = "rollback"
  /\ \/ /\ DrawToken(Key(c), -call[c].held)
        /\ call' = [call EXCEPT ![c].pc = "done", ![c].outcome = "refused",
                                ![c].drawn = Drawn(c, -call[c].held)]
        /\ UNCHANGED faults
     \/ StatementFails /\ End(c, "refused") /\ UNCHANGED token
  /\ UNCHANGED <<wallet, form, crashes>>

-----------------------------------------------------------------------------
\* The upstream call.  When it cannot even be made the handler returns without
\* giving the reservation back.
RequestNotMade(c) ==
  /\ call[c].pc = "upstream"
  /\ End(c, "dropped")
  /\ UNCHANGED <<wallet, token, form, crashes, faults>>

\* An adaptor that reports no usage at all: postConsumeQuota gives up.
AnswerWithoutUsage(c) ==
  /\ call[c].pc = "upstream"
  /\ End(c, "unmetered")
  /\ UNCHANGED <<wallet, token, form, crashes, faults>>

ReturnedDelta(c) == -call[c].held

UpstreamRejects(c) ==
  /\ call[c].pc = "upstream"
  /\ call' = [call EXCEPT ![c].outcome = "error", ![c].delta = ReturnedDelta(c),
                          ![c].pc = IF call[c].held = 0 THEN "done" ELSE "payLoad"]
  /\ UNCHANGED <<wallet, token, form, crashes, faults>>

SettledDelta(c, bill) == bill - call[c].held

UpstreamServes(c) ==
  /\ call[c].pc = "upstream"
  /\ \E b \in Bills :
       call' = [call EXCEPT ![c].outcome = "served", ![c].bill = b,
                            ![c].delta = SettledDelta(c, b), ![c].pc = "payLoad"]
  /\ UNCHANGED <<wallet, token, form, crashes, faults>>

\* PostConsumeTokenQuota, in the goroutine the handler left behind.
AfterPayment(c) == IF call[c].outcome = "served" THEN "record" ELSE "done"

PayLoad(c) ==
  LET row == token[Key(c)] IN
  /\ call[c].pc = "payLoad"
  /\ \/ /\ row.live /\ UNCHANGED faults
        /\ call' = [call EXCEPT ![c].capped = ~row.unlimited, ![c].pc = "payUser"]
     \/ ~row.live /\ Move(c, AfterPayment(c)) /\ UNCHANGED faults
     \/ StatementFails /\ Move(c, AfterPayment(c))
  /\ UNCHANGED <<wallet, token, form, crashes>>

AfterUser(c) == IF call[c].capped THEN "payToken" ELSE AfterPayment(c)

PayUser(c) ==
  /\ call[c].pc = "payUser"
  /\ \/ /\ DrawWallet(Payer(c), call[c].delta)
        /\ call' = [call EXCEPT ![c].pc = AfterUser(c), ![c].charged = @ + call[c].delta]
        /\ UNCHANGED faults
     \/ StatementFails /\ Move(c, AfterUser(c)) /\ UNCHANGED wallet
  /\ UNCHANGED <<token, form, crashes>>

PayToken(c) ==
  /\ call[c].pc = "payToken"
  /\ \/ /\ DrawToken(Key(c), call[c].delta)
        /\ call' = [call EXCEPT ![c].pc = AfterPayment(c), ![c].drawn = Drawn(c, call[c].delta)]
        /\ UNCHANGED faults
     \/ StatementFails /\ Move(c, AfterPayment(c)) /\ UNCHANGED token
  /\ UNCHANGED <<wallet, form, crashes>>

\* RecordConsumeLog and the statistics of user and channel.
Record(c) ==
  /\ call[c].pc = "record"
  /\ call' = [call EXCEPT ![c].pc = "done", ![c].logged = call[c].bill]
  /\ UNCHANGED <<wallet, token, form, crashes, faults>>

\* Relay calls the helper again when it returned an error shouldRetry accepts;
\* a refund of the failed call may still be under way.
NextCall(c) == <<c[1], c[2] + 1>>

Retry(c) ==
  /\ c[2] <= RetryTimes
  /\ call[c].outcome \in {"refused", "dropped", "error"}
  /\ call[NextCall(c)].pc = "idle"
  /\ Move(NextCall(c), "estimate")
  /\ UNCHANGED <<wallet, token, form, crashes, faults>>

CallStep(c) ==
  \/ Authenticate(c) \/ MarkExhausted(c)
  \/ Estimate(c) \/ LoadToken(c) \/ DebitToken(c) \/ DebitUser(c) \/ RollBack(c)
  \/ PayLoad(c) \/ PayUser(c) \/ PayToken(c) \/ Record(c)

UpstreamStep(c) ==
  RequestNotMade(c) \/ AnswerWithoutUsage(c) \/ UpstreamRejects(c) \/ UpstreamServes(c)

-----------------------------------------------------------------------------
\* UpdateToken reads the row, changes the copy, and writes the columns name,
\* status, expired_time, remain_quota, unlimited_quota, models and subnet.
EnableRefused(row, status) == status = "enabled" /\ row.status = "exhausted" /\ Exhausted(row)

Edited(row, statusOnly, status, cap, free) ==
  IF statusOnly THEN [row EXCEPT !.status = status]
                ELSE [row EXCEPT !.remain = cap, !.unlimited = free]

ReadForEdit(f) ==
  /\ form[f].pc = "idle" /\ token[form[f].token].live
  /\ \E statusOnly \in BOOLEAN, status \in {"enabled", "disabled"}, cap \in Caps, free \in BOOLEAN :
       /\ ~EnableRefused(token[form[f].token], status)
       /\ form' = [form EXCEPT ![f].pc = "write", ![f].statusOnly = statusOnly,
                               ![f].row = Edited(token[form[f].token], statusOnly, status, cap, free)]
  /\ UNCHANGED <<wallet, token, call, crashes, faults>>

Written(row, copy) ==
  [row EXCEPT !.status = copy.status, !.remain = copy.remain, !.unlimited = copy.unlimited]

WriteEdit(f) ==
  LET k == form[f].token IN
  /\ form[f].pc = "write"
  /\ token' = [token EXCEPT ![k] = IF @.live THEN Written(@, form[f].row) ELSE @]
  /\ form' = [form EXCEPT ![f].pc = "done"]
  /\ UNCHANGED <<wallet, call, crashes, faults>>

DeleteToken(k) ==
  /\ token[k].live /\ Cardinality({j \in Tokens : ~token[j].live}) < MaxDeletes
  /\ token' = [token EXCEPT ![k].live = FALSE]
  /\ UNCHANGED <<wallet, call, form, crashes, faults>>

\* The server dies: handlers, retry loops, goroutines and edits are gone.
Started(r) == call[<<r, 1>>].pc # "idle"

Crash ==
  /\ crashes < MaxCrashes
  /\ crashes' = crashes + 1
  /\ call' = [c \in Calls |->
                IF ~Started(c[1]) \/ call[c].pc = "done" THEN call[c]
                ELSE [call[c] EXCEPT !.pc = "done", !.outcome = "crashed"]]
  /\ form' = [f \in Forms |-> IF form[f].pc = "write" THEN [form[f] EXCEPT !.pc = "idle"] ELSE form[f]]
  /\ UNCHANGED <<wallet, token, faults>>

Next ==
  \/ \E c \in Calls : CallStep(c) \/ UpstreamStep(c) \/ Retry(c)
  \/ \E f \in Forms : ReadForEdit(f) \/ WriteEdit(f)
  \/ \E k \in Tokens : DeleteToken(k)
  \/ Crash

Spec == Init /\ [][Next]_vars

\* Go keeps scheduling the handlers; the upstream may never answer.
FairSpec == Spec /\ \A c \in Calls : WF_vars(CallStep(c))

-----------------------------------------------------------------------------
\* Token rows, call records and edit forms stay in their ranges: every status
\* is one ValidateUserToken knows, every call is at a step of the handler.
TypeOK ==
  /\ wallet \in [Users -> Int]
  /\ token \in [Tokens -> TokenRow]
  /\ call \in [Calls -> CallRow]
  /\ form \in [Forms -> Editing]
  /\ crashes \in Nat /\ faults \in Nat

NoMishap == crashes = 0 /\ faults = 0 /\ \A k \in Tokens : token[k].live

\* Whatever edits, other calls and retries do meanwhile, a call that was denied,
\* refused by either ledger or answered with an error by the upstream has taken
\* nothing from the wallet once its goroutine is done.
FailedCallRepaid ==
  \A c \in Calls :
    NoMishap /\ call[c].pc = "done" /\ call[c].outcome \in {"denied", "refused", "error"}
      => call[c].charged = 0

\* A served call costs exactly the quota its usage log shows, whether it was
\* pre-consumed, trusted, over-reserved or under-reserved.
ServedCallBilled ==
  \A c \in Calls :
    NoMishap /\ call[c].pc = "done" /\ call[c].outcome = "served"
      => call[c].charged = call[c].logged

\* A column of the call table, added up over some of its rows.
Deltas(S) == SumFunctionOnSet([c \in Calls |-> call[c].delta], S)
Charges(S) == SumFunctionOnSet([c \in Calls |-> call[c].charged], S)

\* A wallet is overdrawn by no more than served calls cost beyond what was
\* reserved for them: reservations, refunds, rollbacks, crashes and edits never
\* push it below zero.
OverdraftIsUnderReserved ==
  \A u \in Users :
    wallet[u] >= -Deltas({c \in Calls : Payer(c) = u /\ call[c].outcome \in {"served", "crashed"}
                                        /\ call[c].delta > 0})

Quiet == \A c \in Calls : call[c].pc \in {"idle", "done"}
Untouched(k) == \A f \in Forms : form[f].token = k => form[f].pc = "idle"

\* The two ledgers agree at rest: what a capped token that was never edited has
\* spent is what its calls took from the owner's wallet.
LedgersAgree ==
  Quiet /\ NoMishap =>
    \A k \in Tokens :
      Untouched(k) /\ ~token[k].unlimited =>
        /\ token[k].used = Charges({c \in Calls : Key(c) = k})
        /\ token[k].remain = OpeningCap - token[k].used

\* A failed statement splits the ledgers of one call at most.
SplitCall(c) == call[c].pc = "done" /\ call[c].capped /\ call[c].drawn # call[c].charged

SplitsBounded ==
  crashes = 0 /\ (\A k \in Tokens : token[k].live /\ Untouched(k))
    => Cardinality({c \in Calls : SplitCall(c)}) <= faults

\* The two ledgers agree at rest, a failed statement splits those of one call
\* at most, and only under-reserved calls overdraw a wallet.
LedgersAreBounded == LedgersAgree /\ SplitsBounded /\ OverdraftIsUnderReserved

\* Once the upstream answered, the reservation is returned or settled.
AnsweredCallsClose ==
  \A c \in Calls : (call[c].pc \in Paying) ~> (call[c].pc = "done")

\* Only a served call costs anything.  helper.go:117-118: on an error "we may
\* have to return the pre-consumed quota"; text.go:68-72 does not.
ReservationReturned ==
  \A c \in Calls :
    NoMishap /\ call[c].pc = "done" /\ call[c].outcome # "served" => call[c].charged = 0

\* Forms change what they were asked to change: a status-only edit does not
\* give spent quota back to the token (token.go:219-220: a read-then-update
\* sequence "loses to concurrent requests").
StatusEditKeepsBooks ==
  (Quiet /\ NoMishap /\ \A f \in Forms : form[f].pc = "done" => form[f].statusOnly) =>
    \A k \in Tokens : token[k].remain + token[k].used = OpeningCap
=============================================================================
