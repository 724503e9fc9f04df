----------------------------- MODULE Redemption -----------------------------
(***************************************************************************)
(* Redemption codes: AddRedemption mints them, Redeem turns one into quota *)
(* in a transaction that locks the code's row, and the administrator's     *)
(* UpdateRedemption reads a row, changes the copy and writes four columns  *)
(* of it back, outside any transaction.                                    *)
(***************************************************************************)
EXTENDS Integers, FiniteSets

CONSTANTS
  Codes, Users,
  CreatorOf,      \* code -> the administrator who minted it
  Handlers,       \* redeem requests being served at the same time
  Forms,          \* UpdateRedemption requests, one edit each
  NoHandler,
  Quotas,         \* quotas a mint or edit form may carry
  MaxCrashes, MaxDbErrors

ASSUME RedemptionAssumption ==
  /\ CreatorOf \in [Codes -> Users] /\ Quotas \subseteq Nat
  /\ NoHandler \notin Handlers /\ IsFiniteSet(Forms)

VARIABLES
  code,           \* rows of table redemptions
  lock,           \* code -> transaction holding its row lock
  wallet,         \* users.quota, counted from the opening balance
  credits,        \* history: how often a code was credited
  handler, form,
  crashes, faults

vars == <<code, lock, wallet, credits, handler, form, crashes, faults>>

Statuses == {"enabled", "disabled", "used"}
CodeRow == [row : {"absent", "live", "deleted"}, status : Statuses, quota : Nat, redeemed : BOOLEAN]
Unminted == [row |-> "absent", status |-> "enabled", quota |-> 0, redeemed |-> FALSE]

Serving == [pc : {"idle", "begin", "write"}, code : Codes, user : Users]
Editing == [pc : {"idle", "write", "done"}, code : Codes, copy : CodeRow, kind : {"none", "status", "quota"}]

Init ==
  /\ code = [k \in Codes |-> Unminted]
  /\ lock = [k \in Codes |-> NoHandler]
  /\ wallet = [u \in Users |-> 0]
  /\ credits = [k \in Codes |-> 0]
  /\ handler \in [Handlers -> {w \in Serving : w.pc = "idle"}]
  /\ form \in [Forms -> {e \in [pc : {"idle"}, code : Codes, copy : {Unminted}, kind : {"none"}] : TRUE}]
  /\ crashes = 0 /\ faults = 0

-----------------------------------------------------------------------------
(* Deliberately wrong variants of definitions below, used only to check     *)
(* that each property is able to fail.                                      *)

LockIgnored(k) == TRUE
MintedUnset(q) == q - 1
NotUnlocked(k) == UNCHANGED lock
UsedBeforePaying(k, u) ==
  /\ code' = [code EXCEPT ![k].status = "used", ![k].redeemed = TRUE]
  /\ UNCHANGED <<wallet, credits>>

-----------------------------------------------------------------------------
LockFree(k) == lock[k] = NoHandler
Unlock(k) == lock' = [lock EXCEPT ![k] = NoHandler]
StatementFails == faults < MaxDbErrors /\ faults' = faults + 1

\* AddRedemption.  A quota of 0 is left to the column's default of 100.
Minted(q) == IF q = 0 THEN 100 ELSE q

AddRedemption(k) ==
  /\ code[k].row = "absent"
  /\ \E q \in Quotas :
       code' = [code EXCEPT ![k] = [row |-> "live", status |-> "enabled", quota |-> Minted(q),
                                    redeemed |-> FALSE]]
  /\ UNCHANGED <<lock, wallet, credits, handler, form, crashes, faults>>

\* A user enters a code.
TopUp(h, k, u) ==
  /\ handler[h].pc = "idle" /\ code[k].row # "absent"
  /\ handler' = [handler EXCEPT ![h] = [pc |-> "begin", code |-> k, user |-> u]]
  /\ UNCHANGED <<code, lock, wallet, credits, form, crashes, faults>>

\* BEGIN; SELECT ... FOR UPDATE; the checks.  A refusal rolls back.
Redeemable(k, u) == code[k].row = "live" /\ code[k].status = "enabled" /\ CreatorOf[k] # u

Begin(h) ==
  LET k == handler[h].code IN
  /\ handler[h].pc = "begin" /\ LockFree(k)
  /\ \/ /\ Redeemable(k, handler[h].user)
        /\ lock' = [lock EXCEPT ![k] = h]
        /\ handler' = [handler EXCEPT ![h].pc = "write"]
        /\ UNCHANGED faults
     \/ /\ ~Redeemable(k, handler[h].user)
        /\ handler' = [handler EXCEPT ![h].pc = "idle"]
        /\ UNCHANGED <<lock, faults>>
     \/ /\ StatementFails
        /\ handler' = [handler EXCEPT ![h].pc = "idle"]
        /\ UNCHANGED lock
  /\ UNCHANGED <<code, wallet, credits, form, crashes>>

\* UPDATE users; SAVE redemptions; COMMIT.  Nothing is left of a failure.
Pay(k, u) ==
  /\ wallet' = [wallet EXCEPT ![u] = @ + code[k].quota]
  /\ credits' = [credits EXCEPT ![k] = @ + 1]
  /\ code' = [code EXCEPT ![k].status = "used", ![k].redeemed = TRUE]

Commit(h) ==
  LET k == handler[h].code IN
  /\ handler[h].pc = "write"
  /\ Unlock(k)
  /\ handler' = [handler EXCEPT ![h].pc = "idle"]
  /\ \/ Pay(k, handler[h].user) /\ UNCHANGED faults
     \/ StatementFails /\ UNCHANGED <<code, wallet, credits>>
  /\ UNCHANGED <<form, crashes>>

HandlerStep(h) == Begin(h) \/ Commit(h)

\* UpdateRedemption: the row is read and changed in memory (the dashboard
\* offers to enable or disable a code and to reprice it) ...
Edited(row, kind, status, q) ==
  IF kind = "status" THEN [row EXCEPT !.status = status] ELSE [row EXCEPT !.quota = q]

ReadRedemption(f) ==
  /\ form[f].pc = "idle" /\ code[form[f].code].row = "live"
  /\ \E kind \in {"status", "quota"}, status \in {"enabled", "disabled"}, q \in Quotas :
       form' = [form EXCEPT ![f].pc = "write", ![f].kind = kind,
                            ![f].copy = Edited(code[form[f].code], kind, status, q)]
  /\ UNCHANGED <<code, lock, wallet, credits, handler, crashes, faults>>

\* ... and name, status, quota and redeemed_time are written by a statement
\* that waits for a row lock.
UpdateRedemption(f) ==
  LET k == form[f].code IN
  /\ form[f].pc = "write" /\ LockFree(k)
  /\ code' = IF code[k].row = "live" THEN [code EXCEPT ![k] = form[f].copy] ELSE code
  /\ form' = [form EXCEPT ![f].pc = "done"]
  /\ UNCHANGED <<lock, wallet, credits, handler, crashes, faults>>

DeleteRedemption(k) ==
  /\ code[k].row = "live" /\ LockFree(k)
  /\ code' = [code EXCEPT ![k].row = "deleted"]
  /\ UNCHANGED <<lock, wallet, credits, handler, form, crashes, faults>>

\* The server dies: open transactions roll back, edits are forgotten.
Crash ==
  /\ crashes < MaxCrashes /\ crashes' = crashes + 1
  /\ handler' = [h \in Handlers |-> [handler[h] EXCEPT !.pc = "idle"]]
  /\ lock' = [k \in Codes |-> NoHandler]
  /\ form' = [f \in Forms |-> IF form[f].pc = "write" THEN [form[f] EXCEPT !.pc = "idle"] ELSE form[f]]
  /\ UNCHANGED <<code, wallet, credits, faults>>

Next ==
  \/ \E k \in Codes : AddRedemption(k) \/ DeleteRedemption(k)
  \/ \E h \in Handlers, k \in Codes, u \in Users : TopUp(h, k, u)
  \/ \E h \in Handlers : HandlerStep(h)
  \/ \E f \in Forms : ReadRedemption(f) \/ UpdateRedemption(f)
  \/ Crash

Spec == Init /\ [][Next]_vars

\* Handlers and the statements of a form are not left standing; a database
\* grants a contended lock to every waiter in the end.
FairSpec ==
  /\ Spec
  /\ \A h \in Handlers : SF_vars(HandlerStep(h))

-----------------------------------------------------------------------------
\* Code rows, locks and edit forms stay in their ranges, and neither a wallet
\* nor a count of credits goes below zero.
TypeOK ==
  /\ code \in [Codes -> CodeRow] /\ lock \in [Codes -> Handlers \cup {NoHandler}]
  /\ wallet \in [Users -> Nat] /\ credits \in [Codes -> Nat]
  /\ handler \in [Handlers -> Serving] /\ form \in [Forms -> Editing]
  /\ crashes \in Nat /\ faults \in Nat

\* A code that says it was used was paid out: whatever fails, crashes or is
\* edited in between, a user never loses a code for nothing.
UsedCodeWasPaid ==
  \A k \in Codes : code[k].status = "used" \/ code[k].redeemed => credits[k] >= 1

\* Only an edit can make a code pay again, and each edit at most once more
\* (redemption.go: without the lock two requests "both credit quota").
EditsOf(k) == {f \in Forms : form[f].code = k /\ form[f].pc = "done"}

CreditsBounded == \A k \in Codes : credits[k] <= 1 + Cardinality(EditsOf(k))

\* Every request to redeem a code is answered.
RequestsAnswered == \A h \in Handlers : handler[h].pc # "idle" ~> handler[h].pc = "idle"

\* redemption_concurrent_integration_test.go:66: a code must be "credited
\* exactly once even under concurrent redemption".  Renaming or repricing a
\* code is not re-enabling it.
RedeemedOnce ==
  \A k \in Codes : (\A f \in EditsOf(k) : form[f].kind = "quota") => credits[k] <= 1
=============================================================================
