-------------------------- MODULE RedemptionProofs --------------------------
(***************************************************************************)
(* Redemption for any number of codes, users, handlers and edit forms.     *)
(* The inductive invariant has three parts beside the types: what the row  *)
(* lock guarantees to a handler about to write, that the copy an edit      *)
(* holds tells the truth about a payment, and a potential: a code that may *)
(* still pay counts as one credit.                                         *)
(***************************************************************************)
EXTENDS Redemption, FiniteSetTheorems, TLAPS

\* A handler about to write holds the lock of an unused code.
Holds(h) ==
  handler[h].pc = "write" =>
    /\ lock[handler[h].code] = h
    /\ code[handler[h].code].status = "enabled"
    /\ code[handler[h].code].row # "absent"

LockInv == \A h \in Handlers : Holds(h)

\* A row, or a copy of it, that says used belongs to a code that was paid.
Truthful(row, k) == row.status = "used" \/ row.redeemed => credits[k] >= 1
CopyInv == \A f \in Forms : form[f].pc = "write" => Truthful(form[f].copy, form[f].code)

\* The credits a code has had, and the one it may still give.
Pending(k) == IF code[k].status = "used" THEN 0 ELSE 1
PotentialInv == \A k \in Codes : credits[k] + Pending(k) <= 1 + Cardinality(EditsOf(k))

\* A code that was never minted was never paid.
AbsentUnpaid == \A k \in Codes : code[k].row = "absent" => credits[k] = 0
CopyMinted == \A f \in Forms : form[f].pc = "write" => form[f].copy.row # "absent"

Inv == TypeOK /\ LockInv /\ CopyInv /\ UsedCodeWasPaid /\ PotentialInv
       /\ AbsentUnpaid /\ CopyMinted

-----------------------------------------------------------------------------
(* The edits saved on a code. *)

LEMMA EditsFinite == 
  ASSUME NEW k \in Codes
  PROVE  IsFiniteSet(EditsOf(k)) /\ Cardinality(EditsOf(k)) \in Nat
<1>1. EditsOf(k) \subseteq Forms BY DEF EditsOf
<1>2. IsFiniteSet(EditsOf(k)) BY <1>1, RedemptionAssumption, FS_Subset
<1>3. QED BY <1>2, FS_CardinalityType

\* A step that saves no edit leaves their number alone.
LEMMA EditsKept ==
  ASSUME form \in [Forms -> Editing], form' \in [Forms -> Editing],
         \A f \in Forms : /\ form'[f].code = form[f].code
                          /\ form'[f].pc = "done" <=> form[f].pc = "done",
         NEW k \in Codes
  PROVE  EditsOf(k)' = EditsOf(k)
BY DEF EditsOf

-----------------------------------------------------------------------------
(* The initial states. *)

LEMMA InitInv == Init => Inv
<1> SUFFICES ASSUME Init PROVE Inv OBVIOUS
<1>1. Unminted \in CodeRow BY DEF Unminted, CodeRow, Statuses
<1>2. handler \in [Handlers -> Serving] /\ \A h \in Handlers : handler[h].pc = "idle"
  BY DEF Init
<1>3. form \in [Forms -> Editing] /\ \A f \in Forms : form[f].pc = "idle"
  BY <1>1 DEF Init, Editing
<1>4. TypeOK BY <1>1, <1>2, <1>3 DEF Init, TypeOK
<1>5. LockInv BY <1>2 DEF LockInv, Holds
<1>6. CopyInv BY <1>3 DEF CopyInv
<1>7. UsedCodeWasPaid BY DEF Init, UsedCodeWasPaid, Unminted
<1>8. PotentialInv
  <2> SUFFICES ASSUME NEW k \in Codes PROVE credits[k] + Pending(k) <= 1 + Cardinality(EditsOf(k))
    BY DEF PotentialInv
  <2>1. credits[k] = 0 /\ Pending(k) = 1 BY DEF Init, Pending, Unminted
  <2>2. QED BY <2>1, EditsFinite
<1>9. AbsentUnpaid BY DEF Init, AbsentUnpaid
<1>10. CopyMinted BY <1>3 DEF CopyMinted
<1>11. QED BY <1>4, <1>5, <1>6, <1>7, <1>8, <1>9, <1>10 DEF Inv

-----------------------------------------------------------------------------
(* One lemma per action.  A step that changes neither rows, credits nor     *)
(* saved edits keeps the parts that speak of payments.                      *)

LEMMA PaymentsKept ==
  ASSUME Inv, UNCHANGED <<code, credits>>, form' \in [Forms -> Editing],
         \A f \in Forms : /\ form'[f].code = form[f].code
                          /\ form'[f].pc = "done" <=> form[f].pc = "done"
  PROVE  UsedCodeWasPaid' /\ PotentialInv'
<1>1. UsedCodeWasPaid' BY DEF Inv, UsedCodeWasPaid
<1>2. ASSUME NEW k \in Codes PROVE (credits[k] + Pending(k) <= 1 + Cardinality(EditsOf(k)))'
  <2>1. EditsOf(k)' = EditsOf(k) BY EditsKept DEF Inv, TypeOK
  <2>2. QED BY <2>1 DEF Inv, PotentialInv, Pending
<1>3. QED BY <1>1, <1>2 DEF PotentialInv

\* The same when the forms do not move at all.
LEMMA FormsIdle ==
  ASSUME Inv, UNCHANGED <<code, credits, form>>
  PROVE  CopyInv' /\ UsedCodeWasPaid' /\ PotentialInv'
<1>1. CopyInv' BY DEF Inv, CopyInv, Truthful
<1>2. QED BY <1>1, PaymentsKept DEF Inv, TypeOK

\* One handler's row changes.
LEMMA HandlerRow ==
  ASSUME Inv, NEW h \in Handlers, NEW w \in Serving, handler' = [handler EXCEPT ![h] = w]
  PROVE  /\ handler' \in [Handlers -> Serving] /\ handler'[h] = w
         /\ \A g \in Handlers \ {h} : handler'[g] = handler[g]
BY DEF Inv, TypeOK

LEMMA StepTopUp ==
  ASSUME Inv, NEW h \in Handlers, NEW k \in Codes, NEW u \in Users, TopUp(h, k, u)
  PROVE  Inv'
<1> DEFINE w == [pc |-> "begin", code |-> k, user |-> u]
<1>1. w \in Serving BY DEF Serving
<1>2. handler' = [handler EXCEPT ![h] = w] BY DEF TopUp
<1>3. /\ handler' \in [Handlers -> Serving] /\ handler'[h] = w
      /\ \A g \in Handlers \ {h} : handler'[g] = handler[g]
  BY <1>1, <1>2, HandlerRow
<1>4. TypeOK' BY <1>3 DEF TopUp, Inv, TypeOK
<1>5. LockInv' BY <1>3 DEF TopUp, Inv, LockInv, Holds
<1>6. QED BY <1>4, <1>5, FormsIdle DEF TopUp, Inv, AbsentUnpaid, CopyMinted

LEMMA StepBegin ==
  ASSUME Inv, NEW h \in Handlers, Begin(h)
  PROVE  Inv'
<1> DEFINE k == handler[h].code
<1>0. handler[h] \in Serving /\ k \in Codes BY DEF Inv, TypeOK, Serving
<1>1. PICK p \in {"idle", "write"} :
        /\ handler' = [handler EXCEPT ![h].pc = p]
        /\ p = "write" => Redeemable(k, handler[h].user) /\ lock' = [lock EXCEPT ![k] = h]
        /\ p = "idle" => UNCHANGED lock
  BY DEF Begin
<1> DEFINE w == [handler[h] EXCEPT !.pc = p]
<1>2. w \in Serving /\ w.pc = p /\ w.code = k BY <1>0 DEF Serving
<1>3. handler' = [handler EXCEPT ![h] = w] BY <1>1
<1>4. /\ handler' \in [Handlers -> Serving] /\ handler'[h] = w
      /\ \A g \in Handlers \ {h} : handler'[g] = handler[g]
  BY <1>2, <1>3, HandlerRow
<1>5. lock[k] = NoHandler /\ faults' \in Nat
  BY DEF Begin, LockFree, StatementFails, Inv, TypeOK
<1>6. lock' \in [Codes -> Handlers \cup {NoHandler}] BY <1>0, <1>1 DEF Inv, TypeOK
<1>7. TypeOK' BY <1>4, <1>5, <1>6 DEF Begin, Inv, TypeOK
<1>8. Holds(h)'
  BY <1>0, <1>1, <1>2, <1>4, <1>6 DEF Begin, Holds, Redeemable, Inv, TypeOK
<1>9. ASSUME NEW g \in Handlers \ {h} PROVE Holds(g)'
  <2>1. SUFFICES ASSUME handler[g].pc = "write" PROVE Holds(g)' BY <1>4 DEF Holds
  <2>2. handler[g].code \in Codes BY DEF Inv, TypeOK, Serving
  <2>3. /\ lock[handler[g].code] = g /\ code[handler[g].code].status = "enabled"
        /\ code[handler[g].code].row # "absent"
    BY <2>1 DEF Inv, LockInv, Holds
  <2>4. handler[g].code # k BY <1>5, <2>3, RedemptionAssumption
  <2>5. lock'[handler[g].code] = g BY <1>1, <2>2, <2>3, <2>4 DEF Inv, TypeOK
  <2>6. QED BY <1>4, <2>3, <2>5 DEF Begin, Holds
<1>10. LockInv' BY <1>8, <1>9 DEF LockInv
<1>11. QED BY <1>7, <1>10, FormsIdle DEF Begin, Inv, AbsentUnpaid, CopyMinted

\* A row changes while no handler holds its lock.
LEMMA LocksKept ==
  ASSUME Inv, NEW k \in Codes, LockFree(k), UNCHANGED <<lock, handler>>,
         \A j \in Codes \ {k} : code'[j] = code[j]
  PROVE  LockInv'
<1> SUFFICES ASSUME NEW h \in Handlers, handler[h].pc = "write" PROVE Holds(h)'
  BY DEF LockInv, Holds
<1>1. handler[h].code \in Codes BY DEF Inv, TypeOK, Serving
<1>2. /\ lock[handler[h].code] = h /\ code[handler[h].code].status = "enabled"
      /\ code[handler[h].code].row # "absent"
  BY DEF Inv, LockInv, Holds
<1>3. handler[h].code # k BY <1>2, RedemptionAssumption DEF LockFree
<1>4. QED BY <1>1, <1>2, <1>3 DEF Holds

LEMMA StepAdd ==
  ASSUME Inv, NEW k \in Codes, AddRedemption(k)
  PROVE  Inv'
<1>1. PICK q \in Quotas :
        code' = [code EXCEPT ![k] = [row |-> "live", status |-> "enabled",
                                     quota |-> Minted(q), redeemed |-> FALSE]]
  BY DEF AddRedemption
<1> DEFINE r == [row |-> "live", status |-> "enabled", quota |-> Minted(q), redeemed |-> FALSE]
<1>2. Minted(q) \in Nat BY RedemptionAssumption DEF Minted
<1>3. r \in CodeRow BY <1>2 DEF CodeRow, Statuses
<1>4. code' \in [Codes -> CodeRow] /\ code'[k] = r /\ \A j \in Codes \ {k} : code'[j] = code[j]
  BY <1>1, <1>3 DEF Inv, TypeOK
<1>5. TypeOK' BY <1>4 DEF AddRedemption, Inv, TypeOK
<1>6. LockInv'
  <2> SUFFICES ASSUME NEW h \in Handlers, handler[h].pc = "write" PROVE Holds(h)'
    BY DEF AddRedemption, LockInv, Holds
  <2>1. handler[h].code \in Codes BY DEF Inv, TypeOK, Serving
  <2>2. lock[handler[h].code] = h /\ code[handler[h].code].status = "enabled"
    BY DEF Inv, LockInv, Holds
  <2>3. code'[handler[h].code].status = "enabled" /\ code'[handler[h].code].row # "absent"
    BY <1>4, <2>1, <2>2 DEF Inv, LockInv, Holds
  <2>4. QED BY <2>2, <2>3 DEF AddRedemption, Holds
<1>7. CopyInv' BY DEF AddRedemption, Inv, CopyInv, Truthful
<1>8. UsedCodeWasPaid' BY <1>4 DEF AddRedemption, Inv, UsedCodeWasPaid
<1>9. ASSUME NEW j \in Codes PROVE (credits[j] + Pending(j) <= 1 + Cardinality(EditsOf(j)))'
  <2>1. EditsOf(j)' = EditsOf(j) BY DEF AddRedemption, EditsOf
  <2>2. credits[j] + Pending(j) <= 1 + Cardinality(EditsOf(j)) BY DEF Inv, PotentialInv
  <2>3. credits'[j] = credits[j] BY DEF AddRedemption
  <2>4. CASE j # k
    <3>1. Pending(j)' = Pending(j) BY <2>4, <1>4 DEF Pending
    <3>2. QED BY <2>1, <2>2, <2>3, <3>1
  <2>5. CASE j = k
    <3>1. credits[j] = 0 BY <2>5 DEF AddRedemption, Inv, AbsentUnpaid
    <3>2. Pending(j)' = 1 BY <2>5, <1>4 DEF Pending
    <3>3. Cardinality(EditsOf(j)) \in Nat BY EditsFinite
    <3>4. QED BY <2>1, <2>3, <3>1, <3>2, <3>3
  <2>6. QED BY <2>4, <2>5
<1>10. AbsentUnpaid' BY <1>4 DEF AddRedemption, Inv, AbsentUnpaid
<1>11. CopyMinted' BY DEF AddRedemption, Inv, CopyMinted
<1>12. QED BY <1>5, <1>6, <1>7, <1>8, <1>9, <1>10, <1>11 DEF Inv, PotentialInv

LEMMA StepDelete ==
  ASSUME Inv, NEW k \in Codes, DeleteRedemption(k)
  PROVE  Inv'
<1>1. code[k] \in CodeRow BY DEF Inv, TypeOK
<1> DEFINE r == [code[k] EXCEPT !.row = "deleted"]
<1>2. r \in CodeRow /\ r.status = code[k].status /\ r.redeemed = code[k].redeemed /\ r.row = "deleted"
  BY <1>1 DEF CodeRow
<1>3. code' = [code EXCEPT ![k] = r] BY DEF DeleteRedemption
<1>4. code' \in [Codes -> CodeRow] /\ code'[k] = r /\ \A j \in Codes \ {k} : code'[j] = code[j]
  BY <1>2, <1>3 DEF Inv, TypeOK
<1>5. TypeOK' BY <1>4 DEF DeleteRedemption, Inv, TypeOK
<1>6. LockInv' BY <1>4, LocksKept DEF DeleteRedemption
<1>7. CopyInv' BY DEF DeleteRedemption, Inv, CopyInv, Truthful
<1>8. UsedCodeWasPaid' BY <1>2, <1>4 DEF DeleteRedemption, Inv, UsedCodeWasPaid
<1>9. ASSUME NEW j \in Codes PROVE (credits[j] + Pending(j) <= 1 + Cardinality(EditsOf(j)))'
  <2>1. EditsOf(j)' = EditsOf(j) BY DEF DeleteRedemption, EditsOf
  <2>2. Pending(j)' = Pending(j) BY <1>2, <1>4 DEF Pending
  <2>3. QED BY <2>1, <2>2 DEF DeleteRedemption, Inv, PotentialInv
<1>10. AbsentUnpaid' BY <1>2, <1>4 DEF DeleteRedemption, Inv, AbsentUnpaid
<1>11. CopyMinted' BY DEF DeleteRedemption, Inv, CopyMinted
<1>12. QED BY <1>5, <1>6, <1>7, <1>8, <1>9, <1>10, <1>11 DEF Inv, PotentialInv

LEMMA StepCommit ==
  ASSUME Inv, NEW h \in Handlers, Commit(h)
  PROVE  Inv'
<1> DEFINE k == handler[h].code
           w == [handler[h] EXCEPT !.pc = "idle"]
<1>1. handler[h] \in Serving /\ k \in Codes /\ handler[h].user \in Users
  BY DEF Inv, TypeOK, Serving
<1>2. w \in Serving /\ w.pc = "idle" BY <1>1 DEF Serving
<1>3. handler' = [handler EXCEPT ![h] = w] BY DEF Commit
<1>4. /\ handler' \in [Handlers -> Serving] /\ handler'[h] = w
      /\ \A g \in Handlers \ {h} : handler'[g] = handler[g]
  BY <1>2, <1>3, HandlerRow
<1>5. lock[k] = h /\ code[k].status = "enabled" /\ code[k] \in CodeRow
  BY <1>1 DEF Commit, Inv, LockInv, Holds, TypeOK
<1>6. lock' \in [Codes -> Handlers \cup {NoHandler}] /\ \A j \in Codes \ {k} : lock'[j] = lock[j]
  BY <1>1 DEF Commit, Unlock, Inv, TypeOK
<1>7. UNCHANGED form BY DEF Commit
<1>8. faults' \in Nat BY DEF Commit, StatementFails, Inv, TypeOK
<1>9. ASSUME NEW g \in Handlers, \A j \in Codes \ {k} : code'[j] = code[j] PROVE Holds(g)'
  <2>1. CASE g = h BY <2>1, <1>2, <1>4 DEF Holds
  <2>2. CASE g # h
    <3>1. SUFFICES ASSUME handler[g].pc = "write" PROVE Holds(g)' BY <2>2, <1>4 DEF Holds
    <3>2. handler[g].code \in Codes BY DEF Inv, TypeOK, Serving
    <3>3. /\ lock[handler[g].code] = g /\ code[handler[g].code].status = "enabled"
          /\ code[handler[g].code].row # "absent"
      BY <3>1 DEF Inv, LockInv, Holds
    <3>4. handler[g].code # k BY <2>2, <3>3, <1>5
    <3>5. QED BY <2>2, <1>4, <1>6, <1>9, <3>2, <3>3, <3>4 DEF Holds
  <2>3. QED BY <2>1, <2>2
<1>10. CASE Pay(k, handler[h].user)
  <2> DEFINE r == [code[k] EXCEPT !.status = "used", !.redeemed = TRUE]
  <2>1. r \in CodeRow /\ r.status = "used" /\ r.redeemed = TRUE /\ r.row = code[k].row BY <1>5 DEF CodeRow, Statuses
  <2>2. code' = [code EXCEPT ![k] = r] BY <1>10, <1>5 DEF Pay, Inv, TypeOK
  <2>3. code' \in [Codes -> CodeRow] /\ code'[k] = r /\ \A j \in Codes \ {k} : code'[j] = code[j]
    BY <1>1, <2>1, <2>2 DEF Inv, TypeOK
  <2>4. /\ credits' \in [Codes -> Nat] /\ credits'[k] = credits[k] + 1
        /\ \A j \in Codes \ {k} : credits'[j] = credits[j]
    BY <1>10, <1>1 DEF Pay, Inv, TypeOK
  <2>5. code[k].quota \in Nat BY <1>5 DEF CodeRow
  <2>6. wallet' \in [Users -> Nat] BY <1>10, <1>1, <2>5 DEF Pay, Inv, TypeOK
  <2>7. TypeOK' BY <1>4, <1>6, <1>7, <1>8, <2>3, <2>4, <2>6 DEF Commit, Inv, TypeOK
  <2>8. LockInv' BY <1>9, <2>3 DEF LockInv
  <2>9. \A j \in Codes : credits'[j] >= credits[j] BY <2>4 DEF Inv, TypeOK
  <2>10. CopyInv'
    <3>1. ASSUME NEW f \in Forms, form[f].pc = "write" PROVE Truthful(form[f].copy, form[f].code)'
      <4>1. form[f].code \in Codes BY DEF Inv, TypeOK, Editing
      <4>2. Truthful(form[f].copy, form[f].code) BY <3>1 DEF Inv, CopyInv
      <4>3. credits[form[f].code] \in Nat /\ credits'[form[f].code] \in Nat /\ credits'[form[f].code] >= credits[form[f].code]
        BY <4>1, <2>4, <2>9 DEF Inv, TypeOK
      <4>4. QED BY <1>7, <4>2, <4>3 DEF Truthful
    <3>2. QED BY <1>7, <3>1 DEF CopyInv
  <2>11. UsedCodeWasPaid'
    <3>1. credits[k] \in Nat BY <1>1 DEF Inv, TypeOK
    <3>2. QED BY <2>3, <2>4, <3>1 DEF Inv, UsedCodeWasPaid
  <2>12. ASSUME NEW j \in Codes PROVE (credits[j] + Pending(j) <= 1 + Cardinality(EditsOf(j)))'
    <3>1. EditsOf(j)' = EditsOf(j) BY <1>7 DEF EditsOf
    <3>2. credits[j] + Pending(j) <= 1 + Cardinality(EditsOf(j)) BY DEF Inv, PotentialInv
    <3>3. CASE j # k
      <4>1. credits'[j] = credits[j] /\ Pending(j)' = Pending(j) BY <3>3, <2>3, <2>4 DEF Pending
      <4>2. QED BY <3>1, <3>2, <4>1
    <3>4. CASE j = k
      <4>1. credits'[j] = credits[j] + 1 /\ Pending(j)' = 0 /\ Pending(j) = 1
        BY <3>4, <1>5, <2>1, <2>3, <2>4 DEF Pending
      <4>2. credits[j] \in Nat /\ Cardinality(EditsOf(j)) \in Nat BY EditsFinite DEF Inv, TypeOK
      <4>3. QED BY <3>1, <3>2, <4>1, <4>2
    <3>5. QED BY <3>3, <3>4
  <2>13. AbsentUnpaid'
    <3>1. code[k].row # "absent" BY <1>1 DEF Commit, Inv, LockInv, Holds
    <3>2. QED BY <2>1, <2>3, <2>4, <3>1 DEF Inv, AbsentUnpaid
  <2>14. CopyMinted' BY <1>7 DEF Inv, CopyMinted
  <2>15. QED BY <2>7, <2>8, <2>10, <2>11, <2>12, <2>13, <2>14 DEF Inv, PotentialInv
<1>11. CASE UNCHANGED <<code, wallet, credits>>
  <2>1. TypeOK' BY <1>4, <1>6, <1>7, <1>8, <1>11 DEF Commit, Inv, TypeOK
  <2>2. LockInv' BY <1>9, <1>11 DEF LockInv
  <2>3. QED BY <2>1, <2>2, <1>7, <1>11, FormsIdle DEF Inv, AbsentUnpaid, CopyMinted
<1>12. QED BY <1>10, <1>11 DEF Commit

LEMMA StepRead ==
  ASSUME Inv, NEW f \in Forms, ReadRedemption(f)
  PROVE  Inv'
<1> DEFINE k == form[f].code
<1>1. form[f] \in Editing /\ k \in Codes /\ code[k] \in CodeRow BY DEF Inv, TypeOK, Editing
<1>2. PICK kind \in {"status", "quota"}, status \in {"enabled", "disabled"}, q \in Quotas :
        form' = [form EXCEPT ![f].pc = "write", ![f].kind = kind,
                             ![f].copy = Edited(code[k], kind, status, q)]
  BY DEF ReadRedemption
<1> DEFINE copy == Edited(code[k], kind, status, q)
           e == [form[f] EXCEPT !.pc = "write", !.kind = kind, !.copy = copy]
<1>3. copy \in CodeRow /\ copy.redeemed = code[k].redeemed
      /\ (copy.status = "used" => code[k].status = "used")
  BY <1>1, RedemptionAssumption DEF Edited, CodeRow, Statuses
<1>4. e \in Editing /\ e.code = k /\ e.pc = "write" /\ e.copy = copy BY <1>1, <1>3 DEF Editing
<1>5. form' = [form EXCEPT ![f] = e] BY <1>2
<1>6. form' \in [Forms -> Editing] /\ form'[f] = e /\ \A g \in Forms \ {f} : form'[g] = form[g]
  BY <1>4, <1>5 DEF Inv, TypeOK
<1>7. TypeOK' BY <1>6 DEF ReadRedemption, Inv, TypeOK
<1>8. LockInv' BY DEF ReadRedemption, Inv, LockInv, Holds
<1>9. CopyInv'
  <2>1. Truthful(code[k], k) BY <1>1 DEF Inv, UsedCodeWasPaid, Truthful
  <2>3. ASSUME NEW g \in Forms, g # f, form[g].pc = "write"
        PROVE  Truthful(form[g].copy, form[g].code)'
    BY <2>3, <1>6 DEF Inv, CopyInv, Truthful, ReadRedemption
  <2>2. form'[f].copy = copy /\ form'[f].code = k /\ credits' = credits
    BY <1>4, <1>6 DEF ReadRedemption
  <2>4. Truthful(form[f].copy, form[f].code)' BY <2>1, <2>2, <1>3 DEF Truthful
  <2>5. QED BY <2>3, <2>4, <1>6 DEF CopyInv
<1>10. \A g \in Forms : form'[g].code = form[g].code /\ (form'[g].pc = "done" <=> form[g].pc = "done")
  BY <1>4, <1>6 DEF ReadRedemption
<1>11. UsedCodeWasPaid' /\ PotentialInv' BY <1>6, <1>10, PaymentsKept DEF ReadRedemption
<1>12. CopyMinted'
  <2>1. copy.row = code[k].row BY <1>1 DEF Edited, CodeRow
  <2>2. copy.row # "absent" BY <2>1 DEF ReadRedemption
  <2>3. QED BY <2>2, <1>4, <1>6 DEF Inv, CopyMinted
<1>13. QED BY <1>7, <1>8, <1>9, <1>11, <1>12 DEF ReadRedemption, Inv, AbsentUnpaid

LEMMA StepUpdate ==
  ASSUME Inv, NEW f \in Forms, UpdateRedemption(f)
  PROVE  Inv'
<1> DEFINE k == form[f].code
           e == [form[f] EXCEPT !.pc = "done"]
<1>1. form[f] \in Editing /\ k \in Codes /\ form[f].copy \in CodeRow /\ form[f].pc = "write"
  BY DEF Inv, TypeOK, Editing, UpdateRedemption
<1>2. e \in Editing /\ e.code = k /\ e.pc = "done" BY <1>1 DEF Editing
<1>3. form' = [form EXCEPT ![f] = e] BY DEF UpdateRedemption
<1>4. form' \in [Forms -> Editing] /\ form'[f] = e /\ \A g \in Forms \ {f} : form'[g] = form[g]
  BY <1>2, <1>3 DEF Inv, TypeOK
<1>5. /\ code' \in [Codes -> CodeRow] /\ \A j \in Codes \ {k} : code'[j] = code[j]
      /\ code'[k] = form[f].copy \/ code'[k] = code[k]
      /\ code'[k].row = "absent" => code[k].row = "absent" \/ code'[k] = form[f].copy
  BY <1>1 DEF UpdateRedemption, Inv, TypeOK
<1>6. TypeOK' BY <1>4, <1>5 DEF UpdateRedemption, Inv, TypeOK
<1>7. LockInv' BY <1>1, <1>5, LocksKept DEF UpdateRedemption
<1>8. credits' = credits BY DEF UpdateRedemption
<1>9. CopyInv' BY <1>2, <1>4, <1>8 DEF Inv, CopyInv, Truthful
<1>10. Truthful(form[f].copy, k) BY <1>1 DEF Inv, CopyInv
<1>11. UsedCodeWasPaid' BY <1>1, <1>5, <1>8, <1>10 DEF Inv, UsedCodeWasPaid, Truthful
<1>12. ASSUME NEW j \in Codes PROVE (credits[j] + Pending(j) <= 1 + Cardinality(EditsOf(j)))'
  <2>1. credits[j] + Pending(j) <= 1 + Cardinality(EditsOf(j)) BY DEF Inv, PotentialInv
  <2>2. IsFiniteSet(EditsOf(j)) /\ Cardinality(EditsOf(j)) \in Nat BY EditsFinite
  <2>3. CASE j # k
    <3>1. EditsOf(j)' = EditsOf(j) BY <2>3, <1>1, <1>2, <1>4 DEF EditsOf
    <3>2. Pending(j)' = Pending(j) BY <2>3, <1>5 DEF Pending
    <3>3. QED BY <1>8, <2>1, <3>1, <3>2
  <2>4. CASE j = k
    <3>1. EditsOf(j)' = EditsOf(j) \cup {f} BY <2>4, <1>2, <1>4 DEF EditsOf
    <3>2. f \notin EditsOf(j) BY <1>1 DEF EditsOf
    <3>3. Cardinality(EditsOf(j)') = Cardinality(EditsOf(j)) + 1
      BY <2>2, <3>1, <3>2, FS_AddElement
    <3>4. Pending(j)' \in {0, 1} /\ Pending(j) \in {0, 1} BY DEF Pending
    <3>5. credits[j] \in Nat BY DEF Inv, TypeOK
    <3>6. QED BY <1>8, <2>1, <2>2, <3>3, <3>4, <3>5
  <2>5. QED BY <2>3, <2>4
<1>13. AbsentUnpaid' BY <1>1, <1>5, <1>8 DEF Inv, AbsentUnpaid, CopyMinted
<1>14. CopyMinted' BY <1>2, <1>4 DEF Inv, CopyMinted
<1>15. QED BY <1>6, <1>7, <1>9, <1>11, <1>12, <1>13, <1>14 DEF Inv, PotentialInv

LEMMA StepCrash ==
  ASSUME Inv, Crash
  PROVE  Inv'
<1>1. handler' \in [Handlers -> Serving] /\ \A h \in Handlers : handler'[h].pc = "idle"
  BY DEF Crash, Inv, TypeOK, Serving
<1>2. lock' \in [Codes -> Handlers \cup {NoHandler}] BY DEF Crash
<1>3. ASSUME NEW f \in Forms
      PROVE  /\ form'[f] \in Editing /\ form'[f].code = form[f].code
             /\ form'[f].pc = "done" <=> form[f].pc = "done"
             /\ form'[f].pc # "write"
  <2>1. form[f] \in Editing BY DEF Inv, TypeOK
  <2>2. form'[f] = IF form[f].pc = "write" THEN [form[f] EXCEPT !.pc = "idle"] ELSE form[f]
    BY DEF Crash
  <2>3. QED BY <2>1, <2>2 DEF Editing
<1>4. form' \in [Forms -> Editing] BY <1>3 DEF Crash
<1>5. TypeOK' BY <1>1, <1>2, <1>4 DEF Crash, Inv, TypeOK
<1>6. LockInv' BY <1>1 DEF LockInv, Holds
<1>7. CopyInv' /\ CopyMinted' BY <1>3 DEF CopyInv, CopyMinted
<1>8. UsedCodeWasPaid' /\ PotentialInv' BY <1>3, <1>4, PaymentsKept DEF Crash
<1>9. QED BY <1>5, <1>6, <1>7, <1>8 DEF Crash, Inv, AbsentUnpaid

LEMMA StepInv == Inv /\ [Next]_vars => Inv'
<1> SUFFICES ASSUME Inv, [Next]_vars PROVE Inv' OBVIOUS
<1>1. CASE \E k \in Codes : AddRedemption(k) BY <1>1, StepAdd
<1>2. CASE \E k \in Codes : DeleteRedemption(k) BY <1>2, StepDelete
<1>3. CASE \E h \in Handlers, k \in Codes, u \in Users : TopUp(h, k, u) BY <1>3, StepTopUp
<1>4. CASE \E h \in Handlers : Begin(h) BY <1>4, StepBegin
<1>5. CASE \E h \in Handlers : Commit(h) BY <1>5, StepCommit
<1>6. CASE \E f \in Forms : ReadRedemption(f) BY <1>6, StepRead
<1>7. CASE \E f \in Forms : UpdateRedemption(f) BY <1>7, StepUpdate
<1>8. CASE Crash BY <1>8, StepCrash
<1>9. CASE UNCHANGED vars
  <2>1. TypeOK' /\ LockInv' BY <1>9 DEF vars, Inv, TypeOK, LockInv, Holds
  <2>2. QED BY <2>1, <1>9, FormsIdle DEF vars, Inv, AbsentUnpaid, CopyMinted
<1>10. QED BY <1>1, <1>2, <1>3, <1>4, <1>5, <1>6, <1>7, <1>8, <1>9 DEF Next, HandlerStep

-----------------------------------------------------------------------------
\* Every reachable state satisfies the inductive invariant.
THEOREM Invariance == Spec => []Inv
<1>1. QED BY InitInv, StepInv, PTL DEF Spec

\* Redeem, UpdateRedemption and the other handlers keep the types of their rows.
THEOREM TypeCorrect == Spec => []TypeOK
<1>1. Inv => TypeOK BY DEF Inv
<1>2. QED BY <1>1, Invariance, PTL

\* A code that says it was used was paid out (Redeem).
THEOREM UsedCodesWerePaid == Spec => []UsedCodeWasPaid
<1>1. Inv => UsedCodeWasPaid BY DEF Inv
<1>2. QED BY <1>1, Invariance, PTL

\* Only an edit can make a code pay again (the row lock of Redeem).
THEOREM OnlyEditsReopen == Spec => []CreditsBounded
<1>1. Inv => CreditsBounded
  <2> SUFFICES ASSUME Inv, NEW k \in Codes PROVE credits[k] <= 1 + Cardinality(EditsOf(k))
    BY DEF CreditsBounded
  <2>1. credits[k] + Pending(k) <= 1 + Cardinality(EditsOf(k)) BY DEF Inv, PotentialInv
  <2>2. Pending(k) \in {0, 1} /\ credits[k] \in Nat /\ Cardinality(EditsOf(k)) \in Nat
    BY EditsFinite DEF Pending, Inv, TypeOK
  <2>3. QED BY <2>1, <2>2
<1>2. QED BY <1>1, Invariance, PTL
=============================================================================
