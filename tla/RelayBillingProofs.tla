------------------------- MODULE RelayBillingProofs -------------------------
(***************************************************************************)
(* Proofs about RelayBilling for any requests, tokens, users, edits,       *)
(* estimates, bills and limits.                                            *)
(***************************************************************************)
EXTENDS RelayBilling, SumTheorems

-----------------------------------------------------------------------------
(* Type correctness. *)

LEMMA CallShape ==
  ASSUME NEW c \in Calls
  PROVE  /\ c = <<c[1], c[2]>> /\ c[1] \in Requests /\ c[2] \in 1 .. RetryTimes + 1
         /\ Key(c) \in Tokens /\ Payer(c) \in Users
         /\ c[2] <= RetryTimes => NextCall(c) \in Calls
BY RelayAssumption DEF Calls, Key, Payer, NextCall

\* Rewriting one row of call leaves the other rows alone and keeps the type.
LEMMA RowWritten ==
  ASSUME call \in [Calls -> CallRow], NEW c \in Calls, NEW r \in CallRow,
         call' = [call EXCEPT ![c] = r]
  PROVE  /\ call' \in [Calls -> CallRow] /\ call'[c] = r
         /\ \A d \in Calls \ {c} : call'[d] = call[d]
OBVIOUS

Others(c) == \A d \in Calls \ {c} : call'[d] = call[d]

LEMMA MoveRow ==
  ASSUME call \in [Calls -> CallRow], NEW c \in Calls, NEW pc \in Steps, Move(c, pc)
  PROVE  /\ call' \in [Calls -> CallRow] /\ Others(c)
         /\ call'[c] = [call[c] EXCEPT !.pc = pc]
<1>1. call[c] \in CallRow OBVIOUS
<1>2. [call[c] EXCEPT !.pc = pc] \in CallRow BY <1>1 DEF CallRow
<1>3. call' = [call EXCEPT ![c] = [call[c] EXCEPT !.pc = pc]] BY DEF Move
<1>4. QED BY <1>2, <1>3 DEF Others

LEMMA EndRow ==
  ASSUME call \in [Calls -> CallRow], NEW c \in Calls, NEW o \in Outcomes, End(c, o)
  PROVE  /\ call' \in [Calls -> CallRow] /\ Others(c)
         /\ call'[c] = [call[c] EXCEPT !.pc = "done", !.outcome = o]
<1>1. call[c] \in CallRow OBVIOUS
<1>2. [call[c] EXCEPT !.pc = "done", !.outcome = o] \in CallRow BY <1>1 DEF CallRow, Steps
<1>3. call' = [call EXCEPT ![c] = [call[c] EXCEPT !.pc = "done", !.outcome = o]] BY DEF End
<1>4. QED BY <1>2, <1>3 DEF Others

LEMMA DrawTokenType ==
  ASSUME token \in [Tokens -> TokenRow], NEW k \in Tokens, NEW a \in Int, DrawToken(k, a)
  PROVE  token' \in [Tokens -> TokenRow] /\ \A j \in Tokens : token'[j].live = token[j].live
<1>1. token[k] \in TokenRow OBVIOUS
<1>2. token[k].remain \in Int /\ token[k].used \in Int BY <1>1 DEF TokenRow
<1>3. CASE token[k].live
  <2> DEFINE r == [token[k] EXCEPT !.remain = @ - a, !.used = @ + a]
  <2>0. token[k].remain - a \in Int /\ token[k].used + a \in Int BY <1>2
  <2>1. r \in TokenRow BY <1>1, <2>0 DEF TokenRow
  <2>2. token' = [token EXCEPT ![k] = r] BY <1>3 DEF DrawToken
  <2>3. r.live = token[k].live BY <1>1 DEF TokenRow
  <2>4. QED BY <2>1, <2>2, <2>3
<1>4. CASE ~token[k].live
  BY <1>4 DEF DrawToken
<1>5. QED BY <1>3, <1>4

LEMMA DrawWalletType ==
  ASSUME wallet \in [Users -> Int], NEW u \in Users, NEW a \in Int, DrawWallet(u, a)
  PROVE  wallet' \in [Users -> Int]
BY DEF DrawWallet

LEMMA TypeInit == Init => TypeOK
<1> SUFFICES ASSUME Init PROVE TypeOK OBVIOUS
<1>1. \A free \in BOOLEAN : NewToken(free) \in TokenRow
  BY RelayAssumption DEF NewToken, TokenRow
<1>2. NewCall \in CallRow
  BY DEF NewCall, CallRow, Steps, Outcomes
<1>3. \A k \in Tokens : [pc |-> "idle", token |-> k, row |-> NewToken(FALSE), statusOnly |-> FALSE] \in Editing
  BY <1>1 DEF Editing
<1>4. token \in [Tokens -> TokenRow] /\ form \in [Forms -> Editing]
  <2>1. {NewToken(free) : free \in BOOLEAN} \subseteq TokenRow BY <1>1
  <2>2. {[pc |-> "idle", token |-> k, row |-> NewToken(FALSE), statusOnly |-> FALSE] : k \in Tokens}
          \subseteq Editing
    BY <1>3
  <2>3. QED BY <2>1, <2>2 DEF Init
<1>5. wallet \in [Users -> Int] /\ call \in [Calls -> CallRow] /\ crashes \in Nat /\ faults \in Nat
  BY <1>2, RelayAssumption DEF Init
<1>6. QED BY <1>4, <1>5 DEF TypeOK

\* What every step of a call keeps: the types, and the rows of other calls.
CallKept(c) ==
  /\ wallet' \in [Users -> Int]
  /\ token' \in [Tokens -> TokenRow] /\ \A k \in Tokens : token'[k].live = token[k].live
  /\ call' \in [Calls -> CallRow] /\ Others(c)
  /\ faults' \in Nat /\ faults' >= faults

LEMMA FaultsGrow ==
  ASSUME faults \in Nat, StatementFails \/ UNCHANGED faults
  PROVE  faults' \in Nat /\ faults' >= faults
BY DEF StatementFails

LEMMA KeepAuthenticate ==
  ASSUME TypeOK, NEW c \in Calls, Authenticate(c) PROVE CallKept(c)
<1>1. call' \in [Calls -> CallRow] /\ Others(c)
  BY MoveRow, EndRow DEF Authenticate, TypeOK, Steps, Reserving, Outcomes
<1>2. QED BY <1>1 DEF Authenticate, TypeOK, CallKept

LEMMA KeepMark ==
  ASSUME TypeOK, NEW c \in Calls, MarkExhausted(c) PROVE CallKept(c)
<1>1. call' \in [Calls -> CallRow] /\ Others(c)
  BY EndRow DEF MarkExhausted, TypeOK, Outcomes
<1>2. token' \in [Tokens -> TokenRow] /\ \A k \in Tokens : token'[k].live = token[k].live
  <2>1. CASE UNCHANGED token BY <2>1 DEF TypeOK
  <2>2. CASE token' = [token EXCEPT ![Key(c)].status = "exhausted"]
    <3>1. Key(c) \in Tokens /\ token[Key(c)] \in TokenRow BY CallShape DEF TypeOK
    <3> DEFINE r == [token[Key(c)] EXCEPT !.status = "exhausted"]
    <3>2. r \in TokenRow /\ r.live = token[Key(c)].live BY <3>1 DEF TokenRow
    <3>3. token' = [token EXCEPT ![Key(c)] = r] BY <2>2
    <3>4. QED BY <3>1, <3>2, <3>3 DEF TypeOK
  <2>3. QED BY <2>1, <2>2 DEF MarkExhausted
<1>3. QED BY <1>1, <1>2, FaultsGrow DEF MarkExhausted, TypeOK, CallKept

LEMMA KeepEstimate ==
  ASSUME TypeOK, NEW c \in Calls, Estimate(c) PROVE CallKept(c)
<1>1. call' \in [Calls -> CallRow] /\ Others(c)
  <2>1. CASE \E q \in Estimates : call' = [call EXCEPT ![c].pc = "load", ![c].held = q]
    <3>1. PICK q \in Estimates : call' = [call EXCEPT ![c].pc = "load", ![c].held = q] BY <2>1
    <3>2. q \in Int /\ call[c] \in CallRow BY RelayAssumption DEF TypeOK
    <3> DEFINE r == [call[c] EXCEPT !.pc = "load", !.held = q]
    <3>3. r \in CallRow BY <3>2 DEF CallRow, Steps, Reserving
    <3>4. call' = [call EXCEPT ![c] = r] BY <3>1
    <3>5. QED BY <3>3, <3>4, RowWritten DEF TypeOK, Others
  <2>2. CASE End(c, "refused") \/ Move(c, "upstream")
    BY <2>2, MoveRow, EndRow DEF TypeOK, Steps, Outcomes
  <2>3. QED BY <2>1, <2>2 DEF Estimate
<1>2. QED BY <1>1, FaultsGrow DEF Estimate, TypeOK, CallKept

LEMMA KeepLoad ==
  ASSUME TypeOK, NEW c \in Calls, LoadToken(c) PROVE CallKept(c)
<1>1. call' \in [Calls -> CallRow] /\ Others(c)
  <2> DEFINE w == token[Key(c)].unlimited
             r == [call[c] EXCEPT !.capped = ~w, !.pc = IF w THEN "debitUser" ELSE "debitToken"]
  <2>1. CASE call' = [call EXCEPT ![c].capped = ~w, ![c].pc = IF w THEN "debitUser" ELSE "debitToken"]
    <3>1. call[c] \in CallRow /\ (~w) \in BOOLEAN BY DEF TypeOK
    <3>2. r \in CallRow BY <3>1 DEF CallRow, Steps, Reserving
    <3>3. call' = [call EXCEPT ![c] = r] BY <2>1
    <3>4. QED BY <3>2, <3>3, RowWritten DEF TypeOK, Others
  <2>2. CASE End(c, "refused")
    BY <2>2, EndRow DEF TypeOK, Outcomes
  <2>3. QED BY <2>1, <2>2 DEF LoadToken
<1>2. QED BY <1>1, FaultsGrow DEF LoadToken, TypeOK, CallKept

LEMMA KeepDebitToken ==
  ASSUME TypeOK, NEW c \in Calls, DebitToken(c) PROVE CallKept(c)
<1>0. call[c] \in CallRow /\ call[c].held \in Int /\ Key(c) \in Tokens
  BY CallShape DEF TypeOK, CallRow
<1>1. call' \in [Calls -> CallRow] /\ Others(c)
  <2> DEFINE r == [call[c] EXCEPT !.pc = "debitUser", !.drawn = call[c].held]
  <2>1. CASE call' = [call EXCEPT ![c].pc = "debitUser", ![c].drawn = call[c].held]
    <3>1. r \in CallRow BY <1>0 DEF CallRow, Steps, Reserving
    <3>2. call' = [call EXCEPT ![c] = r] BY <2>1
    <3>3. QED BY <3>1, <3>2, RowWritten DEF TypeOK, Others
  <2>2. CASE End(c, "refused")
    BY <2>2, EndRow DEF TypeOK, Outcomes
  <2>3. QED BY <2>1, <2>2 DEF DebitToken
<1>2. token' \in [Tokens -> TokenRow] /\ \A k \in Tokens : token'[k].live = token[k].live
  BY <1>0, DrawTokenType DEF DebitToken, TypeOK
<1>3. UNCHANGED wallet /\ faults' \in Nat /\ faults' >= faults
  BY FaultsGrow DEF DebitToken, TypeOK
<1>4. QED BY <1>1, <1>2, <1>3 DEF TypeOK, CallKept

LEMMA KeepDebitUser ==
  ASSUME TypeOK, NEW c \in Calls, DebitUser(c) PROVE CallKept(c)
<1>0. call[c] \in CallRow /\ call[c].held \in Int /\ Payer(c) \in Users
  BY CallShape DEF TypeOK, CallRow
<1>1. call' \in [Calls -> CallRow] /\ Others(c)
  <2> DEFINE r == [call[c] EXCEPT !.pc = "upstream", !.charged = call[c].held]
  <2>1. CASE call' = [call EXCEPT ![c].pc = "upstream", ![c].charged = call[c].held]
    <3>1. r \in CallRow BY <1>0 DEF CallRow, Steps
    <3>2. call' = [call EXCEPT ![c] = r] BY <2>1
    <3>3. QED BY <3>1, <3>2, RowWritten DEF TypeOK, Others
  <2>2. CASE UndoOrRefuse(c)
    BY <2>2, EndRow, MoveRow DEF UndoOrRefuse, TypeOK, Outcomes, Steps, Reserving
  <2>3. QED BY <2>1, <2>2 DEF DebitUser
<1>2. wallet' \in [Users -> Int]
  BY <1>0, DrawWalletType DEF DebitUser, TypeOK
<1>3. UNCHANGED token /\ faults' \in Nat /\ faults' >= faults
  BY FaultsGrow DEF DebitUser, TypeOK
<1>4. QED BY <1>1, <1>2, <1>3 DEF TypeOK, CallKept

LEMMA DrawnType ==
  ASSUME TypeOK, NEW c \in Calls, NEW a \in Int PROVE Drawn(c, a) \in Int
<1>1. call[c].drawn \in Int BY DEF TypeOK, CallRow
<1>2. QED BY <1>1 DEF Drawn

LEMMA KeepRollBack ==
  ASSUME TypeOK, NEW c \in Calls, RollBack(c) PROVE CallKept(c)
<1>0. call[c] \in CallRow /\ -call[c].held \in Int /\ Key(c) \in Tokens
  BY CallShape DEF TypeOK, CallRow
<1>1. call' \in [Calls -> CallRow] /\ Others(c)
  <2> DEFINE x == Drawn(c, -call[c].held)
             r == [call[c] EXCEPT !.pc = "done", !.outcome = "refused", !.drawn = x]
  <2>1. CASE call' = [call EXCEPT ![c].pc = "done", ![c].outcome = "refused", ![c].drawn = x]
    <3>1. x \in Int BY <1>0, DrawnType
    <3>2. r \in CallRow BY <1>0, <3>1 DEF CallRow, Steps, Outcomes
    <3>3. call' = [call EXCEPT ![c] = r] BY <2>1
    <3>4. QED BY <3>2, <3>3, RowWritten DEF TypeOK, Others
  <2>2. CASE End(c, "refused")
    BY <2>2, EndRow DEF TypeOK, Outcomes
  <2>3. QED BY <2>1, <2>2 DEF RollBack
<1>2. token' \in [Tokens -> TokenRow] /\ \A k \in Tokens : token'[k].live = token[k].live
  BY <1>0, DrawTokenType DEF RollBack, TypeOK
<1>3. UNCHANGED wallet /\ faults' \in Nat /\ faults' >= faults
  BY FaultsGrow DEF RollBack, TypeOK
<1>4. QED BY <1>1, <1>2, <1>3 DEF TypeOK, CallKept

LEMMA KeepUpstream ==
  ASSUME TypeOK, NEW c \in Calls, UpstreamStep(c) PROVE CallKept(c)
<1>0. call[c] \in CallRow /\ call[c].held \in Int
  BY DEF TypeOK, CallRow
<1>1. call' \in [Calls -> CallRow] /\ Others(c)
  <2>1. CASE RequestNotMade(c) \/ AnswerWithoutUsage(c)
    BY <2>1, EndRow DEF RequestNotMade, AnswerWithoutUsage, TypeOK, Outcomes
  <2>2. CASE UpstreamRejects(c)
    <3> DEFINE pc == IF call[c].held = 0 THEN "done" ELSE "payLoad"
               r == [call[c] EXCEPT !.outcome = "error", !.delta = ReturnedDelta(c), !.pc = pc]
    <3>1. ReturnedDelta(c) \in Int /\ pc \in Steps BY <1>0 DEF ReturnedDelta, Steps, Paying
    <3>2. r \in CallRow BY <1>0, <3>1 DEF CallRow, Outcomes
    <3>3. call' = [call EXCEPT ![c] = r] BY <2>2 DEF UpstreamRejects
    <3>4. QED BY <3>2, <3>3, RowWritten DEF TypeOK, Others
  <2>3. CASE UpstreamServes(c)
    <3>1. PICK b \in Bills :
            call' = [call EXCEPT ![c].outcome = "served", ![c].bill = b,
                                 ![c].delta = SettledDelta(c, b), ![c].pc = "payLoad"]
      BY <2>3 DEF UpstreamServes
    <3> DEFINE r == [call[c] EXCEPT !.outcome = "served", !.bill = b,
                                    !.delta = SettledDelta(c, b), !.pc = "payLoad"]
    <3>2. b \in Int /\ SettledDelta(c, b) \in Int BY <1>0, RelayAssumption DEF SettledDelta
    <3>3. r \in CallRow BY <1>0, <3>2 DEF CallRow, Outcomes, Steps, Paying
    <3>4. call' = [call EXCEPT ![c] = r] BY <3>1
    <3>5. QED BY <3>3, <3>4, RowWritten DEF TypeOK, Others
  <2>4. QED BY <2>1, <2>2, <2>3 DEF UpstreamStep
<1>2. UNCHANGED <<wallet, token, faults>>
  BY DEF UpstreamStep, RequestNotMade, AnswerWithoutUsage, UpstreamRejects, UpstreamServes
<1>3. QED BY <1>1, <1>2 DEF TypeOK, CallKept

LEMMA AfterTypes ==
  ASSUME NEW c \in Calls PROVE AfterPayment(c) \in Steps /\ AfterUser(c) \in Steps
BY DEF AfterPayment, AfterUser, Steps, Paying

LEMMA KeepPayLoad ==
  ASSUME TypeOK, NEW c \in Calls, PayLoad(c) PROVE CallKept(c)
<1>1. call' \in [Calls -> CallRow] /\ Others(c)
  <2> DEFINE w == token[Key(c)].unlimited
             r == [call[c] EXCEPT !.capped = ~w, !.pc = "payUser"]
  <2>1. CASE call' = [call EXCEPT ![c].capped = ~w, ![c].pc = "payUser"]
    <3>1. call[c] \in CallRow /\ (~w) \in BOOLEAN BY DEF TypeOK
    <3>2. r \in CallRow BY <3>1 DEF CallRow, Steps, Paying
    <3>3. call' = [call EXCEPT ![c] = r] BY <2>1
    <3>4. QED BY <3>2, <3>3, RowWritten DEF TypeOK, Others
  <2>2. CASE Move(c, AfterPayment(c))
    BY <2>2, MoveRow, AfterTypes DEF TypeOK
  <2>3. QED BY <2>1, <2>2 DEF PayLoad
<1>2. QED BY <1>1, FaultsGrow DEF PayLoad, TypeOK, CallKept

LEMMA KeepPayUser ==
  ASSUME TypeOK, NEW c \in Calls, PayUser(c) PROVE CallKept(c)
<1>0. call[c] \in CallRow /\ call[c].delta \in Int /\ call[c].charged \in Int /\ Payer(c) \in Users
  BY CallShape DEF TypeOK, CallRow
<1>1. call' \in [Calls -> CallRow] /\ Others(c)
  <2> DEFINE x == call[c].charged + call[c].delta
             r == [call[c] EXCEPT !.pc = AfterUser(c), !.charged = x]
  <2>1. CASE call' = [call EXCEPT ![c].pc = AfterUser(c), ![c].charged = @ + call[c].delta]
    <3>1. x \in Int /\ AfterUser(c) \in Steps BY <1>0, AfterTypes
    <3>2. r \in CallRow BY <1>0, <3>1 DEF CallRow
    <3>3. call' = [call EXCEPT ![c] = r] BY <2>1
    <3>4. QED BY <3>2, <3>3, RowWritten DEF TypeOK, Others
  <2>2. CASE Move(c, AfterUser(c))
    BY <2>2, MoveRow, AfterTypes DEF TypeOK
  <2>3. QED BY <2>1, <2>2 DEF PayUser
<1>2. wallet' \in [Users -> Int]
  BY <1>0, DrawWalletType DEF PayUser, TypeOK
<1>3. UNCHANGED token /\ faults' \in Nat /\ faults' >= faults
  BY FaultsGrow DEF PayUser, TypeOK
<1>4. QED BY <1>1, <1>2, <1>3 DEF TypeOK, CallKept

LEMMA KeepPayToken ==
  ASSUME TypeOK, NEW c \in Calls, PayToken(c) PROVE CallKept(c)
<1>0. call[c] \in CallRow /\ call[c].delta \in Int /\ Key(c) \in Tokens
  BY CallShape DEF TypeOK, CallRow
<1>1. call' \in [Calls -> CallRow] /\ Others(c)
  <2> DEFINE x == Drawn(c, call[c].delta)
             r == [call[c] EXCEPT !.pc = AfterPayment(c), !.drawn = x]
  <2>1. CASE call' = [call EXCEPT ![c].pc = AfterPayment(c), ![c].drawn = x]
    <3>1. x \in Int /\ AfterPayment(c) \in Steps BY <1>0, DrawnType, AfterTypes
    <3>2. r \in CallRow BY <1>0, <3>1 DEF CallRow
    <3>3. call' = [call EXCEPT ![c] = r] BY <2>1
    <3>4. QED BY <3>2, <3>3, RowWritten DEF TypeOK, Others
  <2>2. CASE Move(c, AfterPayment(c))
    BY <2>2, MoveRow, AfterTypes DEF TypeOK
  <2>3. QED BY <2>1, <2>2 DEF PayToken
<1>2. token' \in [Tokens -> TokenRow] /\ \A k \in Tokens : token'[k].live = token[k].live
  BY <1>0, DrawTokenType DEF PayToken, TypeOK
<1>3. UNCHANGED wallet /\ faults' \in Nat /\ faults' >= faults
  BY FaultsGrow DEF PayToken, TypeOK
<1>4. QED BY <1>1, <1>2, <1>3 DEF TypeOK, CallKept

LEMMA KeepRecord ==
  ASSUME TypeOK, NEW c \in Calls, Record(c) PROVE CallKept(c)
<1> DEFINE r == [call[c] EXCEPT !.pc = "done", !.logged = call[c].bill]
<1>1. call[c] \in CallRow /\ call[c].bill \in Int BY DEF TypeOK, CallRow
<1>2. r \in CallRow BY <1>1 DEF CallRow, Steps
<1>3. call' = [call EXCEPT ![c] = r] BY DEF Record
<1>4. call' \in [Calls -> CallRow] /\ Others(c) BY <1>2, <1>3, RowWritten DEF TypeOK, Others
<1>5. QED BY <1>4 DEF Record, TypeOK, CallKept

LEMMA KeepCall ==
  ASSUME TypeOK, NEW c \in Calls, CallStep(c) \/ UpstreamStep(c)
  PROVE  CallKept(c) /\ UNCHANGED <<form, crashes>>
<1>1. CallKept(c)
  BY KeepAuthenticate, KeepMark, KeepEstimate, KeepLoad, KeepDebitToken, KeepDebitUser, KeepRollBack,
     KeepUpstream, KeepPayLoad, KeepPayUser, KeepPayToken, KeepRecord DEF CallStep
<1>2. UNCHANGED <<form, crashes>>
  BY DEF CallStep, UpstreamStep, Authenticate, MarkExhausted, Estimate, LoadToken, DebitToken, DebitUser,
         RollBack, RequestNotMade, AnswerWithoutUsage, UpstreamRejects, UpstreamServes, PayLoad, PayUser, PayToken, Record
<1>3. QED BY <1>1, <1>2

LEMMA KeepRetry ==
  ASSUME TypeOK, NEW c \in Calls, Retry(c)
  PROVE  CallKept(NextCall(c)) /\ UNCHANGED <<form, crashes>>
<1>1. NextCall(c) \in Calls BY CallShape DEF Retry
<1>2. call' \in [Calls -> CallRow] /\ Others(NextCall(c))
  BY <1>1, MoveRow DEF Retry, TypeOK, Steps, Reserving
<1>3. QED BY <1>2 DEF Retry, TypeOK, CallKept

LEMMA TypeEdit ==
  ASSUME TypeOK, NEW f \in Forms, ReadForEdit(f) \/ WriteEdit(f)
  PROVE  TypeOK' /\ UNCHANGED <<call, crashes, faults>> /\ \A k \in Tokens : token'[k].live = token[k].live
<1>0. form[f] \in Editing /\ form[f].token \in Tokens /\ form[f].row \in TokenRow
  BY DEF TypeOK, Editing
<1>1. CASE ReadForEdit(f)
  <2>1. PICK so \in BOOLEAN, status \in {"enabled", "disabled"}, cap \in Caps, free \in BOOLEAN :
          form' = [form EXCEPT ![f].pc = "write", ![f].statusOnly = so,
                               ![f].row = Edited(token[form[f].token], so, status, cap, free)]
    BY <1>1 DEF ReadForEdit
  <2> DEFINE e == Edited(token[form[f].token], so, status, cap, free)
             r == [form[f] EXCEPT !.pc = "write", !.statusOnly = so, !.row = e]
  <2>2. token[form[f].token] \in TokenRow /\ cap \in Int BY <1>0, RelayAssumption DEF TypeOK
  <2>3. e \in TokenRow BY <2>2 DEF Edited, TokenRow
  <2>4. r \in Editing BY <1>0, <2>3 DEF Editing
  <2>5. form' = [form EXCEPT ![f] = r] BY <2>1
  <2>6. form' \in [Forms -> Editing] BY <2>4, <2>5 DEF TypeOK
  <2>7. QED BY <1>1, <2>6 DEF ReadForEdit, TypeOK
<1>2. CASE WriteEdit(f)
  <2> DEFINE k == form[f].token
             w == IF token[k].live THEN Written(token[k], form[f].row) ELSE token[k]
             r == [form[f] EXCEPT !.pc = "done"]
  <2>1. token[k] \in TokenRow BY <1>0 DEF TypeOK
  <2>2. w \in TokenRow /\ w.live = token[k].live
    <3>1. Written(token[k], form[f].row) \in TokenRow /\ Written(token[k], form[f].row).live = token[k].live
      BY <1>0, <2>1 DEF Written, TokenRow
    <3>2. QED BY <2>1, <3>1
  <2>3. token' = [token EXCEPT ![k] = w] BY <1>2 DEF WriteEdit
  <2>4. r \in Editing BY <1>0 DEF Editing
  <2>5. form' = [form EXCEPT ![f] = r] BY <1>2 DEF WriteEdit
  <2>6. form' \in [Forms -> Editing] BY <2>4, <2>5 DEF TypeOK
  <2>7. token' \in [Tokens -> TokenRow] /\ \A j \in Tokens : token'[j].live = token[j].live
    BY <1>0, <2>2, <2>3 DEF TypeOK
  <2>8. QED BY <1>2, <2>6, <2>7 DEF WriteEdit, TypeOK
<1>3. QED BY <1>1, <1>2

LEMMA TypeDelete ==
  ASSUME TypeOK, NEW k \in Tokens, DeleteToken(k)
  PROVE  TypeOK' /\ UNCHANGED <<call, crashes, faults>> /\ ~token'[k].live
<1> DEFINE r == [token[k] EXCEPT !.live = FALSE]
<1>1. token[k] \in TokenRow BY DEF TypeOK
<1>2. r \in TokenRow /\ ~r.live BY <1>1 DEF TokenRow
<1>3. token' = [token EXCEPT ![k] = r] BY DEF DeleteToken
<1>4. token' \in [Tokens -> TokenRow] /\ ~token'[k].live BY <1>2, <1>3 DEF TypeOK
<1>5. QED BY <1>4 DEF DeleteToken, TypeOK

LEMMA TypeCrash ==
  ASSUME TypeOK, Crash PROVE TypeOK' /\ crashes' > 0
<1>1. call' \in [Calls -> CallRow]
  <2>1. \A c \in Calls : [call[c] EXCEPT !.pc = "done", !.outcome = "crashed"] \in CallRow
    <3> TAKE c \in Calls
    <3>1. call[c] \in CallRow BY DEF TypeOK
    <3>2. QED BY <3>1 DEF CallRow, Steps, Outcomes
  <2>2. QED BY <2>1 DEF Crash, TypeOK
<1>2. form' \in [Forms -> Editing]
  <2>1. \A f \in Forms : [form[f] EXCEPT !.pc = "idle"] \in Editing
    <3> TAKE f \in Forms
    <3>1. form[f] \in Editing BY DEF TypeOK
    <3>2. QED BY <3>1 DEF Editing
  <2>2. QED BY <2>1 DEF Crash, TypeOK
<1>3. crashes \in Nat /\ crashes' = crashes + 1 BY DEF Crash, TypeOK
<1>4. crashes' \in Nat /\ crashes' > 0 BY <1>3
<1>5. UNCHANGED <<wallet, token, faults>> BY DEF Crash
<1>6. QED BY <1>1, <1>2, <1>4, <1>5 DEF TypeOK

LEMMA TypeStep == TypeOK /\ [Next]_vars => TypeOK'
<1> SUFFICES ASSUME TypeOK, [Next]_vars PROVE TypeOK' OBVIOUS
<1>1. CASE \E c \in Calls : CallStep(c) \/ UpstreamStep(c)
  BY <1>1, KeepCall DEF CallKept, TypeOK
<1>2. CASE \E c \in Calls : Retry(c)
  BY <1>2, KeepRetry DEF CallKept, TypeOK
<1>3. CASE \E f \in Forms : ReadForEdit(f) \/ WriteEdit(f)
  BY <1>3, TypeEdit
<1>4. CASE \E k \in Tokens : DeleteToken(k)
  BY <1>4, TypeDelete
<1>5. CASE Crash
  BY <1>5, TypeCrash
<1>6. CASE UNCHANGED vars
  BY <1>6 DEF vars, TypeOK
<1>7. QED BY <1>1, <1>2, <1>3, <1>4, <1>5, <1>6 DEF Next

\* Every variable of RelayBilling keeps its type, for any values of the constants.
THEOREM TypeCorrect == Spec => []TypeOK
<1>1. QED BY TypeInit, TypeStep, PTL DEF Spec

-----------------------------------------------------------------------------
(* The books of one call.  As long as no instance died, no statement       *)
(* failed and no token was deleted, the place a call has reached tells     *)
(* what it has taken from the wallet.                                      *)

DeltaAgreed(x) ==
  \/ x.outcome = "error" /\ x.delta = -x.held
  \/ x.outcome = "served" /\ x.delta = x.bill - x.held

Books(x) ==
  /\ x.pc \in {"idle", "mark", "estimate"} => x.held = 0
  /\ x.pc \in {"idle", "mark"} \cup Reserving => x.charged = 0
  /\ x.pc \in {"idle", "mark", "upstream"} \cup Reserving => x.outcome = "none"
  /\ x.pc = "upstream" => x.charged = x.held
  /\ x.pc \in {"payLoad", "payUser"} => x.charged = x.held /\ DeltaAgreed(x)
  /\ x.pc \in {"payToken", "record"} => x.charged = x.held + x.delta /\ DeltaAgreed(x)
  /\ x.pc = "record" => x.outcome = "served"
  /\ x.pc = "done" => x.outcome # "none"
  /\ x.pc = "done" /\ x.outcome \in {"denied", "refused", "error"} => x.charged = 0
  /\ x.pc = "done" /\ x.outcome = "served" => x.charged = x.logged

BookInv == NoMishap => \A c \in Calls : Books(call[c])

LEMMA BooksInit == Init => BookInv
<1>1. Books(NewCall) BY DEF Books, NewCall, Reserving
<1>2. QED BY <1>1 DEF Init, BookInv

\* A step of a call without a mishap keeps the call's own books.
LEMMA BooksAhead ==
  ASSUME TypeOK, NEW c \in Calls, Books(call[c]), faults' = faults, token[Key(c)].live,
         Authenticate(c) \/ MarkExhausted(c) \/ Estimate(c) \/ LoadToken(c)
           \/ DebitToken(c) \/ DebitUser(c) \/ RollBack(c)
  PROVE  Books(call'[c])
<1>0. call \in [Calls -> CallRow] /\ call[c] \in CallRow /\ faults \in Nat /\ ~StatementFails
  BY DEF TypeOK, StatementFails
<1> DEFINE x == call[c]
<1>x. x.held \in Int /\ x.charged \in Int BY <1>0 DEF CallRow
<1>a. ASSUME NEW o \in {"denied", "refused"}, End(c, o), x.charged = 0
      PROVE  Books(call'[c])
  <2>1. call'[c] = [x EXCEPT !.pc = "done", !.outcome = o] BY <1>0, <1>a, EndRow DEF Outcomes
  <2>2. call'[c].pc = "done" /\ call'[c].outcome = o /\ call'[c].charged = 0
    BY <2>1, <1>0, <1>a DEF CallRow
  <2>3. QED BY <2>2 DEF Books, Reserving
<1>b. ASSUME NEW pc \in Steps, Move(c, pc)
      PROVE  /\ call'[c].pc = pc /\ call'[c].held = x.held /\ call'[c].charged = x.charged
             /\ call'[c].outcome = x.outcome
  <2>1. call'[c] = [x EXCEPT !.pc = pc] BY <1>0, <1>b, MoveRow
  <2>2. QED BY <2>1, <1>0 DEF CallRow
<1>1. CASE Authenticate(c)
  <2>1. x.pc = "idle" /\ x.charged = 0 /\ x.held = 0 /\ x.outcome = "none"
    BY <1>1 DEF Authenticate, Books, Reserving
  <2>2. CASE End(c, "denied") BY <2>1, <2>2, <1>a
  <2>3. CASE Move(c, "mark") BY <2>1, <2>3, <1>b DEF Books, Steps, Reserving
  <2>4. CASE Move(c, "estimate") BY <2>1, <2>4, <1>b DEF Books, Steps, Reserving
  <2>5. QED BY <1>1, <2>2, <2>3, <2>4 DEF Authenticate
<1>2. CASE MarkExhausted(c)
  <2>1. x.charged = 0 BY <1>2 DEF MarkExhausted, Books, Reserving
  <2>2. QED BY <1>2, <2>1, <1>a DEF MarkExhausted
<1>3. CASE Estimate(c)
  <2>1. x.charged = 0 /\ x.held = 0 /\ x.outcome = "none"
    BY <1>3 DEF Estimate, Books, Reserving
  <2>2. CASE End(c, "refused") BY <2>1, <2>2, <1>a
  <2>3. CASE Move(c, "upstream") BY <2>1, <2>3, <1>b DEF Books, Steps, Reserving
  <2>4. CASE \E q \in Estimates : call' = [call EXCEPT ![c].pc = "load", ![c].held = q]
    <3>1. PICK q \in Estimates : call' = [call EXCEPT ![c].pc = "load", ![c].held = q] BY <2>4
    <3>2. call'[c] = [x EXCEPT !.pc = "load", !.held = q] BY <3>1, <1>0
    <3>3. call'[c].pc = "load" /\ call'[c].charged = 0 /\ call'[c].outcome = "none"
      BY <3>2, <1>0, <2>1 DEF CallRow
    <3>4. QED BY <3>3 DEF Books, Reserving
  <2>5. QED BY <1>0, <1>3, <2>2, <2>3, <2>4 DEF Estimate
<1>4. CASE LoadToken(c)
  <2>1. x.charged = 0 /\ x.outcome = "none"
    BY <1>4 DEF LoadToken, Books, Reserving
  <2> DEFINE w == token[Key(c)].unlimited
  <2>2. call' = [call EXCEPT ![c].capped = ~w, ![c].pc = IF w THEN "debitUser" ELSE "debitToken"]
    BY <1>0, <1>4 DEF LoadToken
  <2>3. call'[c] = [x EXCEPT !.capped = ~w, !.pc = IF w THEN "debitUser" ELSE "debitToken"]
    BY <2>2, <1>0
  <2>4. call'[c].pc \in {"debitUser", "debitToken"} /\ call'[c].charged = 0 /\ call'[c].outcome = "none"
    BY <2>3, <1>0, <2>1 DEF CallRow
  <2>5. QED BY <2>4 DEF Books, Reserving
<1>5. CASE DebitToken(c)
  <2>1. x.charged = 0 /\ x.outcome = "none"
    BY <1>5 DEF DebitToken, Books, Reserving
  <2>2. CASE End(c, "refused") BY <2>1, <2>2, <1>a
  <2>3. CASE call' = [call EXCEPT ![c].pc = "debitUser", ![c].drawn = x.held]
    <3>1. call'[c] = [x EXCEPT !.pc = "debitUser", !.drawn = x.held] BY <2>3, <1>0
    <3>2. call'[c].pc = "debitUser" /\ call'[c].charged = 0 /\ call'[c].outcome = "none"
      BY <3>1, <1>0, <2>1 DEF CallRow
    <3>3. QED BY <3>2 DEF Books, Reserving
  <2>4. QED BY <1>0, <1>5, <2>2, <2>3 DEF DebitToken
<1>6. CASE DebitUser(c)
  <2>1. x.charged = 0 /\ x.outcome = "none"
    BY <1>6 DEF DebitUser, Books, Reserving
  <2>2. CASE Move(c, "rollback")
    BY <2>1, <2>2, <1>b DEF Books, Steps, Reserving
  <2>3. CASE End(c, "refused") BY <2>1, <2>3, <1>a
  <2>4. CASE call' = [call EXCEPT ![c].pc = "upstream", ![c].charged = x.held]
    <3>1. call'[c] = [x EXCEPT !.pc = "upstream", !.charged = x.held] BY <2>4, <1>0
    <3>2. call'[c].pc = "upstream" /\ call'[c].charged = call'[c].held /\ call'[c].outcome = "none"
      BY <3>1, <1>0, <2>1 DEF CallRow
    <3>3. QED BY <3>2 DEF Books, Reserving
  <2>5. QED BY <1>0, <1>6, <2>2, <2>3, <2>4 DEF DebitUser, UndoOrRefuse
<1>7. CASE RollBack(c)
  <2>1. x.charged = 0
    BY <1>7 DEF RollBack, Books, Reserving
  <2> DEFINE y == Drawn(c, -x.held)
  <2>2. call' = [call EXCEPT ![c].pc = "done", ![c].outcome = "refused", ![c].drawn = y]
    BY <1>0, <1>7 DEF RollBack
  <2>3. call'[c] = [x EXCEPT !.pc = "done", !.outcome = "refused", !.drawn = y]
    BY <2>2, <1>0
  <2>4. call'[c].pc = "done" /\ call'[c].outcome = "refused" /\ call'[c].charged = 0
    BY <2>3, <1>0, <2>1 DEF CallRow
  <2>5. QED BY <2>4 DEF Books, Reserving
<1>8. QED BY <1>1, <1>2, <1>3, <1>4, <1>5, <1>6, <1>7

LEMMA BooksBehind ==
  ASSUME TypeOK, NEW c \in Calls, Books(call[c]), faults' = faults, token[Key(c)].live,
         UpstreamStep(c) \/ PayLoad(c) \/ PayUser(c) \/ PayToken(c) \/ Record(c)
  PROVE  Books(call'[c])
<1>0. call \in [Calls -> CallRow] /\ call[c] \in CallRow /\ faults \in Nat /\ ~StatementFails
  BY DEF TypeOK, StatementFails
<1> DEFINE x == call[c]
<1>x. x.held \in Int /\ x.charged \in Int /\ x.delta \in Int /\ x.bill \in Int BY <1>0 DEF CallRow
<1>1. CASE RequestNotMade(c) \/ AnswerWithoutUsage(c)
  <2>0. PICK o \in {"dropped", "unmetered"} : End(c, o)
    BY <1>1 DEF RequestNotMade, AnswerWithoutUsage
  <2>1. call'[c] = [x EXCEPT !.pc = "done", !.outcome = o] BY <1>0, <2>0, EndRow DEF Outcomes
  <2>2. call'[c].pc = "done" /\ call'[c].outcome = o BY <2>1, <1>0 DEF CallRow
  <2>3. QED BY <2>2 DEF Books, Reserving
<1>2. CASE UpstreamRejects(c)
  <2>1. x.charged = x.held BY <1>2 DEF UpstreamRejects, Books
  <2> DEFINE pc == IF x.held = 0 THEN "done" ELSE "payLoad"
  <2>2. call'[c] = [x EXCEPT !.outcome = "error", !.delta = ReturnedDelta(c), !.pc = pc]
    BY <1>0, <1>2 DEF UpstreamRejects
  <2>3. /\ call'[c].pc = pc /\ call'[c].outcome = "error" /\ call'[c].delta = -x.held
        /\ call'[c].held = x.held /\ call'[c].charged = x.held
    BY <2>1, <2>2, <1>0 DEF CallRow, ReturnedDelta
  <2>4. CASE x.held = 0 BY <2>3, <2>4 DEF Books, Reserving
  <2>5. CASE x.held # 0 BY <2>3, <2>5 DEF Books, Reserving, DeltaAgreed
  <2>6. QED BY <2>4, <2>5
<1>3. CASE UpstreamServes(c)
  <2>1. x.charged = x.held BY <1>3 DEF UpstreamServes, Books
  <2>2. PICK b \in Bills :
          call' = [call EXCEPT ![c].outcome = "served", ![c].bill = b,
                               ![c].delta = SettledDelta(c, b), ![c].pc = "payLoad"]
    BY <1>3 DEF UpstreamServes
  <2>3. call'[c] = [x EXCEPT !.outcome = "served", !.bill = b, !.delta = SettledDelta(c, b), !.pc = "payLoad"]
    BY <2>2, <1>0
  <2>4. /\ call'[c].pc = "payLoad" /\ call'[c].outcome = "served" /\ call'[c].delta = b - x.held
        /\ call'[c].bill = b /\ call'[c].held = x.held /\ call'[c].charged = x.held
    BY <2>1, <2>3, <1>0 DEF CallRow, SettledDelta
  <2>5. QED BY <2>4 DEF Books, Reserving, DeltaAgreed
<1>b. ASSUME NEW pc \in Steps, Move(c, pc)
      PROVE  /\ call'[c].pc = pc /\ call'[c].held = x.held /\ call'[c].charged = x.charged
             /\ call'[c].outcome = x.outcome /\ call'[c].delta = x.delta /\ call'[c].bill = x.bill
  <2>1. call'[c] = [x EXCEPT !.pc = pc] BY <1>0, <1>b, MoveRow
  <2>2. QED BY <2>1, <1>0 DEF CallRow
<1>4. CASE PayLoad(c)
  <2>1. x.charged = x.held /\ DeltaAgreed(x) BY <1>4 DEF PayLoad, Books
  <2> DEFINE w == token[Key(c)].unlimited
  <2>2. call' = [call EXCEPT ![c].capped = ~w, ![c].pc = "payUser"] BY <1>0, <1>4 DEF PayLoad
  <2>3. call'[c] = [x EXCEPT !.capped = ~w, !.pc = "payUser"] BY <2>2, <1>0
  <2>4. /\ call'[c].pc = "payUser" /\ call'[c].held = x.held /\ call'[c].charged = x.charged
        /\ call'[c].outcome = x.outcome /\ call'[c].delta = x.delta /\ call'[c].bill = x.bill
    BY <2>3, <1>0 DEF CallRow
  <2>5. QED BY <2>1, <2>4 DEF Books, Reserving, DeltaAgreed
\* After a payment the charge is held + delta, whatever comes next.
<1>c. ASSUME DeltaAgreed(x), call'[c].pc \in {"payToken", AfterPayment(c)},
             call'[c].charged = x.held + x.delta, call'[c].held = x.held,
             call'[c].outcome = x.outcome, call'[c].delta = x.delta, call'[c].bill = x.bill
      PROVE  Books(call'[c])
  <2>1. CASE x.outcome = "error"
    <3>1. call'[c].charged = 0 /\ call'[c].pc \in {"payToken", "done"}
      BY <1>c, <1>x, <2>1 DEF DeltaAgreed, AfterPayment
    <3>2. QED BY <1>c, <2>1, <3>1 DEF Books, Reserving, DeltaAgreed
  <2>2. CASE x.outcome = "served"
    <3>1. call'[c].pc \in {"payToken", "record"} BY <1>c, <2>2 DEF AfterPayment
    <3>2. QED BY <1>c, <2>2, <3>1 DEF Books, Reserving, DeltaAgreed
  <2>3. QED BY <2>1, <2>2, <1>c DEF DeltaAgreed
<1>5. CASE PayUser(c)
  <2>1. x.charged = x.held /\ DeltaAgreed(x) BY <1>5 DEF PayUser, Books
  <2>2. call' = [call EXCEPT ![c].pc = AfterUser(c), ![c].charged = @ + x.delta]
    BY <1>0, <1>5 DEF PayUser
  <2>3. call'[c] = [x EXCEPT !.pc = AfterUser(c), !.charged = x.charged + x.delta] BY <2>2, <1>0
  <2>4. /\ call'[c].pc = AfterUser(c) /\ call'[c].held = x.held /\ call'[c].charged = x.charged + x.delta
        /\ call'[c].outcome = x.outcome /\ call'[c].delta = x.delta /\ call'[c].bill = x.bill
    BY <2>3, <1>0 DEF CallRow
  <2>5. AfterUser(c) \in {"payToken", AfterPayment(c)} BY DEF AfterUser
  <2>6. QED BY <2>1, <2>4, <2>5, <1>c
<1>6. CASE PayToken(c)
  <2>1. x.charged = x.held + x.delta /\ DeltaAgreed(x) BY <1>6 DEF PayToken, Books
  <2> DEFINE y == Drawn(c, x.delta)
  <2>2. call' = [call EXCEPT ![c].pc = AfterPayment(c), ![c].drawn = y]
    BY <1>0, <1>6 DEF PayToken
  <2>3. call'[c] = [x EXCEPT !.pc = AfterPayment(c), !.drawn = y] BY <2>2, <1>0
  <2>4. /\ call'[c].pc = AfterPayment(c) /\ call'[c].held = x.held /\ call'[c].charged = x.charged
        /\ call'[c].outcome = x.outcome /\ call'[c].delta = x.delta /\ call'[c].bill = x.bill
    BY <2>3, <1>0 DEF CallRow
  <2>5. QED BY <2>1, <2>4, <1>c
<1>7. CASE Record(c)
  <2>1. x.charged = x.held + x.delta /\ DeltaAgreed(x) /\ x.outcome = "served"
    BY <1>7 DEF Record, Books
  <2>2. x.charged = x.bill BY <2>1, <1>x DEF DeltaAgreed
  <2>3. call'[c] = [x EXCEPT !.pc = "done", !.logged = x.bill] BY <1>0, <1>7 DEF Record
  <2>4. call'[c].pc = "done" /\ call'[c].charged = call'[c].logged /\ call'[c].outcome = "served"
    BY <2>1, <2>2, <2>3, <1>0 DEF CallRow
  <2>5. QED BY <2>4 DEF Books, Reserving
<1>8. QED BY <1>1, <1>2, <1>3, <1>4, <1>5, <1>6, <1>7 DEF UpstreamStep

LEMMA BooksStep == TypeOK /\ BookInv /\ [Next]_vars => BookInv'
<1> SUFFICES ASSUME TypeOK, BookInv, [Next]_vars, NoMishap', NEW d \in Calls
             PROVE  Books(call'[d])
  BY DEF BookInv
<1>1. CASE \E c \in Calls : CallStep(c) \/ UpstreamStep(c)
  <2>1. PICK c \in Calls : CallStep(c) \/ UpstreamStep(c) BY <1>1
  <2>2. CallKept(c) /\ crashes' = crashes BY <2>1, KeepCall
  <2>3. NoMishap /\ faults' = faults BY <2>2 DEF CallKept, NoMishap, TypeOK
  <2>4. Books(call[c]) /\ Books(call[d]) /\ token[Key(c)].live
    BY <2>3, CallShape DEF BookInv, NoMishap
  <2>5. CASE d = c BY <2>1, <2>3, <2>4, <2>5, BooksAhead, BooksBehind DEF CallStep
  <2>6. CASE d # c BY <2>2, <2>4, <2>6 DEF CallKept, Others
  <2>7. QED BY <2>5, <2>6
<1>2. CASE \E c \in Calls : Retry(c)
  <2>1. PICK c \in Calls : Retry(c) BY <1>2
  <2> DEFINE n == NextCall(c)
  <2>2. n \in Calls BY <2>1, CallShape DEF Retry
  <2>3. CallKept(n) /\ UNCHANGED <<token, crashes, faults>> BY <2>1, KeepRetry DEF Retry
  <2>4. Books(call[d]) /\ Books(call[n]) BY <2>2, <2>3 DEF NoMishap, BookInv
  <2>5. call'[n] = [call[n] EXCEPT !.pc = "estimate"]
    BY <2>1, <2>2, MoveRow DEF Retry, TypeOK, Steps, Reserving
  <2>6. /\ call'[n].pc = "estimate" /\ call'[n].held = call[n].held
        /\ call'[n].charged = call[n].charged /\ call'[n].outcome = call[n].outcome
    BY <2>2, <2>5 DEF TypeOK, CallRow
  <2>7. Books(call'[n]) BY <2>1, <2>4, <2>6 DEF Retry, Books, Reserving
  <2>8. QED BY <2>3, <2>4, <2>7 DEF CallKept, Others
<1>3. CASE \E f \in Forms : ReadForEdit(f) \/ WriteEdit(f)
  <2>1. UNCHANGED <<call, crashes, faults>> /\ \A k \in Tokens : token'[k].live = token[k].live
    BY <1>3, TypeEdit
  <2>2. QED BY <2>1 DEF NoMishap, BookInv
<1>4. CASE \E k \in Tokens : DeleteToken(k)
  BY <1>4, TypeDelete DEF NoMishap
<1>5. CASE Crash
  BY <1>5, TypeCrash DEF NoMishap
<1>6. CASE UNCHANGED vars
  BY <1>6 DEF vars, NoMishap, BookInv
<1>7. QED BY <1>1, <1>2, <1>3, <1>4, <1>5, <1>6 DEF Next

LEMMA BooksAlways == Spec => []BookInv
<1>1. QED BY TypeInit, TypeStep, BooksInit, BooksStep, PTL DEF Spec

\* A failed call gives back all it took (preConsumeQuota, ReturnPreConsumedQuota).
THEOREM FailedCallsAreRepaid == Spec => []FailedCallRepaid
<1>1. BookInv => FailedCallRepaid BY DEF BookInv, Books, FailedCallRepaid
<1>2. QED BY <1>1, BooksAlways, PTL

\* A served call costs what its usage log says (postConsumeQuota).
THEOREM ServedCallsAreBilled == Spec => []ServedCallBilled
<1>1. BookInv => ServedCallBilled BY DEF BookInv, Books, ServedCallBilled
<1>2. QED BY <1>1, BooksAlways, PTL

-----------------------------------------------------------------------------
(* The ledgers.  The columns of a token row and of a wallet are sums over   *)
(* the calls, so the invariant ties each of them to the call table.         *)

\* An edit of the token has been written.
EditDone(k) == \E f \in Forms : form[f].token = k /\ form[f].pc = "done"
Plain(k) == ~token[k].unlimited /\ ~EditDone(k)

KeyCalls(k) == {c \in Calls : Key(c) = k}
PayerCalls(u) == {c \in Calls : Payer(c) = u}

\* By how much the token is ahead of the wallet at this point of the handler.
Due(x) == IF x.pc \in {"debitUser", "rollback"} THEN x.held
          ELSE IF x.pc = "payToken" THEN -x.delta ELSE 0
Uneven(x) == x.drawn # x.charged + Due(x)

\* What a call took from the wallet beyond its reservation.
Over(x) == IF x.charged > x.held THEN x.charged - x.held ELSE 0

\* What the place of a call tells about its amounts, mishap or not.
Taken(x) ==
  /\ x.held >= 0
  /\ x.pc \in {"idle", "mark", "estimate"} => x.held = 0
  /\ x.pc \in {"idle", "mark", "estimate", "load", "debitToken"} => x.drawn = 0
  /\ x.pc \in {"idle", "mark"} \cup Reserving => x.charged = 0
  /\ x.pc \in {"upstream", "payLoad", "payUser"} => x.charged = x.held
  /\ x.pc \in Paying => x.outcome \in {"served", "error"}
  /\ x.pc \in Paying /\ x.outcome = "error" => x.delta = -x.held
  /\ x.charged > x.held => x.outcome \in {"served", "crashed"} /\ x.delta = x.charged - x.held

\* What a call remembers of the quota flag of a token that was not edited.
CappedTruly(c) ==
  ~EditDone(Key(c)) =>
    /\ call[c].capped => ~token[Key(c)].unlimited
    /\ call[c].pc \in {"debitToken", "debitUser", "rollback", "payUser"} =>
         call[c].capped = ~token[Key(c)].unlimited

UsedIsDrawn ==
  \A k \in Tokens : token[k].used = SumFunctionOnSet([c \in Calls |-> call[c].drawn], KeyCalls(k))
RemainsRest == \A k \in Tokens : ~EditDone(k) => token[k].remain = OpeningCap - token[k].used
SplitCalls == {c \in Calls : Plain(Key(c)) /\ Uneven(call[c])}
SplitsCounted ==
  crashes = 0 /\ (\A k \in Tokens : token[k].live) => Cardinality(SplitCalls) <= faults
OverdraftCounted ==
  \A u \in Users : wallet[u] >= -SumFunctionOnSet([c \in Calls |-> Over(call[c])], PayerCalls(u))

LedgerInv ==
  /\ \A c \in Calls : Taken(call[c]) /\ CappedTruly(c)
  /\ UsedIsDrawn /\ RemainsRest /\ SplitsCounted /\ OverdraftCounted

LEMMA CallsAreFinite ==
  /\ IsFiniteSet(Calls)
  /\ \A k : IsFiniteSet(KeyCalls(k)) /\ KeyCalls(k) \subseteq Calls
  /\ \A u : IsFiniteSet(PayerCalls(u)) /\ PayerCalls(u) \subseteq Calls
<1>1. IsFiniteSet(1 .. RetryTimes + 1) BY RelayAssumption, FS_Interval
<1>2. IsFiniteSet(Calls) BY <1>1, RelayAssumption, FS_Product DEF Calls
<1>3. QED BY <1>2, FS_Subset DEF KeyCalls, PayerCalls

\* What a step of call c does to the ledgers.
LedgerStep(c) ==
  LET x == call[c]  y == call'[c] IN
  /\ Taken(y) /\ CappedTruly(c)'
  /\ wallet' = [wallet EXCEPT ![Payer(c)] = @ - (y.charged - x.charged)]
  /\ wallet'[Payer(c)] >= 0 \/ Over(y) - Over(x) >= y.charged - x.charged
  /\ \A k \in Tokens :
       /\ token'[k].unlimited = token[k].unlimited
       /\ token'[k].used = token[k].used + (IF k = Key(c) THEN y.drawn - x.drawn ELSE 0)
       /\ token'[k].remain = token[k].remain - (IF k = Key(c) THEN y.drawn - x.drawn ELSE 0)
  /\ faults' \in {faults, faults + 1}
  /\ faults' = faults /\ token[Key(c)].live /\ Plain(Key(c)) /\ Uneven(y) => Uneven(x)

LEMMA UsedKept ==
  ASSUME TypeOK, UsedIsDrawn, NEW c \in Calls, CallKept(c), LedgerStep(c)
  PROVE  UsedIsDrawn'
<1> DEFINE f == [d \in Calls |-> call[d].drawn]
           g == [d \in Calls |-> call'[d].drawn]
<1>0. \A d \in Calls : f[d] = call[d].drawn /\ g[d] = call'[d].drawn /\ f[d] \in Int /\ g[d] \in Int
  BY DEF TypeOK, CallKept, CallRow
<1>1. \A d \in Calls \ {c} : g[d] = f[d] BY <1>0 DEF CallKept, Others
<1> SUFFICES ASSUME NEW k \in Tokens PROVE token'[k].used = SumFunctionOnSet(g, KeyCalls(k))
  BY DEF UsedIsDrawn, KeyCalls, Key
<1>2. token[k].used = SumFunctionOnSet(f, KeyCalls(k)) /\ token[k].used \in Int
  BY DEF UsedIsDrawn, TypeOK, TokenRow
<1>3. IsFiniteSet(KeyCalls(k)) /\ KeyCalls(k) \subseteq Calls BY CallsAreFinite
<1>4. CASE k = Key(c)
  <2>1. c \in KeyCalls(k) BY <1>4 DEF KeyCalls
  <2>2. SumFunctionOnSet(g, KeyCalls(k)) = SumFunctionOnSet(f, KeyCalls(k)) - f[c] + g[c]
    <3> HIDE DEF f, g
    <3>1. QED BY <1>0, <1>1, <1>3, <2>1, SumChanges
  <2>3. token'[k].used = token[k].used + (call'[c].drawn - call[c].drawn) BY <1>4 DEF LedgerStep
  <2> HIDE DEF f, g
  <2>4. QED BY <1>0, <1>2, <2>2, <2>3
<1>5. CASE k # Key(c)
  <2>1. \A d \in KeyCalls(k) : f[d] \in Int /\ f[d] = g[d]
    BY <1>0, <1>1, <1>3, <1>5 DEF KeyCalls
  <2>2. SumFunctionOnSet(g, KeyCalls(k)) = SumFunctionOnSet(f, KeyCalls(k))
    <3> HIDE DEF f, g
    <3>1. QED BY <1>3, <2>1, SumOfSame
  <2>3. token'[k].used = token[k].used + 0 BY <1>5 DEF LedgerStep
  <2>4. QED BY <1>2, <2>2, <2>3
<1>6. QED BY <1>4, <1>5

LEMMA OverIsSmall ==
  ASSUME NEW x \in CallRow PROVE Over(x) \in Int /\ Over(x) >= 0
<1>1. x.charged \in Int /\ x.held \in Int BY DEF CallRow
<1>2. QED BY <1>1 DEF Over

LEMMA OverdraftKept ==
  ASSUME TypeOK, OverdraftCounted, NEW c \in Calls, CallKept(c), LedgerStep(c)
  PROVE  OverdraftCounted'
<1> DEFINE f == [d \in Calls |-> Over(call[d])]
           g == [d \in Calls |-> Over(call'[d])]
           z == [d \in Calls |-> 0]
<1>0. \A d \in Calls : /\ f[d] = Over(call[d]) /\ g[d] = Over(call'[d]) /\ z[d] = 0
                       /\ f[d] \in Int /\ g[d] \in Int /\ z[d] <= g[d]
  <2>1. \A d \in Calls : call[d] \in CallRow /\ call'[d] \in CallRow BY DEF TypeOK, CallKept
  <2>2. QED BY <2>1, OverIsSmall
<1>1. \A d \in Calls \ {c} : g[d] = f[d] BY <1>0 DEF CallKept, Others
<1> SUFFICES ASSUME NEW u \in Users PROVE wallet'[u] >= -SumFunctionOnSet(g, PayerCalls(u))
  BY DEF OverdraftCounted, PayerCalls, Payer, Key
<1>2. wallet[u] >= -SumFunctionOnSet(f, PayerCalls(u)) /\ wallet[u] \in Int /\ wallet'[u] \in Int
  BY DEF OverdraftCounted, TypeOK, CallKept
<1>3. IsFiniteSet(PayerCalls(u)) /\ PayerCalls(u) \subseteq Calls BY CallsAreFinite
<1>4. /\ SumFunctionOnSet(f, PayerCalls(u)) \in Int /\ SumFunctionOnSet(g, PayerCalls(u)) \in Int
      /\ SumFunctionOnSet(g, PayerCalls(u)) >= 0
  <2> HIDE DEF f, g, z
  <2>1. SumFunctionOnSet(f, PayerCalls(u)) \in Int BY <1>0, <1>3, SumIsInt
  <2>2. SumFunctionOnSet(g, PayerCalls(u)) \in Int BY <1>0, <1>3, SumIsInt
  <2>3. SumFunctionOnSet(z, PayerCalls(u)) = 0 BY <1>0, <1>3, SumOfZeros
  <2>4. SumFunctionOnSet(z, PayerCalls(u)) <= SumFunctionOnSet(g, PayerCalls(u))
    BY <1>0, <1>3, SumIsMonotonic
  <2>5. QED BY <2>1, <2>2, <2>3, <2>4
<1>5. CASE u = Payer(c)
  <2>1. c \in PayerCalls(u) BY <1>5 DEF PayerCalls
  <2>2. SumFunctionOnSet(g, PayerCalls(u)) = SumFunctionOnSet(f, PayerCalls(u)) - f[c] + g[c]
    <3> HIDE DEF f, g
    <3>1. QED BY <1>0, <1>1, <1>3, <2>1, SumChanges
  <2>3. /\ wallet'[u] = wallet[u] - (call'[c].charged - call[c].charged)
        /\ wallet'[u] >= 0 \/ g[c] - f[c] >= call'[c].charged - call[c].charged
    BY <1>0, <1>5 DEF LedgerStep, TypeOK
  <2>4. call[c].charged \in Int /\ call'[c].charged \in Int BY DEF TypeOK, CallKept, CallRow
  <2>5. f[c] \in Int /\ g[c] \in Int BY <1>0
  <2> HIDE DEF f, g
  <2>6. QED BY <1>2, <1>4, <2>2, <2>3, <2>4, <2>5
<1>6. CASE u # Payer(c)
  <2>1. \A d \in PayerCalls(u) : f[d] \in Int /\ f[d] = g[d]
    BY <1>0, <1>1, <1>3, <1>6 DEF PayerCalls
  <2>2. SumFunctionOnSet(g, PayerCalls(u)) = SumFunctionOnSet(f, PayerCalls(u))
    <3> HIDE DEF f, g
    <3>1. QED BY <1>3, <2>1, SumOfSame
  <2>3. wallet'[u] = wallet[u] BY <1>6 DEF LedgerStep, TypeOK
  <2>4. QED BY <1>2, <2>2, <2>3
<1>7. QED BY <1>5, <1>6

LEMMA SplitsKept ==
  ASSUME TypeOK, SplitsCounted, NEW c \in Calls, CallKept(c), LedgerStep(c),
         UNCHANGED <<form, crashes>>
  PROVE  SplitsCounted'
<1> SUFFICES ASSUME crashes = 0, \A k \in Tokens : token[k].live
             PROVE  Cardinality(SplitCalls') <= faults'
  BY DEF SplitsCounted, CallKept
<1>1. Cardinality(SplitCalls) <= faults BY DEF SplitsCounted
<1>2. SplitCalls \subseteq Calls /\ IsFiniteSet(SplitCalls) /\ Cardinality(SplitCalls) \in Nat
  BY CallsAreFinite, FS_Subset, FS_CardinalityType DEF SplitCalls
<1>3. \A k \in Tokens : Plain(k)' = Plain(k) BY DEF LedgerStep, Plain, EditDone
<1>4. \A d \in Calls \ {c} : d \in SplitCalls' => d \in SplitCalls
  BY <1>3, CallShape DEF SplitCalls, CallKept, Others, Key
<1>5. SplitCalls' \subseteq SplitCalls \cup {c} BY <1>4 DEF SplitCalls
<1>6. faults \in Nat /\ faults' \in {faults, faults + 1} BY DEF TypeOK, LedgerStep
<1>7. CASE faults' = faults
  <2>1. c \in SplitCalls' => c \in SplitCalls
    BY <1>3, <1>7, CallShape DEF SplitCalls, LedgerStep, Key
  <2>2. SplitCalls' \subseteq SplitCalls BY <1>5, <2>1
  <2>3. Cardinality(SplitCalls') <= Cardinality(SplitCalls) BY <1>2, <2>2, FS_Subset
  <2>4. IsFiniteSet(SplitCalls') /\ Cardinality(SplitCalls') \in Nat
    BY <1>2, <2>2, FS_Subset, FS_CardinalityType
  <2>5. QED BY <1>1, <1>2, <1>6, <1>7, <2>3, <2>4
<1>8. CASE faults' = faults + 1
  <2>1. /\ IsFiniteSet(SplitCalls \cup {c}) /\ Cardinality(SplitCalls \cup {c}) \in Nat
        /\ Cardinality(SplitCalls \cup {c}) <= Cardinality(SplitCalls) + 1
    BY <1>2, OneMore
  <2>2. Cardinality(SplitCalls') <= Cardinality(SplitCalls \cup {c})
    BY <1>5, <2>1, FS_Subset
  <2>3. Cardinality(SplitCalls') \in Nat BY <1>5, <2>1, FS_Subset, FS_CardinalityType
  <2>4. QED BY <1>1, <1>2, <1>6, <1>8, <2>1, <2>2, <2>3
<1>9. QED BY <1>6, <1>7, <1>8

LEMMA LedgerKept ==
  ASSUME TypeOK, LedgerInv, NEW c \in Calls, CallKept(c), LedgerStep(c),
         UNCHANGED <<form, crashes>>
  PROVE  LedgerInv'
<1>1. UsedIsDrawn' /\ OverdraftCounted' /\ SplitsCounted'
  BY UsedKept, OverdraftKept, SplitsKept DEF LedgerInv
<1>2. ASSUME NEW d \in Calls PROVE Taken(call'[d]) /\ CappedTruly(d)'
  <2>1. Taken(call[d]) /\ CappedTruly(d) BY DEF LedgerInv
  <2>2. CASE d = c BY <2>2 DEF LedgerStep
  <2>3. CASE d # c
    <3>1. call'[d] = call[d] BY <2>3 DEF CallKept, Others
    <3>2. Key(d) \in Tokens /\ token'[Key(d)].unlimited = token[Key(d)].unlimited
      BY CallShape DEF LedgerStep
    <3>3. QED BY <2>1, <3>1, <3>2 DEF CappedTruly, EditDone, Key
  <2>4. QED BY <2>2, <2>3
<1>3. RemainsRest'
  <2> SUFFICES ASSUME NEW k \in Tokens, ~EditDone(k) PROVE token'[k].remain = OpeningCap - token'[k].used
    BY DEF RemainsRest, EditDone
  <2>1. token[k].remain = OpeningCap - token[k].used BY DEF LedgerInv, RemainsRest
  <2>2. token[k].used \in Int /\ call[c].drawn \in Int /\ call'[c].drawn \in Int /\ OpeningCap \in Int
    BY RelayAssumption DEF TypeOK, CallKept, TokenRow, CallRow
  <2>3. QED BY <2>1, <2>2 DEF LedgerStep
<1>4. QED BY <1>1, <1>2, <1>3 DEF LedgerInv

\* The update of a token row, column by column.
LEMMA DrawTokenBooks ==
  ASSUME token \in [Tokens -> TokenRow], NEW k \in Tokens, NEW a \in Int, DrawToken(k, a)
  PROVE  \A j \in Tokens :
           /\ token'[j].unlimited = token[j].unlimited
           /\ token'[j].used = token[j].used + (IF j = k /\ token[k].live THEN a ELSE 0)
           /\ token'[j].remain = token[j].remain - (IF j = k /\ token[k].live THEN a ELSE 0)
<1> SUFFICES ASSUME NEW j \in Tokens
             PROVE  /\ token'[j].unlimited = token[j].unlimited
                    /\ token'[j].used = token[j].used + (IF j = k /\ token[k].live THEN a ELSE 0)
                    /\ token'[j].remain = token[j].remain - (IF j = k /\ token[k].live THEN a ELSE 0)
  OBVIOUS
<1>1. token[j] \in TokenRow /\ token[j].used \in Int /\ token[j].remain \in Int BY DEF TokenRow
<1>2. CASE ~token[k].live
  BY <1>1, <1>2 DEF DrawToken
<1>3. CASE token[k].live
  <2>1. token' = [token EXCEPT ![k] = [token[k] EXCEPT !.remain = @ - a, !.used = @ + a]]
    BY <1>3 DEF DrawToken
  <2>2. CASE j = k
    <3>1. token'[j] = [token[j] EXCEPT !.remain = @ - a, !.used = @ + a] BY <2>1, <2>2
    <3>2. /\ token'[j].unlimited = token[j].unlimited /\ token'[j].used = token[j].used + a
          /\ token'[j].remain = token[j].remain - a
      BY <1>1, <3>1 DEF TokenRow
    <3>3. QED BY <1>3, <2>2, <3>2
  <2>3. CASE j # k
    BY <1>1, <2>1, <2>3
  <2>4. QED BY <2>2, <2>3
<1>4. QED BY <1>2, <1>3

\* A step that leaves both ledgers and the amounts of the call alone.
LEMMA LedgersUntouched ==
  ASSUME TypeOK, NEW c \in Calls, CallKept(c), UNCHANGED <<wallet, form>>,
         \A k \in Tokens : /\ token'[k].unlimited = token[k].unlimited
                           /\ token'[k].used = token[k].used /\ token'[k].remain = token[k].remain,
         call'[c].charged = call[c].charged, call'[c].drawn = call[c].drawn,
         Over(call'[c]) = Over(call[c]),
         StatementFails \/ UNCHANGED faults,
         Taken(call'[c]), CappedTruly(c)',
         UNCHANGED faults /\ Plain(Key(c)) /\ Uneven(call'[c]) => Uneven(call[c])
  PROVE  LedgerStep(c)
<1>1. call[c] \in CallRow /\ Payer(c) \in Users BY CallShape DEF TypeOK
<1>2. /\ call[c].charged \in Int /\ call[c].drawn \in Int /\ call'[c].charged - call[c].charged = 0
      /\ call'[c].drawn - call[c].drawn = 0
  BY <1>1 DEF CallRow
<1>3. wallet' = [wallet EXCEPT ![Payer(c)] = @ - (call'[c].charged - call[c].charged)]
  <2>1. wallet[Payer(c)] - 0 = wallet[Payer(c)] BY <1>1 DEF TypeOK
  <2>2. QED BY <1>1, <1>2, <2>1 DEF TypeOK
<1>4. Over(call'[c]) - Over(call[c]) >= call'[c].charged - call[c].charged
  BY <1>1, <1>2, OverIsSmall
<1>5. \A k \in Tokens :
        /\ token'[k].unlimited = token[k].unlimited
        /\ token'[k].used = token[k].used + (IF k = Key(c) THEN call'[c].drawn - call[c].drawn ELSE 0)
        /\ token'[k].remain = token[k].remain - (IF k = Key(c) THEN call'[c].drawn - call[c].drawn ELSE 0)
  <2> TAKE k \in Tokens
  <2>1. token[k].used \in Int /\ token[k].remain \in Int BY DEF TypeOK, TokenRow
  <2>2. QED BY <1>2, <2>1
<1>6. faults' \in {faults, faults + 1} BY DEF StatementFails
<1>7. QED BY <1>3, <1>4, <1>5, <1>6 DEF LedgerStep

\* An ending that changes neither ledger: the call was even there, and stays so.
LEMMA LedgersAtEnd ==
  ASSUME TypeOK, NEW c \in Calls, CallKept(c), NEW o \in Outcomes, End(c, o),
         Taken(call[c]), CappedTruly(c), UNCHANGED <<wallet, form>>,
         \A k \in Tokens : /\ token'[k].unlimited = token[k].unlimited
                           /\ token'[k].used = token[k].used /\ token'[k].remain = token[k].remain,
         StatementFails \/ UNCHANGED faults,
         call[c].charged <= call[c].held,
         UNCHANGED faults /\ Plain(Key(c)) => Due(call[c]) = 0
  PROVE  LedgerStep(c)
<1> DEFINE x == call[c]  y == call'[c]
<1>0. x \in CallRow /\ Key(c) \in Tokens BY CallShape DEF TypeOK
<1>1. y = [x EXCEPT !.pc = "done", !.outcome = o] BY EndRow DEF TypeOK
<1>2. /\ y.pc = "done" /\ y.outcome = o /\ y.held = x.held /\ y.charged = x.charged
      /\ y.drawn = x.drawn /\ y.delta = x.delta /\ y.capped = x.capped
  BY <1>0, <1>1 DEF CallRow
<1>x. x.charged \in Int /\ x.held \in Int BY <1>0 DEF CallRow
<1>3. Taken(y) BY <1>2, <1>x DEF Taken, Reserving, Paying
<1>4. CappedTruly(c)' BY <1>0, <1>2 DEF CappedTruly, EditDone, Key
<1>5. Over(y) = Over(x) BY <1>2 DEF Over
<1>6. UNCHANGED faults /\ Plain(Key(c)) /\ Uneven(y) => Uneven(x)
  BY <1>2, <1>x DEF Uneven, Due
<1>7. QED BY <1>2, <1>3, <1>4, <1>5, <1>6, LedgersUntouched

\* The fields of a row that only moves on.
LEMMA MoveFields ==
  ASSUME TypeOK, NEW c \in Calls, NEW pc \in Steps, Move(c, pc)
  PROVE  /\ call'[c].pc = pc /\ call'[c].outcome = call[c].outcome /\ call'[c].held = call[c].held
         /\ call'[c].charged = call[c].charged /\ call'[c].drawn = call[c].drawn
         /\ call'[c].delta = call[c].delta /\ call'[c].capped = call[c].capped
<1>1. call'[c] = [call[c] EXCEPT !.pc = pc] BY MoveRow DEF TypeOK
<1>2. QED BY <1>1 DEF TypeOK, CallRow

LEMMA LedgersAtMove ==
  ASSUME TypeOK, NEW c \in Calls, CallKept(c), NEW pc \in Steps, Move(c, pc),
         CappedTruly(c), UNCHANGED <<wallet, token, form>>,
         pc \notin {"debitToken", "debitUser", "payUser"}, pc = "rollback" => call[c].pc = "debitUser",
         StatementFails \/ UNCHANGED faults,
         Taken(call'[c]),
         UNCHANGED faults /\ Plain(Key(c)) => Due(call'[c]) = Due(call[c])
  PROVE  LedgerStep(c)
<1>0. call[c] \in CallRow /\ Key(c) \in Tokens BY CallShape DEF TypeOK
<1>1. CappedTruly(c)' BY <1>0, MoveFields DEF CappedTruly, EditDone, Key
<1>2. Over(call'[c]) = Over(call[c]) BY MoveFields DEF Over
<1>3. UNCHANGED faults /\ Plain(Key(c)) /\ Uneven(call'[c]) => Uneven(call[c])
  BY MoveFields DEF Uneven
<1>4. call'[c].charged = call[c].charged /\ call'[c].drawn = call[c].drawn BY MoveFields
<1>5. QED BY <1>1, <1>2, <1>3, <1>4, LedgersUntouched

LEMMA LedgersAhead ==
  ASSUME TypeOK, NEW c \in Calls, CallKept(c), Taken(call[c]), CappedTruly(c),
         Authenticate(c) \/ MarkExhausted(c) \/ Estimate(c) \/ LoadToken(c)
  PROVE  LedgerStep(c)
<1> DEFINE x == call[c]  y == call'[c]
<1>0. /\ call \in [Calls -> CallRow] /\ x \in CallRow /\ Key(c) \in Tokens /\ UNCHANGED <<wallet, form>>
      /\ StatementFails \/ UNCHANGED faults
  BY CallShape DEF TypeOK, Authenticate, MarkExhausted, Estimate, LoadToken
<1>x. x.charged \in Int /\ x.held \in Int /\ x.drawn \in Int BY <1>0 DEF CallRow
<1>a. ASSUME NEW o \in {"denied", "refused"}, End(c, o), x.pc \in {"idle", "mark", "estimate", "load"},
             \A k \in Tokens : /\ token'[k].unlimited = token[k].unlimited
                               /\ token'[k].used = token[k].used /\ token'[k].remain = token[k].remain
      PROVE  LedgerStep(c)
  <2>1. x.charged <= x.held /\ Due(x) = 0 BY <1>a, <1>x DEF Taken, Due, Reserving
  <2>2. QED BY <1>0, <1>a, <2>1, LedgersAtEnd DEF Outcomes
<1>1. CASE Authenticate(c)
  <2>1. CASE End(c, "denied") BY <1>1, <2>1, <1>a DEF Authenticate
  <2>2. ASSUME NEW pc \in {"mark", "estimate"}, Move(c, pc) PROVE LedgerStep(c)
    <3>1. pc \in Steps BY DEF Steps, Reserving
    <3>2. x.pc = "idle" /\ UNCHANGED <<wallet, token, form>> BY <1>1 DEF Authenticate
    <3>3. Taken(y) BY <2>2, <3>1, <3>2, MoveFields DEF Taken, Reserving, Paying
    <3>4. Due(y) = Due(x) BY <2>2, <3>1, <3>2, MoveFields DEF Due
    <3>5. QED BY <1>0, <2>2, <3>1, <3>2, <3>3, <3>4, LedgersAtMove
  <2>3. QED BY <1>1, <2>1, <2>2 DEF Authenticate
<1>2. CASE MarkExhausted(c)
  <2>1. \A k \in Tokens : /\ token'[k].unlimited = token[k].unlimited
                          /\ token'[k].used = token[k].used /\ token'[k].remain = token[k].remain
    <3>1. CASE UNCHANGED token BY <3>1
    <3>2. CASE token' = [token EXCEPT ![Key(c)].status = "exhausted"]
      BY <3>2, <1>0 DEF TypeOK, TokenRow
    <3>3. QED BY <1>2, <3>1, <3>2 DEF MarkExhausted
  <2>2. QED BY <1>2, <2>1, <1>a DEF MarkExhausted
<1>3. CASE Estimate(c)
  <2>1. x.pc = "estimate" /\ UNCHANGED <<wallet, token, form>> BY <1>3 DEF Estimate
  <2>2. CASE End(c, "refused") BY <2>1, <2>2, <1>a
  <2>3. CASE Move(c, "upstream")
    <3>1. "upstream" \in Steps BY DEF Steps
    <3>3. Taken(y) BY <2>1, <2>3, <3>1, MoveFields DEF Taken, Reserving, Paying
    <3>4. Due(y) = Due(x) BY <2>1, <2>3, <3>1, MoveFields DEF Due
    <3>5. QED BY <1>0, <2>1, <2>3, <3>1, <3>3, <3>4, LedgersAtMove
  <2>4. CASE \E q \in Estimates : call' = [call EXCEPT ![c].pc = "load", ![c].held = q]
    <3>1. PICK q \in Estimates : call' = [call EXCEPT ![c].pc = "load", ![c].held = q] BY <2>4
    <3>2. y = [x EXCEPT !.pc = "load", !.held = q] BY <3>1, <1>0
    <3>3. /\ y.pc = "load" /\ y.held = q /\ y.charged = x.charged /\ y.drawn = x.drawn
          /\ y.capped = x.capped /\ y.outcome = x.outcome
      BY <3>2, <1>0 DEF CallRow
    <3>4. q \in Int /\ q >= 0 BY RelayAssumption
    <3>5. x.charged = 0 /\ x.drawn = 0 /\ x.held = 0 BY <2>1 DEF Taken, Reserving
    <3>6. Taken(y) BY <3>3, <3>4, <3>5 DEF Taken, Paying
    <3>7. CappedTruly(c)' BY <1>0, <2>1, <3>3 DEF CappedTruly, EditDone, Key
    <3>8. Over(y) = Over(x) BY <3>3, <3>4, <3>5 DEF Over
    <3>9. ~Uneven(y) BY <3>3, <3>5 DEF Uneven, Due
    <3>10. QED BY <1>0, <2>1, <3>3, <3>6, <3>7, <3>8, <3>9, LedgersUntouched
  <2>5. QED BY <1>3, <2>2, <2>3, <2>4 DEF Estimate
<1>4. CASE LoadToken(c)
  <2>1. x.pc = "load" /\ UNCHANGED <<wallet, token, form>> BY <1>4 DEF LoadToken
  <2>2. CASE End(c, "refused") BY <2>1, <2>2, <1>a
  <2> DEFINE w == token[Key(c)].unlimited
  <2>3. CASE call' = [call EXCEPT ![c].capped = ~w, ![c].pc = IF w THEN "debitUser" ELSE "debitToken"]
    <3>1. y = [x EXCEPT !.capped = ~w, !.pc = IF w THEN "debitUser" ELSE "debitToken"] BY <2>3, <1>0
    <3>2. /\ y.pc = (IF w THEN "debitUser" ELSE "debitToken") /\ y.capped = ~w /\ y.held = x.held
          /\ y.charged = x.charged /\ y.drawn = x.drawn /\ y.outcome = x.outcome /\ y.delta = x.delta
      BY <3>1, <1>0 DEF CallRow
    <3>3. x.charged = 0 /\ x.drawn = 0 BY <2>1 DEF Taken, Reserving
    <3>4. w \in BOOLEAN BY <1>0 DEF TypeOK, TokenRow
    <3>5. Taken(y) BY <3>2, <3>3, <1>x DEF Taken, Paying, Reserving
    <3>6. CappedTruly(c)' BY <1>0, <2>1, <3>2, <3>4 DEF CappedTruly, EditDone, Key
    <3>7. Over(y) = Over(x) BY <3>2 DEF Over
    <3>8. Plain(Key(c)) => ~Uneven(y) BY <3>2, <3>3 DEF Uneven, Due, Plain
    <3>9. QED BY <1>0, <2>1, <3>2, <3>5, <3>6, <3>7, <3>8, LedgersUntouched
  <2>4. QED BY <1>4, <2>2, <2>3 DEF LoadToken
<1>5. QED BY <1>1, <1>2, <1>3, <1>4

LEMMA LedgersReserve ==
  ASSUME TypeOK, NEW c \in Calls, CallKept(c), Taken(call[c]), CappedTruly(c),
         DebitToken(c) \/ DebitUser(c) \/ RollBack(c)
  PROVE  LedgerStep(c)
<1> DEFINE x == call[c]  y == call'[c]  k == Key(c)  u == Payer(c)
<1>0. /\ call \in [Calls -> CallRow] /\ x \in CallRow /\ k \in Tokens /\ u \in Users
      /\ wallet \in [Users -> Int] /\ token \in [Tokens -> TokenRow] /\ UNCHANGED form
      /\ faults' \in {faults, faults + 1} /\ (StatementFails \/ UNCHANGED faults)
  BY CallShape DEF TypeOK, DebitToken, DebitUser, RollBack, StatementFails
<1>x. /\ x.charged \in Int /\ x.held \in Int /\ x.drawn \in Int /\ wallet[u] \in Int
      /\ x.charged = 0 /\ x.held >= 0
  BY <1>0 DEF CallRow, Taken, Reserving, DebitToken, DebitUser, RollBack
<1>a. ASSUME End(c, "refused"), UNCHANGED <<wallet, token>>,
             UNCHANGED faults /\ Plain(k) => Due(x) = 0
      PROVE  LedgerStep(c)
  BY <1>0, <1>x, <1>a, LedgersAtEnd DEF Outcomes
<1>1. CASE DebitToken(c)
  <2>1. x.pc = "debitToken" /\ x.drawn = 0 BY <1>1 DEF DebitToken, Taken
  <2>2. CASE End(c, "refused") /\ UNCHANGED <<wallet, token>>
    BY <2>1, <2>2, <1>a DEF Due
  <2>3. CASE /\ TokenCovers(token[k], x.held) /\ DrawToken(k, x.held) /\ UNCHANGED <<wallet, faults>>
             /\ call' = [call EXCEPT ![c].pc = "debitUser", ![c].drawn = x.held]
    <3>1. y = [x EXCEPT !.pc = "debitUser", !.drawn = x.held] BY <2>3, <1>0
    <3>2. /\ y.pc = "debitUser" /\ y.capped = x.capped /\ y.held = x.held /\ y.charged = x.charged
          /\ y.drawn = x.held /\ y.outcome = x.outcome /\ y.delta = x.delta
      BY <3>1, <1>0 DEF CallRow
    <3>3. Taken(y) BY <2>1, <3>2, <1>x DEF Taken, Paying, Reserving
    <3>4. token[k].live BY <2>3 DEF TokenCovers
    <3>5. \A j \in Tokens :
            /\ token'[j].unlimited = token[j].unlimited
            /\ token'[j].used = token[j].used + (IF j = k THEN y.drawn - x.drawn ELSE 0)
            /\ token'[j].remain = token[j].remain - (IF j = k THEN y.drawn - x.drawn ELSE 0)
      <4>1. y.drawn - x.drawn = x.held BY <2>1, <3>2, <1>x
      <4>2. QED BY <2>3, <3>4, <4>1, <1>0, <1>x, DrawTokenBooks
    <3>6. CappedTruly(c)' BY <1>0, <2>1, <3>2, <3>5 DEF CappedTruly, EditDone, Key
    <3>7. ~Uneven(y) BY <3>2, <1>x DEF Uneven, Due
    <3>8. Over(y) - Over(x) >= y.charged - x.charged BY <3>2, <1>x DEF Over
    <3>9. wallet' = [wallet EXCEPT ![u] = @ - (y.charged - x.charged)] BY <1>0, <1>x, <2>3, <3>2
    <3>10. QED BY <1>0, <3>3, <3>5, <3>6, <3>7, <3>8, <3>9 DEF LedgerStep
  <2>4. QED BY <1>1, <2>2, <2>3 DEF DebitToken
<1>2. CASE DebitUser(c)
  <2>1. x.pc = "debitUser" /\ UNCHANGED <<token, form>> BY <1>2 DEF DebitUser
  <2>2. CASE UndoOrRefuse(c) /\ UNCHANGED wallet
    <3>1. CASE x.capped
      <4>1. Move(c, "rollback") /\ "rollback" \in Steps BY <2>2, <3>1 DEF UndoOrRefuse, Steps, Reserving
      <4>2. Taken(y) BY <2>1, <4>1, <1>x, MoveFields DEF Taken, Paying, Reserving
      <4>3. Due(y) = Due(x) BY <2>1, <4>1, MoveFields DEF Due
      <4>4. QED BY <1>0, <2>1, <2>2, <4>1, <4>2, <4>3, LedgersAtMove
    <3>2. CASE ~x.capped
      <4>1. End(c, "refused") BY <2>2, <3>2 DEF UndoOrRefuse
      <4>2. ~Plain(k) BY <1>0, <2>1, <3>2 DEF CappedTruly, Plain, TokenRow
      <4>3. QED BY <2>1, <2>2, <4>1, <4>2, <1>a
    <3>3. QED BY <3>1, <3>2, <1>0 DEF CallRow
  <2>3. CASE /\ WalletCovers(wallet[u], x.held) /\ DrawWallet(u, x.held) /\ UNCHANGED faults
             /\ call' = [call EXCEPT ![c].pc = "upstream", ![c].charged = x.held]
    <3>1. y = [x EXCEPT !.pc = "upstream", !.charged = x.held] BY <2>3, <1>0
    <3>2. /\ y.pc = "upstream" /\ y.capped = x.capped /\ y.held = x.held /\ y.charged = x.held
          /\ y.drawn = x.drawn /\ y.outcome = x.outcome /\ y.delta = x.delta
      BY <3>1, <1>0 DEF CallRow
    <3>3. Taken(y) BY <2>1, <3>2, <1>x DEF Taken, Paying, Reserving
    <3>4. wallet' = [wallet EXCEPT ![u] = @ - (y.charged - x.charged)] /\ wallet'[u] >= 0
      <4>1. y.charged - x.charged = x.held BY <3>2, <1>x
      <4>2. wallet[u] - x.held >= 0 BY <2>3, <1>x DEF WalletCovers
      <4>3. QED BY <2>3, <4>1, <4>2, <1>0 DEF DrawWallet
    <3>5. \A j \in Tokens :
            /\ token'[j].unlimited = token[j].unlimited
            /\ token'[j].used = token[j].used + (IF j = k THEN y.drawn - x.drawn ELSE 0)
            /\ token'[j].remain = token[j].remain - (IF j = k THEN y.drawn - x.drawn ELSE 0)
      <4> TAKE j \in Tokens
      <4>1. token[j].used \in Int /\ token[j].remain \in Int BY <1>0 DEF TokenRow
      <4>2. y.drawn - x.drawn = 0 BY <3>2, <1>x
      <4>3. QED BY <2>1, <4>1, <4>2
    <3>6. CappedTruly(c)' BY <1>0, <2>1, <3>2 DEF CappedTruly, EditDone, Key
    <3>7. Uneven(y) => Uneven(x) BY <2>1, <3>2, <1>x DEF Uneven, Due
    <3>8. QED BY <1>0, <3>3, <3>4, <3>5, <3>6, <3>7 DEF LedgerStep
  <2>4. QED BY <1>2, <2>2, <2>3 DEF DebitUser
<1>3. CASE RollBack(c)
  <2>1. x.pc = "rollback" /\ UNCHANGED <<wallet, form>> BY <1>3 DEF RollBack
  <2>2. CASE StatementFails /\ End(c, "refused") /\ UNCHANGED token
    <3>1. faults' # faults BY <2>2 DEF StatementFails, TypeOK
    <3>2. QED BY <2>1, <2>2, <3>1, <1>a
  <2> DEFINE d == Drawn(c, -x.held)
  <2>3. CASE /\ DrawToken(k, -x.held) /\ UNCHANGED faults
             /\ call' = [call EXCEPT ![c].pc = "done", ![c].outcome = "refused", ![c].drawn = d]
    <3>1. y = [x EXCEPT !.pc = "done", !.outcome = "refused", !.drawn = d] BY <2>3, <1>0
    <3>2. /\ y.pc = "done" /\ y.capped = x.capped /\ y.held = x.held /\ y.charged = x.charged
          /\ y.drawn = d /\ y.outcome = "refused" /\ y.delta = x.delta
      BY <3>1, <1>0 DEF CallRow
    <3>3. d = x.drawn + (IF token[k].live THEN -x.held ELSE 0) BY <1>x DEF Drawn
    <3>4. Taken(y) BY <2>1, <3>2, <1>x DEF Taken, Paying, Reserving
    <3>5. \A j \in Tokens :
            /\ token'[j].unlimited = token[j].unlimited
            /\ token'[j].used = token[j].used + (IF j = k THEN y.drawn - x.drawn ELSE 0)
            /\ token'[j].remain = token[j].remain - (IF j = k THEN y.drawn - x.drawn ELSE 0)
      <4> TAKE j \in Tokens
      <4>1. y.drawn - x.drawn = IF token[k].live THEN -x.held ELSE 0 BY <3>2, <3>3, <1>x
      <4>2. /\ token'[j].unlimited = token[j].unlimited
            /\ token'[j].used = token[j].used + (IF j = k /\ token[k].live THEN -x.held ELSE 0)
            /\ token'[j].remain = token[j].remain - (IF j = k /\ token[k].live THEN -x.held ELSE 0)
        BY <2>3, <1>0, <1>x, DrawTokenBooks
      <4>3. QED BY <4>1, <4>2
    <3>6. CappedTruly(c)' BY <1>0, <2>1, <3>2, <3>5 DEF CappedTruly, EditDone, Key
    <3>7. token[k].live /\ Uneven(y) => Uneven(x) BY <2>1, <3>2, <3>3, <1>x DEF Uneven, Due
    <3>8. Over(y) - Over(x) >= y.charged - x.charged BY <3>2, <1>x DEF Over
    <3>9. wallet' = [wallet EXCEPT ![u] = @ - (y.charged - x.charged)] BY <1>0, <1>x, <2>1, <3>2
    <3>10. QED BY <1>0, <3>4, <3>5, <3>6, <3>7, <3>8, <3>9 DEF LedgerStep
  <2>4. QED BY <1>3, <2>2, <2>3 DEF RollBack
<1>4. QED BY <1>1, <1>2, <1>3

LEMMA LedgersUpstream ==
  ASSUME TypeOK, NEW c \in Calls, CallKept(c), Taken(call[c]), CappedTruly(c),
         UpstreamStep(c) \/ Record(c)
  PROVE  LedgerStep(c)
<1> DEFINE x == call[c]  y == call'[c]
<1>0. /\ call \in [Calls -> CallRow] /\ x \in CallRow /\ Key(c) \in Tokens
      /\ UNCHANGED <<wallet, token, form, faults>>
  BY CallShape DEF TypeOK, UpstreamStep, RequestNotMade, AnswerWithoutUsage, UpstreamRejects,
                   UpstreamServes, Record
<1>x. x.charged \in Int /\ x.held \in Int /\ x.drawn \in Int /\ x.delta \in Int BY <1>0 DEF CallRow
<1>1. CASE RequestNotMade(c) \/ AnswerWithoutUsage(c)
  <2>0. PICK o \in {"dropped", "unmetered"} : End(c, o)
    BY <1>1 DEF RequestNotMade, AnswerWithoutUsage
  <2>1. x.charged <= x.held /\ Due(x) = 0
    BY <1>1, <1>x DEF RequestNotMade, AnswerWithoutUsage, Taken, Due
  <2>2. QED BY <1>0, <2>0, <2>1, LedgersAtEnd DEF Outcomes
<1>b. ASSUME y.held = x.held, y.charged = x.charged, y.drawn = x.drawn, y.capped = x.capped,
             y.pc \in {"done", "payLoad"}, Taken(y), Due(x) = 0
      PROVE  LedgerStep(c)
  <2>1. CappedTruly(c)' BY <1>0, <1>b DEF CappedTruly, EditDone, Key
  <2>2. Over(y) = Over(x) BY <1>b DEF Over
  <2>3. Uneven(y) => Uneven(x) BY <1>b, <1>x DEF Uneven, Due
  <2>4. QED BY <1>0, <1>b, <2>1, <2>2, <2>3, LedgersUntouched
<1>2. CASE UpstreamRejects(c)
  <2>1. x.pc = "upstream" /\ x.charged = x.held /\ x.held >= 0 BY <1>2 DEF UpstreamRejects, Taken
  <2> DEFINE pc == IF x.held = 0 THEN "done" ELSE "payLoad"
  <2>2. y = [x EXCEPT !.outcome = "error", !.delta = ReturnedDelta(c), !.pc = pc]
    BY <1>0, <1>2 DEF UpstreamRejects
  <2>3. /\ y.pc = pc /\ y.outcome = "error" /\ y.delta = -x.held /\ y.capped = x.capped
        /\ y.held = x.held /\ y.charged = x.charged /\ y.drawn = x.drawn
    BY <2>2, <1>0 DEF CallRow, ReturnedDelta
  <2>4. Taken(y) BY <2>1, <2>3, <1>x DEF Taken, Paying, Reserving
  <2>5. QED BY <2>1, <2>3, <2>4, <1>b DEF Due
<1>3. CASE UpstreamServes(c)
  <2>1. x.pc = "upstream" /\ x.charged = x.held /\ x.held >= 0 BY <1>3 DEF UpstreamServes, Taken
  <2>2. PICK b \in Bills :
          call' = [call EXCEPT ![c].outcome = "served", ![c].bill = b,
                               ![c].delta = SettledDelta(c, b), ![c].pc = "payLoad"]
    BY <1>3 DEF UpstreamServes
  <2>3. y = [x EXCEPT !.outcome = "served", !.bill = b, !.delta = SettledDelta(c, b), !.pc = "payLoad"]
    BY <2>2, <1>0
  <2>4. /\ y.pc = "payLoad" /\ y.outcome = "served" /\ y.capped = x.capped
        /\ y.held = x.held /\ y.charged = x.charged /\ y.drawn = x.drawn
    BY <2>3, <1>0 DEF CallRow
  <2>5. Taken(y) BY <2>1, <2>4, <1>x DEF Taken, Paying, Reserving
  <2>6. QED BY <2>1, <2>4, <2>5, <1>b DEF Due
<1>4. CASE Record(c)
  <2>1. x.pc = "record" BY <1>4 DEF Record
  <2>2. y = [x EXCEPT !.pc = "done", !.logged = x.bill] BY <1>0, <1>4 DEF Record
  <2>3. /\ y.pc = "done" /\ y.outcome = x.outcome /\ y.delta = x.delta /\ y.capped = x.capped
        /\ y.held = x.held /\ y.charged = x.charged /\ y.drawn = x.drawn
    BY <2>2, <1>0 DEF CallRow
  <2>4. Taken(y) BY <2>1, <2>3, <1>x DEF Taken, Paying, Reserving
  <2>5. QED BY <2>1, <2>3, <2>4, <1>b DEF Due
<1>5. QED BY <1>1, <1>2, <1>3, <1>4 DEF UpstreamStep

LEMMA LedgersPay ==
  ASSUME TypeOK, NEW c \in Calls, CallKept(c), Taken(call[c]), CappedTruly(c),
         PayLoad(c) \/ PayUser(c) \/ PayToken(c)
  PROVE  LedgerStep(c)
<1> DEFINE x == call[c]  y == call'[c]  k == Key(c)  u == Payer(c)
<1>0. /\ call \in [Calls -> CallRow] /\ x \in CallRow /\ k \in Tokens /\ u \in Users
      /\ wallet \in [Users -> Int] /\ token \in [Tokens -> TokenRow] /\ UNCHANGED form
      /\ faults' \in {faults, faults + 1} /\ (StatementFails \/ UNCHANGED faults)
      /\ AfterPayment(c) \in {"record", "done"} /\ AfterPayment(c) \in Steps
      /\ AfterUser(c) = (IF x.capped THEN "payToken" ELSE AfterPayment(c)) /\ AfterUser(c) \in Steps
  BY CallShape, AfterTypes DEF TypeOK, PayLoad, PayUser, PayToken, StatementFails, AfterPayment, AfterUser
<1>x. /\ x.charged \in Int /\ x.held \in Int /\ x.drawn \in Int /\ x.delta \in Int /\ wallet[u] \in Int
      /\ x.held >= 0 /\ x.outcome \in {"served", "error"}
      /\ x.outcome = "error" => x.delta = -x.held
  BY <1>0 DEF CallRow, Taken, Paying, PayLoad, PayUser, PayToken
<1>f. StatementFails => faults' # faults BY DEF StatementFails, TypeOK
\* The goroutine goes on with no ledger written.
<1>a. ASSUME NEW pc \in {"payToken", "record", "done"}, Move(c, pc), UNCHANGED <<wallet, token>>,
             UNCHANGED faults => Due(x) = 0 /\ pc # "payToken"
      PROVE  LedgerStep(c)
  <2>1. pc \in Steps BY DEF Steps, Paying
  <2>2. Taken(y) BY <1>a, <1>x, <2>1, MoveFields DEF Taken, Paying, Reserving
  <2>3. UNCHANGED faults => Due(y) = Due(x) BY <1>a, <2>1, MoveFields DEF Due
  <2>4. QED BY <1>0, <1>a, <2>1, <2>2, <2>3, LedgersAtMove
<1>1. CASE PayLoad(c)
  <2>1. x.pc = "payLoad" /\ UNCHANGED <<wallet, token, form>> BY <1>1 DEF PayLoad
  <2>2. CASE Move(c, AfterPayment(c)) BY <1>0, <2>1, <2>2, <1>a DEF Due
  <2> DEFINE w == token[k].unlimited
  <2>3. CASE call' = [call EXCEPT ![c].capped = ~w, ![c].pc = "payUser"]
    <3>1. y = [x EXCEPT !.capped = ~w, !.pc = "payUser"] BY <2>3, <1>0
    <3>2. /\ y.pc = "payUser" /\ y.capped = ~w /\ y.held = x.held /\ y.charged = x.charged
          /\ y.drawn = x.drawn /\ y.outcome = x.outcome /\ y.delta = x.delta
      BY <3>1, <1>0 DEF CallRow
    <3>3. Taken(y) BY <2>1, <3>2, <1>x DEF Taken, Paying, Reserving
    <3>4. w \in BOOLEAN BY <1>0 DEF TokenRow
    <3>5. CappedTruly(c)' BY <1>0, <2>1, <3>2, <3>4 DEF CappedTruly, EditDone, Key
    <3>6. Over(y) = Over(x) BY <3>2 DEF Over
    <3>7. Uneven(y) => Uneven(x) BY <2>1, <3>2 DEF Uneven, Due
    <3>8. QED BY <1>0, <2>1, <3>2, <3>3, <3>5, <3>6, <3>7, LedgersUntouched
  <2>4. QED BY <1>1, <2>2, <2>3 DEF PayLoad
<1>2. CASE PayUser(c)
  <2>1. x.pc = "payUser" /\ x.charged = x.held /\ UNCHANGED <<token, form>> BY <1>2 DEF PayUser, Taken
  <2>2. CASE StatementFails /\ Move(c, AfterUser(c)) /\ UNCHANGED wallet
    BY <1>0, <1>f, <2>1, <2>2, <1>a
  <2>3. CASE /\ DrawWallet(u, x.delta) /\ UNCHANGED faults
             /\ call' = [call EXCEPT ![c].pc = AfterUser(c), ![c].charged = @ + x.delta]
    <3>1. y = [x EXCEPT !.pc = AfterUser(c), !.charged = x.charged + x.delta] BY <2>3, <1>0
    <3>2. /\ y.pc = AfterUser(c) /\ y.capped = x.capped /\ y.held = x.held
          /\ y.charged = x.charged + x.delta
          /\ y.drawn = x.drawn /\ y.outcome = x.outcome /\ y.delta = x.delta
      BY <3>1, <1>0 DEF CallRow
    <3>0. AfterUser(c) \in {"payToken", "record", "done"} BY <1>0
    <3>3. Taken(y) BY <2>1, <3>0, <3>2, <1>x DEF Taken, Paying, Reserving
    <3>4. /\ wallet' = [wallet EXCEPT ![u] = @ - (y.charged - x.charged)]
          /\ Over(y) - Over(x) >= y.charged - x.charged
      <4>1. y.charged - x.charged = x.delta BY <3>2, <1>x
      <4>2. Over(y) - Over(x) >= x.delta BY <2>1, <3>2, <1>x DEF Over
      <4>3. QED BY <2>3, <4>1, <4>2, <1>0 DEF DrawWallet
    <3>5. \A j \in Tokens :
            /\ token'[j].unlimited = token[j].unlimited
            /\ token'[j].used = token[j].used + (IF j = k THEN y.drawn - x.drawn ELSE 0)
            /\ token'[j].remain = token[j].remain - (IF j = k THEN y.drawn - x.drawn ELSE 0)
      <4> TAKE j \in Tokens
      <4>1. token[j].used \in Int /\ token[j].remain \in Int BY <1>0 DEF TokenRow
      <4>2. y.drawn - x.drawn = 0 BY <3>2, <1>x
      <4>3. QED BY <2>1, <4>1, <4>2
    <3>6. CappedTruly(c)' BY <1>0, <2>1, <3>0, <3>2 DEF CappedTruly, EditDone, Key
    <3>7. Plain(k) /\ Uneven(y) => Uneven(x)
      <4>1. Plain(k) => x.capped BY <2>1 DEF CappedTruly, Plain
      <4>2. x.capped => y.pc = "payToken" BY <1>0, <3>2
      <4>3. QED BY <2>1, <4>1, <4>2, <3>2, <1>x DEF Uneven, Due
    <3>8. QED BY <1>0, <3>3, <3>4, <3>5, <3>6, <3>7 DEF LedgerStep
  <2>4. QED BY <1>2, <2>2, <2>3 DEF PayUser
<1>3. CASE PayToken(c)
  <2>1. x.pc = "payToken" /\ UNCHANGED <<wallet, form>> BY <1>3 DEF PayToken
  <2>2. CASE StatementFails /\ Move(c, AfterPayment(c)) /\ UNCHANGED token
    BY <1>0, <1>f, <2>1, <2>2, <1>a
  <2> DEFINE d == Drawn(c, x.delta)
  <2>3. CASE /\ DrawToken(k, x.delta) /\ UNCHANGED faults
             /\ call' = [call EXCEPT ![c].pc = AfterPayment(c), ![c].drawn = d]
    <3>1. y = [x EXCEPT !.pc = AfterPayment(c), !.drawn = d] BY <2>3, <1>0
    <3>2. /\ y.pc = AfterPayment(c) /\ y.capped = x.capped /\ y.held = x.held /\ y.charged = x.charged
          /\ y.drawn = d /\ y.outcome = x.outcome /\ y.delta = x.delta
      BY <3>1, <1>0 DEF CallRow
    <3>3. d = x.drawn + (IF token[k].live THEN x.delta ELSE 0) BY <1>x DEF Drawn
    <3>4. Taken(y)
      <4>1. Taken(x) OBVIOUS
      <4>2. QED BY <1>0, <4>1, <3>2, <1>x DEF Taken, Paying, Reserving
    <3>5. \A j \in Tokens :
            /\ token'[j].unlimited = token[j].unlimited
            /\ token'[j].used = token[j].used + (IF j = k THEN y.drawn - x.drawn ELSE 0)
            /\ token'[j].remain = token[j].remain - (IF j = k THEN y.drawn - x.drawn ELSE 0)
      <4> TAKE j \in Tokens
      <4>1. y.drawn - x.drawn = IF token[k].live THEN x.delta ELSE 0 BY <3>2, <3>3, <1>x
      <4>2. /\ token'[j].unlimited = token[j].unlimited
            /\ token'[j].used = token[j].used + (IF j = k /\ token[k].live THEN x.delta ELSE 0)
            /\ token'[j].remain = token[j].remain - (IF j = k /\ token[k].live THEN x.delta ELSE 0)
        BY <2>3, <1>0, <1>x, DrawTokenBooks
      <4>3. QED BY <4>1, <4>2
    <3>6. CappedTruly(c)' BY <1>0, <2>1, <3>2, <3>5 DEF CappedTruly, EditDone, Key
    <3>7. token[k].live /\ Uneven(y) => Uneven(x) BY <1>0, <2>1, <3>2, <3>3, <1>x DEF Uneven, Due
    <3>8. Over(y) - Over(x) >= y.charged - x.charged BY <3>2, <1>x DEF Over
    <3>9. wallet' = [wallet EXCEPT ![u] = @ - (y.charged - x.charged)] BY <1>0, <1>x, <2>1, <3>2
    <3>10. QED BY <1>0, <3>4, <3>5, <3>6, <3>7, <3>8, <3>9 DEF LedgerStep
  <2>4. QED BY <1>3, <2>2, <2>3 DEF PayToken
<1>4. QED BY <1>1, <1>2, <1>3

LEMMA LedgersRetry ==
  ASSUME TypeOK, LedgerInv, NEW c \in Calls, Retry(c)
  PROVE  LedgerInv'
<1> DEFINE n == NextCall(c)
<1>1. n \in Calls BY CallShape DEF Retry
<1>2. /\ call[n].pc = "idle" /\ Move(n, "estimate") /\ "estimate" \in Steps
      /\ UNCHANGED <<wallet, token, form, faults, crashes>>
  BY DEF Retry, Steps, Reserving
<1>3. CallKept(n) BY KeepRetry
<1>4. Taken(call[n]) /\ CappedTruly(n) BY <1>1 DEF LedgerInv
<1>5. Taken(call'[n]) BY <1>1, <1>2, <1>4, MoveFields DEF Taken, Reserving, Paying
<1>6. Due(call'[n]) = Due(call[n]) BY <1>1, <1>2, MoveFields DEF Due
<1>7. LedgerStep(n) BY <1>1, <1>2, <1>3, <1>4, <1>5, <1>6, LedgersAtMove
<1>8. QED BY <1>1, <1>2, <1>3, <1>7, LedgerKept

\* A step of the dashboard or the end of the process: no amount changes.
LEMMA AmountsKept ==
  ASSUME TypeOK, UsedIsDrawn, OverdraftCounted, wallet' = wallet,
         call' \in [Calls -> CallRow],
         \A d \in Calls : /\ call'[d].drawn = call[d].drawn /\ call'[d].charged = call[d].charged
                          /\ call'[d].held = call[d].held,
         \A k \in Tokens : token'[k].used = token[k].used
  PROVE  UsedIsDrawn' /\ OverdraftCounted'
<1>1. [d \in Calls |-> call'[d].drawn] = [d \in Calls |-> call[d].drawn] OBVIOUS
<1>2. [d \in Calls |-> Over(call'[d])] = [d \in Calls |-> Over(call[d])] BY DEF Over
<1>3. UsedIsDrawn' BY <1>1 DEF UsedIsDrawn, KeyCalls, Key
<1>4. OverdraftCounted' BY <1>2 DEF OverdraftCounted, PayerCalls, Payer, Key
<1>5. QED BY <1>3, <1>4

LEMMA LedgersEdit ==
  ASSUME TypeOK, LedgerInv, NEW f \in Forms, ReadForEdit(f) \/ WriteEdit(f)
  PROVE  LedgerInv'
<1> DEFINE k == form[f].token
<1>0. /\ form[f] \in Editing /\ k \in Tokens /\ token \in [Tokens -> TokenRow]
      /\ UNCHANGED <<wallet, call, crashes, faults>>
      /\ \A j \in Tokens : token'[j].live = token[j].live
  BY TypeEdit DEF TypeOK, Editing, ReadForEdit, WriteEdit
<1>1. \A j \in Tokens : ~EditDone(j)' => ~EditDone(j) /\ token'[j] = token[j]
  <2>1. CASE ReadForEdit(f)
    <3>1. token' = token /\ form[f].pc = "idle" BY <2>1 DEF ReadForEdit
    <3>2. \A g \in Forms : form'[g].token = form[g].token /\ (form'[g].pc = "done" <=> form[g].pc = "done")
      <4>1. PICK r, b : form' = [form EXCEPT ![f].pc = "write", ![f].statusOnly = b, ![f].row = r]
        BY <2>1 DEF ReadForEdit
      <4>2. form'[f] = [form[f] EXCEPT !.pc = "write", !.statusOnly = b, !.row = r]
        BY <4>1 DEF TypeOK
      <4>3. form'[f].token = form[f].token /\ form'[f].pc = "write" BY <4>2, <1>0 DEF Editing
      <4>4. \A g \in Forms \ {f} : form'[g] = form[g] BY <4>1 DEF TypeOK
      <4>5. QED BY <3>1, <4>3, <4>4
    <3>3. QED BY <3>1, <3>2 DEF EditDone
  <2>2. CASE WriteEdit(f)
    <3>1. \A g \in Forms : form'[g].token = form[g].token /\ (form[g].pc = "done" => form'[g].pc = "done")
      BY <2>2, <1>0 DEF WriteEdit, TypeOK, Editing
    <3>2. form'[f].pc = "done" BY <2>2, <1>0 DEF WriteEdit, TypeOK, Editing
    <3>3. \A j \in Tokens \ {k} : token'[j] = token[j] BY <2>2, <1>0 DEF WriteEdit
    <3>4. EditDone(k)' BY <3>1, <3>2 DEF EditDone
    <3>5. QED BY <3>1, <3>3, <3>4 DEF EditDone
  <2>3. QED BY <2>1, <2>2
<1>2. \A j \in Tokens : token'[j].used = token[j].used
  <2>1. CASE ReadForEdit(f) BY <2>1 DEF ReadForEdit
  <2>2. CASE WriteEdit(f)
    <3>1. \A j \in Tokens : Written(token[j], form[f].row).used = token[j].used
      BY <1>0 DEF Written, TokenRow
    <3>2. QED BY <2>2, <3>1, <1>0 DEF WriteEdit
  <2>3. QED BY <2>1, <2>2
<1>3. UsedIsDrawn' /\ OverdraftCounted' BY <1>0, <1>2, AmountsKept DEF LedgerInv, TypeOK
<1>4. RemainsRest' BY <1>1 DEF LedgerInv, RemainsRest
<1>5. \A d \in Calls : Taken(call'[d]) /\ CappedTruly(d)'
  BY <1>0, <1>1, CallShape DEF LedgerInv, CappedTruly, Key
<1>6. SplitsCounted'
  <2> SUFFICES ASSUME crashes = 0, \A j \in Tokens : token[j].live PROVE Cardinality(SplitCalls') <= faults
    BY <1>0 DEF SplitsCounted
  <2>1. SplitCalls' \subseteq SplitCalls BY <1>0, <1>1, CallShape DEF SplitCalls, Plain, Key
  <2>2. IsFiniteSet(SplitCalls) BY CallsAreFinite, FS_Subset DEF SplitCalls
  <2>3. /\ Cardinality(SplitCalls') <= Cardinality(SplitCalls) /\ Cardinality(SplitCalls) \in Nat
        /\ Cardinality(SplitCalls') \in Nat
    BY <2>1, <2>2, FS_Subset, FS_CardinalityType
  <2>4. Cardinality(SplitCalls) <= faults /\ faults \in Nat BY DEF LedgerInv, SplitsCounted, TypeOK
  <2>5. QED BY <2>3, <2>4
<1>7. QED BY <1>3, <1>4, <1>5, <1>6 DEF LedgerInv

LEMMA LedgersDelete ==
  ASSUME TypeOK, LedgerInv, NEW k \in Tokens, DeleteToken(k)
  PROVE  LedgerInv'
<1>1. UNCHANGED <<wallet, call, form, crashes, faults>> /\ ~token'[k].live
  BY TypeDelete DEF DeleteToken
<1>2. \A j \in Tokens : /\ token'[j].used = token[j].used /\ token'[j].remain = token[j].remain
                        /\ token'[j].unlimited = token[j].unlimited
  BY DEF DeleteToken, TypeOK, TokenRow
<1>3. UsedIsDrawn' /\ OverdraftCounted' BY <1>1, <1>2, AmountsKept DEF LedgerInv, TypeOK
<1>4. RemainsRest' BY <1>1, <1>2 DEF LedgerInv, RemainsRest, EditDone
<1>5. \A d \in Calls : Taken(call'[d]) /\ CappedTruly(d)'
  BY <1>1, <1>2, CallShape DEF LedgerInv, CappedTruly, EditDone, Key
<1>6. SplitsCounted' BY <1>1 DEF SplitsCounted
<1>7. QED BY <1>3, <1>4, <1>5, <1>6 DEF LedgerInv

LEMMA LedgersCrash ==
  ASSUME TypeOK, LedgerInv, Crash
  PROVE  LedgerInv'
<1>1. UNCHANGED <<wallet, token, faults>> /\ crashes' # 0 /\ call' \in [Calls -> CallRow]
  <2>1. UNCHANGED <<wallet, token, faults>> BY DEF Crash
  <2>2. TypeOK' /\ crashes' > 0 BY TypeCrash
  <2>3. QED BY <2>1, <2>2 DEF TypeOK
<1>2. \A j : EditDone(j)' = EditDone(j)
  <2>1. \A g \in Forms : form'[g].token = form[g].token /\ (form'[g].pc = "done" <=> form[g].pc = "done")
    <3> TAKE g \in Forms
    <3>1. form[g] \in Editing BY DEF TypeOK
    <3>2. form'[g] = IF form[g].pc = "write" THEN [form[g] EXCEPT !.pc = "idle"] ELSE form[g]
      BY DEF Crash
    <3>3. QED BY <3>1, <3>2 DEF Editing
  <2>2. QED BY <2>1 DEF EditDone
<1>3. ASSUME NEW d \in Calls
      PROVE  /\ call'[d].drawn = call[d].drawn /\ call'[d].charged = call[d].charged
             /\ call'[d].held = call[d].held
             /\ Taken(call'[d]) /\ CappedTruly(d)'
  <2>1. call[d] \in CallRow /\ Taken(call[d]) /\ CappedTruly(d) /\ Key(d) \in Tokens
    BY CallShape DEF TypeOK, LedgerInv
  <2>2. CASE call'[d] = call[d]
    BY <1>1, <1>2, <2>1, <2>2 DEF CappedTruly, Key
  <2>3. CASE call'[d] = [call[d] EXCEPT !.pc = "done", !.outcome = "crashed"]
    <3>1. /\ call'[d].pc = "done" /\ call'[d].outcome = "crashed" /\ call'[d].held = call[d].held
          /\ call'[d].charged = call[d].charged /\ call'[d].drawn = call[d].drawn
          /\ call'[d].delta = call[d].delta /\ call'[d].capped = call[d].capped
      BY <2>1, <2>3 DEF CallRow
    <3>2. Taken(call'[d]) BY <2>1, <3>1 DEF Taken, Paying, Reserving
    <3>3. CappedTruly(d)' BY <1>1, <1>2, <2>1, <3>1 DEF CappedTruly, Key
    <3>4. QED BY <3>1, <3>2, <3>3
  <2>4. QED BY <2>2, <2>3 DEF Crash
<1>4. UsedIsDrawn' /\ OverdraftCounted' BY <1>1, <1>3, AmountsKept DEF LedgerInv
<1>5. RemainsRest' BY <1>1, <1>2 DEF LedgerInv, RemainsRest
<1>6. SplitsCounted' BY <1>1 DEF SplitsCounted
<1>7. QED BY <1>3, <1>4, <1>5, <1>6 DEF LedgerInv

LEMMA LedgerInit == Init => LedgerInv
<1> SUFFICES ASSUME Init PROVE LedgerInv OBVIOUS
<1>1. \A c \in Calls : call[c] = NewCall BY DEF Init
<1>2. \A k \in Tokens : token[k].used = 0 /\ token[k].remain = OpeningCap
  BY DEF Init, NewToken
<1>3. \A k : ~EditDone(k)
  <2> DEFINE R == NewToken(FALSE)
             S == {[pc |-> "idle", token |-> k, row |-> R, statusOnly |-> FALSE] : k \in Tokens}
  <2>0. form \in [Forms -> S] BY DEF Init
  <2> HIDE DEF R
  <2>a. \A e \in S : e.pc = "idle" OBVIOUS
  <2> HIDE DEF S
  <2>1. \A f \in Forms : form[f].pc = "idle" BY <2>0, <2>a
  <2>2. QED BY <2>1 DEF EditDone
<1>4. \A c \in Calls : Taken(call[c]) /\ CappedTruly(c)
  BY <1>1 DEF NewCall, Taken, CappedTruly, Reserving, Paying
<1>5. UsedIsDrawn
  <2> SUFFICES ASSUME NEW k \in Tokens
               PROVE  token[k].used = SumFunctionOnSet([c \in Calls |-> call[c].drawn], KeyCalls(k))
    BY DEF UsedIsDrawn
  <2> DEFINE f == [c \in Calls |-> call[c].drawn]
  <2>1. IsFiniteSet(KeyCalls(k)) /\ \A c \in KeyCalls(k) : f[c] = 0
    BY <1>1, CallsAreFinite DEF NewCall
  <2> HIDE DEF f
  <2>2. SumFunctionOnSet(f, KeyCalls(k)) = 0 BY <2>1, SumOfZeros
  <2>3. QED BY <1>2, <2>2 DEF f
<1>6. RemainsRest BY <1>2, RelayAssumption DEF RemainsRest
<1>7. SplitsCounted
  <2>1. \A c \in Calls : ~Uneven(call[c]) BY <1>1 DEF NewCall, Uneven, Due
  <2>2. SplitCalls = {} BY <2>1 DEF SplitCalls
  <2>3. Cardinality(SplitCalls) = 0 BY <2>2, FS_EmptySet
  <2>4. QED BY <2>3 DEF SplitsCounted, Init
<1>8. OverdraftCounted
  <2> SUFFICES ASSUME NEW u \in Users
               PROVE  wallet[u] >= -SumFunctionOnSet([c \in Calls |-> Over(call[c])], PayerCalls(u))
    BY DEF OverdraftCounted
  <2> DEFINE f == [c \in Calls |-> Over(call[c])]
  <2>1. IsFiniteSet(PayerCalls(u)) /\ \A c \in PayerCalls(u) : f[c] = 0
    BY <1>1, CallsAreFinite DEF NewCall, Over
  <2>2. wallet[u] = OpeningWallet /\ OpeningWallet \in Nat BY RelayAssumption DEF Init
  <2> HIDE DEF f
  <2>3. SumFunctionOnSet(f, PayerCalls(u)) = 0 BY <2>1, SumOfZeros
  <2>4. QED BY <2>2, <2>3 DEF f
<1>9. QED BY <1>4, <1>5, <1>6, <1>7, <1>8 DEF LedgerInv

LEMMA LedgerInvStep == TypeOK /\ LedgerInv /\ [Next]_vars => LedgerInv'
<1> SUFFICES ASSUME TypeOK, LedgerInv, [Next]_vars PROVE LedgerInv' OBVIOUS
<1>1. CASE \E c \in Calls : CallStep(c) \/ UpstreamStep(c)
  <2>1. PICK c \in Calls : CallStep(c) \/ UpstreamStep(c) BY <1>1
  <2>2. CallKept(c) /\ UNCHANGED <<form, crashes>> BY <2>1, KeepCall
  <2>3. Taken(call[c]) /\ CappedTruly(c) BY DEF LedgerInv
  <2>4. LedgerStep(c)
    BY <2>1, <2>2, <2>3, LedgersAhead, LedgersReserve, LedgersUpstream, LedgersPay DEF CallStep
  <2>5. QED BY <2>2, <2>4, LedgerKept
<1>2. CASE \E c \in Calls : Retry(c)
  BY <1>2, LedgersRetry
<1>3. CASE \E f \in Forms : ReadForEdit(f) \/ WriteEdit(f)
  BY <1>3, LedgersEdit
<1>4. CASE \E k \in Tokens : DeleteToken(k)
  BY <1>4, LedgersDelete
<1>5. CASE Crash
  BY <1>5, LedgersCrash
<1>6. CASE UNCHANGED vars
  BY <1>6 DEF vars, LedgerInv, UsedIsDrawn, RemainsRest, SplitsCounted, SplitCalls, OverdraftCounted,
              CappedTruly, EditDone, Plain, KeyCalls, PayerCalls, Key, Payer
<1>7. QED BY <1>1, <1>2, <1>3, <1>4, <1>5, <1>6 DEF Next

LEMMA UnderReserved ==
  ASSUME TypeOK, LedgerInv PROVE OverdraftIsUnderReserved
<1> SUFFICES ASSUME NEW u \in Users
             PROVE  wallet[u] >= -Deltas({c \in Calls : Payer(c) = u /\ call[c].outcome \in {"served", "crashed"}
                                                        /\ call[c].delta > 0})
  BY DEF OverdraftIsUnderReserved
<1> DEFINE P == PayerCalls(u)
           V == {c \in Calls : Payer(c) = u /\ call[c].outcome \in {"served", "crashed"} /\ call[c].delta > 0}
           f == [c \in Calls |-> Over(call[c])]
           g == [c \in Calls |-> call[c].delta]
<1>1. V \subseteq P /\ IsFiniteSet(P) /\ P \subseteq Calls /\ IsFiniteSet(V)
  <2>1. V \subseteq P /\ IsFiniteSet(P) /\ P \subseteq Calls BY CallsAreFinite DEF PayerCalls
  <2>2. QED BY <2>1, FS_Subset
<1>2. ASSUME NEW c \in P
      PROVE  f[c] \in Int /\ g[c] \in Int /\ (c \notin V => f[c] = 0) /\ (c \in V => f[c] <= g[c])
  <2>1. c \in Calls /\ call[c] \in CallRow /\ Taken(call[c]) /\ Payer(c) = u
    BY <1>1 DEF LedgerInv, TypeOK, PayerCalls
  <2>2. call[c].charged \in Int /\ call[c].held \in Int /\ call[c].delta \in Int BY <2>1 DEF CallRow
  <2>3. f[c] = Over(call[c]) /\ g[c] = call[c].delta BY <2>1
  <2>4. QED BY <2>1, <2>2, <2>3 DEF Over, Taken
<1>3. wallet[u] >= -SumFunctionOnSet(f, P) /\ wallet[u] \in Int BY DEF LedgerInv, OverdraftCounted, TypeOK
<1> HIDE DEF f, g, P, V
<1>4. SumFunctionOnSet(f, P) = SumFunctionOnSet(f, V) BY <1>1, <1>2, SumOfNonzero
<1>5. SumFunctionOnSet(f, V) <= SumFunctionOnSet(g, V) BY <1>1, <1>2, SumIsMonotonic
<1>6. SumFunctionOnSet(f, V) \in Int /\ SumFunctionOnSet(g, V) \in Int BY <1>1, <1>2, SumIsInt
<1>7. wallet[u] >= -SumFunctionOnSet(g, V) BY <1>3, <1>4, <1>5, <1>6
<1>8. QED BY <1>7 DEF g, V, Deltas

LEMMA LedgersAgreeAtRest ==
  ASSUME TypeOK, LedgerInv PROVE LedgersAgree
<1> SUFFICES ASSUME Quiet, NoMishap, NEW k \in Tokens, Untouched(k), ~token[k].unlimited
             PROVE  /\ token[k].used = Charges({c \in Calls : Key(c) = k})
                    /\ token[k].remain = OpeningCap - token[k].used
  BY DEF LedgersAgree
<1>1. ~EditDone(k) /\ Plain(k) BY DEF Untouched, EditDone, Plain
<1>2. SplitCalls = {}
  <2>1. IsFiniteSet(SplitCalls) BY CallsAreFinite, FS_Subset DEF SplitCalls
  <2>2. Cardinality(SplitCalls) <= 0 BY DEF LedgerInv, SplitsCounted, NoMishap
  <2>3. Cardinality(SplitCalls) \in Nat BY <2>1, FS_CardinalityType
  <2>4. Cardinality(SplitCalls) = 0 BY <2>2, <2>3
  <2>5. QED BY <2>1, <2>4, FS_EmptySet
<1> DEFINE f == [c \in Calls |-> call[c].drawn]
           g == [c \in Calls |-> call[c].charged]
<1>3. ASSUME NEW c \in KeyCalls(k) PROVE f[c] \in Int /\ f[c] = g[c]
  <2>1. c \in Calls /\ call[c] \in CallRow /\ Key(c) = k BY DEF KeyCalls, TypeOK
  <2>2. ~Uneven(call[c]) BY <1>1, <1>2, <2>1 DEF SplitCalls
  <2>3. Due(call[c]) = 0 BY <2>1 DEF Quiet, Due
  <2>4. call[c].drawn \in Int /\ call[c].charged \in Int BY <2>1 DEF CallRow
  <2>5. QED BY <2>1, <2>2, <2>3, <2>4 DEF Uneven
<1>4. IsFiniteSet(KeyCalls(k)) BY CallsAreFinite
<1>5. token[k].used = SumFunctionOnSet(f, KeyCalls(k)) BY DEF LedgerInv, UsedIsDrawn
<1>6. token[k].remain = OpeningCap - token[k].used BY <1>1 DEF LedgerInv, RemainsRest
<1>7. SumFunctionOnSet(f, KeyCalls(k)) = SumFunctionOnSet(g, KeyCalls(k))
  <2> HIDE DEF f, g
  <2>1. QED BY <1>3, <1>4, SumOfSame
<1>8. QED BY <1>5, <1>6, <1>7 DEF Charges, KeyCalls

LEMMA SplitsAreBounded ==
  ASSUME TypeOK, LedgerInv PROVE SplitsBounded
<1> SUFFICES ASSUME crashes = 0, \A k \in Tokens : token[k].live /\ Untouched(k)
             PROVE  Cardinality({c \in Calls : SplitCall(c)}) <= faults
  BY DEF SplitsBounded
<1> DEFINE S == {c \in Calls : SplitCall(c)}
<1>1. S \subseteq SplitCalls
  <2> SUFFICES ASSUME NEW c \in Calls, SplitCall(c) PROVE c \in SplitCalls OBVIOUS
  <2>1. Key(c) \in Tokens /\ call[c] \in CallRow /\ CappedTruly(c)
    BY CallShape DEF TypeOK, LedgerInv
  <2>2. ~EditDone(Key(c)) BY <2>1 DEF Untouched, EditDone
  <2>3. Plain(Key(c)) BY <2>1, <2>2 DEF CappedTruly, SplitCall, Plain
  <2>4. call[c].charged \in Int /\ call[c].drawn \in Int BY <2>1 DEF CallRow
  <2>5. Uneven(call[c]) BY <2>4 DEF SplitCall, Uneven, Due
  <2>6. QED BY <2>3, <2>5 DEF SplitCalls
<1>2. IsFiniteSet(SplitCalls) BY CallsAreFinite, FS_Subset DEF SplitCalls
<1> HIDE DEF S
<1>3. /\ Cardinality(S) <= Cardinality(SplitCalls) /\ Cardinality(SplitCalls) \in Nat /\ Cardinality(S) \in Nat
  BY <1>1, <1>2, FS_Subset, FS_CardinalityType
<1>4. Cardinality(SplitCalls) <= faults /\ faults \in Nat BY DEF LedgerInv, SplitsCounted, TypeOK
<1>5. Cardinality(S) <= faults BY <1>3, <1>4
<1>6. QED BY <1>5 DEF S

\* The two ledgers of a key and its owner agree at rest when nothing went wrong,
\* each failed statement splits those of one call at most, and a wallet is never
\* overdrawn by more than served calls cost beyond their reservation
\* (PreConsumeTokenQuota, PostConsumeTokenQuota): whatever calls, retries,
\* edits, deletions and crashes interleave.
THEOREM LedgersStayBounded == Spec => []LedgersAreBounded
<1>1. TypeOK /\ LedgerInv => LedgersAreBounded
  BY LedgersAgreeAtRest, SplitsAreBounded, UnderReserved DEF LedgersAreBounded
<1>2. QED BY <1>1, TypeInit, TypeStep, LedgerInit, LedgerInvStep, PTL DEF Spec
=============================================================================
