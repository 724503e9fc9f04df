----------------------------- MODULE AccountProofs -----------------------------
(***************************************************************************)
(* Proofs about UserAccount, SignIn and Checkin for any number of users,   *)
(* requests, browsers, credentials, backup codes and days, and about their *)
(* composition with the orders of MCAccounts.  They share no variable, and *)
(* each part has an inductive invariant of its own.  AccountInv follows a  *)
(* copy of a row from the query that read it to the statement that writes  *)
(* it back.                                                                *)
(***************************************************************************)
EXTENDS MCAccounts, SumTheorems, FiniteSetTheorems, TLAPS

-----------------------------------------------------------------------------
(* UserAccount: shapes of rows and requests. *)

Working == {"update", "delete", "write", "write twice"}
Writing == {"write", "write twice"}
Statuses == {"idle", "name", "insert"} \cup Working

RowOK(r) ==
  /\ DOMAIN r = Cols /\ r.status \in 0 .. 3 /\ r.role \in {0, 1, 10, 100}
  /\ r.quota \in Nat /\ r.email \in Emails \cup {None}

FormOK(w) ==
  /\ DOMAIN w = {"pc", "id", "copy", "want", "dirty", "inviter"}
  /\ w.pc \in Statuses /\ w.id \in 0 .. MaxUsers /\ RowOK(w.copy)
  /\ w.want \subseteq Cols /\ w.dirty \subseteq Cols /\ w.inviter \in 0 .. 2
  /\ w.pc \in Working => w.id \in Ids
  /\ w.pc \notin Working => w.id = 0
  /\ w.pc \in {"name", "insert"} =>
       w.want = Cols /\ w.copy.status = UserStatusEnabled /\ w.copy.role = RoleCommonUser
  /\ w.pc \in {"delete", "write twice"} => w.want = {"status", "name"}

LEMMA FieldsAreColumns == \A r : r.status = r["status"] /\ r.quota = r["quota"]
OBVIOUS

LEMMA ColsAre ==
  Cols = {"name", "pw", "role", "status", "email", "github", "google", "oidc", "lark", "wechat",
          "key", "quota", "aff"}
BY DEF Cols, Blank

LEMMA BlankOK == RowOK(Blank)
BY DEF RowOK, Blank, Cols

LEMMA IdleOK == FormOK(Idle)
BY BlankOK, AccountAssumption DEF FormOK, Idle, Statuses, Working

LEMMA UpdatesOK ==
  ASSUME NEW r, NEW c, RowOK(r), RowOK(c)
  PROVE  RowOK(Updates(r, c))
BY ColsAre DEF RowOK, Updates

LEMMA EditOK ==
  ASSUME NEW r, RowOK(r), NEW q \in Nat
  PROVE  /\ RowOK([r EXCEPT !.quota = q])
         /\ \A c \in Cols \ {"quota"} : [r EXCEPT !.quota = q][c] = r[c]
         /\ [r EXCEPT !.quota = q].quota = q
BY ColsAre DEF RowOK

-----------------------------------------------------------------------------
(* The invariant. *)

AccountShape ==
  /\ DOMAIN user = Ids /\ DOMAIN asked = Ids /\ DOMAIN stale = Ids /\ DOMAIN form = Forms
  /\ \A u \in Ids : RowOK(user[u]) /\ DOMAIN asked[u] = Cols /\ stale[u] \subseteq Cols
  /\ \A f \in Forms : FormOK(form[f])
  /\ code \subseteq {"v", "r"} \X Emails /\ restarts \in Nat

\* Requests and the black list are about accounts that exist.
Known ==
  /\ \A u \in banned : u \in Ids /\ Exists(u)
  /\ \A f \in Forms : form[f].pc \in Working => Exists(form[f].id)
  /\ Exists(1) /\ Exists(2)

\* A copy is behind its row only in columns it has been overtaken in.
FreshIn(w, table) ==
  w.pc \in Working => \A c \in Cols \ (w.want \cup w.dirty) :
                        w.copy[c] = Blank[c] \/ w.copy[c] = table[w.id][c]

FreshInv == \A f \in Forms : FreshIn(form[f], user)

\* An identity nobody raced for belongs to one row, or to one request that will
\* write it and to no row yet.
About(w, p, i) == w.pc # "idle" /\ p \in w.want /\ w.copy[p] = i

SoleInv ==
  \A p \in Providers : \A i : i # None /\ <<p, i>> \notin contended =>
    /\ \A u, v \in Ids : user[u][p] = i /\ user[v][p] = i => u = v
    /\ \A f \in Forms : About(form[f], p, i) =>
         /\ \A u \in Ids : user[u][p] # i
         /\ \A g \in Forms : About(form[g], p, i) => f = g

\* The black list agrees with the status a row has, or is about to get from the
\* one request that is between the list and the row.
Matches(list, since, u, status) ==
  /\ u \in list => status # UserStatusEnabled
  /\ since = 0 /\ status \in {UserStatusDisabled, UserStatusDeleted} => u \in list

Writes(w, u) == w.id = u /\ w.pc \in Writing
Leaves(w, rec) == IF w.copy.status = 0 THEN rec.status ELSE w.copy.status

BanInv ==
  \A u \in Ids \ raced :
    /\ \A f, g \in Forms : Writes(form[f], u) /\ Writes(form[g], u) => f = g
    /\ \A f \in Forms : Writes(form[f], u) => Matches(banned, restarts, u, Leaves(form[f], user[u]))
    /\ (\A f \in Forms : ~Writes(form[f], u)) => Matches(banned, restarts, u, user[u].status)

AdminInv ==
  /\ AdminsWerePromoted
  /\ \A f \in Forms :
       form[f].pc \in Working /\ form[f].copy.role >= RoleAdminUser => form[f].id \in promoted

AccountInv ==
  /\ AccountShape /\ Known /\ RowIsWhatWasAsked /\ FreshInv /\ SoleInv /\ BanInv /\ AdminInv

-----------------------------------------------------------------------------
(* How requests move. *)

\* The request g stays where it is; it may have been overtaken.
Aged(g) ==
  /\ form'[g].pc = form[g].pc /\ form'[g].id = form[g].id /\ form'[g].copy = form[g].copy
  /\ form'[g].want = form[g].want /\ form'[g].inviter = form[g].inviter
  /\ form[g].dirty \subseteq form'[g].dirty /\ form'[g].dirty \subseteq Cols
  /\ DOMAIN form'[g] = DOMAIN form[g]

LEMMA AgedOK == ASSUME NEW g, Aged(g), FormOK(form[g]) PROVE FormOK(form'[g])
BY DEF Aged, FormOK

LEMMA SameAged == ASSUME NEW g, FormOK(form[g]), form'[g] = form[g] PROVE Aged(g)
BY DEF Aged, FormOK

LEMMA MarkedAged ==
  ASSUME NEW g, FormOK(form[g]), NEW cols \in SUBSET Cols,
         form'[g] = [form[g] EXCEPT !.dirty = @ \cup cols]
  PROVE  Aged(g) /\ cols \subseteq form'[g].dirty
BY DEF Aged, FormOK

\* A request that was overtaken in every column that changed is still fresh.
LEMMA AgedFresh ==
  ASSUME NEW g, Aged(g), FreshIn(form[g], user),
         form[g].pc \in Working =>
           \A c \in Cols \ form'[g].dirty : user'[form[g].id][c] = user[form[g].id][c]
  PROVE  FreshIn(form'[g], user')
BY DEF Aged, FreshIn

LEMMA IdleFresh == \A table : FreshIn(Idle, table)
BY DEF FreshIn, Idle, Working

LEMMA IdleAbout == \A p, i : ~About(Idle, p, i)
BY DEF About, Idle

LEMMA IdleWrites == \A u : ~Writes(Idle, u)
BY DEF Writes, Idle, Writing

\* Identities stay where they are: no row and no request gets one.
LEMMA SoleKept ==
  ASSUME SoleInv, contended \subseteq contended',
         \A p \in Providers, u \in Ids : user'[u][p] = user[u][p],
         \A g \in Forms, p \in Providers : \A i : About(form'[g], p, i) => About(form[g], p, i)
  PROVE  SoleInv'
<1> SUFFICES ASSUME NEW p \in Providers, NEW i, i # None, <<p, i>> \notin contended'
             PROVE  /\ \A u, v \in Ids : user'[u][p] = i /\ user'[v][p] = i => u = v
                    /\ \A f \in Forms : About(form'[f], p, i) =>
                         /\ \A u \in Ids : user'[u][p] # i
                         /\ \A g \in Forms : About(form'[g], p, i) => f = g
  BY DEF SoleInv
<1>1. <<p, i>> \notin contended OBVIOUS
<1>2. QED BY <1>1 DEF SoleInv

\* The request f hands its identities to the row of u; anything else a row gets
\* has been raced for.
LEMMA SoleMoves ==
  ASSUME SoleInv, contended \subseteq contended', NEW f \in Forms, NEW u \in Ids,
         \A p \in Providers, v \in Ids : \A i :
           i # None /\ user'[v][p] = i /\ user[v][p] # i =>
             <<p, i>> \in contended' \/ (v = u /\ About(form[f], p, i)),
         \A g \in Forms, p \in Providers : \A i :
           About(form'[g], p, i) => g # f /\ About(form[g], p, i)
  PROVE  SoleInv'
<1> SUFFICES ASSUME NEW p \in Providers, NEW i, i # None, <<p, i>> \notin contended'
             PROVE  /\ \A w, v \in Ids : user'[w][p] = i /\ user'[v][p] = i => w = v
                    /\ \A h \in Forms : About(form'[h], p, i) =>
                         /\ \A v \in Ids : user'[v][p] # i
                         /\ \A g \in Forms : About(form'[g], p, i) => h = g
  BY DEF SoleInv
<1>1. <<p, i>> \notin contended OBVIOUS
<1>2. \A v \in Ids : user'[v][p] = i => user[v][p] = i \/ (v = u /\ About(form[f], p, i))
  OBVIOUS
<1>3. /\ \A w, v \in Ids : user[w][p] = i /\ user[v][p] = i => w = v
      /\ \A h \in Forms : About(form[h], p, i) =>
           /\ \A v \in Ids : user[v][p] # i
           /\ \A g \in Forms : About(form[g], p, i) => h = g
  BY <1>1 DEF SoleInv
<1>4. QED BY <1>2, <1>3

\* Neither the list nor a status changes, and writers only retire into "raced".
LEMMA BansKept ==
  ASSUME BanInv, UNCHANGED <<banned, restarts>>, raced \subseteq raced',
         \A u \in Ids \ raced' : user'[u].status = user[u].status,
         \A g \in Forms : /\ form'[g].copy = form[g].copy \/ form'[g].pc \notin Writing
                          /\ \A u \in Ids \ raced' : Writes(form'[g], u) <=> Writes(form[g], u)
  PROVE  BanInv'
<1> SUFFICES ASSUME NEW u \in Ids \ raced'
             PROVE  /\ \A f, g \in Forms : Writes(form'[f], u) /\ Writes(form'[g], u) => f = g
                    /\ \A f \in Forms : Writes(form'[f], u) => Matches(banned', restarts', u, Leaves(form'[f], user'[u]))
                    /\ (\A f \in Forms : ~Writes(form'[f], u)) => Matches(banned', restarts', u, user'[u].status)
  BY DEF BanInv
<1>1. u \in Ids \ raced OBVIOUS
<1>2. \A f \in Forms : Writes(form'[f], u) => Leaves(form'[f], user'[u]) = Leaves(form[f], user[u])
  BY DEF Writes, Leaves
<1>3. QED BY <1>1, <1>2 DEF BanInv

-----------------------------------------------------------------------------
(* The steps. *)

\* An identity that is not taken, and that nobody raced for, is in no row.
LEMMA NotTaken ==
  ASSUME SoleInv, NEW p \in Providers, NEW i, i # None, <<p, i>> \notin contended, ~IsTaken(p, i)
  PROVE  \A u \in Ids : user[u][p] # i
<1> SUFFICES ASSUME NEW u \in Ids, user[u][p] = i PROVE FALSE
  OBVIOUS
<1>1. {v \in Ids : user[v][p] = i} = {u}
  BY DEF SoleInv
<1>2. Cardinality({u}) = 1
  BY FS_Singleton
<1>3. QED BY <1>1, <1>2 DEF IsTaken

\* A request opens on w: an account that exists, and identities that are either
\* raced for or in no row and no other request.
LEMMA StepOpens ==
  ASSUME AccountInv, NEW f \in Forms, form[f].pc = "idle", NEW w, FormOK(w),
         form' = [form EXCEPT ![f] = w], w.pc \notin Writing,
         w.pc \in Working => Exists(w.id), FreshIn(w, user),
         UNCHANGED <<user, banned, code, asked, stale, raced, restarts>>,
         promoted \subseteq promoted', contended \subseteq contended',
         w.pc \in Working /\ w.copy.role >= RoleAdminUser => w.id \in promoted',
         \A p \in Providers : \A i : i # None /\ About(w, p, i) /\ <<p, i>> \notin contended' =>
            (\A u \in Ids : user[u][p] # i) /\ (\A g \in Forms : ~About(form[g], p, i))
  PROVE  AccountInv'
<1>0. /\ DOMAIN form' = Forms /\ form'[f] = w
      /\ \A g \in Forms : g # f => form'[g] = form[g]
  BY DEF AccountInv, AccountShape
<1>1. AccountShape'
  BY <1>0 DEF AccountInv, AccountShape
<1>2. Known'
  BY <1>0 DEF AccountInv, Known, Exists
<1>3. RowIsWhatWasAsked'
  BY DEF AccountInv, RowIsWhatWasAsked
<1>4. FreshInv'
  BY <1>0 DEF AccountInv, FreshInv, FreshIn
<1>5. SoleInv'
  <2> SUFFICES ASSUME NEW p \in Providers, NEW i, i # None, <<p, i>> \notin contended'
               PROVE  /\ \A u, v \in Ids : user'[u][p] = i /\ user'[v][p] = i => u = v
                      /\ \A h \in Forms : About(form'[h], p, i) =>
                           /\ \A u \in Ids : user'[u][p] # i
                           /\ \A g \in Forms : About(form'[g], p, i) => h = g
    BY DEF SoleInv
  <2>1. /\ \A u, v \in Ids : user[u][p] = i /\ user[v][p] = i => u = v
        /\ \A h \in Forms : About(form[h], p, i) =>
             /\ \A u \in Ids : user[u][p] # i
             /\ \A g \in Forms : About(form[g], p, i) => h = g
    BY DEF AccountInv, SoleInv
  <2>2. About(w, p, i) => (\A u \in Ids : user[u][p] # i) /\ (\A g \in Forms : ~About(form[g], p, i))
    OBVIOUS
  <2>3. QED BY <1>0, <2>1, <2>2
<1>6. BanInv'
  <2>1. ~(form[f].pc \in Writing)
    BY DEF Writing
  <2>2. BanInv
    BY DEF AccountInv
  <2>3. \A g \in Forms : /\ form'[g].copy = form[g].copy \/ form'[g].pc \notin Writing
                         /\ \A u \in Ids \ raced' : Writes(form'[g], u) <=> Writes(form[g], u)
    BY <1>0, <2>1 DEF Writes
  <2>4. QED BY <2>2, <2>3, BansKept
<1>7. AdminInv'
  BY <1>0 DEF AccountInv, AdminInv, AdminsWerePromoted
<1>8. QED BY <1>1, <1>2, <1>3, <1>4, <1>5, <1>6, <1>7 DEF AccountInv

LEMMA OpenStep ==
  ASSUME AccountInv, NEW f \in Forms, NEW pc, NEW u, NEW c, NEW d, NEW inviter,
         Open(f, pc, u, c, d, inviter), pc \in Statuses \ Writing, pc # "idle",
         FormOK([pc |-> pc, id |-> u, copy |-> c, want |-> d, dirty |-> {}, inviter |-> inviter]),
         pc \in Working =>
           /\ Exists(u) /\ \A k \in Cols \ d : c[k] = Blank[k] \/ c[k] = user[u][k]
           /\ c.role >= RoleAdminUser => u \in promoted,
         \A p \in Providers \cap d :
           c[p] # None /\ <<p, c[p]>> \notin contended => \A v \in Ids : user[v][p] # c[p]
  PROVE  AccountInv'
<1> DEFINE w == [pc |-> pc, id |-> u, copy |-> c, want |-> d, dirty |-> {}, inviter |-> inviter]
<1>1. /\ form[f].pc = "idle" /\ form' = [form EXCEPT ![f] = w]
      /\ contended' = contended \cup
           {<<p, c[p]>> : p \in {q \in Providers \cap d : c[q] # None /\
              \E g \in Forms : form[g].pc # "idle" /\ q \in form[g].want /\ form[g].copy[q] = c[q]}}
      /\ UNCHANGED <<user, banned, code, asked, stale, raced, promoted, restarts>>
  BY DEF Open
<1>2. /\ w.pc = pc /\ w.id = u /\ w.copy = c /\ w.want = d /\ w.dirty = {}
      /\ FormOK(w)
  OBVIOUS
<1> HIDE DEF w
<1>3. FreshIn(w, user)
  BY <1>2 DEF FreshIn
<1>4. ASSUME NEW p \in Providers, NEW i, i # None, About(w, p, i), <<p, i>> \notin contended'
      PROVE  (\A v \in Ids : user[v][p] # i) /\ (\A g \in Forms : ~About(form[g], p, i))
  <2>1. p \in Providers \cap d /\ c[p] = i /\ <<p, c[p]>> \notin contended
    BY <1>1, <1>2, <1>4 DEF About
  <2>2. \A v \in Ids : user[v][p] # i
    BY <1>4, <2>1
  <2>3. ~\E g \in Forms : form[g].pc # "idle" /\ p \in form[g].want /\ form[g].copy[p] = c[p]
    BY <1>1, <1>4, <2>1
  <2>4. QED BY <2>1, <2>2, <2>3 DEF About
<1>5. QED BY <1>1, <1>2, <1>3, <1>4, StepOpens

\* A whole copy with one column changed.
LEMMA EditsStep ==
  ASSUME AccountInv, NEW f \in Forms, NEW u \in Ids, NEW col \in Cols, NEW v, Edits(f, u, col, v),
         RowOK([user[u] EXCEPT ![col] = v]),
         col = "role" => v < RoleAdminUser,
         col \in Providers => v = None \/ ~IsTaken(col, v)
  PROVE  AccountInv'
<1> DEFINE c == [user[u] EXCEPT ![col] = v]
<1>1. Exists(u) /\ Open(f, "update", u, c, {col}, 0)
  BY DEF Edits
<1>2. /\ DOMAIN user[u] = Cols /\ RowOK(c) /\ c[col] = v
      /\ \A k \in Cols \ {col} : c[k] = user[u][k]
  BY DEF AccountInv, AccountShape, RowOK
<1> HIDE DEF c
<1>3. FormOK([pc |-> "update", id |-> u, copy |-> c, want |-> {col}, dirty |-> {}, inviter |-> 0])
  BY <1>2, AccountAssumption DEF FormOK, Statuses, Working, Ids
<1>4. c.role >= RoleAdminUser => u \in promoted
  <2>1. c.role = c["role"] /\ user[u].role = user[u]["role"] /\ "role" \in Cols
    BY ColsAre
  <2>2. CASE col = "role"
    <3>1. v \in {0, 1, 10, 100} BY <1>2, <2>1, <2>2 DEF RowOK
    <3>2. QED BY <1>2, <2>1, <2>2, <3>1 DEF RoleAdminUser
  <2>3. CASE col # "role"
    BY <1>2, <2>1, <2>3 DEF AccountInv, AdminInv, AdminsWerePromoted
  <2>4. QED BY <2>2, <2>3
<1>5. \A p \in Providers \cap {col} :
        c[p] # None /\ <<p, c[p]>> \notin contended => \A w \in Ids : user[w][p] # c[p]
  BY <1>2, NotTaken DEF AccountInv
<1>6. "update" \in Statuses \ Writing /\ "update" # "idle"
  BY DEF Working, Writing, Statuses
<1>7. \A k \in Cols \ {col} : c[k] = Blank[k] \/ c[k] = user[u][k]
  BY <1>2
<1>8. QED BY <1>1, <1>3, <1>4, <1>5, <1>6, <1>7, OpenStep

\* A request ends with the rows as they were; one that stood between the black
\* list and a row leaves them out of step.
LEMMA StepSettles ==
  ASSUME AccountInv, NEW f \in Forms, form' = [form EXCEPT ![f] = Idle],
         UNCHANGED <<user, banned, code, asked, stale, contended, promoted, restarts>>,
         raced \subseteq raced', form[f].pc \in Writing => form[f].id \in raced'
  PROVE  AccountInv'
<1>0. /\ DOMAIN form' = Forms /\ form'[f] = Idle
      /\ \A g \in Forms : g # f => form'[g] = form[g]
  BY DEF AccountInv, AccountShape
<1>1. AccountShape'
  BY <1>0, IdleOK DEF AccountInv, AccountShape
<1>2. Known'
  BY <1>0 DEF AccountInv, Known, Exists, Idle, Working
<1>3. RowIsWhatWasAsked'
  BY DEF AccountInv, RowIsWhatWasAsked
<1>4. FreshInv'
  BY <1>0, IdleFresh DEF AccountInv, FreshInv, FreshIn
<1>5. SoleInv'
  BY <1>0, IdleAbout, SoleKept DEF AccountInv
<1>6. BanInv'
  <2>1. \A u \in Ids \ raced' : ~Writes(form[f], u) /\ ~Writes(Idle, u)
    BY IdleWrites DEF Writes
  <2>2. \A g \in Forms : /\ form'[g].copy = form[g].copy \/ form'[g].pc \notin Writing
                         /\ \A u \in Ids \ raced' : Writes(form'[g], u) <=> Writes(form[g], u)
    BY <1>0, <2>1 DEF Writing, Idle
  <2>3. QED BY <2>2, BansKept DEF AccountInv
<1>7. AdminInv'
  BY <1>0 DEF AccountInv, AdminInv, AdminsWerePromoted, Idle, Working
<1>8. QED BY <1>1, <1>2, <1>3, <1>4, <1>5, <1>6, <1>7 DEF AccountInv

\* A column that is neither an identity nor a status nor a role changes in the
\* rows of S, in what was asked, and the requests that hold copies know.
LEMMA StepEditsRows ==
  ASSUME AccountInv, NEW col \in Cols \ (Providers \cup {"status", "role"}), NEW S \in SUBSET Ids,
         DOMAIN user' = Ids, DOMAIN asked' = Ids, DOMAIN stale' = Ids, DOMAIN form' = Forms,
         \A u \in Ids : /\ RowOK(user'[u]) /\ DOMAIN asked'[u] = Cols /\ stale'[u] \subseteq Cols
                        /\ \A c \in Cols \ {col} :
                             /\ user'[u][c] = user[u][c] /\ asked'[u][c] = asked[u][c]
                             /\ c \in stale[u] => c \in stale'[u]
                        /\ col \in stale'[u] \/ user'[u][col] = asked'[u][col]
                        /\ u \notin S => user'[u][col] = user[u][col],
         \A g \in Forms : Aged(g) /\ (form[g].id \in S => col \in form'[g].dirty),
         code' \subseteq code,
         UNCHANGED <<banned, contended, raced, promoted, restarts>>
  PROVE  AccountInv'
<1>0. \A u \in Ids : user'[u].status = user[u].status /\ user'[u].role = user[u].role
  <2>1. "status" \in Cols \ {col} /\ "role" \in Cols \ {col} BY ColsAre
  <2>2. QED BY <2>1
<1>1. AccountShape'
  BY AgedOK DEF AccountInv, AccountShape
<1>2. Known'
  <2>1. \A u \in Ids : Exists(u) <=> Exists(u)' BY <1>0 DEF Exists
  <2>2. \A u \in banned' : u \in Ids /\ Exists(u)' BY <2>1 DEF AccountInv, Known
  <2>3. ASSUME NEW g \in Forms, form'[g].pc \in Working PROVE Exists(form[g].id)' /\ form'[g].id = form[g].id
    <3>1. form[g].pc \in Working /\ form'[g].id = form[g].id BY <2>3 DEF Aged
    <3>2. form[g].id \in Ids /\ Exists(form[g].id) BY <3>1 DEF AccountInv, AccountShape, FormOK, Known
    <3>3. user'[form[g].id].status = user[form[g].id].status BY <1>0, <3>2
    <3>4. QED BY <3>1, <3>2, <3>3 DEF Exists
  <2>4. 1 \in Ids /\ 2 \in Ids BY AccountAssumption DEF Ids
  <2>5. QED BY <2>1, <2>2, <2>3, <2>4 DEF AccountInv, Known, Exists
<1>3. RowIsWhatWasAsked'
  BY DEF AccountInv, RowIsWhatWasAsked
<1>4. FreshInv'
  <2>1. ASSUME NEW g \in Forms PROVE FreshIn(form'[g], user')
    <3>1. ASSUME form[g].pc \in Working, NEW c \in Cols \ form'[g].dirty
          PROVE  user'[form[g].id][c] = user[form[g].id][c]
      <4>1. form[g].id \in Ids BY <3>1 DEF AccountInv, AccountShape, FormOK
      <4>2. c # col \/ form[g].id \notin S OBVIOUS
      <4>3. QED BY <4>1, <4>2
    <3>2. QED BY <3>1, AgedFresh DEF AccountInv, FreshInv
  <2>2. QED BY <2>1 DEF FreshInv
<1>5. SoleInv'
  <2>1. \A p \in Providers, u \in Ids : user'[u][p] = user[u][p]
    BY ColsAre DEF Providers
  <2>2. \A g \in Forms, p \in Providers : \A i : About(form'[g], p, i) => About(form[g], p, i)
    BY DEF Aged, About
  <2>3. QED BY <2>1, <2>2, SoleKept DEF AccountInv
<1>6. BanInv'
  <2>1. \A g \in Forms : /\ form'[g].copy = form[g].copy \/ form'[g].pc \notin Writing
                         /\ \A u \in Ids \ raced' : Writes(form'[g], u) <=> Writes(form[g], u)
    BY DEF Aged, Writes
  <2>2. QED BY <1>0, <2>1, BansKept DEF AccountInv
<1>7. AdminInv'
  BY <1>0 DEF AccountInv, AdminInv, AdminsWerePromoted, Aged
<1>8. QED BY <1>1, <1>2, <1>3, <1>4, <1>5, <1>6, <1>7 DEF AccountInv

\* Rows and requests stay; the codes change.
LEMMA StepCodes ==
  ASSUME AccountInv, code' \subseteq {"v", "r"} \X Emails,
         UNCHANGED <<user, banned, form, asked, stale, contended, raced, promoted, restarts>>
  PROVE  AccountInv'
<1>1. AccountShape' BY DEF AccountInv, AccountShape
<1>2. Known' BY DEF AccountInv, Known, Exists
<1>3. RowIsWhatWasAsked' /\ FreshInv' BY DEF AccountInv, RowIsWhatWasAsked, FreshInv
<1>4. SoleInv' BY DEF AccountInv, SoleInv
<1>5. BanInv' BY DEF AccountInv, BanInv
<1>6. AdminInv' BY DEF AccountInv, AdminInv, AdminsWerePromoted
<1>7. QED BY <1>1, <1>2, <1>3, <1>4, <1>5, <1>6 DEF AccountInv

LEMMA StepRestarts == ASSUME AccountInv, Restart PROVE AccountInv'
<1>0. /\ \A f \in Forms : form'[f] = Idle
      /\ DOMAIN form' = Forms /\ banned' = {} /\ code' = {} /\ restarts' = restarts + 1
      /\ UNCHANGED <<user, asked, stale, contended, raced, promoted>>
  BY DEF Restart
<1>1. AccountShape' BY <1>0, IdleOK DEF AccountInv, AccountShape
<1>8. Idle.pc \notin Working BY DEF Idle, Working
<1>9. \A f \in Forms : form'[f].pc \notin Working BY <1>0, <1>8
<1>2. Known' BY <1>0, <1>9 DEF AccountInv, Known, Exists
<1>3. RowIsWhatWasAsked' /\ FreshInv' BY <1>0, IdleFresh DEF AccountInv, RowIsWhatWasAsked, FreshInv
<1>4. SoleInv' BY <1>0, IdleAbout, SoleKept DEF AccountInv
<1>5. BanInv'
  BY <1>0, IdleWrites DEF AccountInv, AccountShape, BanInv, Matches
<1>6. AdminInv' BY <1>0, <1>9 DEF AccountInv, AdminInv, AdminsWerePromoted
<1>7. QED BY <1>1, <1>2, <1>3, <1>4, <1>5, <1>6 DEF AccountInv

\* The generated name.
LEMMA StepNames == ASSUME AccountInv, NEW f \in Forms, GenerateName(f) PROVE AccountInv'
<1> DEFINE copy == [form[f].copy EXCEPT !.name = <<"next", GetMaxUserId + 1>>]
           w == [form[f] EXCEPT !.pc = "insert", !.copy = copy]
<1>0. /\ form[f].pc = "name" /\ form' = [form EXCEPT ![f] = w]
      /\ UNCHANGED <<user, banned, code, asked, stale, contended, raced, promoted, restarts>>
  BY DEF GenerateName
<1>1. FormOK(form[f]) /\ f \in DOMAIN form
  BY DEF AccountInv, AccountShape
<1>2. /\ \A c \in Cols \ {"name"} : copy[c] = form[f].copy[c]
      /\ DOMAIN copy = Cols
  BY <1>1 DEF FormOK, RowOK
<1>3. RowOK(copy) /\ copy.status = form[f].copy.status /\ copy.role = form[f].copy.role
  BY <1>1, <1>2, ColsAre DEF FormOK, RowOK
<1> HIDE DEF copy
<1>4. /\ w.pc = "insert" /\ w.id = form[f].id /\ w.copy = copy /\ w.want = form[f].want
      /\ w.dirty = form[f].dirty /\ w.inviter = form[f].inviter /\ DOMAIN w = DOMAIN form[f]
  BY <1>1 DEF FormOK
<1> HIDE DEF w
<1>5. FormOK(w)
  BY <1>0, <1>1, <1>3, <1>4 DEF FormOK, Statuses, Working
<1>6. /\ DOMAIN form' = Forms /\ form'[f] = w
      /\ \A g \in Forms : g # f => form'[g] = form[g]
  BY <1>0 DEF AccountInv, AccountShape
<1>7. AccountShape'
  BY <1>0, <1>5, <1>6 DEF AccountInv, AccountShape
<1>8. Known'
  BY <1>0, <1>4, <1>6 DEF AccountInv, Known, Exists, Working
<1>9. RowIsWhatWasAsked'
  BY <1>0 DEF AccountInv, RowIsWhatWasAsked
<1>10. FreshInv'
  <2>1. FreshIn(w, user) BY <1>4 DEF FreshIn, Working
  <2>2. QED BY <1>0, <1>6, <2>1 DEF AccountInv, FreshInv, FreshIn
<1>11. SoleInv'
  <2>1. \A p \in Providers : copy[p] = form[f].copy[p]
    BY <1>2, ColsAre DEF Providers
  <2>2. \A g \in Forms, p \in Providers : \A i : About(form'[g], p, i) => About(form[g], p, i)
    BY <1>0, <1>4, <1>6, <2>1 DEF About
  <2>3. QED BY <1>0, <2>2, SoleKept DEF AccountInv
<1>12. BanInv'
  <2>1. \A g \in Forms : /\ form'[g].copy = form[g].copy \/ form'[g].pc \notin Writing
                         /\ \A u \in Ids \ raced' : Writes(form'[g], u) <=> Writes(form[g], u)
    BY <1>0, <1>4, <1>6 DEF Writes, Writing
  <2>2. QED BY <1>0, <2>1, BansKept DEF AccountInv
<1>13. AdminInv'
  BY <1>0, <1>4, <1>6 DEF AccountInv, AdminInv, AdminsWerePromoted, Working
<1>14. QED BY <1>7, <1>8, <1>9, <1>10, <1>11, <1>12, <1>13 DEF AccountInv

\* The black list first.
LEMMA StepBans == ASSUME AccountInv, NEW f \in Forms, Ban(f) PROVE AccountInv'
<1> DEFINE u == form[f].id
           pc == IF form[f].pc = "delete" THEN "write twice" ELSE "write"
           w == [form[f] EXCEPT !.pc = pc]
           status == form[f].copy.status
<1>0. /\ form[f].pc \in {"update", "delete"} /\ form' = [form EXCEPT ![f] = w]
      /\ banned' = BanEffect(u, status)
      /\ raced' = IF \E g \in Forms \ {f} : form[g].id = u /\ form[g].pc \in Writing
                  THEN raced \cup {u} ELSE raced
      /\ UNCHANGED <<user, code, asked, stale, contended, promoted, restarts>>
  BY DEF Ban, Writing
<1>1. FormOK(form[f]) /\ f \in DOMAIN form /\ u \in Ids /\ Exists(u)
  BY <1>0 DEF AccountInv, AccountShape, FormOK, Working, Known
<1>2. /\ w.pc = pc /\ w.id = u /\ w.copy = form[f].copy /\ w.want = form[f].want
      /\ w.dirty = form[f].dirty /\ w.inviter = form[f].inviter /\ DOMAIN w = DOMAIN form[f]
  BY <1>1 DEF FormOK
<1>3. pc \in Writing /\ pc \in Working /\ (pc = "write twice" => form[f].pc = "delete")
  BY <1>0 DEF Writing, Working
<1> HIDE DEF w, pc
<1>4. FormOK(w)
  BY <1>0, <1>1, <1>2, <1>3 DEF FormOK, Statuses, Working, Writing
<1>5. /\ DOMAIN form' = Forms /\ form'[f] = w
      /\ \A g \in Forms : g # f => form'[g] = form[g]
  BY <1>0 DEF AccountInv, AccountShape
<1>6. \A v : v # u => (v \in banned' <=> v \in banned)
  BY <1>0 DEF BanEffect
<1>7. AccountShape'
  BY <1>0, <1>4, <1>5 DEF AccountInv, AccountShape
<1>8. Known'
  BY <1>0, <1>1, <1>2, <1>5, <1>6 DEF AccountInv, Known, Exists, Working
<1>9. RowIsWhatWasAsked'
  BY <1>0 DEF AccountInv, RowIsWhatWasAsked
<1>10. FreshInv'
  <2>1. FreshIn(w, user) BY <1>0, <1>2 DEF AccountInv, FreshInv, FreshIn, Working
  <2>2. QED BY <1>0, <1>5, <2>1 DEF AccountInv, FreshInv, FreshIn
<1>11. SoleInv'
  <2>1. \A g \in Forms, p \in Providers : \A i : About(form'[g], p, i) => About(form[g], p, i)
    BY <1>0, <1>2, <1>5 DEF About
  <2>2. QED BY <1>0, <2>1, SoleKept DEF AccountInv
<1>12. BanInv'
  <2> SUFFICES ASSUME NEW v \in Ids \ raced'
               PROVE  /\ \A h, g \in Forms : Writes(form'[h], v) /\ Writes(form'[g], v) => h = g
                      /\ \A h \in Forms : Writes(form'[h], v) => Matches(banned', restarts', v, Leaves(form'[h], user'[v]))
                      /\ (\A h \in Forms : ~Writes(form'[h], v)) => Matches(banned', restarts', v, user'[v].status)
    BY DEF BanInv
  <2>1. v \notin raced BY <1>0
  <2>2. /\ \A h, g \in Forms : Writes(form[h], v) /\ Writes(form[g], v) => h = g
        /\ \A h \in Forms : Writes(form[h], v) => Matches(banned, restarts, v, Leaves(form[h], user[v]))
        /\ (\A h \in Forms : ~Writes(form[h], v)) => Matches(banned, restarts, v, user[v].status)
    BY <2>1 DEF AccountInv, BanInv
  <2>3. CASE v # u
    <3>1. \A h \in Forms : /\ Writes(form'[h], v) <=> Writes(form[h], v)
                           /\ Writes(form'[h], v) => form'[h] = form[h]
      BY <1>2, <1>5, <2>3 DEF Writes
    <3>2. \A s : Matches(banned', restarts', v, s) <=> Matches(banned, restarts, v, s)
      BY <1>0, <1>6, <2>3 DEF Matches
    <3>3. QED BY <1>0, <2>2, <3>1, <3>2
  <2>4. CASE v = u
    <3>1. \A h \in Forms : h # f => ~Writes(form[h], u) /\ ~Writes(form'[h], u)
      BY <1>0, <1>5, <2>4 DEF Writes
    <3>2. Writes(w, u) /\ ~Writes(form[f], u)
      BY <1>0, <1>2, <1>3 DEF Writes, Writing
    <3>3. Matches(banned, restarts, u, user[u].status)
      BY <2>2, <2>4, <3>1, <3>2
    <3>4. Matches(banned', restarts', u, Leaves(w, user'[u]))
      <4>1. status \in 0 .. 3 /\ Leaves(w, user'[u]) = IF status = 0 THEN user[u].status ELSE status
        BY <1>0, <1>1, <1>2 DEF FormOK, RowOK, Leaves
      <4>2. CASE status = 0
        BY <1>0, <3>3, <4>1, <4>2 DEF BanEffect, Matches, UserStatusEnabled, UserStatusDisabled, UserStatusDeleted
      <4>3. CASE status = 1
        BY <1>0, <4>1, <4>3 DEF BanEffect, Matches, UserStatusEnabled, UserStatusDisabled, UserStatusDeleted
      <4>4. CASE status = 2 \/ status = 3
        BY <1>0, <4>1, <4>4 DEF BanEffect, Matches, UserStatusEnabled, UserStatusDisabled, UserStatusDeleted
      <4>5. QED BY <4>1, <4>2, <4>3, <4>4
    <3>5. QED BY <1>5, <2>4, <3>1, <3>2, <3>4
  <2>5. QED BY <2>3, <2>4
<1>13. AdminInv'
  BY <1>0, <1>2, <1>5 DEF AccountInv, AdminInv, AdminsWerePromoted, Working
<1>14. QED BY <1>7, <1>8, <1>9, <1>10, <1>11, <1>12, <1>13 DEF AccountInv

\* One more unit of quota, or one less.
LEMMA StepAddsQuota ==
  ASSUME AccountInv, NEW u \in Ids, NEW d \in Int, AddQuota(u, d) PROVE AccountInv'
<1>0. /\ user[u].quota + d \in Nat
      /\ user' = [user EXCEPT ![u].quota = @ + d] /\ asked' = [asked EXCEPT ![u].quota = @ + d]
      /\ form' = [g \in Forms |-> IF form[g].id = u THEN [form[g] EXCEPT !.dirty = @ \cup {"quota"}]
                                                    ELSE form[g]]
      /\ UNCHANGED <<banned, code, stale, contended, raced, promoted, restarts>>
  BY DEF AddQuota
<1>1. "quota" \in Cols \ (Providers \cup {"status", "role"}) /\ {u} \in SUBSET Ids
  BY ColsAre DEF Providers
<1>2. /\ DOMAIN user' = Ids /\ DOMAIN asked' = Ids /\ DOMAIN stale' = Ids /\ DOMAIN form' = Forms
  BY <1>0 DEF AccountInv, AccountShape
<1>3. ASSUME NEW v \in Ids
      PROVE  /\ RowOK(user'[v]) /\ DOMAIN asked'[v] = Cols /\ stale'[v] \subseteq Cols
             /\ \A c \in Cols \ {"quota"} :
                  /\ user'[v][c] = user[v][c] /\ asked'[v][c] = asked[v][c]
                  /\ c \in stale[v] => c \in stale'[v]
             /\ "quota" \in stale'[v] \/ user'[v]["quota"] = asked'[v]["quota"]
             /\ v \notin {u} => user'[v]["quota"] = user[v]["quota"]
  <2>1. /\ RowOK(user[v]) /\ DOMAIN user[v] = Cols /\ DOMAIN asked[v] = Cols /\ stale[v] \subseteq Cols
        /\ DOMAIN user = Ids /\ DOMAIN asked = Ids
        /\ "quota" \in stale[v] \/ user[v]["quota"] = asked[v]["quota"]
    BY <1>1 DEF AccountInv, AccountShape, RowOK, RowIsWhatWasAsked
  <2>2. CASE v # u
    BY <1>0, <2>1, <2>2
  <2>3. CASE v = u
    <3>1. /\ user'[v] = [user[v] EXCEPT !.quota = user[v].quota + d]
          /\ asked'[v] = [asked[v] EXCEPT !.quota = asked[v].quota + d]
      BY <1>0, <2>1, <2>3
    <3>2. user[v].quota = user[v]["quota"] /\ asked[v].quota = asked[v]["quota"]
      OBVIOUS
    <3>3. RowOK(user'[v]) BY <1>0, <2>1, <2>3, <3>1, EditOK
    <3>4. QED BY <1>0, <1>1, <2>1, <2>3, <3>1, <3>2, <3>3
  <2>4. QED BY <2>2, <2>3
<1>4. ASSUME NEW g \in Forms PROVE Aged(g) /\ (form[g].id \in {u} => "quota" \in form'[g].dirty)
  <2>1. FormOK(form[g]) BY DEF AccountInv, AccountShape
  <2>2. CASE form[g].id = u
    <3>1. form'[g] = [form[g] EXCEPT !.dirty = @ \cup {"quota"}] BY <1>0, <2>2
    <3>2. QED BY <1>1, <2>1, <3>1, MarkedAged
  <2>3. CASE form[g].id # u
    <3>1. form'[g] = form[g] BY <1>0, <2>3
    <3>2. QED BY <2>1, <2>3, <3>1, SameAged
  <2>4. QED BY <2>2, <2>3
<1>5. QED BY <1>0, <1>1, <1>2, <1>3, <1>4, StepEditsRows

\* A new password for every row with the address.
LEMMA StepResets == ASSUME AccountInv, NEW e, ResetPassword(e) PROVE AccountInv'
<1> DEFINE with == {u \in Ids : user[u].email = e}
<1>0. /\ code' \subseteq code
      /\ user' = [u \in Ids |-> IF u \in with THEN [user[u] EXCEPT !.pw = Version] ELSE user[u]]
      /\ asked' = [u \in Ids |-> IF u \in with THEN [asked[u] EXCEPT !.pw = Version] ELSE asked[u]]
      /\ stale' = [u \in Ids |-> IF u \in with THEN stale[u] \ {"pw"} ELSE stale[u]]
      /\ form' = [g \in Forms |-> IF form[g].id \in with THEN [form[g] EXCEPT !.dirty = @ \cup {"pw"}]
                                                         ELSE form[g]]
      /\ UNCHANGED <<banned, contended, raced, promoted, restarts>>
  BY DEF ResetPassword
<1>1. "pw" \in Cols \ (Providers \cup {"status", "role"}) /\ with \in SUBSET Ids
  BY ColsAre DEF Providers
<1> HIDE DEF with
<1>2. /\ DOMAIN user' = Ids /\ DOMAIN asked' = Ids /\ DOMAIN stale' = Ids /\ DOMAIN form' = Forms
  BY <1>0
<1>3. ASSUME NEW v \in Ids
      PROVE  /\ RowOK(user'[v]) /\ DOMAIN asked'[v] = Cols /\ stale'[v] \subseteq Cols
             /\ \A c \in Cols \ {"pw"} :
                  /\ user'[v][c] = user[v][c] /\ asked'[v][c] = asked[v][c]
                  /\ c \in stale[v] => c \in stale'[v]
             /\ "pw" \in stale'[v] \/ user'[v]["pw"] = asked'[v]["pw"]
             /\ v \notin with => user'[v]["pw"] = user[v]["pw"]
  <2>1. /\ RowOK(user[v]) /\ DOMAIN user[v] = Cols /\ DOMAIN asked[v] = Cols /\ stale[v] \subseteq Cols
        /\ "pw" \in stale[v] \/ user[v]["pw"] = asked[v]["pw"]
    BY <1>1 DEF AccountInv, AccountShape, RowOK, RowIsWhatWasAsked
  <2>2. CASE v \notin with
    BY <1>0, <2>1, <2>2
  <2>3. CASE v \in with
    <3>1. /\ user'[v] = [user[v] EXCEPT !.pw = Version] /\ asked'[v] = [asked[v] EXCEPT !.pw = Version]
          /\ stale'[v] = stale[v] \ {"pw"}
      BY <1>0, <2>3
    <3>2. PICK z : z = Version OBVIOUS
    <3>3. /\ DOMAIN user'[v] = Cols /\ DOMAIN asked'[v] = Cols
          /\ user'[v]["pw"] = z /\ asked'[v]["pw"] = z
          /\ \A c \in Cols \ {"pw"} : user'[v][c] = user[v][c] /\ asked'[v][c] = asked[v][c]
      BY <1>1, <2>1, <3>1, <3>2
    <3>4. RowOK(user'[v]) BY <2>1, <3>3, ColsAre DEF RowOK
    <3>5. QED BY <2>1, <2>3, <3>1, <3>3, <3>4
  <2>4. QED BY <2>2, <2>3
<1>4. ASSUME NEW g \in Forms PROVE Aged(g) /\ (form[g].id \in with => "pw" \in form'[g].dirty)
  <2>1. FormOK(form[g]) BY DEF AccountInv, AccountShape
  <2>2. CASE form[g].id \in with
    <3>1. form'[g] = [form[g] EXCEPT !.dirty = @ \cup {"pw"}] BY <1>0, <2>2
    <3>2. QED BY <1>1, <2>1, <3>1, MarkedAged
  <2>3. CASE form[g].id \notin with
    <3>1. form'[g] = form[g] BY <1>0, <2>3
    <3>2. QED BY <2>1, <2>3, <3>1, SameAged
  <2>4. QED BY <2>2, <2>3
<1>5. QED BY <1>0, <1>1, <1>2, <1>3, <1>4, StepEditsRows

\* Then the row; the request is over, or, in User.Delete, writes it once more.
AccountWritten(f, u, new, want) ==
  /\ user' = [user EXCEPT ![u] = new]
  /\ asked' = [asked EXCEPT ![u] = [c \in Cols |-> IF c \in want THEN new[c] ELSE @[c]]]
  /\ stale' = [stale EXCEPT ![u] = (@ \ want) \cup {c \in form[f].dirty \ want : new[c] # asked[u][c]}]
  /\ contended' = contended \cup {<<p, new[p]>> : p \in {q \in Providers \ want : new[q] # user[u][q]}}
  /\ Overtake(f, u, want \cup {c \in Cols : new[c] # user[u][c]},
              IF form[f].pc = "write" THEN Idle ELSE [form[f] EXCEPT !.pc = "write"])
  /\ UNCHANGED <<banned, code, raced, promoted, restarts>>

LEMMA StepWritesRow ==
  ASSUME AccountInv, NEW f \in Forms, NEW u, u = form[f].id, NEW new, new = Updates(user[u], form[f].copy),
         NEW want, want = form[f].want, form[f].pc \in Writing, AccountWritten(f, u, new, want)
  PROVE  AccountInv'
<1>0. /\ user' = [user EXCEPT ![u] = new]
      /\ asked' = [asked EXCEPT ![u] = [c \in Cols |-> IF c \in want THEN new[c] ELSE @[c]]]
      /\ stale' = [stale EXCEPT ![u] = (@ \ want) \cup {c \in form[f].dirty \ want : new[c] # asked[u][c]}]
      /\ contended' = contended \cup {<<p, new[p]>> : p \in {q \in Providers \ want : new[q] # user[u][q]}}
      /\ Overtake(f, u, want \cup {c \in Cols : new[c] # user[u][c]},
                  IF form[f].pc = "write" THEN Idle ELSE [form[f] EXCEPT !.pc = "write"])
      /\ UNCHANGED <<banned, code, raced, promoted, restarts>>
  BY DEF AccountWritten
<1> DEFINE cols == want \cup {c \in Cols : new[c] # user[u][c]}
           next == IF form[f].pc = "write" THEN Idle ELSE [form[f] EXCEPT !.pc = "write"]
           copy == form[f].copy
<1>1. /\ FormOK(form[f]) /\ u \in Ids /\ Exists(u) /\ form[f].pc \in Working
      /\ RowOK(user[u]) /\ RowOK(copy) /\ want \subseteq Cols
  BY DEF AccountInv, AccountShape, FormOK, Working, Writing, Known
<1>2. /\ RowOK(new)
      /\ \A c \in Cols : new[c] = IF copy[c] = Blank[c] THEN user[u][c] ELSE copy[c]
  BY <1>1, UpdatesOK DEF Updates
<1>3. /\ new.status = Leaves(form[f], user[u]) /\ new.status # 0
      /\ new.role = IF copy.role = 0 THEN user[u].role ELSE copy.role
  <2>1. /\ Blank["status"] = 0 /\ Blank["role"] = 0 /\ "status" \in Cols /\ "role" \in Cols
        /\ new.status = new["status"] /\ new.role = new["role"] /\ copy.status = copy["status"]
        /\ copy.role = copy["role"] /\ user[u].status = user[u]["status"] /\ user[u].role = user[u]["role"]
    BY ColsAre DEF Blank
  <2>2. QED BY <1>1, <1>2, <2>1 DEF Leaves, Exists
<1>4. FormOK(next) /\ (form[f].pc = "write" => next = Idle)
      /\ (form[f].pc # "write" =>
            /\ next.pc = "write" /\ next.id = u /\ next.copy = copy /\ next.want = {"status", "name"}
            /\ next.dirty = form[f].dirty)
  <2>1. CASE form[f].pc = "write" BY <2>1, IdleOK
  <2>2. CASE form[f].pc # "write"
    <3> DEFINE w == [form[f] EXCEPT !.pc = "write"]
    <3>1. /\ w.pc = "write" /\ w.id = u /\ w.copy = copy /\ w.want = want
          /\ w.dirty = form[f].dirty /\ w.inviter = form[f].inviter /\ DOMAIN w = DOMAIN form[f]
          /\ want = {"status", "name"}
      BY <1>1, <2>2 DEF FormOK, Writing
    <3>2. next = w BY <2>2
    <3> HIDE DEF w
    <3>3. FormOK(w) BY <1>1, <3>1 DEF FormOK, Statuses, Working
    <3>4. QED BY <2>2, <3>1, <3>2, <3>3
  <2>3. QED BY <2>1, <2>2
<1>5. /\ DOMAIN form' = Forms /\ form'[f] = next
      /\ \A g \in Forms : g # f =>
           form'[g] = IF form[g].id = u THEN [form[g] EXCEPT !.dirty = @ \cup cols] ELSE form[g]
  BY <1>0 DEF Overtake
<1>6. cols \in SUBSET Cols /\ \A c \in Cols \ cols : new[c] = user[u][c]
  BY <1>1
<1> HIDE DEF cols, next
<1>7. ASSUME NEW g \in Forms, g # f PROVE Aged(g) /\ (form[g].id = u => cols \subseteq form'[g].dirty)
  <2>1. FormOK(form[g]) BY DEF AccountInv, AccountShape
  <2>2. QED BY <1>5, <1>6, <1>7, <2>1, MarkedAged, SameAged
<1>8. /\ DOMAIN user' = Ids /\ DOMAIN asked' = Ids /\ DOMAIN stale' = Ids
      /\ user'[u] = new /\ DOMAIN asked'[u] = Cols
      /\ \A c \in Cols : asked'[u][c] = IF c \in want THEN new[c] ELSE asked[u][c]
      /\ stale'[u] = (stale[u] \ want) \cup {c \in form[f].dirty \ want : new[c] # asked[u][c]}
      /\ \A v \in Ids : v # u => user'[v] = user[v] /\ asked'[v] = asked[v] /\ stale'[v] = stale[v]
  BY <1>0, <1>1 DEF AccountInv, AccountShape
<1>0a. UNCHANGED <<banned, code, raced, promoted, restarts>> BY <1>0
<1>9. AccountShape'
  <2>1. \A g \in Forms : FormOK(form'[g])
    <3>1. \A g \in Forms : FormOK(form[g]) BY DEF AccountInv, AccountShape
    <3>2. QED BY <1>4, <1>5, <1>7, <3>1, AgedOK
  <2>2. stale'[u] \subseteq Cols
    BY <1>1, <1>8 DEF AccountInv, AccountShape, FormOK
  <2>3. \A v \in Ids : RowOK(user'[v]) /\ DOMAIN asked'[v] = Cols /\ stale'[v] \subseteq Cols
    BY <1>2, <1>8, <2>2 DEF AccountInv, AccountShape
  <2>4. QED BY <1>0a, <1>5, <1>8, <2>1, <2>3 DEF AccountInv, AccountShape
<1>10. Known'
  <2>1. \A v \in Ids : Exists(v)' <=> Exists(v) BY <1>1, <1>3, <1>8 DEF Exists
  <2>2. \A v \in banned' : v \in Ids /\ Exists(v)' BY <1>0a, <2>1 DEF AccountInv, Known
  <2>3. ASSUME NEW g \in Forms, form'[g].pc \in Working PROVE form'[g].id \in Ids /\ user'[form'[g].id].status # 0
    <3>1. Idle.pc \notin Working BY DEF Idle, Working
    <3>2. CASE g = f BY <1>1, <1>3, <1>4, <1>5, <1>8, <2>3, <3>1, <3>2
    <3>3. CASE g # f
      <4>1. form'[g].id = form[g].id /\ form[g].pc \in Working BY <1>7, <2>3, <3>3 DEF Aged
      <4>2. form[g].id \in Ids /\ user[form[g].id].status # 0
        BY <4>1 DEF AccountInv, AccountShape, FormOK, Known, Exists
      <4>3. QED BY <1>3, <1>8, <4>1, <4>2
    <3>4. QED BY <3>2, <3>3
  <2>4. 1 \in Ids /\ 2 \in Ids BY AccountAssumption DEF Ids
  <2>5. QED BY <2>1, <2>2, <2>3, <2>4 DEF AccountInv, Known, Exists
<1>11. RowIsWhatWasAsked'
  <2>1. ASSUME NEW v \in Ids, NEW c \in Cols PROVE c \in stale'[v] \/ user'[v][c] = asked'[v][c]
    <3>1. c \in stale[v] \/ user[v][c] = asked[v][c] BY DEF AccountInv, RowIsWhatWasAsked
    <3>2. CASE v # u BY <1>8, <3>1, <3>2
    <3>3. CASE v = u /\ c \in want BY <1>8, <3>3
    <3>4. CASE v = u /\ c \notin want /\ c \in form[f].dirty BY <1>8, <3>4
    <3>5. CASE v = u /\ c \notin want /\ c \notin form[f].dirty
      <4>1. copy[c] = Blank[c] \/ copy[c] = user[u][c]
        BY <1>1, <3>5 DEF AccountInv, FreshInv, FreshIn
      <4>2. new[c] = user[u][c] BY <1>2, <4>1
      <4>3. QED BY <1>8, <3>1, <3>5, <4>2
    <3>6. QED BY <3>2, <3>3, <3>4, <3>5
  <2>2. QED BY <2>1 DEF RowIsWhatWasAsked
<1>12. FreshInv'
  <2>1. ASSUME NEW g \in Forms PROVE FreshIn(form'[g], user')
    <3>1. CASE g = f
      <4>1. CASE form[f].pc = "write" BY <1>4, <1>5, <3>1, <4>1, IdleFresh
      <4>2. CASE form[f].pc # "write" BY <1>2, <1>4, <1>5, <1>8, <3>1, <4>2 DEF FreshIn
      <4>3. QED BY <4>1, <4>2
    <3>2. CASE g # f
      <4>1. ASSUME form[g].pc \in Working, NEW c \in Cols \ form'[g].dirty
            PROVE  user'[form[g].id][c] = user[form[g].id][c]
        <5>1. form[g].id \in Ids BY <4>1 DEF AccountInv, AccountShape, FormOK
        <5>2. form[g].id # u \/ c \notin cols BY <1>7, <3>2
        <5>3. QED BY <1>6, <1>8, <5>1, <5>2
      <4>2. FreshIn(form[g], user) BY DEF AccountInv, FreshInv
      <4>3. QED BY <1>7, <3>2, <4>1, <4>2, AgedFresh
    <3>3. QED BY <3>1, <3>2
  <2>2. QED BY <2>1 DEF FreshInv
<1>13. SoleInv'
  <2>1. ASSUME NEW p \in Providers, NEW v \in Ids, NEW i, i # None, user'[v][p] = i, user[v][p] # i
        PROVE  <<p, i>> \in contended' \/ (v = u /\ About(form[f], p, i))
    <3>1. v = u /\ new[p] = i /\ p \in Cols BY <1>8, <2>1, ColsAre DEF Providers
    <3>2. CASE p \in want
      <4>1. copy[p] = i BY <1>2, <2>1, <3>1
      <4>2. QED BY <3>1, <3>2, <4>1 DEF About, Writing
    <3>3. CASE p \notin want
      <4>1. p \in {q \in Providers \ want : new[q] # user[u][q]} BY <2>1, <3>1, <3>3
      <4>2. QED BY <1>0, <3>1, <4>1
    <3>4. QED BY <3>2, <3>3
  <2>2. ASSUME NEW g \in Forms, NEW p \in Providers, NEW i, About(form'[g], p, i)
        PROVE  g # f /\ About(form[g], p, i)
    <3>1. ~About(next, p, i)
      BY <1>4, IdleAbout DEF About, Providers
    <3>2. g # f BY <1>5, <2>2, <3>1
    <3>3. QED BY <1>7, <2>2, <3>2 DEF Aged, About
  <2>3. contended \subseteq contended' /\ SoleInv BY <1>0 DEF AccountInv
  <2>4. \A p \in Providers, v \in Ids : \A i :
          i # None /\ user'[v][p] = i /\ user[v][p] # i =>
            <<p, i>> \in contended' \/ (v = u /\ About(form[f], p, i))
    BY <2>1
  <2>5. \A g \in Forms, p \in Providers : \A i : About(form'[g], p, i) => g # f /\ About(form[g], p, i)
    BY <2>2
  <2>6. QED BY <1>1, <2>3, <2>4, <2>5, SoleMoves
<1>14. BanInv'
  <2> SUFFICES ASSUME NEW v \in Ids \ raced'
               PROVE  /\ \A h, g \in Forms : Writes(form'[h], v) /\ Writes(form'[g], v) => h = g
                      /\ \A h \in Forms : Writes(form'[h], v) => Matches(banned', restarts', v, Leaves(form'[h], user'[v]))
                      /\ (\A h \in Forms : ~Writes(form'[h], v)) => Matches(banned', restarts', v, user'[v].status)
    BY DEF BanInv
  <2>1. /\ \A h, g \in Forms : Writes(form[h], v) /\ Writes(form[g], v) => h = g
        /\ \A h \in Forms : Writes(form[h], v) => Matches(banned, restarts, v, Leaves(form[h], user[v]))
        /\ (\A h \in Forms : ~Writes(form[h], v)) => Matches(banned, restarts, v, user[v].status)
    BY <1>0a DEF AccountInv, BanInv
  <2>2. \A h \in Forms : h # f =>
          (Writes(form'[h], v) <=> Writes(form[h], v)) /\ form'[h].copy = form[h].copy
    BY <1>7 DEF Aged, Writes
  <2>3. CASE v # u
    <3>1. ~Writes(form[f], v) /\ ~Writes(form'[f], v)
      BY <1>4, <1>5, <2>3, IdleWrites DEF Writes
    <3>2. \A h \in Forms : Writes(form'[h], v) => Leaves(form'[h], user'[v]) = Leaves(form[h], user[v])
      BY <1>8, <2>2, <2>3, <3>1 DEF Leaves
    <3>3. \A h \in Forms : Writes(form'[h], v) <=> Writes(form[h], v)
      BY <2>2, <3>1
    <3>4. QED BY <1>0a, <1>8, <2>1, <2>3, <3>2, <3>3
  <2>4. CASE v = u
    <3>1. Writes(form[f], u) BY DEF Writes
    <3>2. \A h \in Forms : h # f => ~Writes(form[h], u) /\ ~Writes(form'[h], u)
      BY <2>1, <2>2, <2>4, <3>1
    <3>3. Matches(banned, restarts, u, new.status)
      BY <1>3, <2>1, <2>4, <3>1
    <3>4. CASE form[f].pc = "write"
      <4>1. ~Writes(form'[f], u) BY <1>4, <1>5, <3>4, IdleWrites
      <4>2. QED BY <1>0a, <1>8, <2>4, <3>2, <3>3, <4>1
    <3>5. CASE form[f].pc # "write"
      <4>1. Writes(form'[f], u) BY <1>4, <1>5, <3>5 DEF Writes, Writing
      <4>2. Leaves(form'[f], user'[u]) = new.status
        BY <1>3, <1>4, <1>5, <1>8, <3>5 DEF Leaves
      <4>3. QED BY <1>0a, <2>4, <3>2, <3>3, <4>1, <4>2
    <3>6. QED BY <3>4, <3>5
  <2>5. QED BY <2>3, <2>4
<1>15. AdminInv'
  <2>1. new.role >= RoleAdminUser => u \in promoted
    BY <1>1, <1>3 DEF AccountInv, AdminInv, AdminsWerePromoted
  <2>2. \A v \in Ids : user'[v].role >= RoleAdminUser => v \in promoted'
    BY <1>0a, <1>8, <2>1 DEF AccountInv, AdminInv, AdminsWerePromoted
  <2>3. ASSUME NEW g \in Forms, form'[g].pc \in Working, form'[g].copy.role >= RoleAdminUser
        PROVE  form'[g].id \in promoted'
    <3>1. Idle.pc \notin Working BY DEF Idle, Working
    <3>2. CASE g = f BY <1>0a, <1>1, <1>4, <1>5, <2>3, <3>1, <3>2 DEF AccountInv, AdminInv
    <3>3. CASE g # f BY <1>0a, <1>7, <2>3, <3>3 DEF Aged, AccountInv, AdminInv
    <3>4. QED BY <3>2, <3>3
  <2>4. QED BY <2>2, <2>3 DEF AdminInv, AdminsWerePromoted
<1>16. QED BY <1>9, <1>10, <1>11, <1>12, <1>13, <1>14, <1>15 DEF AccountInv

\* The next id is free.
LEMMA NextIdIsFree == GetMaxUserId + 1 \in Ids => ~Exists(GetMaxUserId + 1)
<1> DEFINE S == {0} \cup {u \in Ids : Exists(u)}
           Gap == {n \in Nat : MaxUsers - n \in S}
<1>1. S \subseteq 0 .. MaxUsers /\ 0 \in S /\ MaxUsers \in Nat
  BY AccountAssumption DEF Ids
<1>2. Gap \in SUBSET Nat /\ Gap # {}
  <2>1. MaxUsers \in Gap BY <1>1
  <2>2. QED BY <2>1
<1>3. PICK n \in Gap : \A k \in Gap : n <= k
  <2> HIDE DEF Gap
  <2>1. QED BY <1>2, Least
<1>4. MaxUsers - n \in S /\ \A y \in S : MaxUsers - n >= y
  <2>1. n \in Nat /\ MaxUsers - n \in S OBVIOUS
  <2>2. ASSUME NEW y \in S PROVE MaxUsers - n >= y
    <3>1. y \in 0 .. MaxUsers BY <1>1
    <3>2. MaxUsers - y \in Nat /\ MaxUsers - (MaxUsers - y) = y BY <1>1, <3>1
    <3>3. MaxUsers - y \in Gap BY <3>2
    <3>4. n <= MaxUsers - y BY <1>3, <3>3
    <3>5. QED BY <1>1, <2>1, <3>1, <3>4
  <2>3. QED BY <2>1, <2>2
<1>5. GetMaxUserId \in S /\ \A y \in S : GetMaxUserId >= y
  <2>1. GetMaxUserId = CHOOSE x \in S : \A y \in S : x >= y BY DEF GetMaxUserId, Max
  <2> HIDE DEF S
  <2>2. QED BY <1>4, <2>1
<1>6. QED
  <2>1. GetMaxUserId \in 0 .. MaxUsers BY <1>1, <1>5
  <2>2. GetMaxUserId + 1 \notin S BY <1>1, <1>5, <2>1
  <2>3. QED BY <2>2

LEMMA QuotaOfBoth ==
  ASSUME NEW r, RowOK(r), NEW a, DOMAIN a = Cols, NEW d \in Nat,
         NEW s, s = [r EXCEPT !.quota = r.quota + d], NEW b, b = [a EXCEPT !.quota = a.quota + d]
  PROVE  /\ RowOK(s) /\ DOMAIN b = Cols
         /\ \A c \in Cols : c # "quota" => s[c] = r[c] /\ b[c] = a[c]
         /\ r["quota"] = a["quota"] => s["quota"] = b["quota"]
<1>1. r.quota = r["quota"] /\ a.quota = a["quota"] /\ "quota" \in Cols
  BY ColsAre
<1>2. DOMAIN r = Cols /\ r.quota + d \in Nat
  BY DEF RowOK
<1>3. RowOK(s) BY <1>2, EditOK
<1>4. s["quota"] = r.quota + d /\ b["quota"] = a.quota + d /\ DOMAIN b = Cols
  BY <1>1, <1>2
<1>5. \A c \in Cols : c # "quota" => s[c] = r[c] /\ b[c] = a[c]
  BY <1>2
<1>6. QED BY <1>1, <1>3, <1>4, <1>5

\* The rows that a new account u and the reward of v leave.
RowInserted(f, u, v, rec) ==
  /\ rec = [form[f].copy EXCEPT !.quota = @ + (IF v = 0 THEN 0 ELSE QuotaForInvitee)]
  /\ user' = [(IF v = 0 THEN user ELSE [user EXCEPT ![v].quota = @ + QuotaForInviter]) EXCEPT ![u] = rec]
  /\ asked' = [(IF v = 0 THEN asked ELSE [asked EXCEPT ![v].quota = @ + QuotaForInviter]) EXCEPT ![u] = rec]

LEMMA RowsAfterInsert ==
  ASSUME AccountInv, NEW f \in Forms, form[f].pc = "insert",
         NEW u \in Ids, ~Exists(u), NEW v, v = form[f].inviter, NEW rec, RowInserted(f, u, v, rec)
  PROVE  /\ RowOK(rec) /\ rec.status = 1 /\ rec.role = 1
         /\ \A c \in Cols \ {"quota"} : rec[c] = form[f].copy[c]
         /\ DOMAIN user' = Ids /\ DOMAIN asked' = Ids /\ user'[u] = rec /\ asked'[u] = rec
         /\ \A w \in Ids : w # u =>
              /\ RowOK(user'[w]) /\ DOMAIN asked'[w] = Cols
              /\ \A c \in Cols : c # "quota" \/ w # v => user'[w][c] = user[w][c] /\ asked'[w][c] = asked[w][c]
              /\ user[w]["quota"] = asked[w]["quota"] => user'[w]["quota"] = asked'[w]["quota"]
<1>0. /\ rec = [form[f].copy EXCEPT !.quota = @ + (IF v = 0 THEN 0 ELSE QuotaForInvitee)]
      /\ user' = [(IF v = 0 THEN user ELSE [user EXCEPT ![v].quota = @ + QuotaForInviter]) EXCEPT ![u] = rec]
      /\ asked' = [(IF v = 0 THEN asked ELSE [asked EXCEPT ![v].quota = @ + QuotaForInviter]) EXCEPT ![u] = rec]
  BY DEF RowInserted
<1>1. /\ FormOK(form[f]) /\ v \in 0 .. 2 /\ RowOK(form[f].copy)
      /\ form[f].copy.status = 1 /\ form[f].copy.role = 1
  BY DEF AccountInv, AccountShape, FormOK, UserStatusEnabled, RoleCommonUser
<1>2. v # 0 => v \in Ids /\ v # u /\ Exists(v)
  <2>1. 1 \in Ids /\ 2 \in Ids BY AccountAssumption DEF Ids
  <2>2. QED BY <1>1, <2>1 DEF AccountInv, Known
<1>3. RowOK(rec) /\ rec.status = 1 /\ rec.role = 1
      /\ \A c \in Cols \ {"quota"} : rec[c] = form[f].copy[c]
  <2> DEFINE q == form[f].copy.quota + (IF v = 0 THEN 0 ELSE QuotaForInvitee)
  <2>1. q \in Nat BY <1>1, AccountAssumption DEF RowOK
  <2>2. rec = [form[f].copy EXCEPT !.quota = q] BY <1>0
  <2> HIDE DEF q
  <2>3. RowOK(rec) /\ \A c \in Cols \ {"quota"} : rec[c] = form[f].copy[c]
    BY <1>1, <2>1, <2>2, EditOK
  <2>4. "status" \in Cols \ {"quota"} /\ "role" \in Cols \ {"quota"} BY ColsAre
  <2>5. QED BY <1>1, <2>3, <2>4
<1>4. /\ DOMAIN user' = Ids /\ DOMAIN asked' = Ids /\ user'[u] = rec /\ asked'[u] = rec
      /\ \A w \in Ids : w # u /\ w # v => user'[w] = user[w] /\ asked'[w] = asked[w]
      /\ v # 0 => /\ user'[v] = [user[v] EXCEPT !.quota = user[v].quota + QuotaForInviter]
                  /\ asked'[v] = [asked[v] EXCEPT !.quota = asked[v].quota + QuotaForInviter]
  <2>1. DOMAIN user = Ids /\ DOMAIN asked = Ids BY DEF AccountInv, AccountShape
  <2>2. CASE v = 0 BY <1>0, <2>1, <2>2
  <2>3. CASE v # 0 BY <1>0, <1>2, <2>1, <2>3
  <2>4. QED BY <2>2, <2>3
<1>5. ASSUME NEW w \in Ids, w # u
      PROVE  /\ RowOK(user'[w]) /\ DOMAIN asked'[w] = Cols
             /\ \A c \in Cols : c # "quota" \/ w # v => user'[w][c] = user[w][c] /\ asked'[w][c] = asked[w][c]
             /\ user[w]["quota"] = asked[w]["quota"] => user'[w]["quota"] = asked'[w]["quota"]
  <2>1. RowOK(user[w]) /\ DOMAIN user[w] = Cols /\ DOMAIN asked[w] = Cols
    BY DEF AccountInv, AccountShape, RowOK
  <2>2. CASE w # v BY <1>4, <1>5, <2>1, <2>2
  <2>3. CASE w = v
    <3>1. v # 0 /\ QuotaForInviter \in Nat BY <2>3, AccountAssumption DEF Ids
    <3>2. /\ user'[w] = [user[w] EXCEPT !.quota = user[w].quota + QuotaForInviter]
          /\ asked'[w] = [asked[w] EXCEPT !.quota = asked[w].quota + QuotaForInviter]
      BY <1>4, <2>3, <3>1
    <3>3. /\ RowOK(user'[w]) /\ DOMAIN asked'[w] = Cols
          /\ \A c \in Cols : c # "quota" => user'[w][c] = user[w][c] /\ asked'[w][c] = asked[w][c]
          /\ user[w]["quota"] = asked[w]["quota"] => user'[w]["quota"] = asked'[w]["quota"]
      BY ONLY <2>1, <3>1, <3>2, QuotaOfBoth
    <3>4. QED BY <2>3, <3>3
  <2>4. QED BY <2>2, <2>3
<1>6. QED BY <1>3, <1>4, <1>5

\* A new account, and the quota of whoever invited it.
LEMMA StepInserts ==
  ASSUME AccountInv, NEW f \in Forms, form[f].pc = "insert",
         NEW u \in Ids, ~Exists(u), NEW v, NEW rec,
         RowOK(rec), rec.status = 1, rec.role = 1,
         \A c \in Cols \ {"quota"} : rec[c] = form[f].copy[c],
         DOMAIN user' = Ids, DOMAIN asked' = Ids, user'[u] = rec, asked'[u] = rec,
         \A w \in Ids : w # u =>
           /\ RowOK(user'[w]) /\ DOMAIN asked'[w] = Cols
           /\ \A c \in Cols : c # "quota" \/ w # v => user'[w][c] = user[w][c] /\ asked'[w][c] = asked[w][c]
           /\ user[w]["quota"] = asked[w]["quota"] => user'[w]["quota"] = asked'[w]["quota"],
         Overtake(f, v, {"quota"}, Idle),
         UNCHANGED <<banned, code, stale, contended, raced, promoted, restarts>>
  PROVE  AccountInv'
<1>1. FormOK(form[f]) /\ form[f].want = Cols
  BY DEF AccountInv, AccountShape, FormOK
<1>6. \A w \in Ids \ {u} : \A c \in Cols \ {"quota"} :
        user'[w][c] = user[w][c] /\ asked'[w][c] = asked[w][c]
  OBVIOUS
<1>7. \A w \in Ids \ {u} : user'[w].status = user[w].status /\ user'[w].role = user[w].role
  <2>1. "status" \in Cols \ {"quota"} /\ "role" \in Cols \ {"quota"} BY ColsAre
  <2>2. QED BY <1>6, <2>1
<1>8. /\ DOMAIN form' = Forms /\ form'[f] = Idle
      /\ \A g \in Forms : g # f =>
           form'[g] = IF form[g].id = v THEN [form[g] EXCEPT !.dirty = @ \cup {"quota"}] ELSE form[g]
  BY DEF Overtake
<1>9. ASSUME NEW g \in Forms, g # f PROVE Aged(g) /\ (form[g].id = v => "quota" \in form'[g].dirty)
  <2>1. FormOK(form[g]) /\ {"quota"} \in SUBSET Cols BY ColsAre DEF AccountInv, AccountShape
  <2>2. CASE form[g].id = v
    <3>1. form'[g] = [form[g] EXCEPT !.dirty = @ \cup {"quota"}] BY <1>8, <1>9, <2>2
    <3>2. QED BY <2>1, <3>1, MarkedAged
  <2>3. CASE form[g].id # v
    <3>1. form'[g] = form[g] BY <1>8, <1>9, <2>3
    <3>2. QED BY <2>1, <2>3, <3>1, SameAged
  <2>4. QED BY <2>2, <2>3
<1>10. \A g \in Forms : form[g].pc \in Working => form[g].id \in Ids \ {u}
  <2>1. \A g \in Forms : form[g].pc \in Working => form[g].id \in Ids /\ Exists(form[g].id)
    BY DEF AccountInv, AccountShape, FormOK, Known
  <2>2. QED BY <2>1
<1>11. Idle.pc \notin Working BY DEF Idle, Working
<1>12. AccountShape'
  <2>1. \A g \in Forms : FormOK(form'[g])
    <3>1. \A g \in Forms : FormOK(form[g]) BY DEF AccountInv, AccountShape
    <3>2. QED BY <1>8, <1>9, <3>1, AgedOK, IdleOK
  <2>2. \A w \in Ids : RowOK(user'[w]) /\ DOMAIN asked'[w] = Cols /\ stale'[w] \subseteq Cols
    <3>1. DOMAIN rec = Cols BY DEF RowOK
    <3>2. QED BY <3>1 DEF AccountInv, AccountShape
  <2>3. QED BY <1>8, <2>1, <2>2 DEF AccountInv, AccountShape
<1>13. Known'
  <2>1. \A w \in Ids : Exists(w) => w # u /\ user'[w].status # 0 BY <1>7 DEF Exists
  <2>2. ASSUME NEW g \in Forms, form'[g].pc \in Working PROVE form'[g].id \in Ids /\ user'[form'[g].id].status # 0
    <3>1. g # f BY <1>8, <1>11, <2>2
    <3>2. form'[g].id = form[g].id /\ form[g].pc \in Working BY <1>9, <2>2, <3>1 DEF Aged
    <3>3. form[g].id \in Ids /\ Exists(form[g].id) BY <1>10, <3>2 DEF AccountInv, Known
    <3>4. QED BY <2>1, <3>2, <3>3
  <2>3. 1 \in Ids /\ 2 \in Ids BY AccountAssumption DEF Ids
  <2>4. QED BY <2>1, <2>2, <2>3 DEF AccountInv, Known, Exists
<1>14. RowIsWhatWasAsked'
  <2>1. ASSUME NEW w \in Ids, NEW c \in Cols PROVE c \in stale'[w] \/ user'[w][c] = asked'[w][c]
    <3>1. c \in stale[w] \/ user[w][c] = asked[w][c] BY DEF AccountInv, RowIsWhatWasAsked
    <3>2. CASE w = u BY <3>2
    <3>3. CASE w # u /\ c # "quota"
      <4>1. user'[w][c] = user[w][c] /\ asked'[w][c] = asked[w][c] BY <3>3
      <4>2. QED BY <3>1, <4>1
    <3>4. CASE w # u /\ c = "quota" BY <3>1, <3>4
    <3>5. QED BY <3>2, <3>3, <3>4
  <2>2. QED BY <2>1 DEF RowIsWhatWasAsked
<1>15. FreshInv'
  <2>1. ASSUME NEW g \in Forms PROVE FreshIn(form'[g], user')
    <3>1. CASE g = f BY <1>8, <3>1, IdleFresh
    <3>2. CASE g # f
      <4>1. ASSUME form[g].pc \in Working, NEW c \in Cols \ form'[g].dirty
            PROVE  user'[form[g].id][c] = user[form[g].id][c]
        <5>1. form[g].id \in Ids \ {u} BY <1>10, <4>1
        <5>2. form[g].id # v \/ c # "quota" BY <1>9, <3>2
        <5>3. QED BY <5>1, <5>2
      <4>2. FreshIn(form[g], user) BY DEF AccountInv, FreshInv
      <4>3. QED BY <1>9, <3>2, <4>1, <4>2, AgedFresh
    <3>3. QED BY <3>1, <3>2
  <2>2. QED BY <2>1 DEF FreshInv
<1>16. SoleInv'
  <2>1. \A p \in Providers, w \in Ids : \A i :
          i # None /\ user'[w][p] = i /\ user[w][p] # i =>
            <<p, i>> \in contended' \/ (w = u /\ About(form[f], p, i))
    <3>1. \A p \in Providers : p \in Cols \ {"quota"} BY ColsAre DEF Providers
    <3>2. ASSUME NEW p \in Providers, NEW w \in Ids, NEW i, user'[w][p] = i, user[w][p] # i
          PROVE  w = u /\ About(form[f], p, i)
      <4>1. w = u BY <1>6, <3>1, <3>2
      <4>2. rec[p] = i /\ rec[p] = form[f].copy[p] BY <3>1, <3>2, <4>1
      <4>3. QED BY <1>1, <3>1, <4>1, <4>2 DEF About
    <3>3. QED BY <3>2
  <2>2. \A g \in Forms, p \in Providers : \A i : About(form'[g], p, i) => g # f /\ About(form[g], p, i)
    BY <1>8, <1>9, IdleAbout DEF Aged, About
  <2>3. contended \subseteq contended' /\ SoleInv BY DEF AccountInv
  <2>4. QED BY <2>1, <2>2, <2>3, SoleMoves
<1>17. BanInv'
  <2> SUFFICES ASSUME NEW w \in Ids \ raced'
               PROVE  /\ \A h, g \in Forms : Writes(form'[h], w) /\ Writes(form'[g], w) => h = g
                      /\ \A h \in Forms : Writes(form'[h], w) => Matches(banned', restarts', w, Leaves(form'[h], user'[w]))
                      /\ (\A h \in Forms : ~Writes(form'[h], w)) => Matches(banned', restarts', w, user'[w].status)
    BY DEF BanInv
  <2>1. /\ \A h, g \in Forms : Writes(form[h], w) /\ Writes(form[g], w) => h = g
        /\ \A h \in Forms : Writes(form[h], w) => Matches(banned, restarts, w, Leaves(form[h], user[w]))
        /\ (\A h \in Forms : ~Writes(form[h], w)) => Matches(banned, restarts, w, user[w].status)
    BY DEF AccountInv, BanInv
  <2>2. \A h \in Forms : /\ Writes(form'[h], w) <=> Writes(form[h], w)
                         /\ Writes(form'[h], w) => form'[h].copy = form[h].copy
    <3>1. ~Writes(form'[f], w) /\ ~Writes(form[f], w)
      BY <1>8, IdleWrites DEF Writes, Writing
    <3>2. QED BY <1>9, <3>1 DEF Aged, Writes
  <2>3. CASE w = u
    <3>1. \A h \in Forms : ~Writes(form'[h], u)
      BY <1>10, <2>2, <2>3 DEF Writes, Writing, Working
    <3>2. u \notin banned' BY DEF AccountInv, Known
    <3>3. Matches(banned', restarts', u, user'[u].status)
      BY <3>2 DEF Matches, UserStatusDisabled, UserStatusDeleted
    <3>4. QED BY <2>3, <3>1, <3>3
  <2>4. CASE w # u
    <3>1. \A h \in Forms : Writes(form'[h], w) => Leaves(form'[h], user'[w]) = Leaves(form[h], user[w])
      BY <1>7, <2>2, <2>4 DEF Leaves
    <3>2. QED BY <1>7, <2>1, <2>2, <2>4, <3>1
  <2>5. QED BY <2>3, <2>4
<1>18. AdminInv'
  <2>1. \A w \in Ids : user'[w].role >= RoleAdminUser => w \in promoted'
    BY <1>7 DEF AccountInv, AdminInv, AdminsWerePromoted, RoleAdminUser
  <2>2. \A g \in Forms : form'[g].pc \in Working /\ form'[g].copy.role >= RoleAdminUser => form'[g].id \in promoted'
    BY <1>8, <1>9, <1>11 DEF Aged, AccountInv, AdminInv
  <2>3. QED BY <2>1, <2>2 DEF AdminInv, AdminsWerePromoted
<1>19. QED BY <1>12, <1>13, <1>14, <1>15, <1>16, <1>17, <1>18 DEF AccountInv

\* Requests about an account that exists, and requests about a new one.
LEMMA OpensOnAccount ==
  ASSUME AccountInv, NEW f \in Forms, NEW pc \in {"update", "delete"}, NEW u \in Ids, Exists(u),
         NEW c, RowOK(c), NEW d \in SUBSET Cols, d \cap Providers = {},
         pc = "delete" => d = {"status", "name"},
         \A k \in Cols \ d : c[k] = Blank[k] \/ c[k] = user[u][k],
         c.role >= RoleAdminUser => u \in promoted,
         Open(f, pc, u, c, d, 0)
  PROVE  AccountInv'
<1>1. pc \in Statuses \ Writing /\ pc # "idle" /\ pc \in Working
  BY DEF Statuses, Working, Writing
<1>2. FormOK([pc |-> pc, id |-> u, copy |-> c, want |-> d, dirty |-> {}, inviter |-> 0])
  <2>1. PICK w : w = [pc |-> pc, id |-> u, copy |-> c, want |-> d, dirty |-> {}, inviter |-> 0] OBVIOUS
  <2>2. /\ w.pc = pc /\ w.id = u /\ w.copy = c /\ w.want = d /\ w.dirty = {} /\ w.inviter = 0
        /\ DOMAIN w = {"pc", "id", "copy", "want", "dirty", "inviter"}
    BY <2>1
  <2>3. w.id \in 0 .. MaxUsers /\ w.inviter \in 0 .. 2 BY <2>2, AccountAssumption DEF Ids
  <2>4. FormOK(w) BY <1>1, <2>2, <2>3 DEF FormOK, Working
  <2>5. QED BY <2>1, <2>4
<1>3. \A p \in Providers \cap d :
        c[p] # None /\ <<p, c[p]>> \notin contended => \A v \in Ids : user[v][p] # c[p]
  OBVIOUS
<1>4. QED BY <1>1, <1>2, <1>3, OpenStep

LEMMA OpensOnNewUser ==
  ASSUME AccountInv, NEW f \in Forms, NEW pc \in {"name", "insert"}, NEW c, RowOK(c),
         c.status = UserStatusEnabled, c.role = RoleCommonUser, NEW inviter \in 0 .. 2,
         \A p \in Providers : c[p] = None \/ ~IsTaken(p, c[p]),
         Open(f, pc, 0, c, Cols, inviter)
  PROVE  AccountInv'
<1>1. pc \in Statuses \ Writing /\ pc # "idle" /\ pc \notin Working
  BY DEF Statuses, Working, Writing
<1>2. FormOK([pc |-> pc, id |-> 0, copy |-> c, want |-> Cols, dirty |-> {}, inviter |-> inviter])
  <2>1. PICK w : w = [pc |-> pc, id |-> 0, copy |-> c, want |-> Cols, dirty |-> {}, inviter |-> inviter] OBVIOUS
  <2>2. /\ w.pc = pc /\ w.id = 0 /\ w.copy = c /\ w.want = Cols /\ w.dirty = {} /\ w.inviter = inviter
        /\ DOMAIN w = {"pc", "id", "copy", "want", "dirty", "inviter"}
    BY <2>1
  <2>3. w.id \in 0 .. MaxUsers /\ w.inviter \in 0 .. 2 BY <2>2, AccountAssumption DEF Ids
  <2>4. FormOK(w) BY <1>1, <2>2, <2>3 DEF FormOK, Working
  <2>5. QED BY <2>1, <2>4
<1>3. \A p \in Providers \cap Cols :
        c[p] # None /\ <<p, c[p]>> \notin contended => \A v \in Ids : user[v][p] # c[p]
  BY NotTaken DEF AccountInv
<1>4. QED BY <1>1, <1>2, <1>3, OpenStep

\* A column whose values the type invariant leaves open.
LEMMA SetOK ==
  ASSUME NEW r, RowOK(r), NEW col \in Cols \ {"status", "role", "quota", "email"}, NEW v
  PROVE  RowOK([r EXCEPT ![col] = v])
BY ColsAre DEF RowOK

LEMMA StepEditsColumn ==
  ASSUME AccountInv, NEW f \in Forms, NEW u \in Ids, NEW col \in Cols \ {"status", "role", "quota", "email"},
         NEW v, Edits(f, u, col, v), col \in Providers => ~IsTaken(col, v)
  PROVE  AccountInv'
<1>1. RowOK(user[u]) BY DEF AccountInv, AccountShape
<1>2. RowOK([user[u] EXCEPT ![col] = v]) BY <1>1, SetOK
<1>3. QED BY <1>2, EditsStep

LEMMA StepSelf ==
  ASSUME AccountInv, NEW f \in Forms, NEW u \in Ids,
         \/ GenerateAccessToken(f, u) \/ GetAffCode(f, u) \/ UpdateSelf(f, u) \/ DeleteUserById(f, u)
         \/ \E e \in Emails : EmailBind(f, u, e)
  PROVE  AccountInv'
<1>1. CASE GenerateAccessToken(f, u)
  <2>1. PICK v : v = Version OBVIOUS
  <2>2. Edits(f, u, "key", v) BY <1>1, <2>1 DEF GenerateAccessToken
  <2>3. "key" \in Cols \ {"status", "role", "quota", "email"} /\ "key" \notin Providers BY ColsAre DEF Providers
  <2>4. QED BY <2>2, <2>3, StepEditsColumn
<1>2. CASE GetAffCode(f, u)
  <2>1. "aff" \in Cols \ {"status", "role", "quota", "email"} /\ "aff" \notin Providers BY ColsAre DEF Providers
  <2>2. Edits(f, u, "aff", 1) BY <1>2 DEF GetAffCode
  <2>3. QED BY <2>1, <2>2, StepEditsColumn
<1>3. CASE \E e \in Emails : EmailBind(f, u, e)
  <2>1. PICK e \in Emails : Edits(f, u, "email", e) BY <1>3 DEF EmailBind
  <2>2. RowOK(user[u]) BY DEF AccountInv, AccountShape
  <2>3. RowOK([user[u] EXCEPT !["email"] = e]) BY <2>2, ColsAre DEF RowOK
  <2>4. "email" \in Cols /\ "email" \notin Providers BY ColsAre DEF Providers
  <2>5. QED BY <2>1, <2>3, <2>4, EditsStep
<1>4. CASE UpdateSelf(f, u)
  <2>1. PICK v : v = Version OBVIOUS
  <2>2. PICK c : c = [Blank EXCEPT !.pw = v] OBVIOUS
  <2>3. Exists(u) /\ Open(f, "update", u, c, {"pw"}, 0) BY <1>4, <2>1, <2>2 DEF UpdateSelf
  <2>4. DOMAIN Blank = Cols BY DEF Cols
  <2>5. /\ RowOK(c) /\ \A k \in Cols \ {"pw"} : c[k] = Blank[k]
        /\ c.role = 0
    <3>1. RowOK(c) BY <2>2, BlankOK, SetOK, ColsAre
    <3>2. \A k \in Cols \ {"pw"} : c[k] = Blank[k] BY <2>2, <2>4
    <3>3. c.role = 0 BY <3>2, ColsAre DEF Blank
    <3>4. QED BY <3>1, <3>2, <3>3
  <2>6. {"pw"} \in SUBSET Cols /\ {"pw"} \cap Providers = {} BY ColsAre DEF Providers
  <2>7. c.role >= RoleAdminUser => u \in promoted BY <2>5 DEF RoleAdminUser
  <2>8. QED BY <2>3, <2>5, <2>6, <2>7, OpensOnAccount
<1>5. CASE DeleteUserById(f, u)
  <2>1. PICK v : v = <<"deleted", Version>> OBVIOUS
  <2>2. PICK c : c = [Blank EXCEPT !.status = UserStatusDeleted, !.name = v] OBVIOUS
  <2>3. Exists(u) /\ Open(f, "update", u, c, {"status", "name"}, 0)
    BY <1>5, <2>1, <2>2 DEF DeleteUserById
  <2>4. DOMAIN Blank = Cols BY DEF Cols
  <2>5. /\ DOMAIN c = Cols /\ c["status"] = 3 /\ \A k \in Cols \ {"status", "name"} : c[k] = Blank[k]
    BY <2>2, <2>4, ColsAre DEF UserStatusDeleted
  <2>6. RowOK(c) /\ c.role = 0 BY <2>5, ColsAre DEF RowOK, Blank
  <2>7. {"status", "name"} \in SUBSET Cols /\ {"status", "name"} \cap Providers = {} BY ColsAre DEF Providers
  <2>8. c.role >= RoleAdminUser => u \in promoted BY <2>6 DEF RoleAdminUser
  <2>9. QED BY <2>3, <2>5, <2>6, <2>7, <2>8, OpensOnAccount
<1>6. QED BY <1>1, <1>2, <1>3, <1>4, <1>5

LEMMA StepManages ==
  ASSUME AccountInv, NEW f \in Forms, NEW r \in Admins, NEW u \in Ids, NEW a, ManageUser(f, r, u, a)
  PROVE  AccountInv'
<1>1. RowOK(user[u]) /\ DOMAIN user[u] = Cols BY DEF AccountInv, AccountShape, RowOK
<1>2. \A s \in 0 .. 3 : RowOK([user[u] EXCEPT !["status"] = s]) BY <1>1, ColsAre DEF RowOK
<1>3. RowOK([user[u] EXCEPT !["role"] = 1]) BY <1>1, ColsAre DEF RowOK
<1>4. "status" \in Cols /\ "role" \in Cols /\ "status" \notin Providers /\ "role" \notin Providers
  BY ColsAre DEF Providers
<1>5. CASE Edits(f, u, "status", UserStatusDisabled)
  BY <1>2, <1>4, <1>5, EditsStep DEF UserStatusDisabled
<1>6. CASE Edits(f, u, "status", UserStatusEnabled)
  BY <1>2, <1>4, <1>6, EditsStep DEF UserStatusEnabled
<1>7. CASE Edits(f, u, "role", RoleCommonUser)
  BY <1>3, <1>4, <1>7, EditsStep DEF RoleCommonUser, RoleAdminUser
<1>8. CASE Open(f, "delete", u, [user[u] EXCEPT !.status = UserStatusDeleted, !.name = <<"deleted", Version>>],
                {"status", "name"}, 0)
  <2>1. PICK v : v = <<"deleted", Version>> OBVIOUS
  <2>2. PICK c : c = [user[u] EXCEPT !.status = UserStatusDeleted, !.name = v] OBVIOUS
  <2>3. Exists(u) /\ Open(f, "delete", u, c, {"status", "name"}, 0)
    BY <1>8, <2>1, <2>2 DEF ManageUser
  <2>5. /\ DOMAIN c = Cols /\ c["status"] = 3 /\ \A k \in Cols \ {"status", "name"} : c[k] = user[u][k]
    BY <1>1, <2>2, ColsAre DEF UserStatusDeleted
  <2>6. RowOK(c) /\ c.role = user[u].role BY <1>1, <2>5, ColsAre DEF RowOK
  <2>7. {"status", "name"} \in SUBSET Cols /\ {"status", "name"} \cap Providers = {} BY ColsAre DEF Providers
  <2>8. c.role >= RoleAdminUser => u \in promoted BY <2>6 DEF AccountInv, AdminInv, AdminsWerePromoted
  <2>9. QED BY <2>3, <2>5, <2>6, <2>7, <2>8, OpensOnAccount
<1>9. QED BY <1>5, <1>6, <1>7, <1>8 DEF ManageUser

\* The two requests that make administrators.
LEMMA StepPromotes ==
  ASSUME AccountInv, NEW f \in Forms, NEW r \in Admins, NEW u \in Ids, Promote(f, r, u)
  PROVE  AccountInv'
<1>1. RowOK(user[u]) /\ DOMAIN user[u] = Cols BY DEF AccountInv, AccountShape, RowOK
<1>2. PICK c : c = [user[u] EXCEPT !.role = RoleAdminUser] OBVIOUS
<1>3. PICK w : w = [Idle EXCEPT !.pc = "update", !.id = u, !.want = {"role"}, !.copy = c] OBVIOUS
<1>4. /\ Exists(u) /\ form[f].pc = "idle" /\ form' = [form EXCEPT ![f] = w]
      /\ promoted' = promoted \cup {u}
      /\ UNCHANGED <<user, banned, code, asked, stale, contended, raced, restarts>>
  BY <1>2, <1>3 DEF Promote, MayPromote
<1>5. /\ w.pc = "update" /\ w.id = u /\ w.copy = c /\ w.want = {"role"} /\ w.dirty = {} /\ w.inviter = 0
      /\ DOMAIN w = {"pc", "id", "copy", "want", "dirty", "inviter"}
  BY <1>3 DEF Idle
<1>6. RowOK(c) /\ \A k \in Cols \ {"role"} : c[k] = user[u][k]
  BY <1>1, <1>2, ColsAre DEF RowOK, RoleAdminUser
<1>7. FormOK(w)
  BY <1>5, <1>6, ColsAre, AccountAssumption DEF FormOK, Statuses, Working, Ids
<1>8. FreshIn(w, user) BY <1>5, <1>6 DEF FreshIn
<1>9. \A p \in Providers : \A i : ~About(w, p, i) BY <1>5 DEF About, Providers
<1>10. w.pc \notin Writing BY <1>5 DEF Writing
<1>11. QED BY <1>4, <1>5, <1>7, <1>8, <1>9, <1>10, StepOpens

LEMMA StepUpdatesUser ==
  ASSUME AccountInv, NEW f \in Forms, NEW r \in Admins, NEW u \in Ids, NEW body \in AdminEdits,
         UpdateUser(f, r, u, body)
  PROVE  AccountInv'
<1>1. RowOK(body) BY AccountAssumption DEF RowOK
<1>2. PICK d : d = {c \in Cols : body[c] # Blank[c]} OBVIOUS
<1>3. PICK w : w = [Idle EXCEPT !.pc = "update", !.id = u, !.copy = body, !.want = d] OBVIOUS
<1>4. /\ Exists(u) /\ form[f].pc = "idle" /\ form' = [form EXCEPT ![f] = w]
      /\ contended' = contended \cup {<<p, body[p]>> : p \in {q \in Providers : body[q] # None}}
      /\ promoted' = IF body.role >= RoleAdminUser /\ r = RoleRootUser THEN promoted \cup {u} ELSE promoted
      /\ r > body.role \/ r = RoleRootUser
      /\ UNCHANGED <<user, banned, code, asked, stale, raced, restarts>>
  BY <1>2, <1>3 DEF UpdateUser
<1>5. /\ w.pc = "update" /\ w.id = u /\ w.copy = body /\ w.want = d /\ w.dirty = {} /\ w.inviter = 0
      /\ DOMAIN w = {"pc", "id", "copy", "want", "dirty", "inviter"}
  BY <1>3 DEF Idle
<1>6. FormOK(w)
  BY <1>1, <1>2, <1>5, AccountAssumption DEF FormOK, Statuses, Working, Ids
<1>7. FreshIn(w, user) BY <1>2, <1>5 DEF FreshIn
<1>8. \A p \in Providers : \A i : i # None /\ About(w, p, i) => <<p, i>> \in contended'
  <2>1. ASSUME NEW p \in Providers, NEW i, i # None, About(w, p, i) PROVE <<p, i>> \in contended'
    <3>1. body[p] = i BY <1>5, <2>1 DEF About
    <3>2. p \in {q \in Providers : body[q] # None} BY <2>1, <3>1
    <3>3. QED BY <1>4, <3>1, <3>2
  <2>2. QED BY <2>1
<1>9. body.role >= RoleAdminUser => u \in promoted'
  BY <1>1, <1>4 DEF RowOK, Admins, RoleAdminUser, RoleRootUser
<1>10. w.pc \notin Writing BY <1>5 DEF Writing
<1>11. promoted \subseteq promoted' /\ contended \subseteq contended' BY <1>4
<1>12. QED BY <1>4, <1>5, <1>6, <1>7, <1>8, <1>9, <1>10, <1>11, StepOpens

\* Registration, and the five providers of identities.
LEMMA NewUserOK ==
  ASSUME NEW n, NEW e \in Emails \cup {None}
  PROVE  /\ RowOK(NewUser(n, e)) /\ NewUser(n, e).status = UserStatusEnabled
         /\ NewUser(n, e).role = RoleCommonUser /\ \A p \in Providers : NewUser(n, e)[p] = None
<1>1. PICK v : v = Version OBVIOUS
<1>2. PICK r : r = [Blank EXCEPT !.name = n, !.email = e, !.pw = v, !.role = RoleCommonUser,
                                 !.status = UserStatusEnabled, !.key = v, !.aff = 1,
                                 !.quota = QuotaForNewUser]
  OBVIOUS
<1>3. r = NewUser(n, e) BY <1>1, <1>2 DEF NewUser
<1>4. /\ DOMAIN r = Cols /\ r["status"] = 1 /\ r["role"] = 1 /\ r["quota"] = QuotaForNewUser
      /\ r["email"] = e /\ \A p \in Providers : r[p] = None
  <2>1. DOMAIN Blank = Cols /\ \A p \in Providers : Blank[p] = None BY DEF Cols, Blank, Providers
  <2>2. /\ DOMAIN r = Cols /\ r["status"] = 1 /\ r["role"] = 1 /\ r["quota"] = QuotaForNewUser /\ r["email"] = e
        /\ \A c \in Cols \ {"name", "email", "pw", "role", "status", "key", "aff", "quota"} : r[c] = Blank[c]
    BY <1>2, <2>1, ColsAre DEF UserStatusEnabled, RoleCommonUser
  <2>3. Providers \subseteq Cols \ {"name", "email", "pw", "role", "status", "key", "aff", "quota"}
    BY ColsAre DEF Providers
  <2>4. QED BY <2>1, <2>2, <2>3
<1>5. RowOK(r) BY <1>4, AccountAssumption DEF RowOK
<1>6. QED BY <1>3, <1>4, <1>5 DEF UserStatusEnabled, RoleCommonUser

LEMMA StepRegisters ==
  ASSUME AccountInv, NEW f \in Forms, NEW n,
         CreateUser(f, n) \/ \E e \in Emails \cup {None}, b \in BOOLEAN, v \in 0 .. 2 : Register(f, n, e, b, v)
  PROVE  AccountInv'
<1>1. PICK e \in Emails \cup {None}, v \in 0 .. 2 :
        Open(f, "insert", 0, NewUser(<<"own", n>>, e), Cols, v)
  <2>1. CASE CreateUser(f, n) BY <2>1 DEF CreateUser
  <2>2. CASE \E e \in Emails \cup {None}, b \in BOOLEAN, v \in 0 .. 2 : Register(f, n, e, b, v)
    BY <2>2 DEF Register
  <2>3. QED BY <2>1, <2>2
<1>2. PICK c : c = NewUser(<<"own", n>>, e) OBVIOUS
<1>3. /\ RowOK(c) /\ c.status = UserStatusEnabled /\ c.role = RoleCommonUser
      /\ \A p \in Providers : c[p] = None
  BY <1>2, NewUserOK
<1>4. Open(f, "insert", 0, c, Cols, v) BY <1>1, <1>2
<1>5. QED BY <1>3, <1>4, OpensOnNewUser

LEMMA StepSignsUp ==
  ASSUME AccountInv, NEW f \in Forms, NEW p \in Providers, NEW i, NEW e \in Emails \cup {None},
         SignUp(f, p, i, e)
  PROVE  AccountInv'
<1>1. PICK r : r = NewUser(None, e) OBVIOUS
<1>2. /\ RowOK(r) /\ r.status = UserStatusEnabled /\ r.role = RoleCommonUser
      /\ \A q \in Providers : r[q] = None
  BY <1>1, NewUserOK
<1>3. PICK c : c = [r EXCEPT ![p] = i, !.pw = 0] OBVIOUS
<1>4. ~IsTaken(p, i) /\ Open(f, "name", 0, c, Cols, 0) BY <1>1, <1>3 DEF SignUp
<1>5. DOMAIN r = Cols BY <1>2 DEF RowOK
<1>6. p \in Cols \ {"status", "role", "quota", "email"} /\ "pw" \notin Providers BY ColsAre DEF Providers
<1>7. /\ DOMAIN c = Cols /\ c[p] = i /\ \A k \in Cols \ {p, "pw"} : c[k] = r[k]
  BY <1>3, <1>5, <1>6
<1>8. RowOK(c) /\ c.status = UserStatusEnabled /\ c.role = RoleCommonUser
  <2>1. {"status", "role", "quota", "email"} \subseteq Cols \ {p, "pw"} BY <1>6, ColsAre
  <2>2. c.status = r.status /\ c.role = r.role /\ c.quota = r.quota /\ c.email = r.email
    BY <1>7, <2>1
  <2>3. QED BY <1>2, <1>7, <2>2 DEF RowOK
<1>9. \A q \in Providers : c[q] = None \/ ~IsTaken(q, c[q])
  <2>1. \A q \in Providers \ {p} : c[q] = None
    BY <1>2, <1>6, <1>7, ColsAre DEF Providers
  <2>2. QED BY <1>4, <1>7, <2>1
<1>10. QED BY <1>4, <1>8, <1>9, OpensOnNewUser

LEMMA StepIdentifies == ASSUME AccountInv, NEW f \in Forms, Identity(f) PROVE AccountInv'
<1>1. PICK i \in Idents \cup {None}, u \in Ids :
        \/ \E e \in Emails \cup {None} : GitHubOAuth(f, i, e) \/ GoogleAuth(f, i, e) \/ OidcAuth(f, i, e)
        \/ LarkOAuth(f, i) \/ WeChatAuth(f, i)
        \/ GitHubBind(f, u, i) \/ GoogleBind(f, u, i) \/ OidcBind(f, u, i)
        \/ LarkBind(f, u, i) \/ WeChatBind(f, u, i)
  BY DEF Identity
<1>2. CASE \/ \E e \in Emails \cup {None} : GitHubOAuth(f, i, e) \/ GoogleAuth(f, i, e) \/ OidcAuth(f, i, e)
           \/ LarkOAuth(f, i) \/ WeChatAuth(f, i)
  <2>1. PICK p \in Providers, e \in Emails \cup {None} : SignUp(f, p, i, e)
    <3>1. {"github", "google", "oidc", "lark", "wechat"} = Providers BY DEF Providers
    <3>2. QED BY <1>2, <3>1 DEF GitHubOAuth, GoogleAuth, OidcAuth, LarkOAuth, WeChatAuth
  <2>2. QED BY <2>1, StepSignsUp
<1>3. CASE \/ GitHubBind(f, u, i) \/ GoogleBind(f, u, i) \/ OidcBind(f, u, i)
           \/ LarkBind(f, u, i) \/ WeChatBind(f, u, i)
  <2>1. PICK p \in Providers : ~IsTaken(p, i) /\ Edits(f, u, p, i)
    <3>1. {"github", "google", "oidc", "lark", "wechat"} = Providers BY DEF Providers
    <3>2. PICK p \in Providers : Bind(f, p, u, i)
      BY <1>3, <3>1 DEF GitHubBind, GoogleBind, OidcBind, LarkBind, WeChatBind
    <3>3. QED BY <3>2 DEF Bind
  <2>2. p \in Cols \ {"status", "role", "quota", "email"} BY ColsAre DEF Providers
  <2>3. QED BY <2>1, <2>2, StepEditsColumn
<1>4. QED BY <1>1, <1>2, <1>3

LEMMA StepUpdates == ASSUME AccountInv, NEW f \in Forms, Update(f) PROVE AccountInv'
<1> DEFINE u == form[f].id
           new == Updates(user[u], form[f].copy)
           want == form[f].want
<1>1. form[f].pc \in Writing BY DEF Update, Writing
<1>2. CASE rowErrors' = rowErrors
  <2>1. PICK a, b, c : a = form[f].id /\ b = Updates(user[a], form[f].copy) /\ c = form[f].want
    OBVIOUS
  <2>2. \/ AccountWritten(f, a, b, c)
        \/ /\ raced' = raced \cup {a} /\ form' = [form EXCEPT ![f] = Idle]
           /\ UNCHANGED <<user, banned, code, asked, stale, contended, promoted, restarts>>
    BY <2>1 DEF Update, AccountWritten
  <2>3. CASE /\ raced' = raced \cup {a} /\ form' = [form EXCEPT ![f] = Idle]
             /\ UNCHANGED <<user, banned, code, asked, stale, contended, promoted, restarts>>
    BY <2>1, <2>3, StepSettles
  <2>4. CASE AccountWritten(f, a, b, c)
    <3>1. a = form[f].id /\ b = Updates(user[a], form[f].copy) /\ c = form[f].want BY <2>1
    <3>2. QED BY <1>1, <2>4, <3>1, StepWritesRow
  <2>5. QED BY <2>2, <2>3, <2>4
<1>3. QED BY <1>1, <1>2, StepSettles DEF Update

LEMMA StepInsertsUser == ASSUME AccountInv, NEW f \in Forms, InsertUser(f) PROVE AccountInv'
<1>1. PICK u, v : u = GetMaxUserId + 1 /\ v = form[f].inviter OBVIOUS
<1>2. PICK rec : rec = [form[f].copy EXCEPT !.quota = @ + (IF v = 0 THEN 0 ELSE QuotaForInvitee)] OBVIOUS
<1>3. /\ form[f].pc = "insert" /\ UNCHANGED <<banned, code, stale, contended, raced, promoted, restarts>>
      /\ \/ /\ u \in Ids /\ RowInserted(f, u, v, rec)
            /\ Overtake(f, v, {"quota"}, Idle)
         \/ form' = [form EXCEPT ![f] = Idle] /\ UNCHANGED <<user, asked>>
  BY <1>1, <1>2 DEF InsertUser, RowInserted
<1>4. CASE form' = [form EXCEPT ![f] = Idle] /\ UNCHANGED <<user, asked>>
  <2>1. form[f].pc \notin Writing BY <1>3 DEF Writing
  <2>2. QED BY <1>3, <1>4, <2>1, StepSettles
<1>5. CASE /\ u \in Ids /\ RowInserted(f, u, v, rec)
           /\ Overtake(f, v, {"quota"}, Idle)
  <2>1. ~Exists(u) BY <1>1, <1>5, NextIdIsFree
  <2>2. /\ RowOK(rec) /\ rec.status = 1 /\ rec.role = 1
        /\ \A c \in Cols \ {"quota"} : rec[c] = form[f].copy[c]
        /\ DOMAIN user' = Ids /\ DOMAIN asked' = Ids /\ user'[u] = rec /\ asked'[u] = rec
        /\ \A w \in Ids : w # u =>
             /\ RowOK(user'[w]) /\ DOMAIN asked'[w] = Cols
             /\ \A c \in Cols : c # "quota" \/ w # v => user'[w][c] = user[w][c] /\ asked'[w][c] = asked[w][c]
             /\ user[w]["quota"] = asked[w]["quota"] => user'[w]["quota"] = asked'[w]["quota"]
    <3>1. form[f].pc = "insert" /\ v = form[f].inviter /\ u \in Ids BY <1>1, <1>3, <1>5
    <3>2. QED BY <1>5, <2>1, <3>1, RowsAfterInsert
  <2>3. QED BY <1>3, <1>5, <2>1, <2>2, StepInserts
<1>6. QED BY <1>3, <1>4, <1>5

-----------------------------------------------------------------------------
(* The invariant holds of every behaviour. *)

LEMMA AccountStarts == ASSUME AccountInit PROVE AccountInv
<1>1. PICK e \in Emails \cup {None}, i \in Idents \cup {None} :
        user = [u \in Ids |-> CASE u = 1 -> UserRow(RoleRootUser, None, None)
                                [] u = 2 -> UserRow(RoleCommonUser, e, i)
                                [] OTHER -> Blank]
  BY DEF AccountInit
<1>2. /\ banned = {} /\ code = {} /\ form = [f \in Forms |-> Idle] /\ asked = user
      /\ stale = [u \in Ids |-> {}] /\ promoted = {1} /\ restarts = 0
  BY DEF AccountInit
<1>3. 1 \in Ids /\ 2 \in Ids BY AccountAssumption DEF Ids
<1>4. \A r \in {1, 100}, a \in Emails \cup {None} : \A j :
        /\ RowOK(UserRow(r, a, j)) /\ UserRow(r, a, j).status = 1 /\ UserRow(r, a, j).role = r
        /\ \A p \in Providers \ {"github"} : UserRow(r, a, j)[p] = None
        /\ UserRow(r, a, j)["github"] = j
  <2>1. ASSUME NEW r \in {1, 100}, NEW a \in Emails \cup {None}, NEW j
        PROVE  /\ RowOK(UserRow(r, a, j)) /\ UserRow(r, a, j).status = 1 /\ UserRow(r, a, j).role = r
               /\ \A p \in Providers \ {"github"} : UserRow(r, a, j)[p] = None
               /\ UserRow(r, a, j)["github"] = j
    <3>1. PICK n : n = <<"old", r>> OBVIOUS
    <3>2. PICK w : w = [Blank EXCEPT !.role = r, !.status = UserStatusEnabled, !.email = a, !.github = j,
                                     !.pw = 1, !.quota = 2, !.name = n]
      OBVIOUS
    <3>3. w = UserRow(r, a, j) BY <3>1, <3>2 DEF UserRow
    <3>4. /\ DOMAIN w = Cols /\ w["status"] = 1 /\ w["role"] = r /\ w["quota"] = 2 /\ w["email"] = a
          /\ w["github"] = j /\ \A p \in Providers \ {"github"} : w[p] = None
      <4>1. DOMAIN Blank = Cols /\ \A p \in Providers : Blank[p] = None BY DEF Cols, Blank, Providers
      <4>2. /\ DOMAIN w = Cols /\ w["status"] = 1 /\ w["role"] = r /\ w["quota"] = 2 /\ w["email"] = a
            /\ w["github"] = j
            /\ \A c \in Cols \ {"name", "email", "pw", "role", "status", "github", "quota"} : w[c] = Blank[c]
        BY <3>2, <4>1, ColsAre DEF UserStatusEnabled
      <4>3. Providers \ {"github"} \subseteq Cols \ {"name", "email", "pw", "role", "status", "github", "quota"}
        BY ColsAre DEF Providers
      <4>4. QED BY <4>1, <4>2, <4>3
    <3>5. RowOK(w) BY <3>4 DEF RowOK
    <3>6. QED BY <3>3, <3>4, <3>5
  <2>2. QED BY <2>1
<1>5. /\ DOMAIN user = Ids /\ user[1] = UserRow(100, None, None) /\ user[2] = UserRow(1, e, i)
      /\ \A u \in Ids \ {1, 2} : user[u] = Blank
  BY <1>1, <1>3 DEF RoleRootUser, RoleCommonUser
<1>6. \A u \in Ids : RowOK(user[u]) /\ user[u].status \in {0, 1} /\ (u # 1 => user[u].role \in {0, 1})
  <2>1. Blank.status = 0 /\ Blank.role = 0 BY DEF Blank
  <2>2. QED BY <1>4, <1>5, <2>1, BlankOK
<1>7. \A f \in Forms : form[f] = Idle BY <1>2
<1>8. Idle.pc \notin Working /\ Idle.pc \notin Writing BY DEF Idle, Working, Writing
<1>9. AccountShape
  <2>1. \A u \in Ids : DOMAIN asked[u] = Cols /\ stale[u] \subseteq Cols
    BY <1>2, <1>6 DEF RowOK
  <2>2. QED BY <1>2, <1>5, <1>6, <1>7, <2>1, IdleOK DEF AccountShape
<1>10. Known BY <1>2, <1>4, <1>5, <1>7, <1>8 DEF Known, Exists
<1>11. RowIsWhatWasAsked BY <1>2 DEF RowIsWhatWasAsked
<1>12. FreshInv BY <1>7, IdleFresh DEF FreshInv
<1>13. SoleInv
  <2>1. \A p \in Providers, u \in Ids : u # 2 => user[u][p] = None
    <3>1. \A p \in Providers : Blank[p] = None BY DEF Blank, Providers
    <3>2. QED BY <1>4, <1>5, <3>1
  <2>2. QED BY <1>7, <2>1, IdleAbout DEF SoleInv
<1>14. BanInv
  BY <1>2, <1>6, <1>7, IdleWrites DEF BanInv, Matches, UserStatusDisabled, UserStatusDeleted
<1>15. AdminInv
  BY <1>2, <1>6, <1>7, <1>8 DEF AdminInv, AdminsWerePromoted, RoleAdminUser
<1>16. QED BY <1>9, <1>10, <1>11, <1>12, <1>13, <1>14, <1>15 DEF AccountInv

LEMMA AccountGoesOn == ASSUME AccountInv, [AccountNext]_accountVars PROVE AccountInv'
<1>1. CASE AccountNext
  <2>1. ASSUME NEW f \in Forms, Ban(f) \/ Update(f) \/ GenerateName(f) \/ InsertUser(f) \/ Identity(f)
        PROVE  AccountInv'
    BY <2>1, StepBans, StepUpdates, StepNames, StepInsertsUser, StepIdentifies
  <2>2. ASSUME NEW f \in Forms, NEW u \in Ids,
               \/ GenerateAccessToken(f, u) \/ GetAffCode(f, u) \/ UpdateSelf(f, u) \/ DeleteUserById(f, u)
               \/ \E e \in Emails : EmailBind(f, u, e)
        PROVE  AccountInv'
    BY <2>2, StepSelf
  <2>3. ASSUME NEW f \in Forms, NEW u \in Ids, NEW r \in Admins,
               \/ Promote(f, r, u)
               \/ \E body \in AdminEdits : UpdateUser(f, r, u, body)
               \/ \E a \in {"disable", "enable", "delete", "demote"} : ManageUser(f, r, u, a)
        PROVE  AccountInv'
    BY <2>3, StepPromotes, StepUpdatesUser, StepManages
  <2>4. ASSUME NEW f \in Forms, NEW n,
               \/ CreateUser(f, n)
               \/ \E e \in Emails \cup {None}, b \in BOOLEAN, v \in 0 .. 2 : Register(f, n, e, b, v)
        PROVE  AccountInv'
    BY <2>4, StepRegisters
  <2>5. ASSUME NEW u \in Ids, NEW d \in {-1, 1}, AddQuota(u, d) PROVE AccountInv'
    <3>1. d \in Int OBVIOUS
    <3>2. QED BY <2>5, <3>1, StepAddsQuota
  <2>6. ASSUME NEW e \in Emails, SendEmailVerification(e) \/ SendPasswordResetEmail(e) PROVE AccountInv'
    <3>1. /\ UNCHANGED <<user, banned, form, asked, stale, contended, raced, promoted, restarts>>
          /\ code' \subseteq code \cup {<<"v", e>>, <<"r", e>>}
      BY <2>6 DEF SendEmailVerification, SendPasswordResetEmail
    <3>2. code \subseteq {"v", "r"} \X Emails BY DEF AccountInv, AccountShape
    <3>3. <<"v", e>> \in {"v", "r"} \X Emails /\ <<"r", e>> \in {"v", "r"} \X Emails OBVIOUS
    <3>4. code' \subseteq {"v", "r"} \X Emails BY <3>1, <3>2, <3>3
    <3>5. QED BY <3>1, <3>4, StepCodes
  <2>7. ASSUME NEW e \in Emails, ResetPassword(e) PROVE AccountInv'
    BY <2>7, StepResets
  <2>8. ASSUME NEW k \in code, CodeExpires(k) PROVE AccountInv'
    <3>1. UNCHANGED <<user, banned, form, asked, stale, contended, raced, promoted, restarts>>
          /\ code' \subseteq code
      BY <2>8 DEF CodeExpires
    <3>2. code' \subseteq {"v", "r"} \X Emails BY <3>1 DEF AccountInv, AccountShape
    <3>3. QED BY <3>1, <3>2, StepCodes
  <2>9. CASE Restart BY <2>9, StepRestarts
  <2>10. QED BY <1>1, <2>1, <2>2, <2>3, <2>4, <2>5, <2>6, <2>7, <2>8, <2>9 DEF AccountNext
<1>2. CASE UNCHANGED accountVars
  <2>1. code' \subseteq {"v", "r"} \X Emails BY <1>2 DEF accountVars, AccountInv, AccountShape
  <2>2. QED BY <1>2, <2>1, StepCodes DEF accountVars
<1>3. QED BY <1>1, <1>2

LEMMA AccountInvSuffices == ASSUME AccountInv PROVE AccountsKeepTheirTerms
<1>1. AccountTypeOK
  BY DEF AccountInv, AccountShape, RowOK, FormOK, Known, AccountTypeOK
<1>2. RowIsWhatWasAsked BY DEF AccountInv
<1>3. SharedIdentityWasContended BY DEF AccountInv, SoleInv, SharedIdentityWasContended
<1>4. BanListFollowsRows
  <2>1. ASSUME NEW u \in Ids \ raced, \A f \in Forms : form[f].id # u
        PROVE  Matches(banned, restarts, u, user[u].status)
    BY <2>1 DEF AccountInv, BanInv, Writes
  <2>2. QED BY <2>1 DEF BanListFollowsRows, Matches
<1>5. AdminsWerePromoted BY DEF AccountInv, AdminInv
<1>6. QED BY <1>1, <1>2, <1>3, <1>4, <1>5 DEF AccountsKeepTheirTerms

\* Accounts: an edit loses nothing unless it wrote back a copy that had been
\* overtaken, an identity is shared only where it was raced for, the black list
\* follows the rows of users nobody wrote out of step, and only the root user
\* makes administrators.
THEOREM AccountsAreKept == AccountSpec => []AccountsKeepTheirTerms
<1>1. AccountInit => AccountInv BY AccountStarts
<1>2. AccountInv /\ [AccountNext]_accountVars => AccountInv' BY AccountGoesOn
<1>3. AccountInv => AccountsKeepTheirTerms BY AccountInvSuffices
<1>4. QED BY <1>1, <1>2, <1>3, PTL DEF AccountSpec

-----------------------------------------------------------------------------
(* SignIn. *)

-----------------------------------------------------------------------------
(* Type correctness. *)

Maybe == Accounts \cup {0}
FactorRow == [status : {"enabled", "deleted"}, secret : Nat, enabled : BOOLEAN, codes : SUBSET Codes]
KeyRow == [owner : Maybe, count : Nat]
Cookie == [id : Maybe, status : {"", "enabled", "deleted"}, pending : Maybe, for : Maybe,
           allowed : SUBSET Keys, reg : Maybe]
Request == [pc : {"idle", "consume", "write", "insert", "read", "update"},
            kind : TotpKinds \cup {"", "register", "passkey", "second"}, id : Maybe,
            copy : SUBSET Codes, code : Factors \cup {Totp(0)}, key : Keys \cup {NoKey}, count : Nat]

SignInTypes ==
  /\ row \in [Accounts -> FactorRow] /\ passkey \in [Keys -> KeyRow]
  /\ session \in [Browsers -> Cookie]
  /\ op \in [Browsers -> Request] /\ \A b \in Browsers : op[b].pc # "idle" => op[b].id \in Accounts
  /\ device \in [Keys -> Nat] /\ generation \in Nat /\ uses \in [Codes -> Nat]

LEMMA TypesInit == SignInInit => SignInTypes
<1>1. NoOp \in Request /\ NoOp.pc = "idle"
  BY DEF NoOp, Request, Maybe
<1>2. SignedOut \in Cookie
  BY DEF SignedOut, Cookie, Maybe
<1>3. /\ [status |-> "enabled", secret |-> 0, enabled |-> FALSE, codes |-> {}] \in FactorRow
      /\ [owner |-> 0, count |-> 0] \in KeyRow
  BY DEF FactorRow, KeyRow, Maybe
<1>4. QED BY <1>1, <1>2, <1>3 DEF SignInInit, SignInTypes

\* The password step and the session.
LEMMA TypesSession ==
  ASSUME SignInTypes, NEW b \in Browsers,
         \/ Clear(b) \/ PromoteWithoutTotp(b) \/ BeginRegisterPasskey(b) \/ BeginPasskeySecondFactor(b)
         \/ \E u \in Accounts : Login(b, u) \/ BeginPasskeyLogin(b, u)
  PROVE  SignInTypes' /\ UNCHANGED <<row, passkey, op, device, generation, uses, barred, lapped, confirmed,
                                     crossed, refused, deleting, overtaken>>
<1>1. session[b] \in Cookie
  BY DEF SignInTypes
<1>2. \E s \in Cookie : session' = [session EXCEPT ![b] = s]
  <2>1. CASE Clear(b)
    BY <2>1 DEF Clear, SignedOut, Cookie, Maybe
  <2>2. ASSUME NEW u \in Accounts
        PROVE  /\ [session[b] EXCEPT !.pending = u] \in Cookie
               /\ SetupLogin(session[b], u) \in Cookie
               /\ SetupLogin([session[b] EXCEPT !.pending = 0], u) \in Cookie
               /\ [[session[b] EXCEPT !.for = u] EXCEPT !.allowed = ListPasskeysByUserId(u)] \in Cookie
    <3>1. row[u].status \in {"enabled", "deleted"} /\ ListPasskeysByUserId(u) \subseteq Keys
      BY DEF SignInTypes, FactorRow, ListPasskeysByUserId
    <3>2. QED BY <1>1, <2>2, <3>1 DEF SetupLogin, Cookie, Maybe
  <2>3. ASSUME NEW u \in Accounts, Login(b, u)
        PROVE  \E s \in Cookie : session' = [session EXCEPT ![b] = s]
    <3>1. session' = [session EXCEPT ![b] = IF row[u].enabled \/ HasPasskey(u)
                        THEN [session[b] EXCEPT !.pending = u] ELSE SetupLogin(session[b], u)]
      BY <2>3 DEF Login
    <3>2. QED BY <2>2, <3>1
  <2>4. CASE PromoteWithoutTotp(b)
    <3>1. session[b].pending \in Accounts
      BY <1>1, <2>4 DEF PromoteWithoutTotp, Cookie, Maybe
    <3>2. QED BY <2>2, <2>4, <3>1 DEF PromoteWithoutTotp
  <2>5. ASSUME NEW u \in Accounts, Challenge(b, u)
        PROVE  \E s \in Cookie : session' = [session EXCEPT ![b] = s]
    <3>1. session' = [session EXCEPT ![b] =
                        [[session[b] EXCEPT !.for = u] EXCEPT !.allowed = ListPasskeysByUserId(u)]]
      BY <2>5 DEF Challenge, SignInTypes
    <3>2. QED BY <2>2, <3>1
  <2>6. CASE BeginPasskeySecondFactor(b)
    <3>1. session[b].pending \in Accounts
      BY <1>1, <2>6 DEF BeginPasskeySecondFactor, Cookie, Maybe
    <3>2. QED BY <2>5, <2>6, <3>1 DEF BeginPasskeySecondFactor
  <2>7. CASE BeginRegisterPasskey(b)
    <3>1. [session[b] EXCEPT !.reg = session[b].id] \in Cookie
      BY <1>1 DEF Cookie
    <3>2. session' = [session EXCEPT ![b] = [session[b] EXCEPT !.reg = session[b].id]]
      BY <2>7 DEF BeginRegisterPasskey, SignInTypes
    <3>3. QED BY <3>1, <3>2
  <2>8. QED BY <2>1, <2>3, <2>4, <2>5, <2>6, <2>7 DEF BeginPasskeyLogin
<1>3. UNCHANGED <<row, passkey, op, device, generation, uses, barred, lapped, confirmed,
                  crossed, refused, deleting, overtaken>>
  BY DEF Clear, PromoteWithoutTotp, BeginRegisterPasskey, BeginPasskeySecondFactor, Login,
     BeginPasskeyLogin, Challenge
<1>4. QED BY <1>2, <1>3 DEF SignInTypes

\* Writes to the columns of one account.
LEMMA RowWritten ==
  ASSUME SignInTypes, NEW u \in Accounts, NEW r \in FactorRow, row' = [row EXCEPT ![u] = r]
  PROVE  row' \in [Accounts -> FactorRow] /\ row'[u] = r /\ \A v \in Accounts \ {u} : row'[v] = row[v]
BY DEF SignInTypes

LEMMA CodesWritten ==
  ASSUME SignInTypes, NEW u \in Accounts, NEW codes \in SUBSET Codes,
         row' = [row EXCEPT ![u].codes = codes]
  PROVE  /\ row' \in [Accounts -> FactorRow] /\ \A v \in Accounts \ {u} : row'[v] = row[v]
         /\ row'[u] = [status |-> row[u].status, secret |-> row[u].secret,
                       enabled |-> row[u].enabled, codes |-> codes]
<1>1. row[u] \in FactorRow
  BY DEF SignInTypes
<1>2. row' = [row EXCEPT ![u] = [row[u] EXCEPT !.codes = codes]]
  OBVIOUS
<1>3. [row[u] EXCEPT !.codes = codes] =
        [status |-> row[u].status, secret |-> row[u].secret, enabled |-> row[u].enabled, codes |-> codes]
  BY <1>1 DEF FactorRow
<1>4. [row[u] EXCEPT !.codes = codes] \in FactorRow
  BY <1>1, <1>3 DEF FactorRow
<1>5. QED BY <1>2, <1>3, <1>4 DEF SignInTypes

\* What the statements of a second-factor handler write, the frame apart.
LEMMA SetupEffect ==
  ASSUME SignInTypes, NEW b \in Browsers, Setup2FA(b)
  PROVE  /\ SignInTypes' /\ session[b].id \in Accounts /\ op[b].pc = "idle" /\ generation' = generation + 1
         /\ row'[session[b].id].status = row[session[b].id].status /\ row'[session[b].id].codes = NewBatch
         /\ ~row'[session[b].id].enabled /\ row'[session[b].id].secret = generation + 1
         /\ \A v \in Accounts \ {session[b].id} : row'[v] = row[v]
<1>1. session[b].id \in Accounts
  BY DEF Setup2FA, Admitted, SignInTypes, Cookie, Maybe
<1>2. NewBatch \in SUBSET Codes /\ generation \in Nat /\ generation + 1 \in Nat
  BY DEF NewBatch, SignInTypes
<1> DEFINE r == [status |-> row[session[b].id].status, secret |-> generation + 1, enabled |-> FALSE,
                 codes |-> NewBatch]
<1>3. r \in FactorRow /\ row' = [row EXCEPT ![session[b].id] = r]
  <2>1. row[session[b].id] \in FactorRow
    BY <1>1 DEF SignInTypes
  <2>2. r \in FactorRow
    BY <1>2, <2>1 DEF FactorRow
  <2>3. row' = [row EXCEPT ![session[b].id] = r]
    BY DEF Setup2FA, SetFactors
  <2>4. QED BY <2>2, <2>3
<1>4. /\ generation' = generation + 1 /\ op[b].pc = "idle"
      /\ UNCHANGED <<passkey, session, op, device, uses>>
  BY DEF Setup2FA, Free
<1>5. r.status = row[session[b].id].status /\ r.codes = NewBatch /\ ~r.enabled /\ r.secret = generation + 1
  OBVIOUS
<1> HIDE DEF r
<1>6. /\ row' \in [Accounts -> FactorRow] /\ row'[session[b].id] = r
      /\ \A v \in Accounts \ {session[b].id} : row'[v] = row[v]
  BY <1>1, <1>3, RowWritten
<1>7. SignInTypes'
  BY <1>2, <1>4, <1>6 DEF SignInTypes
<1>8. QED BY <1>1, <1>4, <1>5, <1>6, <1>7

\* The request that a check leaves to be finished.
LEMMA CheckEffect ==
  ASSUME SignInTypes, NEW b \in Browsers, NEW kind \in TotpKinds, NEW u \in Accounts,
         NEW f \in Factors, Check(b, kind, u, f)
  PROVE  /\ SignInTypes' /\ op[b].pc = "idle" /\ \A c \in Browsers \ {b} : op'[c] = op[c]
         /\ op'[b].kind = kind /\ op'[b].id = u /\ op'[b].code = f /\ op'[b].key = NoKey
         /\ \/ op'[b].pc = "write" /\ op'[b].copy = {} /\ f[1] = row[u].secret
            \/ op'[b].pc = "consume" /\ op'[b].copy = row[u].codes /\ f \in row[u].codes /\ kind # "enable"
<1> DEFINE writing == [pc |-> "write", kind |-> kind, id |-> u, copy |-> {}, code |-> f,
                       key |-> NoKey, count |-> 0]
           consuming == [pc |-> "consume", kind |-> kind, id |-> u, copy |-> row[u].codes, code |-> f,
                         key |-> NoKey, count |-> 0]
<1>1. row[u].codes \subseteq Codes
  BY DEF SignInTypes, FactorRow
<1>2. writing \in Request /\ consuming \in Request
  BY <1>1 DEF Request, Maybe
<1>3. UNCHANGED <<row, passkey, session, device, generation, uses>> /\ op[b].pc = "idle"
  BY DEF Check, Free
<1>4. \/ Validate(f, row[u].secret) /\ op' = [op EXCEPT ![b] = writing]
      \/ kind # "enable" /\ f \in row[u].codes /\ op' = [op EXCEPT ![b] = consuming]
  BY DEF Check, NoOp
<1>5. Validate(f, row[u].secret) => f[1] = row[u].secret
  BY DEF Validate, Totp
<1>6. CASE op' = [op EXCEPT ![b] = writing]
  BY <1>2, <1>3, <1>4, <1>5, <1>6 DEF SignInTypes
<1>7. CASE op' = [op EXCEPT ![b] = consuming]
  BY <1>2, <1>3, <1>4, <1>7 DEF SignInTypes
<1>8. QED BY <1>4, <1>6, <1>7

LEMMA ConsumeEffect ==
  ASSUME SignInTypes, NEW b \in Browsers, Consume(b)
  PROVE  /\ SignInTypes' /\ op[b].pc = "consume" /\ op[b].id \in Accounts
         /\ op'[b] = [op[b] EXCEPT !.pc = "write"] /\ \A c \in Browsers \ {b} : op'[c] = op[c]
         /\ row'[op[b].id].codes = op[b].copy \ {op[b].code}
         /\ row'[op[b].id].secret = row[op[b].id].secret /\ row'[op[b].id].enabled = row[op[b].id].enabled
         /\ row'[op[b].id].status = row[op[b].id].status
         /\ \A v \in Accounts \ {op[b].id} : row'[v] = row[v]
         /\ \A c \in Codes \ {op[b].code} : uses'[c] = uses[c]
<1>1. op[b].pc = "consume" /\ op[b].id \in Accounts /\ op[b] \in Request
  BY DEF Consume, SignInTypes
<1>2. op[b].copy \ {op[b].code} \in SUBSET Codes
  BY <1>1 DEF Request
<1>3. row' = [row EXCEPT ![op[b].id].codes = op[b].copy \ {op[b].code}]
  BY DEF Consume, ConsumeBackupCode
<1>4. op' = [op EXCEPT ![b] = [op[b] EXCEPT !.pc = "write"]] /\ [op[b] EXCEPT !.pc = "write"] \in Request
      /\ [op[b] EXCEPT !.pc = "write"].id = op[b].id
  BY <1>1 DEF Consume, Request
<1>5. uses' = [uses EXCEPT ![op[b].code] = @ + 1] /\ UNCHANGED <<passkey, session, device, generation>>
  BY DEF Consume
<1>6. uses' \in [Codes -> Nat] /\ \A c \in Codes \ {op[b].code} : uses'[c] = uses[c]
  <2>1. \A c \in Codes : uses[c] + 1 \in Nat
    BY DEF SignInTypes
  <2>2. QED BY <1>5, <2>1 DEF SignInTypes
<1>7. /\ row' \in [Accounts -> FactorRow] /\ \A v \in Accounts \ {op[b].id} : row'[v] = row[v]
      /\ row'[op[b].id] = [status |-> row[op[b].id].status, secret |-> row[op[b].id].secret,
                           enabled |-> row[op[b].id].enabled, codes |-> op[b].copy \ {op[b].code}]
  BY <1>1, <1>2, <1>3, CodesWritten
<1>8. op' \in [Browsers -> Request] /\ op'[b] = [op[b] EXCEPT !.pc = "write"]
      /\ \A c \in Browsers \ {b} : op'[c] = op[c]
  BY <1>4 DEF SignInTypes
<1>9. SignInTypes'
  BY <1>1, <1>4, <1>5, <1>6, <1>7, <1>8 DEF SignInTypes
<1>10. QED BY <1>1, <1>6, <1>7, <1>8, <1>9

LEMMA FinishEffect ==
  ASSUME SignInTypes, NEW b \in Browsers, Finish2FA(b)
  PROVE  /\ SignInTypes' /\ op[b].pc = "write" /\ op[b].id \in Accounts
         /\ op'[b] = NoOp /\ \A c \in Browsers \ {b} : op'[c] = op[c]
         /\ \A v \in Accounts \ {op[b].id} : row'[v] = row[v]
         /\ row'[op[b].id].status = row[op[b].id].status
         /\ \/ /\ op[b].kind = "enable" /\ row'[op[b].id].secret = row[op[b].id].secret
               /\ row'[op[b].id].codes = row[op[b].id].codes /\ generation' = generation
               /\ confirmed' = confirmed \cup {op[b].code[1]} /\ Lap(b, op[b].id)
            \/ /\ row'[op[b].id].enabled = FALSE /\ row'[op[b].id].codes = {} /\ row'[op[b].id].secret = 0
               /\ generation' = generation /\ confirmed' = confirmed /\ Lap(b, op[b].id)
            \/ /\ row'[op[b].id].codes = NewBatch /\ row'[op[b].id].secret = row[op[b].id].secret
               /\ row'[op[b].id].enabled = row[op[b].id].enabled
               /\ generation' = generation + 1 /\ confirmed' = confirmed /\ Lap(b, op[b].id)
            \/ UNCHANGED <<row, generation, confirmed, lapped>>
<1> DEFINE u == op[b].id
<1>1. op[b].pc = "write" /\ u \in Accounts /\ row[u] \in FactorRow /\ session[b] \in Cookie
  BY DEF Finish2FA, SignInTypes
<1>2. NoOp \in Request /\ NoOp.pc = "idle"
  BY DEF NoOp, Request, Maybe
<1>3. op' = [op EXCEPT ![b] = NoOp] /\ UNCHANGED <<passkey, device, uses>>
  BY DEF Finish2FA, Settle
<1>4. /\ op' \in [Browsers -> Request] /\ \A c \in Browsers : op'[c].pc # "idle" => op'[c].id \in Accounts
      /\ op'[b] = NoOp /\ \A c \in Browsers \ {b} : op'[c] = op[c]
  BY <1>2, <1>3 DEF SignInTypes
<1>5. NewBatch \in SUBSET Codes /\ generation \in Nat /\ generation + 1 \in Nat
  BY DEF NewBatch, SignInTypes
<1>6. CASE op[b].kind = "enable"
  <2>1. row' = [row EXCEPT ![u] = [row[u] EXCEPT !.enabled = TRUE]]
        /\ confirmed' = confirmed \cup {op[b].code[1]} /\ Lap(b, u) /\ UNCHANGED <<session, generation>>
    BY <1>6 DEF Finish2FA
  <2>2. [row[u] EXCEPT !.enabled = TRUE] \in FactorRow
        /\ [row[u] EXCEPT !.enabled = TRUE].status = row[u].status
        /\ [row[u] EXCEPT !.enabled = TRUE].secret = row[u].secret
        /\ [row[u] EXCEPT !.enabled = TRUE].codes = row[u].codes
    BY <1>1 DEF FactorRow
  <2>3. /\ row' \in [Accounts -> FactorRow] /\ row'[u] = [row[u] EXCEPT !.enabled = TRUE]
        /\ \A v \in Accounts \ {u} : row'[v] = row[v]
    BY <1>1, <2>1, <2>2 DEF SignInTypes
  <2>4. SignInTypes'
    BY <1>3, <1>4, <2>1, <2>3 DEF SignInTypes
  <2>5. QED BY <1>1, <1>4, <1>6, <2>1, <2>2, <2>3, <2>4
<1>7. CASE op[b].kind = "disable"
  <2> DEFINE r == [status |-> row[u].status, secret |-> 0, enabled |-> FALSE, codes |-> {}]
  <2>1. Lap(b, u) /\ UNCHANGED <<session, generation, confirmed>>
    BY <1>7 DEF Finish2FA
  <2>2. row' = [row EXCEPT ![u] = r]
    BY <1>7 DEF Finish2FA, SetFactors
  <2>3. r \in FactorRow
    BY <1>1 DEF FactorRow
  <2>4. r.status = row[u].status /\ r.secret = 0 /\ r.enabled = FALSE /\ r.codes = {}
    OBVIOUS
  <2> HIDE DEF r
  <2>5. row' \in [Accounts -> FactorRow] /\ row'[u] = r /\ \A v \in Accounts \ {u} : row'[v] = row[v]
    BY <1>1, <2>2, <2>3, RowWritten
  <2>6. SignInTypes'
    BY <1>3, <1>4, <2>1, <2>5 DEF SignInTypes
  <2>7. QED BY <1>1, <1>4, <2>1, <2>4, <2>5, <2>6
<1>8. CASE op[b].kind = "regenerate"
  <2>1. row' = [row EXCEPT ![u].codes = NewBatch] /\ Lap(b, u) /\ generation' = generation + 1
        /\ UNCHANGED <<session, confirmed>>
    BY <1>8 DEF Finish2FA
  <2>2. /\ row' \in [Accounts -> FactorRow] /\ \A v \in Accounts \ {u} : row'[v] = row[v]
        /\ row'[u] = [status |-> row[u].status, secret |-> row[u].secret,
                      enabled |-> row[u].enabled, codes |-> NewBatch]
    BY <1>1, <1>5, <2>1, CodesWritten
  <2>3. SignInTypes'
    BY <1>3, <1>4, <1>5, <2>1, <2>2 DEF SignInTypes
  <2>4. QED BY <1>1, <1>4, <2>1, <2>2, <2>3
<1>9. CASE op[b].kind = "login"
  <2>1. session' = [session EXCEPT ![b] = SetupLogin([session[b] EXCEPT !.pending = 0], u)]
        /\ UNCHANGED <<row, generation, confirmed, lapped>>
    BY <1>9 DEF Finish2FA, SignInTypes
  <2>2. SetupLogin([session[b] EXCEPT !.pending = 0], u) \in Cookie
    BY <1>1 DEF SetupLogin, Cookie, Maybe, FactorRow
  <2>3. session' \in [Browsers -> Cookie]
    BY <2>1, <2>2 DEF SignInTypes
  <2>4. SignInTypes'
    BY <1>3, <1>4, <2>1, <2>3 DEF SignInTypes
  <2>5. QED BY <1>1, <1>4, <2>1, <2>4
<1>10. QED BY <1>6, <1>7, <1>8, <1>9 DEF Finish2FA

\* A write to the factors of u laps the handlers of u in other browsers.
LEMMA LapEffect ==
  ASSUME NEW b, NEW u, Lap(b, u)
  PROVE  /\ lapped \subseteq lapped'
         /\ \A c \in Browsers \ {b} : op[c].id = u /\ op[c].kind \in TotpKinds => u \in lapped'
BY DEF Lap

-----------------------------------------------------------------------------
(* What the passkey handlers, the deletion and a restart write. *)

\* They leave the factors alone, and what a second-factor handler holds unless
\* the process ends.
FactorFrame ==
  /\ UNCHANGED <<generation, uses, confirmed, lapped>>
  /\ \A u \in Accounts : /\ row'[u].secret = row[u].secret /\ row'[u].enabled = row[u].enabled
                          /\ row'[u].codes = row[u].codes
  /\ \A b \in Browsers : op'[b].pc \in {"consume", "write"} => op'[b] = op[b]

LEMMA OpWritten ==
  ASSUME SignInTypes, NEW b \in Browsers, NEW r \in Request, op' = [op EXCEPT ![b] = r],
         r.pc # "idle" => r.id \in Accounts
  PROVE  /\ op' \in [Browsers -> Request] /\ \A c \in Browsers : op'[c].pc # "idle" => op'[c].id \in Accounts
         /\ op'[b] = r /\ \A c \in Browsers \ {b} : op'[c] = op[c]
BY DEF SignInTypes

LEMMA Settled ==
  ASSUME SignInTypes, NEW b \in Browsers, Settle(b)
  PROVE  /\ op' \in [Browsers -> Request] /\ \A c \in Browsers : op'[c].pc # "idle" => op'[c].id \in Accounts
         /\ op'[b] = NoOp /\ \A c \in Browsers \ {b} : op'[c] = op[c]
<1>1. NoOp \in Request /\ NoOp.pc = "idle"
  BY DEF NoOp, Request, Maybe
<1>2. QED BY <1>1, OpWritten DEF Settle

LEMMA KeyWritten ==
  ASSUME SignInTypes, NEW k \in Keys, NEW u \in Maybe, NEW n \in Nat,
         passkey' = [passkey EXCEPT ![k] = [owner |-> u, count |-> n]]
  PROVE  /\ passkey' \in [Keys -> KeyRow] /\ passkey'[k].owner = u /\ passkey'[k].count = n
         /\ \A j \in Keys \ {k} : passkey'[j] = passkey[j]
<1>1. [owner |-> u, count |-> n] \in KeyRow
  BY DEF KeyRow
<1>2. QED BY <1>1 DEF SignInTypes

LEMMA RegisterEffect ==
  ASSUME SignInTypes, NEW b \in Browsers, NEW k \in Keys, FinishRegisterPasskey(b, k)
  PROVE  /\ SignInTypes' /\ FactorFrame /\ op[b].pc = "idle" /\ \A c \in Browsers \ {b} : op'[c] = op[c]
         /\ op'[b].pc = "insert" /\ op'[b].id = session[b].id /\ op'[b].key = k /\ op'[b].count = device[k]
<1> DEFINE r == [pc |-> "insert", kind |-> "register", id |-> session[b].id, copy |-> {}, code |-> Totp(0),
                 key |-> k, count |-> device[k]]
<1>1. session[b].id \in Accounts
  BY DEF FinishRegisterPasskey, Admitted, SignInTypes, Cookie, Maybe
<1>2. r \in Request /\ r.pc = "insert" /\ r.id = session[b].id
  BY <1>1 DEF Request, Maybe, SignInTypes
<1>3. op' = [op EXCEPT ![b] = r] /\ op[b].pc = "idle"
      /\ UNCHANGED <<row, passkey, session, device, generation, uses, confirmed, lapped>>
  BY DEF FinishRegisterPasskey, Free
<1>4. op' \in [Browsers -> Request] /\ \A c \in Browsers : op'[c].pc # "idle" => op'[c].id \in Accounts
  BY <1>1, <1>2, <1>3, OpWritten
<1>5. op'[b] = r /\ \A c \in Browsers \ {b} : op'[c] = op[c]
  BY <1>1, <1>2, <1>3, OpWritten
<1>6. SignInTypes'
  BY <1>3, <1>4 DEF SignInTypes
<1>7. QED BY <1>2, <1>3, <1>5, <1>6 DEF FactorFrame

LEMMA CreateEffect ==
  ASSUME SignInTypes, NEW b \in Browsers, CreatePasskey(b), op[b].key \in Keys
  PROVE  /\ SignInTypes' /\ FactorFrame /\ op[b].pc = "insert" /\ op'[b] = NoOp
         /\ \A c \in Browsers \ {b} : op'[c] = op[c]
         /\ \A j \in Keys \ {op[b].key} : passkey'[j] = passkey[j]
         /\ \/ UNCHANGED passkey
            \/ passkey'[op[b].key].owner = op[b].id /\ passkey'[op[b].key].count = op[b].count
<1>1. /\ op[b].pc = "insert" /\ Settle(b) /\ op[b].id \in Maybe /\ op[b].count \in Nat
      /\ UNCHANGED <<row, device, generation, uses, confirmed, lapped>>
  BY DEF CreatePasskey, SignInTypes, Request
<1>2. /\ op' \in [Browsers -> Request] /\ \A c \in Browsers : op'[c].pc # "idle" => op'[c].id \in Accounts
      /\ op'[b] = NoOp /\ \A c \in Browsers \ {b} : op'[c] = op[c]
  BY <1>1, Settled
<1>3. NoOp.pc = "idle"
  BY DEF NoOp
<1>4. session' \in [Browsers -> Cookie]
  <2>1. [session[b] EXCEPT !.reg = 0] \in Cookie
    BY DEF SignInTypes, Cookie, Maybe
  <2>2. session' = session \/ session' = [session EXCEPT ![b] = [session[b] EXCEPT !.reg = 0]]
    BY DEF CreatePasskey
  <2>3. QED BY <2>1, <2>2 DEF SignInTypes
<1>5. /\ passkey' \in [Keys -> KeyRow] /\ \A j \in Keys \ {op[b].key} : passkey'[j] = passkey[j]
      /\ \/ UNCHANGED passkey
         \/ passkey'[op[b].key].owner = op[b].id /\ passkey'[op[b].key].count = op[b].count
  <2>1. CASE UNCHANGED passkey
    BY <2>1 DEF SignInTypes
  <2>2. CASE passkey' = [passkey EXCEPT ![op[b].key] = [owner |-> op[b].id, count |-> op[b].count]]
    BY <1>1, <2>2, KeyWritten
  <2>3. QED BY <2>1, <2>2 DEF CreatePasskey
<1>6. SignInTypes'
  BY <1>1, <1>2, <1>4, <1>5 DEF SignInTypes
<1>7. QED BY <1>1, <1>2, <1>3, <1>5, <1>6 DEF FactorFrame

LEMMA SignEffect ==
  ASSUME SignInTypes, NEW b \in Browsers, NEW k \in Keys, NEW kind \in {"passkey", "second"},
         Sign(b, k, kind)
  PROVE  /\ SignInTypes' /\ FactorFrame /\ op[b].pc = "idle" /\ \A c \in Browsers \ {b} : op'[c] = op[c]
         /\ op'[b].pc = "read" /\ op'[b].key = k /\ op'[b].count = device[k] + 1
         /\ device'[k] = device[k] + 1 /\ \A j \in Keys \ {k} : device'[j] = device[j]
<1> DEFINE u == IF kind = "second" THEN session[b].pending ELSE session[b].for
           r == [pc |-> "read", kind |-> kind, id |-> u, copy |-> {}, code |-> Totp(0), key |-> k,
                 count |-> device[k] + 1]
<1>1. u \in Accounts
  BY DEF Sign, SignInTypes, Cookie, Maybe
<1>2. device[k] + 1 \in Nat
  BY DEF SignInTypes
<1>3. r \in Request /\ r.pc = "read" /\ r.id = u
  BY <1>1, <1>2 DEF Request, Maybe
<1>4. op' = [op EXCEPT ![b] = r] /\ op[b].pc = "idle" /\ device' = [device EXCEPT ![k] = device[k] + 1]
      /\ UNCHANGED <<row, passkey, session, generation, uses, confirmed, lapped>>
  BY DEF Sign, Free
<1>5. op' \in [Browsers -> Request] /\ \A c \in Browsers : op'[c].pc # "idle" => op'[c].id \in Accounts
  BY <1>1, <1>3, <1>4, OpWritten
<1>6. op'[b] = r /\ \A c \in Browsers \ {b} : op'[c] = op[c]
  BY <1>1, <1>3, <1>4, OpWritten
<1>7. device' \in [Keys -> Nat] /\ device'[k] = device[k] + 1 /\ \A j \in Keys \ {k} : device'[j] = device[j]
  BY <1>2, <1>4 DEF SignInTypes
<1>8. SignInTypes'
  BY <1>4, <1>5, <1>7 DEF SignInTypes
<1>9. QED BY <1>3, <1>4, <1>6, <1>7, <1>8 DEF FactorFrame

LEMMA LoginEffect ==
  ASSUME SignInTypes, NEW b \in Browsers, FinishLogin(b)
  PROVE  /\ SignInTypes' /\ FactorFrame /\ op[b].pc = "read" /\ \A c \in Browsers \ {b} : op'[c] = op[c]
         /\ \/ op'[b] = NoOp /\ refused' = refused
            \/ op'[b] = NoOp /\ refused' = refused \cup {op[b].key}
               /\ op[b].count <= passkey[op[b].key].count
            \/ op'[b] = [op[b] EXCEPT !.pc = "update"] /\ refused' = refused
<1>1. op[b].pc = "read" /\ op[b] \in Request /\ op[b].id \in Accounts
      /\ UNCHANGED <<row, passkey, session, device, generation, uses, confirmed, lapped>>
  BY DEF FinishLogin, SignInTypes
<1>2. NoOp.pc = "idle"
  BY DEF NoOp
<1>3. CASE Settle(b)
  <2>1. /\ op' \in [Browsers -> Request] /\ \A c \in Browsers : op'[c].pc # "idle" => op'[c].id \in Accounts
        /\ op'[b] = NoOp /\ \A c \in Browsers \ {b} : op'[c] = op[c]
    BY <1>3, Settled
  <2>2. SignInTypes'
    BY <1>1, <2>1 DEF SignInTypes
  <2>3. \/ refused' = refused
        \/ refused' = refused \cup {op[b].key} /\ op[b].count <= passkey[op[b].key].count
    BY DEF FinishLogin, CloneWarning
  <2>4. QED BY <1>1, <1>2, <2>1, <2>2, <2>3 DEF FactorFrame
<1>4. CASE op' = [op EXCEPT ![b].pc = "update"] /\ UNCHANGED refused
  <2>1. op' = [op EXCEPT ![b] = [op[b] EXCEPT !.pc = "update"]] /\ [op[b] EXCEPT !.pc = "update"] \in Request
        /\ [op[b] EXCEPT !.pc = "update"].id \in Accounts /\ [op[b] EXCEPT !.pc = "update"].pc = "update"
    BY <1>1, <1>4 DEF Request
  <2>2. /\ op' \in [Browsers -> Request] /\ \A c \in Browsers : op'[c].pc # "idle" => op'[c].id \in Accounts
        /\ op'[b] = [op[b] EXCEPT !.pc = "update"] /\ \A c \in Browsers \ {b} : op'[c] = op[c]
    BY <2>1 DEF SignInTypes
  <2>3. SignInTypes'
    BY <1>1, <2>2 DEF SignInTypes
  <2>4. QED BY <1>1, <1>4, <2>1, <2>2, <2>3 DEF FactorFrame
<1>5. QED BY <1>3, <1>4 DEF FinishLogin

LEMMA CounterEffect ==
  ASSUME SignInTypes, NEW b \in Browsers, FinishPasskey(b), op[b].key \in Keys
  PROVE  /\ SignInTypes' /\ FactorFrame /\ op[b].pc = "update" /\ op'[b] = NoOp
         /\ \A c \in Browsers \ {b} : op'[c] = op[c]
         /\ \A j \in Keys : passkey'[j].owner = passkey[j].owner
         /\ \A j \in Keys \ {op[b].key} : passkey'[j] = passkey[j]
         /\ passkey'[op[b].key].count \in {passkey[op[b].key].count, op[b].count}
<1> DEFINE k == op[b].key
           left == IF op[b].kind = "second" THEN 0 ELSE session[b].pending
           unasked == [session[b] EXCEPT !.for = 0]
           unlisted == [unasked EXCEPT !.allowed = {}]
           after == [unlisted EXCEPT !.pending = left]
<1>1. /\ op[b].pc = "update" /\ Settle(b) /\ op[b].id \in Accounts /\ op[b].count \in Nat
      /\ UNCHANGED <<row, device, generation, uses, confirmed, lapped>>
  BY DEF FinishPasskey, SignInTypes, Request
<1>2. /\ op' \in [Browsers -> Request] /\ \A c \in Browsers : op'[c].pc # "idle" => op'[c].id \in Accounts
      /\ op'[b] = NoOp /\ \A c \in Browsers \ {b} : op'[c] = op[c]
  BY <1>1, Settled
<1>3. NoOp.pc = "idle"
  BY DEF NoOp
<1>4. session' \in [Browsers -> Cookie]
  <2>1. session[b] \in Cookie /\ row[op[b].id].status \in {"enabled", "deleted"}
    BY <1>1 DEF SignInTypes, FactorRow
  <2>2. after \in Cookie
    <3>1. ASSUME NEW s \in Cookie, NEW u \in Maybe
          PROVE  /\ [s EXCEPT !.for = 0] \in Cookie /\ [s EXCEPT !.allowed = {}] \in Cookie
                 /\ [s EXCEPT !.pending = u] \in Cookie
      BY DEF Cookie, Maybe
    <3>2. 0 \in Maybe /\ session[b].pending \in Maybe
      BY <2>1 DEF Cookie, Maybe
    <3>3. left \in Maybe
      BY <3>2
    <3>4. unasked \in Cookie
      BY <2>1, <3>1, <3>2
    <3> HIDE DEF left, unasked
    <3>5. unlisted \in Cookie
      BY <3>1, <3>2, <3>4
    <3> HIDE DEF unlisted
    <3>6. QED BY <3>1, <3>3, <3>5
  <2>3. \A s \in Cookie : SetupLogin(s, op[b].id) \in Cookie
    BY <1>1, <2>1 DEF SetupLogin, Cookie, Maybe
  <2>4. session' = [session EXCEPT ![b] = SetupLogin(after, op[b].id)]
    BY DEF FinishPasskey
  <2> HIDE DEF after
  <2>5. QED BY <2>2, <2>3, <2>4 DEF SignInTypes
<1>5. /\ passkey' \in [Keys -> KeyRow] /\ \A j \in Keys \ {k} : passkey'[j] = passkey[j]
      /\ \A j \in Keys : passkey'[j].owner = passkey[j].owner
      /\ passkey'[k].count \in {passkey[k].count, op[b].count}
  <2>1. CASE passkey' = passkey
    BY <2>1 DEF SignInTypes
  <2>2. CASE passkey' = [passkey EXCEPT ![k].count = op[b].count]
    BY <1>1, <2>2 DEF SignInTypes, KeyRow
  <2>3. QED BY <2>1, <2>2 DEF FinishPasskey
<1>6. SignInTypes'
  BY <1>1, <1>2, <1>4, <1>5 DEF SignInTypes
<1>7. QED BY <1>1, <1>2, <1>3, <1>5, <1>6 DEF FactorFrame

\* Removing passkeys, by a handler or with the account.
LEMMA RemovalEffect ==
  ASSUME SignInTypes,
         \/ \E ks \in SUBSET Keys : RemovePasskeys(ks)
         \/ \E u \in Accounts : BeginDelete(u)
  PROVE  /\ SignInTypes' /\ FactorFrame /\ op' = op
         /\ \A k \in Keys : passkey'[k] = passkey[k] \/ (passkey'[k].owner = 0 /\ passkey'[k].count = 0)
<1>1. UNCHANGED <<row, session, op, device, generation, uses, confirmed, lapped>>
  BY DEF RemovePasskeys, BeginDelete
<1>2. [owner |-> 0, count |-> 0] \in KeyRow
  BY DEF KeyRow, Maybe
<1>3. passkey' \in [Keys -> KeyRow]
      /\ \A k \in Keys : passkey'[k] \in {passkey[k], [owner |-> 0, count |-> 0]}
  BY <1>2 DEF RemovePasskeys, BeginDelete, hardDeletePasskeysOnUserDelete, SignInTypes
<1>4. SignInTypes'
  BY <1>1, <1>3 DEF SignInTypes
<1>5. QED BY <1>1, <1>3, <1>4 DEF FactorFrame

LEMMA FinishDeleteEffect ==
  ASSUME SignInTypes, NEW u \in Accounts, FinishDelete(u)
  PROVE  /\ SignInTypes' /\ FactorFrame /\ op' = op /\ row'[u].status = "deleted"
         /\ \A v \in Accounts \ {u} : row'[v] = row[v]
<1>1. row[u] \in FactorRow
  BY DEF SignInTypes
<1>2. row' = [row EXCEPT ![u] = [row[u] EXCEPT !.status = "deleted"]]
      /\ UNCHANGED <<passkey, session, op, device, generation, uses, confirmed, lapped>>
  BY DEF FinishDelete
<1>3. /\ [row[u] EXCEPT !.status = "deleted"] \in FactorRow
      /\ [row[u] EXCEPT !.status = "deleted"].status = "deleted"
      /\ [row[u] EXCEPT !.status = "deleted"].secret = row[u].secret
      /\ [row[u] EXCEPT !.status = "deleted"].enabled = row[u].enabled
      /\ [row[u] EXCEPT !.status = "deleted"].codes = row[u].codes
  BY <1>1 DEF FactorRow
<1>4. row' \in [Accounts -> FactorRow] /\ row'[u] = [row[u] EXCEPT !.status = "deleted"]
      /\ \A v \in Accounts \ {u} : row'[v] = row[v]
  BY <1>2, <1>3 DEF SignInTypes
<1>5. SignInTypes'
  BY <1>2, <1>4 DEF SignInTypes
<1>6. QED BY <1>2, <1>3, <1>4, <1>5 DEF FactorFrame

LEMMA RestartEffect ==
  ASSUME SignInTypes, RestartServer
  PROVE  /\ SignInTypes' /\ FactorFrame /\ \A b \in Browsers : op'[b] = NoOp
<1>1. NoOp \in Request /\ NoOp.pc = "idle"
  BY DEF NoOp, Request, Maybe
<1>2. op' = [b \in Browsers |-> NoOp]
      /\ UNCHANGED <<row, passkey, session, device, generation, uses, confirmed, lapped>>
  BY DEF RestartServer
<1>3. op' \in [Browsers -> Request] /\ \A b \in Browsers : op'[b] = NoOp
  BY <1>1, <1>2
<1>4. SignInTypes'
  BY <1>1, <1>2, <1>3 DEF SignInTypes
<1>5. QED BY <1>1, <1>2, <1>3, <1>4 DEF FactorFrame

\* The kinds of steps the invariants below tell apart.
SessionStep(b) ==
  \/ Clear(b) \/ PromoteWithoutTotp(b) \/ BeginRegisterPasskey(b) \/ BeginPasskeySecondFactor(b)
  \/ \E u \in Accounts : Login(b, u) \/ BeginPasskeyLogin(b, u)
CheckStep(b) == \E kind \in TotpKinds, u \in Accounts, f \in Factors : Check(b, kind, u, f)
RegisterStep(b) == \E k \in Keys : FinishRegisterPasskey(b, k)
SignStep(b) == \E k \in Keys, kind \in {"passkey", "second"} : Sign(b, k, kind)
RemovalStep == (\E ks \in SUBSET Keys : RemovePasskeys(ks)) \/ \E u \in Accounts : BeginDelete(u)

LEMMA StepKinds ==
  ASSUME SignInTypes, SignInNext
  PROVE  \/ \E b \in Browsers : \/ SessionStep(b) \/ Setup2FA(b) \/ CheckStep(b) \/ Consume(b) \/ Finish2FA(b)
                                \/ RegisterStep(b) \/ CreatePasskey(b) \/ SignStep(b) \/ FinishLogin(b)
                                \/ FinishPasskey(b)
         \/ RemovalStep \/ (\E u \in Accounts : FinishDelete(u)) \/ RestartServer
         \/ \E v \in {"off", "incomplete", "valid"} : SetPasskeySetting(v)
<1>1. ASSUME NEW b \in Browsers, NEW f \in Factors,
             Enable2FA(b, f) \/ Disable2FA(b, f) \/ RegenerateBackupCodes(b, f) \/ Verify2FALogin(b, f)
      PROVE  CheckStep(b)
  <2>1. session[b] \in Cookie
    BY DEF SignInTypes
  <2>2. CASE Enable2FA(b, f)
    BY <2>1, <2>2 DEF Enable2FA, Admitted, CheckStep, Cookie, Maybe, TotpKinds
  <2>3. CASE Disable2FA(b, f)
    BY <2>1, <2>3 DEF Disable2FA, Admitted, CheckStep, Cookie, Maybe, TotpKinds
  <2>4. CASE RegenerateBackupCodes(b, f)
    BY <2>1, <2>4 DEF RegenerateBackupCodes, Admitted, CheckStep, Cookie, Maybe, TotpKinds
  <2>5. CASE Verify2FALogin(b, f)
    BY <2>1, <2>5 DEF Verify2FALogin, CheckStep, Cookie, Maybe, TotpKinds
  <2>6. QED BY <1>1, <2>2, <2>3, <2>4, <2>5
<1>2. ASSUME NEW k \in Keys, AdminDeletePasskey(k) \/ \E b \in Browsers : DeleteMyPasskey(b, k)
      PROVE  RemovalStep
  BY <1>2 DEF AdminDeletePasskey, DeleteMyPasskey, RemovalStep
<1>3. ASSUME NEW u \in Accounts, AdminClearUserPasskeys(u) \/ BeginDelete(u)
      PROVE  RemovalStep
  BY <1>3 DEF AdminClearUserPasskeys, ListPasskeysByUserId, RemovalStep
<1>4. QED BY <1>1, <1>2, <1>3 DEF SignInNext, SessionStep, RegisterStep, SignStep

-----------------------------------------------------------------------------
(* Passkeys and their counters. *)

\* A ceremony holds a counter its authenticator has reached, above the stored
\* one unless another ceremony with the key was under way.
KeyInv ==
  /\ \A b \in Browsers : op[b].pc \in {"insert", "read", "update"} => op[b].key \in Keys
  /\ \A k \in Keys : passkey[k].count <= device[k]
  /\ \A b \in Browsers : op[b].key \in Keys => op[b].count <= device[op[b].key]
  /\ \A b \in Browsers : op[b].pc \in {"read", "update"} =>
       op[b].key \in crossed \/ passkey[op[b].key].count < op[b].count
  /\ \A b, c \in Browsers : b # c /\ op[b].key \in Keys /\ op[b].key = op[c].key => op[b].key \in crossed
  /\ HonestKeyRefusedOnlyIfCrossed

LEMMA KeyInit == SignInInit => KeyInv
<1> SUFFICES ASSUME SignInInit PROVE KeyInv
  OBVIOUS
<1>1. \A b \in Browsers : op[b].pc = "idle" /\ op[b].key \notin Keys
  BY SignInAssumption DEF SignInInit, NoOp
<1>2. \A k \in Keys : passkey[k].count = 0 /\ device[k] = 0
  BY DEF SignInInit
<1>3. refused \subseteq crossed
  BY DEF SignInInit
<1>4. QED BY <1>1, <1>2, <1>3 DEF KeyInv, HonestKeyRefusedOnlyIfCrossed

\* Steps that neither start a ceremony nor write a counter.
NoCeremony(b) ==
  \/ op'[b] = op[b]
  \/ op'[b].key \notin Keys /\ op'[b].pc \notin {"insert", "read", "update"}
  \/ /\ op'[b].key = op[b].key /\ op'[b].count = op[b].count /\ op'[b].pc # "insert"
     /\ op'[b].pc \in {"read", "update"} => op[b].pc \in {"read", "update"}

LEMMA KeyQuiet ==
  ASSUME KeyInv, passkey' = passkey, device' = device, crossed' = crossed, refused' \subseteq crossed,
         \A b \in Browsers : NoCeremony(b)
  PROVE  KeyInv'
<1>1. \A b \in Browsers : op'[b].pc \in {"insert", "read", "update"} => op'[b].key \in Keys
  BY DEF KeyInv, NoCeremony
<1>2. \A b \in Browsers : op'[b].key \in Keys => op'[b].count <= device'[op'[b].key]
  BY DEF KeyInv, NoCeremony
<1>3. \A b \in Browsers : op'[b].pc \in {"read", "update"} =>
        op'[b].key \in crossed \/ passkey[op'[b].key].count < op'[b].count
  BY DEF KeyInv, NoCeremony
<1>4. \A b, c \in Browsers : b # c /\ op'[b].key \in Keys /\ op'[b].key = op'[c].key => op'[b].key \in crossed
  BY DEF KeyInv, NoCeremony
<1>5. QED BY <1>1, <1>2, <1>3, <1>4 DEF KeyInv, HonestKeyRefusedOnlyIfCrossed

LEMMA KeyStep ==
  ASSUME SignInTypes, KeyInv, SignInNext
  PROVE  KeyInv'
<1>1. NoOp.key \notin Keys /\ NoOp.pc = "idle"
  BY SignInAssumption DEF NoOp
<1>2. refused \subseteq crossed
  BY DEF KeyInv, HonestKeyRefusedOnlyIfCrossed
<1>3. ASSUME NEW b \in Browsers, SessionStep(b) PROVE KeyInv'
  <2>1. UNCHANGED <<passkey, op, device, crossed, refused>>
    BY <1>3, TypesSession DEF SessionStep
  <2>2. QED BY <1>2, <2>1, KeyQuiet DEF NoCeremony
<1>4. ASSUME NEW b \in Browsers, Setup2FA(b) PROVE KeyInv'
  <2>1. UNCHANGED <<passkey, op, device, crossed, refused>>
    BY <1>4 DEF Setup2FA
  <2>2. QED BY <1>2, <2>1, KeyQuiet DEF NoCeremony
<1>5. ASSUME NEW b \in Browsers, CheckStep(b) PROVE KeyInv'
  <2>1. PICK kind \in TotpKinds, u \in Accounts, f \in Factors : Check(b, kind, u, f)
    BY <1>5 DEF CheckStep
  <2>2. UNCHANGED <<passkey, device, crossed, refused>>
    BY <2>1 DEF Check
  <2>3. op'[b].key \notin Keys /\ op'[b].pc \in {"write", "consume"} /\ \A c \in Browsers \ {b} : op'[c] = op[c]
    BY <2>1, CheckEffect, SignInAssumption
  <2>4. QED BY <1>2, <2>2, <2>3, KeyQuiet DEF NoCeremony
<1>6. ASSUME NEW b \in Browsers, Consume(b) PROVE KeyInv'
  <2>1. UNCHANGED <<passkey, device, crossed, refused>>
    BY <1>6 DEF Consume
  <2>2. op'[b] = [op[b] EXCEPT !.pc = "write"] /\ \A c \in Browsers \ {b} : op'[c] = op[c]
    BY <1>6, ConsumeEffect
  <2>3. op'[b].key = op[b].key /\ op'[b].count = op[b].count /\ op'[b].pc = "write"
    <3>1. op[b] \in Request
      BY DEF SignInTypes
    <3>2. QED BY <2>2, <3>1 DEF Request
  <2>4. QED BY <1>2, <2>1, <2>2, <2>3, KeyQuiet DEF NoCeremony
<1>7. ASSUME NEW b \in Browsers, Finish2FA(b) PROVE KeyInv'
  <2>1. UNCHANGED <<passkey, device, crossed, refused>>
    BY <1>7 DEF Finish2FA
  <2>2. op'[b] = NoOp /\ \A c \in Browsers \ {b} : op'[c] = op[c]
    BY <1>7, FinishEffect
  <2>3. QED BY <1>1, <1>2, <2>1, <2>2, KeyQuiet DEF NoCeremony
<1>8. ASSUME NEW b \in Browsers, NEW k \in Keys, FinishRegisterPasskey(b, k) PROVE KeyInv'
  <2>1. UNCHANGED <<passkey, device, refused>> /\ Cross(k)
    BY <1>8 DEF FinishRegisterPasskey
  <2>2. /\ op'[b].pc = "insert" /\ op'[b].key = k /\ op'[b].count = device[k] /\ op[b].pc = "idle"
        /\ \A c \in Browsers \ {b} : op'[c] = op[c]
    BY <1>8, RegisterEffect
  <2>3. crossed \subseteq crossed' /\ \A c \in Browsers : op[c].key = k => k \in crossed'
    BY <2>1 DEF Cross
  <2>4. device[k] \in Nat
    BY DEF SignInTypes
  <2>5. QED BY <1>2, <2>1, <2>2, <2>3, <2>4 DEF KeyInv, HonestKeyRefusedOnlyIfCrossed
<1>9. ASSUME NEW b \in Browsers, NEW k \in Keys, NEW kind \in {"passkey", "second"}, Sign(b, k, kind)
      PROVE  KeyInv'
  <2>1. UNCHANGED <<passkey, refused>> /\ Cross(k)
    BY <1>9 DEF Sign
  <2>2. /\ op'[b].pc = "read" /\ op'[b].key = k /\ op'[b].count = device[k] + 1 /\ op[b].pc = "idle"
        /\ \A c \in Browsers \ {b} : op'[c] = op[c]
        /\ device'[k] = device[k] + 1 /\ \A j \in Keys \ {k} : device'[j] = device[j]
    BY <1>9, SignEffect
  <2>3. crossed \subseteq crossed' /\ \A c \in Browsers : op[c].key = k => k \in crossed'
    BY <2>1 DEF Cross
  <2>4. /\ \A j \in Keys : device[j] \in Nat /\ passkey[j].count \in Nat
        /\ \A c \in Browsers : op[c].count \in Nat
    BY DEF SignInTypes, KeyRow, Request
  <2>5. \A j \in Keys : passkey'[j].count <= device'[j]
    BY <2>1, <2>2, <2>4 DEF KeyInv
  <2>6. \A c \in Browsers : op'[c].key \in Keys => op'[c].count <= device'[op'[c].key]
    BY <2>2, <2>4 DEF KeyInv
  <2>7. \A c \in Browsers : op'[c].pc \in {"read", "update"} =>
          op'[c].key \in crossed' \/ passkey'[op'[c].key].count < op'[c].count
    <3>1. passkey[k].count < device[k] + 1
      BY <2>4 DEF KeyInv
    <3>2. QED BY <2>1, <2>2, <2>3, <3>1 DEF KeyInv
  <2>8. QED BY <1>2, <2>1, <2>2, <2>3, <2>5, <2>6, <2>7 DEF KeyInv, HonestKeyRefusedOnlyIfCrossed
<1>10. ASSUME NEW b \in Browsers, CreatePasskey(b) PROVE KeyInv'
  <2>1. op[b].pc = "insert" /\ op[b].key \in Keys /\ UNCHANGED <<device, crossed, refused>>
    BY <1>10 DEF CreatePasskey, KeyInv
  <2>2. /\ op'[b] = NoOp /\ \A c \in Browsers \ {b} : op'[c] = op[c]
        /\ \A j \in Keys \ {op[b].key} : passkey'[j] = passkey[j]
        /\ passkey'[op[b].key].count \in {passkey[op[b].key].count, op[b].count}
    BY <1>10, <2>1, CreateEffect
  <2>3. QED BY <1>1, <1>2, <2>1, <2>2 DEF KeyInv, HonestKeyRefusedOnlyIfCrossed
<1>11. ASSUME NEW b \in Browsers, FinishLogin(b) PROVE KeyInv'
  <2>1. UNCHANGED <<passkey, device, crossed>>
    BY <1>11 DEF FinishLogin
  <2>2. /\ op[b].pc = "read" /\ \A c \in Browsers \ {b} : op'[c] = op[c]
        /\ op'[b] = NoOp \/ op'[b] = [op[b] EXCEPT !.pc = "update"]
        /\ refused' = refused \/ (refused' = refused \cup {op[b].key} /\ op[b].count <= passkey[op[b].key].count)
    BY <1>11, LoginEffect
  <2>3. op[b].key \in Keys /\ passkey[op[b].key].count \in Nat /\ op[b].count \in Nat
    BY <2>2 DEF KeyInv, SignInTypes, KeyRow, Request
  <2>4. refused' \subseteq crossed
    BY <1>2, <2>2, <2>3 DEF KeyInv
  <2>5. \/ op'[b] = NoOp
        \/ op'[b].key = op[b].key /\ op'[b].count = op[b].count /\ op'[b].pc = "update"
    BY <2>2 DEF SignInTypes, Request
  <2>6. QED BY <1>1, <2>1, <2>2, <2>4, <2>5, KeyQuiet DEF NoCeremony
<1>12. ASSUME NEW b \in Browsers, FinishPasskey(b) PROVE KeyInv'
  <2>1. op[b].pc = "update" /\ op[b].key \in Keys /\ UNCHANGED <<device, crossed, refused>>
    BY <1>12 DEF FinishPasskey, KeyInv
  <2>2. /\ op'[b] = NoOp /\ \A c \in Browsers \ {b} : op'[c] = op[c]
        /\ \A j \in Keys \ {op[b].key} : passkey'[j] = passkey[j]
        /\ passkey'[op[b].key].count \in {passkey[op[b].key].count, op[b].count}
    BY <1>12, <2>1, CounterEffect
  <2>3. QED BY <1>1, <1>2, <2>1, <2>2 DEF KeyInv, HonestKeyRefusedOnlyIfCrossed
<1>13. ASSUME RemovalStep PROVE KeyInv'
  <2>1. UNCHANGED <<device, crossed, refused>>
    BY <1>13 DEF RemovalStep, RemovePasskeys, BeginDelete
  <2>2. op' = op /\ \A k \in Keys : passkey'[k] = passkey[k] \/ passkey'[k].count = 0
    BY <1>13, RemovalEffect DEF RemovalStep
  <2>3. /\ \A j \in Keys : device[j] \in Nat /\ passkey[j].count \in Nat
        /\ \A c \in Browsers : op[c].count \in Nat
    BY DEF SignInTypes, KeyRow, Request
  <2>4. \A j \in Keys : passkey'[j].count <= passkey[j].count /\ passkey'[j].count \in Nat
    BY <2>2, <2>3
  <2>5. \A j \in Keys : passkey'[j].count <= device[j]
    BY <2>3, <2>4 DEF KeyInv
  <2>6. \A c \in Browsers : op[c].pc \in {"read", "update"} =>
          op[c].key \in crossed \/ passkey'[op[c].key].count < op[c].count
    BY <2>3, <2>4 DEF KeyInv
  <2>7. QED BY <1>2, <2>1, <2>2, <2>5, <2>6 DEF KeyInv, HonestKeyRefusedOnlyIfCrossed
<1>14. ASSUME NEW u \in Accounts, FinishDelete(u) PROVE KeyInv'
  <2>1. UNCHANGED <<passkey, op, device, crossed, refused>>
    BY <1>14 DEF FinishDelete
  <2>2. QED BY <1>2, <2>1, KeyQuiet DEF NoCeremony
<1>15. ASSUME RestartServer PROVE KeyInv'
  <2>1. UNCHANGED <<passkey, device, crossed, refused>>
    BY <1>15 DEF RestartServer
  <2>2. \A b \in Browsers : op'[b] = NoOp
    BY <1>15, RestartEffect
  <2>3. QED BY <1>1, <1>2, <2>1, <2>2, KeyQuiet DEF NoCeremony
<1>16. ASSUME NEW v, SetPasskeySetting(v) PROVE KeyInv'
  <2>1. UNCHANGED <<passkey, op, device, crossed, refused>>
    BY <1>16 DEF SetPasskeySetting
  <2>2. QED BY <1>2, <2>1, KeyQuiet DEF NoCeremony
<1>17. QED BY <1>3, <1>4, <1>5, <1>6, <1>7, <1>8, <1>9, <1>10, <1>11, <1>12, <1>13, <1>14, <1>15, <1>16,
              StepKinds DEF RegisterStep, SignStep

-----------------------------------------------------------------------------
(* The passkeys of deleted accounts. *)

Leaving(u) == row[u].status = "deleted" \/ u \in deleting

\* An account that is going has no passkey, and no registration for it is under way.
DeleteInv ==
  /\ \A u \in Accounts : row[u].status = "deleted" => u \in barred \cup overtaken
  /\ \A u \in Accounts : Leaving(u) /\ HasPasskey(u) => u \in overtaken
  /\ \A b \in Browsers : op[b].pc = "insert" /\ Leaving(op[b].id) => op[b].id \in overtaken

LEMMA DeleteInit == SignInInit => DeleteInv
<1> SUFFICES ASSUME SignInInit PROVE DeleteInv
  OBVIOUS
<1>1. \A b \in Browsers : op[b].pc = "idle"
  BY DEF SignInInit, NoOp
<1>2. \A u \in Accounts : row[u].status = "enabled" /\ u \notin deleting
  BY DEF SignInInit
<1>3. QED BY <1>1, <1>2 DEF DeleteInv, Leaving

\* Steps that add no passkey, delete no account and start no registration.
LEMMA DeleteQuiet ==
  ASSUME DeleteInv, barred' = barred, deleting' = deleting, overtaken' = overtaken,
         \A u \in Accounts : row'[u].status = row[u].status,
         \A k \in Keys : passkey'[k].owner \in {0, passkey[k].owner},
         SignInTypes, \A b \in Browsers : op'[b] = op[b] \/ op'[b].pc # "insert"
  PROVE  DeleteInv'
<1>1. \A u \in Accounts : Leaving(u)' <=> Leaving(u)
  BY DEF Leaving
<1>2. \A u \in Accounts : HasPasskey(u)' => HasPasskey(u)
  BY SignInAssumption DEF HasPasskey, ListPasskeysByUserId
<1>3. \A b \in Browsers : op'[b].pc = "insert" => op'[b] = op[b] /\ op[b].id \in Accounts
  BY DEF SignInTypes
<1>4. QED BY <1>1, <1>2, <1>3 DEF DeleteInv

LEMMA DeleteStep ==
  ASSUME SignInTypes, KeyInv, DeleteInv, SignInNext
  PROVE  DeleteInv'
<1>1. NoOp.pc # "insert" /\ \A k \in Keys : passkey[k].owner \in {0, passkey[k].owner}
  BY DEF NoOp
<1>2. ASSUME NEW b \in Browsers, SessionStep(b) PROVE DeleteInv'
  <2>1. UNCHANGED <<row, passkey, op, barred, deleting, overtaken>>
    BY <1>2, TypesSession DEF SessionStep
  <2>2. QED BY <1>1, <2>1, DeleteQuiet
<1>3. ASSUME NEW b \in Browsers, Setup2FA(b) PROVE DeleteInv'
  <2>1. UNCHANGED <<passkey, op, barred, deleting, overtaken>>
    BY <1>3 DEF Setup2FA
  <2>2. \A u \in Accounts : row'[u].status = row[u].status
    <3>1. row'[session[b].id].status = row[session[b].id].status
      BY <1>3, SetupEffect
    <3>2. \A u \in Accounts \ {session[b].id} : row'[u] = row[u]
      BY <1>3, SetupEffect
    <3>3. QED BY <3>1, <3>2
  <2>3. QED BY <1>1, <2>1, <2>2, DeleteQuiet
<1>4. ASSUME NEW b \in Browsers, CheckStep(b) PROVE DeleteInv'
  <2>1. PICK kind \in TotpKinds, u \in Accounts, f \in Factors : Check(b, kind, u, f)
    BY <1>4 DEF CheckStep
  <2>2. UNCHANGED <<row, passkey, barred, deleting, overtaken>>
    BY <2>1 DEF Check
  <2>3. op'[b].pc \in {"write", "consume"} /\ \A c \in Browsers \ {b} : op'[c] = op[c]
    BY <2>1, CheckEffect
  <2>4. QED BY <1>1, <2>2, <2>3, DeleteQuiet
<1>5. ASSUME NEW b \in Browsers, Consume(b) PROVE DeleteInv'
  <2>1. UNCHANGED <<passkey, barred, deleting, overtaken>>
    BY <1>5 DEF Consume
  <2>2. /\ \A u \in Accounts : row'[u].status = row[u].status
        /\ op'[b] = [op[b] EXCEPT !.pc = "write"] /\ \A c \in Browsers \ {b} : op'[c] = op[c]
    BY <1>5, ConsumeEffect
  <2>3. op'[b].pc = "write"
    <3>1. op[b] \in Request
      BY DEF SignInTypes
    <3>2. QED BY <2>2, <3>1 DEF Request
  <2>4. QED BY <1>1, <2>1, <2>2, <2>3, DeleteQuiet
<1>6. ASSUME NEW b \in Browsers, Finish2FA(b) PROVE DeleteInv'
  <2>1. UNCHANGED <<passkey, barred, deleting, overtaken>>
    BY <1>6 DEF Finish2FA
  <2>2. /\ \A u \in Accounts : row'[u].status = row[u].status
        /\ op'[b] = NoOp /\ \A c \in Browsers \ {b} : op'[c] = op[c]
    BY <1>6, FinishEffect
  <2>3. QED BY <1>1, <2>1, <2>2, DeleteQuiet
<1>7. ASSUME NEW b \in Browsers, NEW k \in Keys, FinishRegisterPasskey(b, k) PROVE DeleteInv'
  <2>1. UNCHANGED <<row, passkey, barred, deleting>> /\ Admitted(b)
        /\ overtaken' = IF session[b].id \in deleting THEN overtaken \cup deleting ELSE overtaken
    BY <1>7 DEF FinishRegisterPasskey
  <2>2. /\ op'[b].pc = "insert" /\ op'[b].id = session[b].id /\ \A c \in Browsers \ {b} : op'[c] = op[c]
    BY <1>7, RegisterEffect
  <2>3. session[b].id \in Accounts
    BY <2>1 DEF Admitted, SignInTypes, Cookie, Maybe
  <2>4. overtaken \subseteq overtaken'
    BY <2>1
  <2>5. Leaving(session[b].id) => session[b].id \in overtaken'
    BY <2>1, <2>3 DEF Leaving, Admitted, DeleteInv
  <2>6. /\ \A u : Leaving(u)' <=> Leaving(u)
        /\ \A u : HasPasskey(u)' <=> HasPasskey(u)
    BY <2>1 DEF Leaving, HasPasskey, ListPasskeysByUserId
  <2>7. \A c \in Browsers : op'[c].pc = "insert" /\ Leaving(op'[c].id) => op'[c].id \in overtaken'
    BY <2>2, <2>4, <2>5 DEF DeleteInv
  <2>8. QED BY <2>1, <2>4, <2>6, <2>7 DEF DeleteInv
<1>8. ASSUME NEW b \in Browsers, NEW k \in Keys, NEW kind \in {"passkey", "second"}, Sign(b, k, kind)
      PROVE  DeleteInv'
  <2>1. UNCHANGED <<row, passkey, barred, deleting, overtaken>>
    BY <1>8 DEF Sign
  <2>2. op'[b].pc = "read" /\ \A c \in Browsers \ {b} : op'[c] = op[c]
    BY <1>8, SignEffect
  <2>3. QED BY <1>1, <2>1, <2>2, DeleteQuiet
<1>9. ASSUME NEW b \in Browsers, CreatePasskey(b) PROVE DeleteInv'
  <2>1. op[b].pc = "insert" /\ op[b].key \in Keys /\ UNCHANGED <<row, barred, deleting, overtaken>>
    BY <1>9 DEF CreatePasskey, KeyInv
  <2>2. /\ op'[b] = NoOp /\ \A c \in Browsers \ {b} : op'[c] = op[c]
        /\ \A j \in Keys \ {op[b].key} : passkey'[j] = passkey[j]
        /\ passkey' = passkey \/ passkey'[op[b].key].owner = op[b].id
    BY <1>9, <2>1, CreateEffect
  <2>3. Leaving(op[b].id) => op[b].id \in overtaken
    BY <2>1 DEF DeleteInv
  <2>4. \A u : Leaving(u)' <=> Leaving(u)
    BY <2>1 DEF Leaving
  <2>5. \A u \in Accounts : HasPasskey(u)' => HasPasskey(u) \/ u = op[b].id
    BY <2>2 DEF HasPasskey, ListPasskeysByUserId
  <2>6. \A c \in Browsers : op'[c].pc = "insert" => op'[c] = op[c]
    BY <1>1, <2>2
  <2>7. QED BY <2>1, <2>3, <2>4, <2>5, <2>6 DEF DeleteInv
<1>10. ASSUME NEW b \in Browsers, FinishLogin(b) PROVE DeleteInv'
  <2>1. UNCHANGED <<row, passkey, barred, deleting, overtaken>>
    BY <1>10 DEF FinishLogin
  <2>2. /\ \A c \in Browsers \ {b} : op'[c] = op[c]
        /\ op'[b] = NoOp \/ op'[b] = [op[b] EXCEPT !.pc = "update"]
    BY <1>10, LoginEffect
  <2>3. op'[b].pc # "insert"
    <3>1. op[b] \in Request
      BY DEF SignInTypes
    <3>2. QED BY <1>1, <2>2, <3>1 DEF Request
  <2>4. QED BY <1>1, <2>1, <2>2, <2>3, DeleteQuiet
<1>11. ASSUME NEW b \in Browsers, FinishPasskey(b) PROVE DeleteInv'
  <2>1. op[b].pc = "update" /\ op[b].key \in Keys /\ UNCHANGED <<row, barred, deleting, overtaken>>
    BY <1>11 DEF FinishPasskey, KeyInv
  <2>2. /\ op'[b] = NoOp /\ \A c \in Browsers \ {b} : op'[c] = op[c]
        /\ \A k \in Keys : passkey'[k].owner \in {0, passkey[k].owner}
    BY <1>11, <2>1, CounterEffect
  <2>3. QED BY <1>1, <2>1, <2>2, DeleteQuiet
<1>12. ASSUME NEW ks \in SUBSET Keys, RemovePasskeys(ks) PROVE DeleteInv'
  <2>1. UNCHANGED <<row, op, barred, deleting, overtaken>>
    BY <1>12 DEF RemovePasskeys
  <2>2. \A k \in Keys : passkey'[k].owner \in {0, passkey[k].owner}
    BY <1>12, RemovalEffect
  <2>3. QED BY <2>1, <2>2, DeleteQuiet
<1>13. ASSUME NEW u \in Accounts, BeginDelete(u) PROVE DeleteInv'
  <2>1. UNCHANGED <<row, op, barred>> /\ deleting' = deleting \cup {u}
        /\ passkey' = hardDeletePasskeysOnUserDelete(u)
    BY <1>13 DEF BeginDelete
  <2>2. /\ overtaken \subseteq overtaken'
        /\ \A b \in Browsers : op[b].pc = "insert" /\ op[b].id = u => u \in overtaken'
    BY <1>13 DEF BeginDelete
  <2>3. \A v : Leaving(v)' => Leaving(v) \/ v = u
    BY <2>1 DEF Leaving
  <2>4. \A k \in Keys : passkey'[k].owner = IF passkey[k].owner = u THEN 0 ELSE passkey[k].owner
    BY <2>1 DEF hardDeletePasskeysOnUserDelete
  <2>5. \A v \in Accounts : HasPasskey(v)' => HasPasskey(v) /\ v # u
    BY <2>4, SignInAssumption DEF HasPasskey, ListPasskeysByUserId
  <2>6. QED BY <2>1, <2>2, <2>3, <2>5 DEF DeleteInv
<1>14. ASSUME NEW u \in Accounts, FinishDelete(u) PROVE DeleteInv'
  <2>1. UNCHANGED <<passkey, op, overtaken>> /\ u \in deleting /\ deleting' = deleting \ {u}
        /\ barred' = barred \cup {u}
    BY <1>14 DEF FinishDelete
  <2>2. \A v \in Accounts \ {u} : row'[v] = row[v]
    BY <1>14, FinishDeleteEffect
  <2>3. \A v \in Accounts : Leaving(v)' => Leaving(v)
    BY <2>1, <2>2 DEF Leaving
  <2>4. \A v \in Accounts : HasPasskey(v)' <=> HasPasskey(v)
    BY <2>1 DEF HasPasskey, ListPasskeysByUserId
  <2>5. \A b \in Browsers : op[b].pc = "insert" => op[b].id \in Accounts
    BY DEF SignInTypes
  <2>6. QED BY <2>1, <2>2, <2>3, <2>4, <2>5 DEF DeleteInv
<1>15. ASSUME RestartServer PROVE DeleteInv'
  <2>1. UNCHANGED <<row, passkey>> /\ deleting' = {}
        /\ overtaken' = overtaken \cup deleting \cup {u \in Accounts : row[u].status = "deleted"}
    BY <1>15 DEF RestartServer
  <2>2. \A b \in Browsers : op'[b].pc # "insert"
    BY <1>1, <1>15, RestartEffect
  <2>3. \A u \in Accounts : row'[u].status = "deleted" => u \in overtaken'
    BY <2>1
  <2>4. \A u \in Accounts : Leaving(u)' => row'[u].status = "deleted"
    BY <2>1 DEF Leaving
  <2>5. QED BY <2>2, <2>3, <2>4 DEF DeleteInv
<1>16. ASSUME NEW v, SetPasskeySetting(v) PROVE DeleteInv'
  <2>1. UNCHANGED <<row, passkey, op, barred, deleting, overtaken>>
    BY <1>16 DEF SetPasskeySetting
  <2>2. QED BY <1>1, <2>1, DeleteQuiet
<1>17. QED BY <1>2, <1>3, <1>4, <1>5, <1>6, <1>7, <1>8, <1>9, <1>10, <1>11, <1>12, <1>13, <1>14, <1>15, <1>16,
              StepKinds DEF RegisterStep, SignStep, RemovalStep

-----------------------------------------------------------------------------
(* Secrets and backup codes. *)

\* Only the second-factor handlers touch the factors.
FactorStep(b) == Setup2FA(b) \/ CheckStep(b) \/ Consume(b) \/ Finish2FA(b)

LEMMA OtherStepsFrame ==
  ASSUME SignInTypes, KeyInv, SignInNext, ~\E b \in Browsers : FactorStep(b)
  PROVE  SignInTypes' /\ FactorFrame
<1>1. ASSUME NEW b \in Browsers, SessionStep(b) PROVE SignInTypes' /\ FactorFrame
  BY <1>1, TypesSession DEF SessionStep, FactorFrame
<1>2. ASSUME NEW b \in Browsers, RegisterStep(b) PROVE SignInTypes' /\ FactorFrame
  BY <1>2, RegisterEffect DEF RegisterStep
<1>3. ASSUME NEW b \in Browsers, SignStep(b) PROVE SignInTypes' /\ FactorFrame
  BY <1>3, SignEffect DEF SignStep
<1>4. ASSUME NEW b \in Browsers, CreatePasskey(b) PROVE SignInTypes' /\ FactorFrame
  <2>1. op[b].key \in Keys
    BY <1>4 DEF CreatePasskey, KeyInv
  <2>2. QED BY <1>4, <2>1, CreateEffect
<1>5. ASSUME NEW b \in Browsers, FinishLogin(b) PROVE SignInTypes' /\ FactorFrame
  BY <1>5, LoginEffect
<1>6. ASSUME NEW b \in Browsers, FinishPasskey(b) PROVE SignInTypes' /\ FactorFrame
  <2>1. op[b].key \in Keys
    BY <1>6 DEF FinishPasskey, KeyInv
  <2>2. QED BY <1>6, <2>1, CounterEffect
<1>7. CASE RemovalStep
  BY <1>7, RemovalEffect DEF RemovalStep
<1>8. ASSUME NEW u \in Accounts, FinishDelete(u) PROVE SignInTypes' /\ FactorFrame
  BY <1>8, FinishDeleteEffect
<1>9. CASE RestartServer
  BY <1>9, RestartEffect
<1>10. ASSUME NEW v, SetPasskeySetting(v) PROVE SignInTypes' /\ FactorFrame
  <2>1. UNCHANGED <<row, passkey, session, op, device, generation, uses, confirmed, lapped>>
    BY <1>10 DEF SetPasskeySetting
  <2>2. QED BY <2>1 DEF SignInTypes, FactorFrame
<1>11. QED BY <1>1, <1>2, <1>3, <1>4, <1>5, <1>6, <1>7, <1>8, <1>9, <1>10, StepKinds DEF FactorStep

LEMMA TypesStep ==
  ASSUME SignInTypes, KeyInv, SignInNext
  PROVE  SignInTypes'
<1>1. ASSUME NEW b \in Browsers, FactorStep(b) PROVE SignInTypes'
  <2>1. CASE Setup2FA(b)
    BY <2>1, SetupEffect
  <2>2. CASE CheckStep(b)
    BY <2>2, CheckEffect DEF CheckStep
  <2>3. CASE Consume(b)
    BY <2>3, ConsumeEffect
  <2>4. CASE Finish2FA(b)
    BY <2>4, FinishEffect
  <2>5. QED BY <1>1, <2>1, <2>2, <2>3, <2>4 DEF FactorStep
<1>2. QED BY <1>1, OtherStepsFrame

\* A request about to switch TOTP on has checked a code of the secret the row
\* still has, unless it was lapped.
SecretInv ==
  /\ \A b \in Browsers : op[b].pc = "consume" => op[b].kind # "enable"
  /\ \A b \in Browsers : op[b].pc = "write" /\ op[b].kind = "enable" =>
       op[b].id \in lapped \/ row[op[b].id].secret = op[b].code[1]
  /\ EnabledSecretWasConfirmed

LEMMA SecretInit == SignInInit => SecretInv
<1> SUFFICES ASSUME SignInInit PROVE SecretInv
  OBVIOUS
<1>1. \A b \in Browsers : op[b].pc = "idle"
  BY DEF SignInInit, NoOp
<1>2. \A u \in Accounts : ~row[u].enabled
  BY DEF SignInInit
<1>3. QED BY <1>1, <1>2 DEF SecretInv, EnabledSecretWasConfirmed

LEMMA SecretStep ==
  ASSUME SignInTypes, KeyInv, SecretInv, SignInNext
  PROVE  SecretInv'
<1>1. NoOp.pc = "idle" /\ "enable" \in TotpKinds
  BY DEF NoOp, TotpKinds
<1>2. \A c \in Browsers : op[c].pc # "idle" => op[c].id \in Accounts
  BY DEF SignInTypes
<1>3. ASSUME NEW b \in Browsers, Setup2FA(b) PROVE SecretInv'
  <2> DEFINE u == session[b].id
  <2>1. Lap(b, u) /\ op' = op /\ confirmed' = confirmed
    BY <1>3 DEF Setup2FA
  <2>2. op[b].pc = "idle" /\ u \in Accounts
    BY <1>3, SetupEffect
  <2>3. ~row'[u].enabled
    BY <1>3, SetupEffect
  <2>4. \A v \in Accounts \ {u} : row'[v] = row[v]
    BY <1>3, SetupEffect
  <2>5. lapped \subseteq lapped' /\ \A c \in Browsers \ {b} : op[c].id = u /\ op[c].kind \in TotpKinds => u \in lapped'
    BY <2>1, LapEffect
  <2> HIDE DEF u
  <2>6. QED BY <1>1, <1>2, <2>1, <2>2, <2>3, <2>4, <2>5 DEF SecretInv, EnabledSecretWasConfirmed
<1>4. ASSUME NEW b \in Browsers, CheckStep(b) PROVE SecretInv'
  <2>1. PICK kind \in TotpKinds, u \in Accounts, f \in Factors : Check(b, kind, u, f)
    BY <1>4 DEF CheckStep
  <2>2. UNCHANGED <<row, confirmed, lapped>>
    BY <2>1 DEF Check
  <2>3. /\ op'[b].kind = kind /\ op'[b].id = u /\ op'[b].code = f /\ \A c \in Browsers \ {b} : op'[c] = op[c]
    BY <2>1, CheckEffect
  <2>4. (op'[b].pc = "write" /\ f[1] = row[u].secret) \/ (op'[b].pc = "consume" /\ kind # "enable")
    BY <2>1, CheckEffect
  <2>5. QED BY <2>2, <2>3, <2>4 DEF SecretInv, EnabledSecretWasConfirmed
<1>5. ASSUME NEW b \in Browsers, Consume(b) PROVE SecretInv'
  <2> DEFINE u == op[b].id
  <2>1. Lap(b, u) /\ confirmed' = confirmed
    BY <1>5 DEF Consume
  <2>2. /\ op[b].pc = "consume" /\ u \in Accounts /\ \A c \in Browsers \ {b} : op'[c] = op[c]
        /\ row'[u].secret = row[u].secret /\ row'[u].enabled = row[u].enabled
        /\ \A v \in Accounts \ {u} : row'[v] = row[v]
    BY <1>5, ConsumeEffect
  <2>3. lapped \subseteq lapped'
    BY <2>1, LapEffect
  <2>4. op'[b].kind = op[b].kind /\ op[b].kind # "enable"
    <3>1. op[b] \in Request /\ op'[b] = [op[b] EXCEPT !.pc = "write"]
      BY <1>5, ConsumeEffect DEF SignInTypes
    <3>2. QED BY <2>2, <3>1 DEF Request, SecretInv
  <2>5. \A v \in Accounts : row'[v].secret = row[v].secret /\ row'[v].enabled = row[v].enabled
    BY <2>2
  <2> HIDE DEF u
  <2>6. QED BY <1>2, <2>1, <2>2, <2>3, <2>4, <2>5 DEF SecretInv, EnabledSecretWasConfirmed
<1>6. ASSUME NEW b \in Browsers, Finish2FA(b) PROVE SecretInv'
  <2> DEFINE u == op[b].id
  <2>1. /\ op[b].pc = "write" /\ u \in Accounts /\ op'[b] = NoOp
        /\ \A c \in Browsers \ {b} : op'[c] = op[c]
        /\ \A v \in Accounts \ {u} : row'[v] = row[v]
    BY <1>6, FinishEffect
  <2>2. CASE /\ op[b].kind = "enable" /\ row'[u].secret = row[u].secret
             /\ confirmed' = confirmed \cup {op[b].code[1]} /\ Lap(b, u)
    <3>1. lapped \subseteq lapped'
      BY <2>2, LapEffect
    <3>2. \A v \in Accounts : row'[v].secret = row[v].secret
      BY <2>1, <2>2
    <3>3. u \in lapped \/ row[u].secret = op[b].code[1]
      BY <2>1, <2>2 DEF SecretInv
    <3> HIDE DEF u
    <3>4. QED BY <1>1, <1>2, <2>1, <2>2, <3>1, <3>2, <3>3 DEF SecretInv, EnabledSecretWasConfirmed
  <2>3. CASE row'[u].enabled = FALSE /\ confirmed' = confirmed /\ Lap(b, u)
    <3>1. lapped \subseteq lapped' /\ \A c \in Browsers \ {b} : op[c].id = u /\ op[c].kind \in TotpKinds => u \in lapped'
      BY <2>3, LapEffect
    <3> HIDE DEF u
    <3>2. QED BY <1>1, <1>2, <2>1, <2>3, <3>1 DEF SecretInv, EnabledSecretWasConfirmed
  <2>4. CASE /\ row'[u].secret = row[u].secret /\ row'[u].enabled = row[u].enabled
             /\ confirmed' = confirmed /\ Lap(b, u)
    <3>1. lapped \subseteq lapped'
      BY <2>4, LapEffect
    <3>2. \A v \in Accounts : row'[v].secret = row[v].secret /\ row'[v].enabled = row[v].enabled
      BY <2>1, <2>4
    <3> HIDE DEF u
    <3>3. QED BY <1>1, <1>2, <2>1, <2>4, <3>1, <3>2 DEF SecretInv, EnabledSecretWasConfirmed
  <2>5. CASE UNCHANGED <<row, confirmed, lapped>>
    BY <1>1, <2>1, <2>5 DEF SecretInv, EnabledSecretWasConfirmed
  <2>6. QED BY <1>6, <2>2, <2>3, <2>4, <2>5, FinishEffect
<1>7. CASE FactorFrame
  <2>1. \A b \in Browsers : op'[b].pc \in {"consume", "write"} => op'[b] = op[b]
    BY <1>7 DEF FactorFrame
  <2>2. confirmed' = confirmed /\ lapped' = lapped
        /\ \A u \in Accounts : row'[u].secret = row[u].secret /\ row'[u].enabled = row[u].enabled
    BY <1>7 DEF FactorFrame
  <2>3. QED BY <1>2, <2>1, <2>2 DEF SecretInv, EnabledSecretWasConfirmed
<1>8. QED BY <1>3, <1>4, <1>5, <1>6, <1>7, OtherStepsFrame DEF FactorStep

\* Accounts never share a code, neither on the rows nor in the copies handlers
\* hold, and a copy that was not lapped holds no code that was used.
CodesInv ==
  /\ \A u \in Accounts : \A c \in row[u].codes : c[1] <= generation
  /\ \A u, v \in Accounts : u # v => row[u].codes \cap row[v].codes = {}
  /\ \A c \in Codes : c[1] > generation => uses[c] = 0
  /\ \A b \in Browsers : op[b].pc = "consume" =>
       /\ op[b].kind \in TotpKinds /\ op[b].code \in op[b].copy /\ \A c \in op[b].copy : c[1] <= generation
       /\ \A v \in Accounts \ {op[b].id} : op[b].copy \cap row[v].codes = {}
       /\ op[b].id \in lapped \/ \A c \in op[b].copy : uses[c] = 0
  /\ \A a, b \in Browsers : op[a].pc = "consume" /\ op[b].pc = "consume" /\ op[a].id # op[b].id =>
       op[a].copy \cap op[b].copy = {}
  /\ BackupCodesAreSpent

LEMMA CodesInit == SignInInit => CodesInv
<1> SUFFICES ASSUME SignInInit PROVE CodesInv
  OBVIOUS
<1>1. \A b \in Browsers : op[b].pc = "idle"
  BY DEF SignInInit, NoOp
<1>2. \A u \in Accounts : row[u].codes = {}
  BY DEF SignInInit
<1>3. \A c \in Codes : uses[c] = 0
  BY DEF SignInInit
<1>4. QED BY <1>1, <1>2, <1>3 DEF CodesInv, BackupCodesAreSpent

\* A row changes to a new batch or to fewer codes.
LEMMA CodesReplaced ==
  ASSUME SignInTypes, CodesInv, NEW b \in Browsers, NEW u \in Accounts, Lap(b, u), uses' = uses,
         \A c \in Browsers : op'[c].pc = "consume" => op'[c] = op[c] /\ c # b,
         \A v \in Accounts \ {u} : row'[v] = row[v], generation' \in Nat, generation <= generation',
         \/ row'[u].codes \subseteq row[u].codes
         \/ row'[u].codes = NewBatch /\ generation' = generation + 1
  PROVE  CodesInv'
<1>1. /\ lapped \subseteq lapped'
      /\ \A c \in Browsers \ {b} : op[c].id = u /\ op[c].kind \in TotpKinds => u \in lapped'
  BY LapEffect
<1>2. /\ \A v \in Accounts : row[v].codes \subseteq Codes /\ row'[v].codes \subseteq Codes
      /\ \A c \in Codes : c[1] \in Nat /\ uses[c] \in Nat
      /\ \A c \in Browsers : op[c].copy \subseteq Codes
      /\ generation \in Nat
  <2>1. NewBatch \subseteq Codes
    BY DEF NewBatch
  <2>2. \A v \in Accounts : row[v].codes \subseteq Codes
    BY DEF SignInTypes, FactorRow
  <2>3. \A c \in Codes : c[1] \in Nat
    BY SignInAssumption DEF Codes
  <2>4. QED BY <2>1, <2>2, <2>3 DEF SignInTypes, Request
<1>3. \A c \in NewBatch : c \in Codes /\ c[1] = generation + 1 /\ uses[c] = 0
  <2>1. generation + 1 > generation
    BY <1>2
  <2>2. QED BY <2>1 DEF NewBatch, CodesInv
<1>4. \A v \in Accounts : \A c \in row'[v].codes : c[1] <= generation'
  BY <1>2, <1>3 DEF CodesInv
<1>5. \A v \in Accounts \ {u} : row'[u].codes \cap row'[v].codes = {}
  <2>1. CASE row'[u].codes \subseteq row[u].codes
    BY <2>1 DEF CodesInv
  <2>2. CASE row'[u].codes = NewBatch
    <3>1. \A c \in NewBatch : ~(c[1] <= generation)
      BY <1>2, <1>3
    <3>2. QED BY <2>2, <3>1 DEF CodesInv
  <2>3. QED BY <2>1, <2>2
<1>6. \A v, w \in Accounts : v # w => row'[v].codes \cap row'[w].codes = {}
  BY <1>5 DEF CodesInv
<1>7. \A c \in Codes : c[1] > generation' => uses'[c] = 0
  BY <1>2 DEF CodesInv
<1>8. ASSUME NEW c \in Browsers, op'[c].pc = "consume"
      PROVE  /\ op'[c].kind \in TotpKinds /\ op'[c].code \in op'[c].copy
             /\ \A x \in op'[c].copy : x[1] <= generation'
             /\ \A v \in Accounts \ {op'[c].id} : op'[c].copy \cap row'[v].codes = {}
             /\ op'[c].id \in lapped' \/ \A x \in op'[c].copy : uses'[x] = 0
  <2>1. op'[c] = op[c] /\ c # b /\ op[c].pc = "consume"
    BY <1>8
  <2>2. \A x \in op[c].copy : x[1] <= generation /\ x[1] <= generation'
    BY <1>2, <2>1 DEF CodesInv
  <2>3. \A v \in Accounts \ {op[c].id} : op[c].copy \cap row'[v].codes = {}
    <3>1. CASE row'[u].codes \subseteq row[u].codes
      BY <2>1, <3>1 DEF CodesInv
    <3>2. CASE row'[u].codes = NewBatch
      <4>1. \A x \in NewBatch : ~(x[1] <= generation)
        BY <1>2, <1>3
      <4>2. op[c].copy \cap NewBatch = {}
        BY <2>2, <4>1
      <4>3. QED BY <2>1, <3>2, <4>2 DEF CodesInv
    <3>3. QED BY <3>1, <3>2
  <2>4. op[c].id \in lapped' \/ \A x \in op[c].copy : uses'[x] = 0
    BY <1>1, <2>1 DEF CodesInv
  <2>5. QED BY <2>1, <2>2, <2>3, <2>4 DEF CodesInv
<1>9. \A c, d \in Browsers : op'[c].pc = "consume" /\ op'[d].pc = "consume" /\ op'[c].id # op'[d].id =>
        op'[c].copy \cap op'[d].copy = {}
  BY DEF CodesInv
<1>10. \A v \in Accounts : v \in lapped' \/ \A c \in row'[v].codes : uses'[c] = 0
  BY <1>1, <1>3 DEF CodesInv, BackupCodesAreSpent
<1>11. QED BY <1>4, <1>6, <1>7, <1>8, <1>9, <1>10 DEF CodesInv, BackupCodesAreSpent

\* Steps that leave rows and uses alone.
LEMMA CodesQuiet ==
  ASSUME CodesInv, generation' = generation, uses' = uses, lapped' = lapped,
         \A u \in Accounts : row'[u].codes = row[u].codes,
         \A c \in Browsers : op'[c].pc = "consume" => op'[c] = op[c]
  PROVE  CodesInv'
<1>1. \A c \in Browsers : op'[c].pc = "consume" =>
        /\ op'[c].kind \in TotpKinds /\ op'[c].code \in op'[c].copy
        /\ \A x \in op'[c].copy : x[1] <= generation'
        /\ \A v \in Accounts \ {op'[c].id} : op'[c].copy \cap row'[v].codes = {}
        /\ op'[c].id \in lapped' \/ \A x \in op'[c].copy : uses'[x] = 0
  BY DEF CodesInv
<1>2. \A c, d \in Browsers : op'[c].pc = "consume" /\ op'[d].pc = "consume" /\ op'[c].id # op'[d].id =>
        op'[c].copy \cap op'[d].copy = {}
  BY DEF CodesInv
<1>3. BackupCodesAreSpent'
  BY DEF CodesInv, BackupCodesAreSpent
<1>4. QED BY <1>1, <1>2, <1>3 DEF CodesInv

LEMMA CodesCheck ==
  ASSUME SignInTypes, CodesInv, NEW b \in Browsers, CheckStep(b)
  PROVE  CodesInv'
<1>1. PICK kind \in TotpKinds, u \in Accounts, f \in Factors : Check(b, kind, u, f)
  BY DEF CheckStep
<1>2. UNCHANGED <<row, generation, uses, lapped>>
  BY <1>1 DEF Check
<1>3. op'[b].kind = kind /\ op'[b].id = u /\ op'[b].code = f /\ \A c \in Browsers \ {b} : op'[c] = op[c]
  BY <1>1, CheckEffect
<1>4. op'[b].pc = "write" \/ (op'[b].pc = "consume" /\ op'[b].copy = row[u].codes /\ f \in row[u].codes)
  BY <1>1, CheckEffect
<1>5. CASE op'[b].pc = "write"
  <2>1. \A c \in Browsers : op'[c].pc = "consume" => op'[c] = op[c]
    BY <1>3, <1>5
  <2>2. QED BY <1>2, <2>1, CodesQuiet
<1>6. CASE op'[b].pc = "consume" /\ op'[b].copy = row[u].codes /\ f \in row[u].codes
  <2>1. /\ \A x \in op'[b].copy : x[1] <= generation'
        /\ \A v \in Accounts \ {u} : op'[b].copy \cap row'[v].codes = {}
        /\ u \in lapped' \/ \A x \in op'[b].copy : uses'[x] = 0
    BY <1>2, <1>6 DEF CodesInv, BackupCodesAreSpent
  <2>2. ASSUME NEW c \in Browsers, op'[c].pc = "consume"
        PROVE  /\ op'[c].kind \in TotpKinds /\ op'[c].code \in op'[c].copy
               /\ \A x \in op'[c].copy : x[1] <= generation'
               /\ \A v \in Accounts \ {op'[c].id} : op'[c].copy \cap row'[v].codes = {}
               /\ op'[c].id \in lapped' \/ \A x \in op'[c].copy : uses'[x] = 0
    <3>1. CASE c = b
      BY <1>3, <1>6, <2>1, <3>1
    <3>2. CASE c # b
      BY <1>2, <1>3, <2>2, <3>2 DEF CodesInv
    <3>3. QED BY <3>1, <3>2
  <2>3. \A c \in Browsers : op'[c].pc = "consume" /\ op'[c].id # u => op'[c].copy \cap row[u].codes = {}
    BY <1>3 DEF CodesInv
  <2>4. \A c, d \in Browsers : op'[c].pc = "consume" /\ op'[d].pc = "consume" /\ op'[c].id # op'[d].id =>
          op'[c].copy \cap op'[d].copy = {}
    BY <1>3, <1>6, <2>3 DEF CodesInv
  <2>5. BackupCodesAreSpent'
    BY <1>2 DEF CodesInv, BackupCodesAreSpent
  <2>6. QED BY <1>2, <2>2, <2>4, <2>5 DEF CodesInv
<1>7. QED BY <1>4, <1>5, <1>6

LEMMA CodesConsume ==
  ASSUME SignInTypes, CodesInv, NEW b \in Browsers, Consume(b)
  PROVE  CodesInv'
<1> DEFINE u == op[b].id
           left == op[b].copy \ {op[b].code}
<1>1. Lap(b, u) /\ generation' = generation
  BY DEF Consume
<1>2. /\ op[b].pc = "consume" /\ u \in Accounts /\ \A c \in Browsers \ {b} : op'[c] = op[c]
      /\ row'[u].codes = left /\ \A v \in Accounts \ {u} : row'[v] = row[v]
      /\ \A c \in Codes \ {op[b].code} : uses'[c] = uses[c]
  BY ConsumeEffect
<1>3. op'[b].pc = "write"
  <2>1. op[b] \in Request /\ op'[b] = [op[b] EXCEPT !.pc = "write"]
    BY ConsumeEffect DEF SignInTypes
  <2>2. QED BY <2>1 DEF Request
<1>4. /\ lapped \subseteq lapped'
      /\ \A c \in Browsers \ {b} : op[c].id = u /\ op[c].kind \in TotpKinds => u \in lapped'
  BY <1>1, LapEffect
<1>5. /\ op[b].code \in op[b].copy /\ op[b].code[1] <= generation
      /\ \A c \in op[b].copy : c[1] <= generation
      /\ \A v \in Accounts \ {u} : op[b].copy \cap row[v].codes = {}
      /\ u \in lapped \/ \A c \in op[b].copy : uses[c] = 0
  BY <1>2 DEF CodesInv
<1>6. /\ \A v \in Accounts : row[v].codes \subseteq Codes /\ \A c \in Browsers : op[c].copy \subseteq Codes
      /\ \A c \in Codes : c[1] \in Nat /\ generation \in Nat
  <2>1. \A v \in Accounts : row[v].codes \subseteq Codes
    BY DEF SignInTypes, FactorRow
  <2>2. \A c \in Browsers : op[c].copy \subseteq Codes
    BY DEF SignInTypes, Request
  <2>3. \A c \in Codes : c[1] \in Nat
    BY SignInAssumption DEF Codes
  <2>4. QED BY <2>1, <2>2, <2>3 DEF SignInTypes
<1> HIDE DEF u
<1>7. \A v \in Accounts : \A c \in row'[v].codes : c[1] <= generation'
  BY <1>1, <1>2, <1>5 DEF CodesInv
<1>8. \A v, w \in Accounts : v # w => row'[v].codes \cap row'[w].codes = {}
  BY <1>2, <1>5 DEF CodesInv
<1>9. \A c \in Codes : c[1] > generation' => uses'[c] = 0
  <2>1. \A c \in Codes : c[1] > generation => c # op[b].code
    BY <1>5, <1>6
  <2>2. QED BY <1>1, <1>2, <2>1 DEF CodesInv
<1>10. ASSUME NEW c \in Browsers, op'[c].pc = "consume"
       PROVE  /\ op'[c].kind \in TotpKinds /\ op'[c].code \in op'[c].copy
              /\ \A x \in op'[c].copy : x[1] <= generation'
              /\ \A v \in Accounts \ {op'[c].id} : op'[c].copy \cap row'[v].codes = {}
              /\ op'[c].id \in lapped' \/ \A x \in op'[c].copy : uses'[x] = 0
  <2>1. op'[c] = op[c] /\ c # b /\ op[c].pc = "consume"
    BY <1>2, <1>3, <1>10
  <2>2. op[c].kind \in TotpKinds /\ op[c].code \in op[c].copy /\ \A x \in op[c].copy : x[1] <= generation'
    BY <1>1, <2>1 DEF CodesInv
  <2>3. \A v \in Accounts \ {op[c].id} : op[c].copy \cap row'[v].codes = {}
    <3>1. u # op[c].id => op[c].copy \cap op[b].copy = {}
      BY <1>2, <2>1 DEF CodesInv, u
    <3>2. QED BY <1>2, <2>1, <3>1 DEF CodesInv
  <2>4. op[c].id \in lapped' \/ \A x \in op[c].copy : uses'[x] = 0
    <3>1. CASE op[c].id = u
      BY <1>4, <2>1, <2>2, <3>1
    <3>2. CASE op[c].id # u
      <4>1. op[b].code \notin op[c].copy
        BY <1>2, <1>5, <2>1, <3>2 DEF CodesInv, u
      <4>2. \A x \in op[c].copy : uses'[x] = uses[x]
        BY <1>2, <1>6, <4>1
      <4>3. QED BY <1>4, <2>1, <4>2 DEF CodesInv
    <3>3. QED BY <3>1, <3>2
  <2>5. QED BY <2>1, <2>2, <2>3, <2>4
<1>11. \A c, d \in Browsers : op'[c].pc = "consume" /\ op'[d].pc = "consume" /\ op'[c].id # op'[d].id =>
         op'[c].copy \cap op'[d].copy = {}
  BY <1>2, <1>3 DEF CodesInv
<1>12. ASSUME NEW v \in Accounts PROVE v \in lapped' \/ \A c \in row'[v].codes : uses'[c] = 0
  <2>1. CASE v = u
    BY <1>2, <1>4, <1>5, <1>6, <2>1
  <2>2. CASE v # u
    <3>1. op[b].code \notin row[v].codes
      BY <1>5, <2>2
    <3>2. \A c \in row[v].codes : uses'[c] = uses[c]
      BY <1>2, <1>6, <3>1
    <3>3. QED BY <1>2, <1>4, <2>2, <3>2 DEF CodesInv, BackupCodesAreSpent
  <2>3. QED BY <2>1, <2>2
<1>13. QED BY <1>7, <1>8, <1>9, <1>10, <1>11, <1>12 DEF CodesInv, BackupCodesAreSpent

LEMMA CodesStep ==
  ASSUME SignInTypes, KeyInv, CodesInv, SignInNext
  PROVE  CodesInv'
<1>1. NoOp.pc = "idle" /\ generation \in Nat
  BY DEF NoOp, SignInTypes
<1>2. ASSUME NEW b \in Browsers, Setup2FA(b) PROVE CodesInv'
  <2>1. Lap(b, session[b].id) /\ op' = op /\ uses' = uses
    BY <1>2 DEF Setup2FA
  <2>2. /\ session[b].id \in Accounts /\ op[b].pc = "idle" /\ generation' = generation + 1
        /\ row'[session[b].id].codes = NewBatch /\ \A v \in Accounts \ {session[b].id} : row'[v] = row[v]
    BY <1>2, SetupEffect
  <2>3. generation' \in Nat /\ generation <= generation'
    BY <1>1, <2>2
  <2>4. \A c \in Browsers : op'[c].pc = "consume" => op'[c] = op[c] /\ c # b
    BY <2>1, <2>2
  <2>5. QED BY <2>1, <2>2, <2>3, <2>4, CodesReplaced
<1>3. ASSUME NEW b \in Browsers, Finish2FA(b) PROVE CodesInv'
  <2>1. /\ op[b].id \in Accounts /\ op'[b] = NoOp /\ \A c \in Browsers \ {b} : op'[c] = op[c]
        /\ \A v \in Accounts \ {op[b].id} : row'[v] = row[v]
    BY <1>3, FinishEffect
  <2>2. uses' = uses
    BY <1>3 DEF Finish2FA
  <2>3. \A c \in Browsers : op'[c].pc = "consume" => op'[c] = op[c] /\ c # b
    BY <1>1, <2>1
  <2>4. CASE UNCHANGED <<row, generation, confirmed, lapped>>
    BY <2>2, <2>3, <2>4, CodesQuiet
  <2>5. CASE /\ Lap(b, op[b].id) /\ generation' \in {generation, generation + 1}
             /\ \/ row'[op[b].id].codes \subseteq row[op[b].id].codes
                \/ row'[op[b].id].codes = NewBatch /\ generation' = generation + 1
    <3>1. generation' \in Nat /\ generation <= generation'
      BY <1>1, <2>5
    <3>2. QED BY <2>1, <2>2, <2>3, <2>5, <3>1, CodesReplaced
  <2>6. QED BY <1>3, <2>4, <2>5, FinishEffect
<1>4. CASE FactorFrame
  <2>1. \A c \in Browsers : op'[c].pc = "consume" => op'[c] = op[c]
    BY <1>4 DEF FactorFrame
  <2>2. UNCHANGED <<generation, uses, lapped>> /\ \A u \in Accounts : row'[u].codes = row[u].codes
    BY <1>4 DEF FactorFrame
  <2>3. QED BY <2>1, <2>2, CodesQuiet
<1>5. QED BY <1>2, <1>3, <1>4, CodesCheck, CodesConsume, OtherStepsFrame DEF FactorStep

-----------------------------------------------------------------------------
(* The rest of type correctness. *)

BoundsInv ==
  /\ \A u \in Accounts : row[u].secret <= generation
  /\ barred \subseteq Accounts /\ deleting \subseteq Accounts /\ overtaken \subseteq Accounts
  /\ lapped \subseteq Accounts

LEMMA BoundsStep ==
  ASSUME SignInTypes, KeyInv, BoundsInv, SignInNext
  PROVE  BoundsInv'
<1>1. generation \in Nat /\ \A u \in Accounts : row[u].secret \in Nat
  BY DEF SignInTypes, FactorRow
<1>2. /\ barred' \subseteq Accounts /\ deleting' \subseteq Accounts /\ overtaken' \subseteq Accounts
  <2>1. CASE UNCHANGED <<barred, deleting, overtaken>>
    BY <2>1 DEF BoundsInv
  <2>2. ASSUME NEW b \in Browsers, FactorStep(b) PROVE UNCHANGED <<barred, deleting, overtaken>>
    BY <2>2 DEF FactorStep, Setup2FA, CheckStep, Check, Consume, Finish2FA
  <2>3. ASSUME NEW b \in Browsers,
               SessionStep(b) \/ CreatePasskey(b) \/ SignStep(b) \/ FinishLogin(b) \/ FinishPasskey(b)
        PROVE  UNCHANGED <<barred, deleting, overtaken>>
    <3>1. CASE SessionStep(b)
      BY <3>1, TypesSession DEF SessionStep
    <3>2. QED BY <2>3, <3>1 DEF CreatePasskey, SignStep, Sign, FinishLogin, FinishPasskey
  <2>4. ASSUME NEW b \in Browsers, RegisterStep(b)
        PROVE  UNCHANGED <<barred, deleting>> /\ overtaken' \subseteq overtaken \cup deleting
    BY <2>4 DEF RegisterStep, FinishRegisterPasskey
  <2>5. ASSUME NEW ks \in SUBSET Keys, RemovePasskeys(ks) PROVE UNCHANGED <<barred, deleting, overtaken>>
    BY <2>5 DEF RemovePasskeys
  <2>6. ASSUME NEW u \in Accounts, BeginDelete(u) \/ FinishDelete(u)
        PROVE  /\ barred' \subseteq barred \cup {u} /\ deleting' \subseteq deleting \cup {u}
               /\ overtaken' \subseteq overtaken \cup {u}
    BY <2>6 DEF BeginDelete, FinishDelete
  <2>7. CASE RestartServer
    BY <2>7 DEF RestartServer, BoundsInv
  <2>8. ASSUME NEW v, SetPasskeySetting(v) PROVE UNCHANGED <<barred, deleting, overtaken>>
    BY <2>8 DEF SetPasskeySetting
  <2>9. QED BY <2>1, <2>2, <2>3, <2>4, <2>5, <2>6, <2>7, <2>8, StepKinds DEF FactorStep, RemovalStep, BoundsInv
<1>3. lapped' \subseteq Accounts /\ \A u \in Accounts : row'[u].secret <= generation'
  <2>1. ASSUME NEW b \in Browsers, NEW u \in Accounts, Lap(b, u) PROVE lapped' \subseteq Accounts
    BY <2>1 DEF Lap, BoundsInv
  <2>2. ASSUME NEW b \in Browsers, Setup2FA(b)
        PROVE  lapped' \subseteq Accounts /\ \A u \in Accounts : row'[u].secret <= generation'
    <3>1. /\ session[b].id \in Accounts /\ generation' = generation + 1
          /\ row'[session[b].id].secret = generation + 1
          /\ \A v \in Accounts \ {session[b].id} : row'[v] = row[v]
      BY <2>2, SetupEffect
    <3>2. Lap(b, session[b].id)
      BY <2>2 DEF Setup2FA
    <3>3. QED BY <1>1, <2>1, <3>1, <3>2 DEF BoundsInv
  <2>3. ASSUME NEW b \in Browsers, CheckStep(b)
        PROVE  lapped' \subseteq Accounts /\ \A u \in Accounts : row'[u].secret <= generation'
    BY <2>3 DEF CheckStep, Check, BoundsInv
  <2>4. ASSUME NEW b \in Browsers, Consume(b)
        PROVE  lapped' \subseteq Accounts /\ \A u \in Accounts : row'[u].secret <= generation'
    <3>1. Lap(b, op[b].id) /\ generation' = generation
      BY <2>4 DEF Consume
    <3>2. /\ op[b].id \in Accounts /\ row'[op[b].id].secret = row[op[b].id].secret
          /\ \A v \in Accounts \ {op[b].id} : row'[v] = row[v]
      BY <2>4, ConsumeEffect
    <3>3. QED BY <2>1, <3>1, <3>2 DEF BoundsInv
  <2>5. ASSUME NEW b \in Browsers, Finish2FA(b)
        PROVE  lapped' \subseteq Accounts /\ \A u \in Accounts : row'[u].secret <= generation'
    <3>1. op[b].id \in Accounts /\ \A v \in Accounts \ {op[b].id} : row'[v] = row[v]
      BY <2>5, FinishEffect
    <3>2. CASE UNCHANGED <<row, generation, confirmed, lapped>>
      BY <3>2 DEF BoundsInv
    <3>3. CASE /\ Lap(b, op[b].id) /\ generation' \in {generation, generation + 1}
               /\ row'[op[b].id].secret \in {0, row[op[b].id].secret}
      <4>1. row'[op[b].id].secret <= generation'
        BY <1>1, <3>1, <3>3 DEF BoundsInv
      <4>2. \A v \in Accounts \ {op[b].id} : row'[v].secret <= generation'
        BY <1>1, <3>1, <3>3 DEF BoundsInv
      <4>3. QED BY <2>1, <3>1, <3>3, <4>1, <4>2
    <3>4. QED BY <2>5, <3>2, <3>3, FinishEffect
  <2>6. CASE FactorFrame
    BY <2>6 DEF FactorFrame, BoundsInv
  <2>7. QED BY <2>2, <2>3, <2>4, <2>5, <2>6, OtherStepsFrame DEF FactorStep
<1>4. QED BY <1>2, <1>3 DEF BoundsInv

-----------------------------------------------------------------------------
(* The theorem. *)

SignInInv == SignInTypes /\ BoundsInv /\ KeyInv /\ DeleteInv /\ SecretInv /\ CodesInv

\* Every variable has its type; an accepted backup code is off the row, Enable2FA
\* switches on the very secret it confirmed, an honest authenticator is refused
\* only over crossing ceremonies, and a deleted account keeps no passkey: for any
\* browsers, accounts, credentials and codes.
THEOREM FactorsGuardTheirAccount == SignInSpec => []FactorsKeepTheirTerms
<1>1. SignInInit => SignInInv
  <2>1. SignInInit => BoundsInv
    BY DEF SignInInit, BoundsInv
  <2>2. QED BY <2>1, TypesInit, KeyInit, DeleteInit, SecretInit, CodesInit DEF SignInInv
<1>2. SignInInv /\ [SignInNext]_signInVars => SignInInv'
  <2> SUFFICES ASSUME SignInInv, [SignInNext]_signInVars PROVE SignInInv'
    OBVIOUS
  <2>1. CASE SignInNext
    BY <2>1, TypesStep, BoundsStep, KeyStep, DeleteStep, SecretStep, CodesStep DEF SignInInv
  <2>2. CASE UNCHANGED signInVars
    BY <2>2 DEF signInVars, SignInInv, SignInTypes, BoundsInv, KeyInv, HonestKeyRefusedOnlyIfCrossed, DeleteInv,
       Leaving, HasPasskey, ListPasskeysByUserId, SecretInv, EnabledSecretWasConfirmed, CodesInv,
       BackupCodesAreSpent
  <2>3. QED BY <2>1, <2>2
<1>3. SignInInv => FactorsKeepTheirTerms
  <2> SUFFICES ASSUME SignInInv PROVE FactorsKeepTheirTerms
    OBVIOUS
  <2>1. ASSUME NEW u \in Accounts
        PROVE  /\ row[u].status \in {"enabled", "deleted"} /\ row[u].enabled \in BOOLEAN
               /\ row[u].secret \in 0 .. generation /\ row[u].codes \subseteq Codes
    <3>1. row[u] \in FactorRow
      BY DEF SignInInv, SignInTypes
    <3>2. row[u].secret <= generation /\ generation \in Nat
      BY DEF SignInInv, BoundsInv, SignInTypes
    <3>3. QED BY <3>1, <3>2 DEF FactorRow
  <2>2. ASSUME NEW k \in Keys
        PROVE  passkey[k].owner \in Accounts \cup {0} /\ passkey[k].count \in 0 .. device[k]
    <3>1. passkey[k] \in KeyRow /\ device[k] \in Nat
      BY DEF SignInInv, SignInTypes
    <3>2. passkey[k].count <= device[k]
      BY DEF SignInInv, KeyInv
    <3>3. QED BY <3>1, <3>2 DEF KeyRow, Maybe
  <2>3. ASSUME NEW b \in Browsers
        PROVE  /\ {session[b].id, session[b].pending, session[b].reg} \subseteq Accounts \cup {0}
               /\ op[b].pc \in {"idle", "consume", "write", "insert", "read", "update"}
    <3>1. session[b] \in Cookie /\ op[b] \in Request
      BY DEF SignInInv, SignInTypes
    <3>2. {session[b].id, session[b].pending, session[b].reg} \subseteq Accounts \cup {0}
      BY <3>1 DEF Cookie, Maybe
    <3>3. QED BY <3>1, <3>2 DEF Request
  <2>4. SignInTypeOK
    BY <2>1, <2>2, <2>3 DEF SignInInv, BoundsInv, SignInTypeOK
  <2>5. PasskeysDieWithAccount
    BY DEF SignInInv, DeleteInv, Leaving, PasskeysDieWithAccount
  <2>6. QED BY <2>4, <2>5 DEF SignInInv, KeyInv, SecretInv, CodesInv, FactorsKeepTheirTerms
<1>4. QED BY <1>1, <1>2, <1>3, PTL DEF SignInSpec

-----------------------------------------------------------------------------
(* Checkin.  What a claim has counted is a run of claimed days, and once it *)
(* has inserted its row it is the only one to hold the key.                 *)

\* A set of rows holds the key (u, d), or the keys of the n days up to d.
Taken(R, u, d) == \E r \in R : r.user = u /\ r.day = d
Run(R, u, d, n) == \A k \in 0 .. n - 1 : Taken(R, u, d - k)

\* The streak a claim is about to write counts its own day and claimed ones.
Counted(c) ==
  claim[c].pc \in {"insert", "credit"} =>
    claim[c].streak >= 1 /\ Run(rows, claim[c].user, claim[c].day - 1, claim[c].streak - 1)

\* An inserted row is the only one with its key, committed or not.
Sole(c) ==
  claim[c].pc = "credit" =>
    /\ ~Taken(rows, claim[c].user, claim[c].day)
    /\ \A b \in Claimers \ {c} :
         claim[b].pc = "credit" => claim[b].user # claim[c].user \/ claim[b].day # claim[c].day

ClaimInv == \A c \in Claimers : Counted(c) /\ Sole(c)

EarnedInv == \A r \in rows : r.streak >= 1 /\ Run(rows, r.user, r.day, r.streak)

Inv == TypeOK /\ IsFiniteSet(rows) /\ ClaimInv /\ OneRewardPerDay /\ EarnedInv

-----------------------------------------------------------------------------
(* The reward and the runs. *)

LEMMA ProductNat == ASSUME NEW m \in Nat, NEW n \in Nat PROVE m * n \in Nat
OBVIOUS

LEMMA RewardNat ==
  ASSUME setting \in Settings, NEW streak \in Nat, streak >= 1
  PROVE  PreviewReward(streak) \in Nat
<1> DEFINE counted == IF setting.cap > 0 /\ streak > setting.cap THEN setting.cap ELSE streak
<1>1. setting.daily \in Nat /\ setting.bonus \in Nat /\ setting.cap \in Nat BY CheckinAssumption
<1>2. counted - 1 \in Nat BY <1>1
<1>3. (counted - 1) * setting.bonus \in Nat BY <1>1, <1>2, ProductNat
<1>4. QED BY <1>1, <1>3 DEF PreviewReward

\* Rows are only ever added: a run stays a run.
LEMMA RunKept ==
  ASSUME NEW R, NEW S, R \subseteq S, NEW u, NEW d, NEW n, Run(R, u, d, n)
  PROVE  Run(S, u, d, n)
BY DEF Run, Taken

\* A day put in front of a run.
LEMMA RunExtended ==
  ASSUME NEW R, NEW u, NEW d \in Int, NEW n \in Nat, n >= 1, Taken(R, u, d), Run(R, u, d - 1, n - 1)
  PROVE  Run(R, u, d, n)
<1> SUFFICES ASSUME NEW k \in 0 .. n - 1 PROVE Taken(R, u, d - k) BY DEF Run
<1>1. CASE k = 0
  <2>1. d - k = d BY <1>1
  <2>2. QED BY <2>1
<1>2. CASE k # 0
  <2>1. k - 1 \in 0 .. (n - 1) - 1 BY <1>2
  <2>2. Taken(R, u, (d - 1) - (k - 1)) BY <2>1 DEF Run
  <2>3. (d - 1) - (k - 1) = d - k OBVIOUS
  <2>4. QED BY <2>2, <2>3
<1>3. QED BY <1>1, <1>2

\* What the model says with RowsOf.
LEMMA TakenRows == ASSUME NEW u, NEW d PROVE Taken(rows, u, d) <=> RowsOf(u, d) # {}
BY DEF Taken, RowsOf

-----------------------------------------------------------------------------
(* One claim moves and no row is added. *)

LEMMA ClaimMoves ==
  ASSUME Inv, NEW c \in Claimers, NEW w \in Claim, claim' = [claim EXCEPT ![c] = w],
         w.pc \notin {"insert", "credit"}, UNCHANGED rows
  PROVE  claim' \in [Claimers -> Claim] /\ ClaimInv'
<1>1. claim' \in [Claimers -> Claim] /\ claim'[c] = w /\ \A b \in Claimers \ {c} : claim'[b] = claim[b]
  BY DEF Inv, TypeOK
<1>2. Counted(c)' /\ Sole(c)' BY <1>1 DEF Counted, Sole
<1>3. ASSUME NEW b \in Claimers \ {c} PROVE Counted(b)' /\ Sole(b)'
  <2>1. Counted(b) /\ Sole(b) BY DEF Inv, ClaimInv
  <2>2. Counted(b)' BY <1>1, <2>1 DEF Counted
  <2>3. Sole(b)' BY <1>1, <2>1 DEF Sole
  <2>4. QED BY <2>2, <2>3
<1>4. QED BY <1>1, <1>2, <1>3 DEF ClaimInv

\* Rows that stay keep what is said of them.
LEMMA RowsStay ==
  ASSUME Inv, UNCHANGED rows
  PROVE  IsFiniteSet(rows)' /\ OneRewardPerDay' /\ EarnedInv'
<1>1. IsFiniteSet(rows)' BY DEF Inv
<1>2. OneRewardPerDay' BY DEF Inv, OneRewardPerDay
<1>3. EarnedInv' BY DEF Inv, EarnedInv
<1>4. QED BY <1>1, <1>2, <1>3

LEMMA FaultsNat == ASSUME faults \in Nat, StatementFails \/ UNCHANGED faults PROVE faults' \in Nat
BY DEF StatementFails

\* A claim that ends, or is still reading.
LEMMA StepQuiet ==
  ASSUME Inv, NEW c \in Claimers, NEW w \in Claim, claim' = [claim EXCEPT ![c] = w],
         w.pc \notin {"insert", "credit"}, OnlyClaim, StatementFails \/ UNCHANGED faults
  PROVE  Inv'
<1>1. UNCHANGED rows BY DEF OnlyClaim
<1>2. claim' \in [Claimers -> Claim] /\ ClaimInv' BY <1>1, ClaimMoves
<1>3. faults' \in Nat BY FaultsNat DEF Inv, TypeOK
<1>4. TypeOK' BY <1>2, <1>3 DEF OnlyClaim, Inv, TypeOK
<1>5. QED BY <1>1, <1>2, <1>4, RowsStay DEF Inv

LEMMA StepEnds ==
  ASSUME Inv, NEW c \in Claimers, NEW result \in {"claimed", "already", "duplicate", "dberror"},
         Ends(c, result), OnlyClaim, StatementFails \/ UNCHANGED faults
  PROVE  Inv'
<1> DEFINE w == [claim[c] EXCEPT !.pc = "reply", !.result = result]
<1>1. claim[c] \in Claim BY DEF Inv, TypeOK
<1>2. w \in Claim /\ w.pc = "reply" BY <1>1 DEF Claim
<1>3. claim' = [claim EXCEPT ![c] = w] BY DEF Ends
<1>4. QED BY <1>2, <1>3, StepQuiet

LEMMA StepFails == ASSUME Inv, NEW c \in Claimers, Fails(c), OnlyClaim PROVE Inv'
BY StepEnds DEF Fails

LEMMA StepDoCheckin ==
  ASSUME Inv, NEW c \in Claimers, NEW u \in Users, DoCheckin(c, u)
  PROVE  Inv'
<1> DEFINE w == [pc |-> "today", user |-> u, day |-> today, streak |-> 0, result |-> "none"]
<1>1. w \in Claim BY DEF Inv, TypeOK, Claim
<1>2. claim' = [claim EXCEPT ![c] = w] BY DEF DoCheckin
<1>3. QED BY <1>1, <1>2, StepQuiet DEF DoCheckin

LEMMA StepReadToday ==
  ASSUME Inv, NEW c \in Claimers, ReadToday(c)
  PROVE  Inv'
<1>1. CASE Ends(c, "already") /\ UNCHANGED faults BY <1>1, StepEnds DEF ReadToday
<1>2. CASE Fails(c) BY <1>2, StepFails DEF ReadToday
<1>3. CASE Moves(c, "yesterday") /\ UNCHANGED faults
  <2> DEFINE w == [claim[c] EXCEPT !.pc = "yesterday"]
  <2>1. claim[c] \in Claim BY DEF Inv, TypeOK
  <2>2. w \in Claim /\ w.pc = "yesterday" BY <2>1 DEF Claim
  <2>3. claim' = [claim EXCEPT ![c] = w] BY <1>3 DEF Moves
  <2>4. QED BY <1>3, <2>2, <2>3, StepQuiet DEF ReadToday
<1>4. QED BY <1>1, <1>2, <1>3 DEF ReadToday

LEMMA StepReply ==
  ASSUME Inv, NEW c \in Claimers, Reply(c)
  PROVE  Inv'
<1> DEFINE w == [claim[c] EXCEPT !.pc = "idle", !.streak = 0, !.result = "none"]
<1>1. claim[c] \in Claim BY DEF Inv, TypeOK
<1>2. w \in Claim /\ w.pc = "idle" BY <1>1 DEF Claim
<1>3. claim' = [claim EXCEPT ![c] = w] BY DEF Reply
<1>4. QED BY <1>2, <1>3, StepQuiet DEF Reply

\* One claim moves, no row is added, and its own part of the invariant is known.
LEMMA StepAhead ==
  ASSUME Inv, NEW c \in Claimers, NEW w \in Claim, claim' = [claim EXCEPT ![c] = w],
         Counted(c)', Sole(c)', OnlyClaim, UNCHANGED faults,
         \A b \in Claimers \ {c} : w.pc = "credit" /\ claim[b].pc = "credit" =>
                                     claim[b].user # w.user \/ claim[b].day # w.day
  PROVE  Inv'
<1>1. claim' \in [Claimers -> Claim] /\ claim'[c] = w /\ \A b \in Claimers \ {c} : claim'[b] = claim[b]
  BY DEF Inv, TypeOK
<1>2. ASSUME NEW b \in Claimers \ {c} PROVE Counted(b)' /\ Sole(b)'
  <2>1. Counted(b) /\ Sole(b) BY DEF Inv, ClaimInv
  <2>2. Counted(b)' BY <1>1, <2>1 DEF Counted, OnlyClaim
  <2>3. claim[b].pc = "credit" => ~Taken(rows', claim[b].user, claim[b].day)
    BY <2>1 DEF Sole, OnlyClaim
  <2>4. ASSUME claim[b].pc = "credit", NEW a \in Claimers \ {b}, claim'[a].pc = "credit"
        PROVE  claim'[a].user # claim[b].user \/ claim'[a].day # claim[b].day
    <3>1. CASE a = c BY <3>1, <2>4, <1>1
    <3>2. CASE a # c BY <3>2, <2>1, <2>4, <1>1 DEF Sole
    <3>3. QED BY <3>1, <3>2
  <2>5. Sole(b)' BY <1>1, <2>3, <2>4 DEF Sole
  <2>6. QED BY <2>2, <2>5
<1>3. ClaimInv' BY <1>2 DEF ClaimInv
<1>4. TypeOK' BY <1>1 DEF OnlyClaim, Inv, TypeOK
<1>5. QED BY <1>3, <1>4, RowsStay DEF OnlyClaim, Inv

LEMMA StepReadYesterday ==
  ASSUME Inv, NEW c \in Claimers, ReadYesterday(c)
  PROVE  Inv'
<1>1. CASE Fails(c) BY <1>1, StepFails DEF ReadYesterday
<1>2. CASE ~Fails(c)
  <2> DEFINE u == claim[c].user
             d == claim[c].day
             n == NextStreak(Before(u, d))
             w == [claim[c] EXCEPT !.pc = "insert", !.streak = n]
  <2>1. claim[c] \in Claim /\ u \in Users /\ d \in Int BY DEF Inv, TypeOK, Claim, Days
  <2>2. n \in Nat /\ n >= 1 /\ Run(rows, u, d - 1, n - 1)
    <3>1. CASE Before(u, d) = {}
      <4>1. n = 1 BY <3>1 DEF NextStreak
      <4>2. QED BY <4>1, <2>1 DEF Run
    <3>2. CASE Before(u, d) # {}
      <4> DEFINE r == CHOOSE s \in Before(u, d) : TRUE
      <4>1. r \in Before(u, d) BY <3>2
      <4>2. r \in rows /\ r.user = u /\ r.day = d - 1 BY <4>1 DEF Before, RowsOf
      <4>3. r.streak \in Nat BY <4>2 DEF Inv, TypeOK, Row
      <4>4. r.streak >= 1 /\ Run(rows, u, d - 1, r.streak) BY <4>2 DEF Inv, EarnedInv
      <4>5. n = r.streak + 1 BY <3>2 DEF NextStreak
      <4>6. n - 1 = r.streak BY <4>3, <4>5
      <4>7. QED BY <4>3, <4>4, <4>5, <4>6
    <3>3. QED BY <3>1, <3>2
  <2>3. w \in Claim /\ w.pc = "insert" /\ w.user = u /\ w.day = d /\ w.streak = n
    BY <2>1, <2>2 DEF Claim
  <2>4. claim' = [claim EXCEPT ![c] = w] /\ UNCHANGED faults BY <1>2 DEF ReadYesterday
  <2>5. claim'[c] = w BY <2>3, <2>4 DEF Inv, TypeOK
  <2>6. UNCHANGED rows BY DEF ReadYesterday, OnlyClaim
  <2>7. Run(rows', claim'[c].user, claim'[c].day - 1, claim'[c].streak - 1)
    BY <2>2, <2>3, <2>5, <2>6
  <2>8. Counted(c)' BY <2>2, <2>3, <2>5, <2>7 DEF Counted
  <2>9. Sole(c)' BY <2>3, <2>5 DEF Sole
  <2>10. QED BY <2>3, <2>4, <2>8, <2>9, StepAhead DEF ReadYesterday
<1>3. QED BY <1>1, <1>2

LEMMA StepInsert ==
  ASSUME Inv, NEW c \in Claimers, Insert(c)
  PROVE  Inv'
<1> DEFINE u == claim[c].user
           d == claim[c].day
<1>1. CASE Fails(c) BY <1>1, StepFails DEF Insert
<1>2. CASE Duplicate(u, d) /\ ~Fails(c) BY <1>2, StepEnds DEF Insert
<1>3. CASE ~Duplicate(u, d) /\ ~Fails(c)
  <2> DEFINE w == [claim[c] EXCEPT !.pc = "credit"]
  <2>1. claim[c] \in Claim BY DEF Inv, TypeOK
  <2>2. w \in Claim /\ w.pc = "credit" /\ w.user = u /\ w.day = d /\ w.streak = claim[c].streak
    BY <2>1 DEF Claim
  <2>3. claim' = [claim EXCEPT ![c] = w] /\ UNCHANGED faults BY <1>3 DEF Insert, Moves
  <2>4. claim'[c] = w /\ \A b \in Claimers \ {c} : claim'[b] = claim[b]
    BY <2>2, <2>3 DEF Inv, TypeOK
  <2>5. UNCHANGED rows BY DEF Insert, OnlyClaim
  <2>6. \A b \in Claimers \ {c} : claim[b].pc = "credit" => claim[b].user # u \/ claim[b].day # d
    BY DEF Insert, KeyFree
  <2>7. Counted(c)'
    <3>1. Counted(c) /\ claim[c].pc = "insert" BY DEF Inv, ClaimInv, Insert
    <3>2. QED BY <3>1, <2>2, <2>4, <2>5 DEF Counted
  <2>8. Sole(c)' BY <1>3, <2>2, <2>4, <2>5, <2>6, TakenRows DEF Sole, Duplicate
  <2>9. QED BY <2>2, <2>3, <2>6, <2>7, <2>8, StepAhead DEF Insert
<1>4. QED BY <1>1, <1>2, <1>3

LEMMA StepCommit ==
  ASSUME Inv, NEW c \in Claimers, Commit(c)
  PROVE  Inv'
<1> DEFINE u == claim[c].user
           d == claim[c].day
           n == claim[c].streak
<1>1. /\ claim[c] \in Claim /\ u \in Users /\ d \in Days /\ d \in Int /\ n \in Nat
      /\ claim[c].pc = "credit"
  BY DEF Inv, TypeOK, Claim, Days, Commit
<1>2. /\ n >= 1 /\ Run(rows, u, d - 1, n - 1) /\ ~Taken(rows, u, d)
      /\ \A b \in Claimers \ {c} : claim[b].pc = "credit" => claim[b].user # u \/ claim[b].day # d
  BY <1>1 DEF Inv, ClaimInv, Counted, Sole
<1>3. CASE Credit(c) /\ Ends(c, "claimed") /\ UNCHANGED faults
  <2> DEFINE reward == PreviewReward(n)
             r == [id |-> Cardinality(rows) + 1, user |-> u, day |-> d, streak |-> n, quota |-> reward]
             w == [claim[c] EXCEPT !.pc = "reply", !.result = "claimed"]
  <2>1. reward \in Nat BY <1>1, <1>2, RewardNat DEF Inv, TypeOK
  <2>2. Cardinality(rows) \in Nat BY FS_CardinalityType DEF Inv
  <2>3. r \in Row BY <1>1, <2>1, <2>2 DEF Row
  <2>4. rows' = rows \cup {r} /\ wallet' = [wallet EXCEPT ![u] = @ + reward]
    BY <1>3 DEF Credit
  <2>5. rows' \subseteq Row /\ rows \subseteq rows' BY <2>3, <2>4 DEF Inv, TypeOK
  <2>6. IsFiniteSet(rows') BY <2>4, FS_AddElement DEF Inv
  <2>7. wallet' \in [Users -> Nat] BY <1>1, <2>1, <2>4 DEF Inv, TypeOK
  <2>8. w \in Claim /\ w.pc = "reply" BY <1>1 DEF Claim
  <2>9. claim' \in [Claimers -> Claim] /\ claim'[c] = w /\ \A b \in Claimers \ {c} : claim'[b] = claim[b]
    BY <1>3, <2>8 DEF Ends, Inv, TypeOK
  <2>10. late' \subseteq Users BY <1>1, <1>3 DEF Commit, Fails, Inv, TypeOK
  <2>11. TypeOK' BY <1>3, <2>5, <2>7, <2>9, <2>10 DEF Commit, Inv, TypeOK
  <2>12. Counted(c)' /\ Sole(c)' BY <2>8, <2>9 DEF Counted, Sole
  <2>13. ASSUME NEW b \in Claimers \ {c} PROVE Counted(b)' /\ Sole(b)'
    <3>1. Counted(b) /\ Sole(b) /\ claim[b] \in Claim BY DEF Inv, ClaimInv, TypeOK
    <3>2. Counted(b)' BY <3>1, <2>5, <2>9, RunKept DEF Counted
    <3>3. claim[b].pc = "credit" => ~Taken(rows', claim[b].user, claim[b].day)
      BY <3>1, <1>1, <1>2, <2>4 DEF Sole, Taken
    <3>4. Sole(b)' BY <3>1, <3>3, <2>8, <2>9 DEF Sole
    <3>5. QED BY <3>2, <3>4
  <2>14. OneRewardPerDay' BY <1>2, <2>4 DEF Inv, OneRewardPerDay, Taken
  <2>15. ASSUME NEW s \in rows' PROVE s.streak >= 1 /\ Run(rows', s.user, s.day, s.streak)
    <3>1. CASE s \in rows BY <3>1, <2>5, RunKept DEF Inv, EarnedInv
    <3>2. CASE s = r
      <4>0. r \in rows' /\ r.user = u /\ r.day = d BY <2>4
      <4>1. Taken(rows', u, d) BY <4>0 DEF Taken
      <4>2. Run(rows', u, d - 1, n - 1) BY <1>2, <2>5, RunKept
      <4>3. Run(rows', u, d, n) BY <4>1, <4>2, <1>1, <1>2, RunExtended
      <4>4. QED BY <3>2, <4>3, <1>2
    <3>3. QED BY <3>1, <3>2, <2>4
  <2>16. EarnedInv' BY <2>15 DEF EarnedInv
  <2>17. QED BY <2>6, <2>11, <2>12, <2>13, <2>14, <2>16 DEF Inv, ClaimInv
<1>4. CASE Fails(c) /\ UNCHANGED <<rows, wallet, late>>
  <2>1. OnlyClaim BY <1>4 DEF Commit, OnlyClaim
  <2>2. QED BY <1>4, <2>1, StepFails
<1>5. QED BY <1>3, <1>4 DEF Commit

-----------------------------------------------------------------------------
(* The other actions. *)

LEMMA ClaimsStay == ASSUME Inv, UNCHANGED <<rows, claim>> PROVE ClaimInv'
<1>1. \A c \in Claimers : Counted(c)' /\ Sole(c)'
  BY DEF Inv, ClaimInv, Counted, Sole
<1>2. QED BY <1>1 DEF ClaimInv

LEMMA StepInfo ==
  ASSUME Inv, NEW r \in Readers, info' \in [Readers -> Info], promised' \subseteq Promise, OnlyInfo
  PROVE  Inv'
<1>1. UNCHANGED <<rows, claim>> BY DEF OnlyInfo
<1>2. TypeOK' BY DEF OnlyInfo, Inv, TypeOK
<1>3. QED BY <1>1, <1>2, ClaimsStay, RowsStay DEF Inv

LEMMA StepReaders ==
  ASSUME Inv, NEW r \in Readers,
         (\E u \in Users : GetCheckinInfo(r, u)) \/ InfoToday(r) \/ InfoYesterday(r)
  PROVE  Inv'
<1>1. info[r] \in Info /\ info[r].user \in Users /\ info[r].day \in Days /\ today \in Days
  BY DEF Inv, TypeOK, Info
<1>2. info' \in [Readers -> Info]
  <2>1. ASSUME NEW i \in Info, info' = [info EXCEPT ![r] = i] PROVE info' \in [Readers -> Info]
    BY <2>1 DEF Inv, TypeOK
  <2>2. ASSUME NEW u \in Users, GetCheckinInfo(r, u) PROVE info' \in [Readers -> Info]
    <3>1. [pc |-> "today", user |-> u, day |-> today] \in Info BY <1>1 DEF Info
    <3>2. QED BY <2>1, <2>2, <3>1 DEF GetCheckinInfo
  <2>3. ASSUME NEW p \in {"idle", "yesterday"}, info' = [info EXCEPT ![r].pc = p]
        PROVE  info' \in [Readers -> Info]
    <3>1. [info[r] EXCEPT !.pc = p] \in Info BY <1>1 DEF Info
    <3>2. QED BY <2>1, <2>3, <3>1
  <2>4. QED BY <2>2, <2>3 DEF InfoToday, InfoYesterday
<1>3. promised' \subseteq Promise
  <2>1. CASE UNCHANGED promised BY <2>1 DEF Inv, TypeOK
  <2>2. CASE InfoYesterday(r)
    <3> DEFINE before == RowsOf(info[r].user, info[r].day - 1)
               shown == (IF before = {} THEN 0 ELSE (CHOOSE s \in before : TRUE).streak) + 1
    <3>1. shown \in Nat /\ shown >= 1
      <4>1. CASE before = {} BY <4>1
      <4>2. CASE before # {}
        <5> DEFINE s == CHOOSE t \in before : TRUE
        <5>1. s \in before BY <4>2
        <5>2. s \in rows BY <5>1 DEF RowsOf
        <5>3. s.streak \in Nat BY <5>2 DEF Inv, TypeOK, Row
        <5>4. QED BY <4>2, <5>3
      <4>3. QED BY <4>1, <4>2
    <3>2. PreviewReward(shown) \in Nat BY <3>1, RewardNat DEF Inv, TypeOK
    <3>3. TodayReward(before) \in Nat BY <3>2 DEF TodayReward
    <3>4. [user |-> info[r].user, day |-> info[r].day, reward |-> TodayReward(before)] \in Promise
      BY <1>1, <3>3 DEF Promise
    <3>5. QED BY <2>2, <3>4 DEF InfoYesterday, Inv, TypeOK
  <2>3. QED BY <2>1, <2>2 DEF GetCheckinInfo, InfoToday
<1>4. OnlyInfo BY DEF GetCheckinInfo, InfoToday, InfoYesterday
<1>5. QED BY <1>2, <1>3, <1>4, StepInfo

LEMMA StepMidnight == ASSUME Inv, Midnight PROVE Inv'
<1>1. today' \in Days BY CheckinAssumption DEF Midnight, Inv, TypeOK, Days
<1>2. UNCHANGED <<setting, rows, wallet, claim, info, promised, late, crashes, faults>> BY DEF Midnight
<1>2a. TypeOK' BY <1>1, <1>2 DEF Inv, TypeOK
<1>3. QED BY <1>2, <1>2a, ClaimsStay, RowsStay DEF Inv

LEMMA StepCrash == ASSUME Inv, Crash PROVE Inv'
<1>1. ASSUME NEW c \in Claimers PROVE claim'[c] \in Claim /\ claim'[c].pc = "idle"
  <2>1. claim[c] \in Claim BY DEF Inv, TypeOK
  <2> DEFINE w == [claim[c] EXCEPT !.pc = "idle", !.streak = 0, !.result = "none"]
  <2>2. claim'[c] = w BY DEF Crash
  <2>3. w \in Claim /\ w.pc = "idle" BY <2>1 DEF Claim
  <2>4. QED BY <2>2, <2>3
<1>2. claim' \in [Claimers -> Claim] BY <1>1 DEF Crash
<1>3. ASSUME NEW r \in Readers PROVE info'[r] \in Info
  <2>1. info[r] \in Info BY DEF Inv, TypeOK
  <2>2. info'[r] = [info[r] EXCEPT !.pc = "idle"] BY DEF Crash
  <2>3. QED BY <2>1, <2>2 DEF Info
<1>4. info' \in [Readers -> Info] BY <1>3 DEF Crash
<1>5. ClaimInv' BY <1>1 DEF ClaimInv, Counted, Sole
<1>6. TypeOK'
  <2>1. UNCHANGED <<setting, today, rows, wallet, promised, late, faults>> BY DEF Crash
  <2>2. crashes' = crashes + 1 BY DEF Crash
  <2>3. QED BY <1>2, <1>4, <2>1, <2>2 DEF Inv, TypeOK
<1>7. QED BY <1>5, <1>6, RowsStay DEF Crash, Inv

LEMMA InitInv == Init => Inv
<1> SUFFICES ASSUME Init PROVE Inv OBVIOUS
<1>1. claim \in [Claimers -> Claim] /\ \A c \in Claimers : claim[c].pc = "idle"
  BY CheckinAssumption DEF Init, Claim, Days
<1>2. info \in [Readers -> Info] BY CheckinAssumption DEF Init, Info, Days
<1>3. TypeOK BY <1>1, <1>2, CheckinAssumption DEF Init, TypeOK, Days
<1>4. ClaimInv BY <1>1 DEF ClaimInv, Counted, Sole
<1>5. IsFiniteSet(rows) BY FS_EmptySet DEF Init
<1>6. QED BY <1>3, <1>4, <1>5 DEF Init, Inv, OneRewardPerDay, EarnedInv

LEMMA StepInv == Inv /\ [Next]_vars => Inv'
<1> SUFFICES ASSUME Inv, [Next]_vars PROVE Inv' OBVIOUS
<1>1. CASE \E c \in Claimers, u \in Users : DoCheckin(c, u) BY <1>1, StepDoCheckin
<1>2. CASE \E c \in Claimers : ReadToday(c) BY <1>2, StepReadToday
<1>3. CASE \E c \in Claimers : ReadYesterday(c) BY <1>3, StepReadYesterday
<1>4. CASE \E c \in Claimers : Insert(c) BY <1>4, StepInsert
<1>5. CASE \E c \in Claimers : Commit(c) BY <1>5, StepCommit
<1>6. CASE \E c \in Claimers : Reply(c) BY <1>6, StepReply
<1>7. CASE \E r \in Readers : (\E u \in Users : GetCheckinInfo(r, u)) \/ InfoToday(r) \/ InfoYesterday(r)
  BY <1>7, StepReaders
<1>8. CASE Midnight BY <1>8, StepMidnight
<1>9. CASE Crash BY <1>9, StepCrash
<1>10. CASE UNCHANGED vars
  <2>1. TypeOK' BY <1>10 DEF vars, Inv, TypeOK
  <2>2. QED BY <2>1, <1>10, ClaimsStay, RowsStay DEF vars, Inv
<1>11. QED BY <1>1, <1>2, <1>3, <1>4, <1>5, <1>6, <1>7, <1>8, <1>9, <1>10 DEF Next, ClaimStep

-----------------------------------------------------------------------------
\* Every reachable state satisfies the inductive invariant.
THEOREM Invariance == Spec => []Inv
<1>1. QED BY InitInv, StepInv, PTL DEF Spec

\* ClaimToday and GetCheckinInfo keep the types of their rows.
THEOREM TypeCorrect == Spec => []TypeOK
<1>1. Inv => TypeOK BY DEF Inv
<1>2. QED BY <1>1, Invariance, PTL

\* However many clicks ClaimToday serves at once, a day pays a user once.
THEOREM OnePerDay == Spec => []OneRewardPerDay
<1>1. Inv => OneRewardPerDay BY DEF Inv
<1>2. QED BY <1>1, Invariance, PTL

\* The streak ClaimToday writes never counts a day that was not claimed.
THEOREM StreaksAreEarned == Spec => []StreakIsEarned
<1>1. Inv => StreakIsEarned
  <2> SUFFICES ASSUME Inv, NEW r \in rows
               PROVE  r.streak >= 1 /\ Unbroken(r.user, r.day, r.streak)
    BY DEF StreakIsEarned
  <2>1. r.streak >= 1 /\ Run(rows, r.user, r.day, r.streak) BY DEF Inv, EarnedInv
  <2>2. QED BY <2>1, TakenRows DEF Run, Unbroken
<1>2. QED BY <1>1, Invariance, PTL

-----------------------------------------------------------------------------
(* What a claim pays and what the page promises is read from yesterday's    *)
(* row.  Only a claim that writes after its midnight can add a row to a     *)
(* day that is over, and its user is late from then on: for anybody else    *)
(* the row, the claim and the promise of a day say the same.                *)

Keyed(R, u, d) == {r \in R : r.user = u /\ r.day = d}

\* n is the streak of day d, and it counts every day of the run.
Follows(R, u, d, n) == n = NextStreak(Keyed(R, u, d - 1)) /\ ~Taken(R, u, d - n)

Dated ==
  /\ \A r \in rows : r.day <= today
  /\ \A c \in Claimers : claim[c].day <= today
  /\ \A r \in Readers : info[r].day <= today
  /\ \A p \in promised : p.day <= today

Priced == \A r \in rows : r.quota = PreviewReward(r.streak)

RowsFollow == \A r \in rows : r.user \notin late => Follows(rows, r.user, r.day, r.streak)

ClaimFollows(w) ==
  w.pc \in {"insert", "credit"} /\ w.user \notin late => Follows(rows, w.user, w.day, w.streak)
ClaimsFollow == \A c \in Claimers : ClaimFollows(claim[c])

PromisesFollow ==
  \A p \in promised :
    p.user \notin late => p.reward = PreviewReward(NextStreak(Keyed(rows, p.user, p.day - 1)))

WholeInv ==
  Inv /\ Dated /\ Priced /\ RowsFollow /\ ClaimsFollow /\ PromisesFollow /\ WalletIsSumOfRows

LEMMA SameRewards == ASSUME UNCHANGED setting PROVE \A n : PreviewReward(n)' = PreviewReward(n)
BY DEF PreviewReward

LEMMA RowDates == ASSUME Inv PROVE today \in Int /\ \A r \in rows : r.day \in Int /\ r.quota \in Int /\ r.streak \in Nat
<1>1. today \in Days /\ rows \subseteq Row BY DEF Inv, TypeOK
<1>2. \A e \in Days : e \in Int BY CheckinAssumption DEF Days
<1>3. ASSUME NEW r \in rows PROVE r.day \in Int /\ r.quota \in Int /\ r.streak \in Nat
  <2>1. r \in Row BY <1>1
  <2>2. r.day \in Days /\ r.quota \in Nat /\ r.streak \in Nat BY <2>1 DEF Row
  <2>3. QED BY <1>2, <2>2
<1>4. QED BY <1>1, <1>2, <1>3

LEMMA ClaimDates ==
  ASSUME Inv, NEW c \in Claimers
  PROVE  claim[c] \in Claim /\ claim[c].user \in Users /\ claim[c].day \in Int /\ claim[c].streak \in Nat
<1>1. claim[c] \in Claim BY DEF Inv, TypeOK
<1>2. Days \subseteq Int BY CheckinAssumption DEF Days
<1>3. QED BY <1>1, <1>2 DEF Claim

\* The rows, the wallet and the lateness stay: so do the amounts.
LEMMA WholeRowsStay ==
  ASSUME WholeInv, UNCHANGED <<rows, wallet, late, setting>>
  PROVE  Priced' /\ RowsFollow' /\ WalletIsSumOfRows'
<1>1. Priced' BY SameRewards DEF WholeInv, Priced
<1>2. RowsFollow' BY DEF WholeInv, RowsFollow
<1>3. WalletIsSumOfRows' BY DEF WholeInv, WalletIsSumOfRows
<1>4. QED BY <1>1, <1>2, <1>3

LEMMA PromisesStay ==
  ASSUME WholeInv, UNCHANGED <<rows, late, setting, promised>>
  PROVE  PromisesFollow'
BY SameRewards DEF WholeInv, PromisesFollow

\* One claim moves and no row is added.
LEMMA WholeClaim ==
  ASSUME WholeInv, Inv', NEW c \in Claimers, NEW w \in Claim, claim' = [claim EXCEPT ![c] = w],
         w.day <= today, ClaimFollows(w), OnlyClaim
  PROVE  WholeInv'
<1>1. UNCHANGED <<setting, today, rows, wallet, info, promised, late>> BY DEF OnlyClaim
<1>2. claim'[c] = w /\ \A b \in Claimers \ {c} : claim'[b] = claim[b] BY DEF WholeInv, Inv, TypeOK
<1>3. Dated' BY <1>1, <1>2 DEF WholeInv, Dated
<1>4. ClaimsFollow'
  <2>1. ASSUME NEW b \in Claimers PROVE ClaimFollows(claim[b])'
    <3>1. CASE b = c BY <3>1, <1>1, <1>2 DEF ClaimFollows
    <3>2. CASE b # c
      <4>1. ClaimFollows(claim[b]) BY DEF WholeInv, ClaimsFollow
      <4>2. QED BY <3>2, <4>1, <1>1, <1>2 DEF ClaimFollows
    <3>3. QED BY <3>1, <3>2
  <2>2. QED BY <2>1 DEF ClaimsFollow
<1>5. QED BY <1>1, <1>3, <1>4, WholeRowsStay, PromisesStay DEF WholeInv

LEMMA WholeFails ==
  ASSUME WholeInv, Inv', NEW c \in Claimers, OnlyClaim,
         NEW result \in {"claimed", "already", "duplicate", "dberror"}, Ends(c, result)
  PROVE  WholeInv'
<1> DEFINE w == [claim[c] EXCEPT !.pc = "reply", !.result = result]
<1>1. claim[c] \in Claim /\ claim[c].day <= today BY ClaimDates DEF WholeInv, Dated
<1>2. w \in Claim /\ w.pc = "reply" /\ w.day <= today BY <1>1 DEF Claim
<1>3. claim' = [claim EXCEPT ![c] = w] BY DEF Ends
<1>4. QED BY <1>2, <1>3, WholeClaim DEF ClaimFollows

LEMMA WholeReads ==
  ASSUME WholeInv, Inv', NEW c \in Claimers,
         (\E u \in Users : DoCheckin(c, u)) \/ ReadToday(c) \/ Insert(c) \/ Reply(c)
  PROVE  WholeInv'
<1>0. claim[c] \in Claim /\ claim[c].day <= today /\ today \in Int /\ ClaimFollows(claim[c])
  BY ClaimDates, RowDates DEF WholeInv, Dated, ClaimsFollow
<1>1. ASSUME NEW u \in Users, DoCheckin(c, u) PROVE WholeInv'
  <2> DEFINE w == [pc |-> "today", user |-> u, day |-> today, streak |-> 0, result |-> "none"]
  <2>1. w \in Claim BY DEF WholeInv, Inv, TypeOK, Claim
  <2>2. claim' = [claim EXCEPT ![c] = w] BY <1>1 DEF DoCheckin
  <2>3. w.day <= today /\ ClaimFollows(w) BY <1>0 DEF ClaimFollows
  <2>4. QED BY <1>1, <2>1, <2>2, <2>3, WholeClaim DEF DoCheckin
<1>2. ASSUME ReadToday(c) \/ Insert(c), Fails(c) PROVE WholeInv'
  BY <1>2, WholeFails DEF Fails, ReadToday, Insert
<1>3. ASSUME ReadToday(c), ~Fails(c) PROVE WholeInv'
  <2>1. CASE Ends(c, "already") BY <1>3, <2>1, WholeFails DEF ReadToday
  <2>2. CASE Moves(c, "yesterday")
    <3> DEFINE w == [claim[c] EXCEPT !.pc = "yesterday"]
    <3>1. w \in Claim /\ w.pc = "yesterday" /\ w.day <= today BY <1>0 DEF Claim
    <3>2. claim' = [claim EXCEPT ![c] = w] BY <2>2 DEF Moves
    <3>3. QED BY <1>3, <3>1, <3>2, WholeClaim DEF ReadToday, ClaimFollows
  <2>3. QED BY <1>3, <2>1, <2>2 DEF ReadToday
<1>4. ASSUME Insert(c), ~Fails(c) PROVE WholeInv'
  <2>1. CASE Ends(c, "duplicate") BY <1>4, <2>1, WholeFails DEF Insert
  <2>2. CASE Moves(c, "credit")
    <3> DEFINE w == [claim[c] EXCEPT !.pc = "credit"]
    <3>1. /\ w \in Claim /\ w.day <= today
          /\ w.user = claim[c].user /\ w.day = claim[c].day /\ w.streak = claim[c].streak
      BY <1>0 DEF Claim
    <3>2. claim' = [claim EXCEPT ![c] = w] BY <2>2 DEF Moves
    <3>3. ClaimFollows(w) BY <1>0, <1>4, <3>1 DEF Insert, ClaimFollows
    <3>4. QED BY <1>4, <3>1, <3>2, <3>3, WholeClaim DEF Insert
  <2>3. QED BY <1>4, <2>1, <2>2 DEF Insert
<1>5. ASSUME Reply(c) PROVE WholeInv'
  <2> DEFINE w == [claim[c] EXCEPT !.pc = "idle", !.streak = 0, !.result = "none"]
  <2>1. w \in Claim /\ w.pc = "idle" /\ w.day <= today BY <1>0 DEF Claim
  <2>2. claim' = [claim EXCEPT ![c] = w] BY <1>5 DEF Reply
  <2>3. QED BY <1>5, <2>1, <2>2, WholeClaim DEF Reply, ClaimFollows
<1>6. QED BY <1>1, <1>2, <1>3, <1>4, <1>5

\* The streak read from yesterday's row counts all of the run before it.
LEMMA StreakRead ==
  ASSUME WholeInv, NEW u, u \notin late, NEW d \in Int
  PROVE  Follows(rows, u, d, NextStreak(Keyed(rows, u, d - 1)))
<1> DEFINE K == Keyed(rows, u, d - 1)
<1>1. CASE K = {}
  <2>1. NextStreak(K) = 1 BY <1>1 DEF NextStreak
  <2>2. ~Taken(rows, u, d - 1) BY <1>1 DEF Keyed, Taken
  <2>3. QED BY <2>1, <2>2 DEF Follows
<1>2. CASE K # {}
  <2> DEFINE r == CHOOSE s \in K : TRUE
  <2>1. r \in K BY <1>2
  <2>2. r \in rows /\ r.user = u /\ r.day = d - 1 BY <2>1 DEF Keyed
  <2>3. r.streak \in Nat BY <2>2, RowDates DEF WholeInv
  <2>4. NextStreak(K) = r.streak + 1 BY <1>2 DEF NextStreak
  <2>5. ~Taken(rows, u, (d - 1) - r.streak) BY <2>2 DEF WholeInv, RowsFollow, Follows
  <2>6. (d - 1) - r.streak = d - NextStreak(K) BY <2>3, <2>4
  <2>7. QED BY <2>5, <2>6 DEF Follows
<1>3. QED BY <1>1, <1>2

LEMMA WholeReadYesterday ==
  ASSUME WholeInv, Inv', NEW c \in Claimers, ReadYesterday(c)
  PROVE  WholeInv'
<1>1. claim[c] \in Claim /\ claim[c].day <= today /\ claim[c].day \in Int
  BY ClaimDates DEF WholeInv, Dated
<1>2. CASE Fails(c) BY <1>2, WholeFails DEF Fails, ReadYesterday
<1>3. CASE ~Fails(c)
  <2> DEFINE u == claim[c].user
             d == claim[c].day
             n == NextStreak(Before(u, d))
             w == claim'[c]
  <2>1. Before(u, d) = Keyed(rows, u, d - 1) BY DEF Before, RowsOf, Keyed
  <2>2. claim' = [claim EXCEPT ![c].pc = "insert", ![c].streak = n] BY <1>3 DEF ReadYesterday
  <2>3. w \in Claim /\ claim' = [claim EXCEPT ![c] = w] BY <2>2 DEF WholeInv, Inv, TypeOK
  <2>4. w.user = u /\ w.day = d /\ w.streak = n
    BY <1>1, <2>2 DEF WholeInv, Inv, TypeOK, Claim
  <2> HIDE DEF w
  <2>5. u \notin late => Follows(rows, u, d, n) BY <1>1, <2>1, StreakRead
  <2>6. ClaimFollows(w) BY <2>4, <2>5 DEF ClaimFollows
  <2>7. w.day <= today BY <1>1, <2>4
  <2>8. OnlyClaim BY DEF ReadYesterday
  <2>9. QED
    <3>1. ASSUME NEW v \in Claim, v = w PROVE WholeInv'
      <4>1. claim' = [claim EXCEPT ![c] = v] /\ v.day <= today /\ ClaimFollows(v)
        BY <3>1, <2>3, <2>6, <2>7
      <4>2. QED BY <4>1, <2>8, WholeClaim
    <3>2. QED BY <2>3, <3>1
<1>4. QED BY <1>2, <1>3

-----------------------------------------------------------------------------
(* The commit of a claim. *)

\* A new row leaves the days before it as they were.
LEMMA DaysOver ==
  ASSUME NEW R, NEW r, NEW v, NEW e, r.user # v \/ r.day # e
  PROVE  /\ Keyed(R \cup {r}, v, e) = Keyed(R, v, e)
         /\ Taken(R \cup {r}, v, e) <=> Taken(R, v, e)
BY DEF Keyed, Taken

LEMMA FollowsStays ==
  ASSUME NEW R, NEW r, NEW v, NEW e \in Int, NEW n \in Nat, n >= 1, NEW t \in Int, e <= t,
         r.user # v \/ r.day = t, Follows(R, v, e, n)
  PROVE  Follows(R \cup {r}, v, e, n)
<1>1. e - 1 # t /\ e - n # t OBVIOUS
<1>2. Keyed(R \cup {r}, v, e - 1) = Keyed(R, v, e - 1) BY <1>1, DaysOver
<1>3. Taken(R \cup {r}, v, e - n) <=> Taken(R, v, e - n) BY <1>1, DaysOver
<1>4. QED BY <1>2, <1>3 DEF Follows

\* What the rows in R say a user was paid.
Earned(R, v) == SumFunctionOnSet([s \in R |-> s.quota], {s \in R : s.user = v})

\* The wallet is credited with the quota of the new row.
LEMMA RowsAddUp ==
  ASSUME NEW R, IsFiniteSet(R), NEW r, r \notin R, \A s \in R \cup {r} : s.quota \in Int,
         NEW v
  PROVE  Earned(R \cup {r}, v) = Earned(R, v) + (IF r.user = v THEN r.quota ELSE 0)
<1> DEFINE f == [s \in R |-> s.quota]
           g == [s \in R \cup {r} |-> s.quota]
           A == {s \in R : s.user = v}
           B == {s \in R \cup {r} : s.user = v}
<1>1. IsFiniteSet(A) /\ A \subseteq R /\ r \notin A BY FS_Subset
<1>2. \A s \in A : f[s] \in Int /\ f[s] = g[s] OBVIOUS
<1>3. SumFunctionOnSet(f, A) = SumFunctionOnSet(g, A) /\ SumFunctionOnSet(g, A) \in Int
  <2>1. \A s \in A : g[s] \in Int BY <1>2
  <2> HIDE DEF f, g, A
  <2>2. QED BY <1>1, <1>2, <2>1, SumOfSame, SumIsInt
<1>4. CASE r.user = v
  <2>1. B = A \cup {r} /\ \A s \in A \cup {r} : g[s] \in Int BY <1>4
  <2>2. g[r] = r.quota OBVIOUS
  <2> HIDE DEF f, g, A, B
  <2>3. SumFunctionOnSet(g, A \cup {r}) = g[r] + SumFunctionOnSet(g, A)
    BY <1>1, <2>1, SumWith
  <2>4. g[r] \in Int BY <2>1
  <2>5. SumFunctionOnSet(g, B) = SumFunctionOnSet(f, A) + r.quota
    BY <1>3, <2>1, <2>2, <2>3, <2>4
  <2>6. QED BY <1>4, <2>5 DEF f, g, A, B, Earned
<1>5. CASE r.user # v
  <2>1. B = A BY <1>5
  <2> HIDE DEF f, g, A, B
  <2>2. SumFunctionOnSet(g, B) = SumFunctionOnSet(f, A) + 0 BY <1>3, <2>1
  <2>3. QED BY <1>5, <2>2 DEF f, g, A, B, Earned
<1>6. QED BY <1>4, <1>5

LEMMA WholeCommit ==
  ASSUME WholeInv, Inv', NEW c \in Claimers, Commit(c)
  PROVE  WholeInv'
<1> DEFINE u == claim[c].user
           d == claim[c].day
           n == claim[c].streak
           reward == PreviewReward(n)
           r == [id |-> Cardinality(rows) + 1, user |-> u, day |-> d, streak |-> n, quota |-> reward]
<1>0. Inv /\ claim[c].pc = "credit" BY DEF WholeInv, Commit
<1>1. /\ claim[c] \in Claim /\ u \in Users /\ d \in Int /\ n \in Nat /\ today \in Int
      /\ d <= today
  BY <1>0, ClaimDates, RowDates DEF WholeInv, Dated
<1>2. n >= 1 /\ ~Taken(rows, u, d) BY <1>0 DEF Inv, ClaimInv, Counted, Sole
<1>3. reward \in Nat BY <1>1, <1>2, <1>0, RewardNat DEF Inv, TypeOK
<1>4. r.user = u /\ r.day = d /\ r.streak = n /\ r.quota = reward OBVIOUS
<1>5. r \notin rows BY <1>2, <1>4 DEF Taken
<1>6. CASE Credit(c) /\ Ends(c, "claimed")
           /\ late' = IF d < today THEN late \cup {u} ELSE late
  <2>1. rows' = rows \cup {r} /\ wallet' = [wallet EXCEPT ![u] = @ + reward]
    BY <1>6 DEF Credit
  <2>2. UNCHANGED <<setting, today, info, promised>> BY DEF Commit
  <2> DEFINE w == [claim[c] EXCEPT !.pc = "reply", !.result = "claimed"]
  <2>3. w.pc = "reply" /\ w.day = d BY <1>1 DEF Claim
  <2>4. claim'[c] = w /\ \A b \in Claimers \ {c} : claim'[b] = claim[b]
    BY <1>6 DEF Ends, WholeInv, Inv, TypeOK
  <2>5. late \subseteq late' /\ (u \in late' \/ d = today) BY <1>1, <1>6
  <2> HIDE DEF r, w
  <2>6. ASSUME NEW v, v \notin late' PROVE v \notin late /\ (r.user # v \/ r.day = today)
    BY <2>5, <2>6, <1>4
  <2>7. Dated' BY <1>1, <1>4, <2>1, <2>2, <2>3, <2>4 DEF WholeInv, Dated
  <2>8. Priced'
    <3>1. \A s \in rows' : s.quota = PreviewReward(s.streak)
      BY <1>4, <2>1 DEF WholeInv, Priced
    <3>2. QED BY <2>2, <3>1, SameRewards DEF Priced
  <2>9. RowsFollow'
    <3>1. ASSUME NEW s \in rows', s.user \notin late' PROVE Follows(rows', s.user, s.day, s.streak)
      <4>1. s.user \notin late /\ (r.user # s.user \/ r.day = today) BY <2>6, <3>1
      <4>2. s.day \in Int /\ s.streak \in Nat /\ s.streak >= 1 /\ s.day <= today
        <5>1. CASE s \in rows BY <5>1, <1>0, RowDates DEF WholeInv, Dated, Inv, EarnedInv
        <5>2. CASE s = r BY <5>2, <1>1, <1>2, <1>4
        <5>3. QED BY <5>1, <5>2, <2>1
      <4>3. Follows(rows, s.user, s.day, s.streak)
        <5>1. CASE s \in rows BY <5>1, <4>1 DEF WholeInv, RowsFollow
        <5>2. CASE s = r
          <6>1. ClaimFollows(claim[c]) BY DEF WholeInv, ClaimsFollow
          <6>2. QED BY <6>1, <5>2, <4>1, <1>0, <1>4 DEF ClaimFollows
        <5>3. QED BY <5>1, <5>2, <2>1
      <4>4. QED BY <1>1, <2>1, <4>1, <4>2, <4>3, FollowsStays
    <3>2. QED BY <3>1 DEF RowsFollow
  <2>10. ClaimsFollow'
    <3>1. ASSUME NEW b \in Claimers, claim'[b].pc \in {"insert", "credit"}, claim'[b].user \notin late'
          PROVE  Follows(rows', claim'[b].user, claim'[b].day, claim'[b].streak)
      <4>0. b # c /\ claim'[b] = claim[b] BY <2>3, <2>4, <3>1
      <4>1. claim[b].user \notin late /\ (r.user # claim[b].user \/ r.day = today)
        BY <2>6, <3>1, <4>0
      <4>2. /\ claim[b].day \in Int /\ claim[b].streak \in Nat /\ claim[b].streak >= 1
            /\ claim[b].day <= today
        BY <1>0, <3>1, <4>0, ClaimDates DEF WholeInv, Dated, Inv, ClaimInv, Counted
      <4>3. Follows(rows, claim[b].user, claim[b].day, claim[b].streak)
        BY <3>1, <4>0, <4>1 DEF WholeInv, ClaimsFollow, ClaimFollows
      <4>4. Follows(rows', claim[b].user, claim[b].day, claim[b].streak)
        BY <1>1, <2>1, <4>1, <4>2, <4>3, FollowsStays
      <4>5. QED BY <4>0, <4>4
    <3>2. QED BY <3>1 DEF ClaimsFollow, ClaimFollows
  <2>11. PromisesFollow'
    <3>1. ASSUME NEW p \in promised, p.user \notin late'
          PROVE  p.reward = PreviewReward(NextStreak(Keyed(rows', p.user, p.day - 1)))
      <4>1. p.user \notin late /\ (r.user # p.user \/ r.day = today) BY <2>6, <3>1
      <4>2. p.day \in Int /\ p.day <= today
        BY <1>0, CheckinAssumption DEF WholeInv, Dated, Inv, TypeOK, Promise, Days
      <4>3. r.user # p.user \/ r.day # p.day - 1 BY <1>1, <4>1, <4>2
      <4>4. Keyed(rows', p.user, p.day - 1) = Keyed(rows, p.user, p.day - 1)
        BY <2>1, <4>3, DaysOver
      <4>5. QED BY <4>1, <4>4 DEF WholeInv, PromisesFollow
    <3>2. QED BY <2>2, <3>1, SameRewards DEF PromisesFollow
  <2>12. WalletIsSumOfRows'
    <3>1. ASSUME NEW v \in Users
          PROVE  wallet'[v] = SumFunctionOnSet([s \in rows' |-> s.quota], {s \in rows' : s.user = v})
      <4>1. wallet[v] = Earned(rows, v)
        BY DEF WholeInv, WalletIsSumOfRows, Earned
      <4>2. wallet[v] \in Nat /\ wallet'[v] = wallet[v] + (IF u = v THEN reward ELSE 0)
        BY <1>0, <1>3, <2>1 DEF Inv, TypeOK
      <4>3. \A s \in rows \cup {r} : s.quota \in Int BY <1>0, <1>3, <1>4, RowDates
      <4>4. IsFiniteSet(rows) BY <1>0 DEF Inv
      <4>5. Earned(rows \cup {r}, v) = Earned(rows, v) + (IF r.user = v THEN r.quota ELSE 0)
        BY <1>5, <4>3, <4>4, RowsAddUp
      <4>6. wallet'[v] = Earned(rows \cup {r}, v) BY <1>4, <4>1, <4>2, <4>5
      <4>7. QED BY <2>1, <4>6 DEF Earned
    <3>2. QED BY <3>1 DEF WalletIsSumOfRows
  <2>13. QED BY <2>7, <2>8, <2>9, <2>10, <2>11, <2>12 DEF WholeInv
<1>7. CASE Fails(c) /\ UNCHANGED <<rows, wallet, late>>
  <2>1. OnlyClaim BY <1>7 DEF Commit, OnlyClaim
  <2>2. QED BY <1>7, <2>1, WholeFails DEF Fails
<1>8. QED BY <1>6, <1>7 DEF Commit

-----------------------------------------------------------------------------
(* The other actions. *)

LEMMA WholeInfo ==
  ASSUME WholeInv, Inv', OnlyInfo, PromisesFollow',
         \A r \in Readers : info'[r].day <= today, \A p \in promised' : p.day <= today
  PROVE  WholeInv'
<1>1. UNCHANGED <<setting, today, rows, wallet, claim, late>> BY DEF OnlyInfo
<1>2. Dated' BY <1>1 DEF WholeInv, Dated
<1>3. ClaimsFollow' BY <1>1 DEF WholeInv, ClaimsFollow, ClaimFollows
<1>4. QED BY <1>1, <1>2, <1>3, WholeRowsStay DEF WholeInv

LEMMA WholeReaders ==
  ASSUME WholeInv, Inv', NEW r \in Readers,
         (\E u \in Users : GetCheckinInfo(r, u)) \/ InfoToday(r) \/ InfoYesterday(r)
  PROVE  WholeInv'
<1>1. OnlyInfo BY DEF GetCheckinInfo, InfoToday, InfoYesterday
<1>2. UNCHANGED <<setting, rows, late>> BY <1>1 DEF OnlyInfo
<1>3. today \in Int /\ info \in [Readers -> Info] /\ info[r].day <= today /\ info[r].day \in Int
  BY RowDates, CheckinAssumption DEF WholeInv, Dated, Inv, TypeOK, Info, Days
<1>4. \A q \in Readers : info'[q].day <= today
  BY <1>3 DEF WholeInv, Dated, GetCheckinInfo, InfoToday, InfoYesterday, Info
<1>5. CASE UNCHANGED promised
  <2>1. \A p \in promised' : p.day <= today BY <1>5 DEF WholeInv, Dated
  <2>2. PromisesFollow' BY <1>2, <1>5, PromisesStay
  <2>3. QED BY <1>1, <1>4, <2>1, <2>2, WholeInfo
<1>6. CASE InfoYesterday(r)
  <2> DEFINE u == info[r].user
             d == info[r].day
             K == Keyed(rows, u, d - 1)
             p == [user |-> u, day |-> d, reward |-> TodayReward(K)]
  <2>1. promised' = promised \cup {p} BY <1>6 DEF InfoYesterday, RowsOf, Keyed
  <2>2. TodayReward(K) = PreviewReward(NextStreak(K))
    <3>1. (IF K = {} THEN 0 ELSE (CHOOSE q \in K : TRUE).streak) + 1 = NextStreak(K)
      <4> HIDE DEF K
      <4>1. QED BY DEF NextStreak
    <3>2. QED BY <3>1 DEF TodayReward
  <2>3. p.user = u /\ p.day = d /\ p.reward = PreviewReward(NextStreak(Keyed(rows, p.user, p.day - 1)))
    BY <2>2
  <2> HIDE DEF p
  <2>4. \A q \in promised' : q.day <= today BY <1>3, <2>1, <2>3 DEF WholeInv, Dated
  <2>5. \A q \in promised' : q.user \notin late =>
          q.reward = PreviewReward(NextStreak(Keyed(rows, q.user, q.day - 1)))
    BY <2>1, <2>3 DEF WholeInv, PromisesFollow
  <2>6. PromisesFollow' BY <1>2, <2>5, SameRewards DEF PromisesFollow
  <2>7. QED BY <1>1, <1>4, <2>4, <2>6, WholeInfo
<1>7. QED BY <1>5, <1>6 DEF GetCheckinInfo, InfoToday

LEMMA WholeMidnight == ASSUME WholeInv, Inv', Midnight PROVE WholeInv'
<1>1. UNCHANGED <<setting, rows, wallet, claim, info, promised, late>> /\ today' = today + 1
  BY DEF Midnight
<1>2. today \in Int BY RowDates DEF WholeInv
<1>3. \A x \in Int : x <= today => x <= today' BY <1>1, <1>2
<1>4. /\ \A r \in rows : r.day \in Int
      /\ \A c \in Claimers : claim[c].day \in Int
      /\ \A r \in Readers : info[r].day \in Int
      /\ \A p \in promised : p.day \in Int
  BY RowDates, ClaimDates, CheckinAssumption DEF WholeInv, Inv, TypeOK, Info, Promise, Days
<1>5. Dated' BY <1>1, <1>3, <1>4 DEF WholeInv, Dated
<1>6. ClaimsFollow' BY <1>1 DEF WholeInv, ClaimsFollow, ClaimFollows
<1>7. QED BY <1>1, <1>5, <1>6, WholeRowsStay, PromisesStay DEF WholeInv

LEMMA WholeCrash == ASSUME WholeInv, Inv', Crash PROVE WholeInv'
<1>1. UNCHANGED <<setting, today, rows, wallet, promised, late>> BY DEF Crash
<1>2. \A c \in Claimers : claim'[c].pc = "idle" /\ claim'[c].day = claim[c].day
  <2>1. \A c \in Claimers : claim[c] \in Claim BY DEF WholeInv, Inv, TypeOK
  <2>2. \A c \in Claimers : claim'[c] = [claim[c] EXCEPT !.pc = "idle", !.streak = 0, !.result = "none"]
    BY DEF Crash
  <2>3. QED BY <2>1, <2>2 DEF Claim
<1>3. \A r \in Readers : info'[r].day = info[r].day
  <2>1. \A r \in Readers : info[r] \in Info BY DEF WholeInv, Inv, TypeOK
  <2>2. QED BY <2>1 DEF Crash, Info
<1>4. Dated' BY <1>1, <1>2, <1>3 DEF WholeInv, Dated
<1>5. ClaimsFollow' BY <1>2 DEF ClaimsFollow, ClaimFollows
<1>6. QED BY <1>1, <1>4, <1>5, WholeRowsStay, PromisesStay DEF WholeInv

LEMMA WholeInit == Init => WholeInv
<1> SUFFICES ASSUME Init PROVE WholeInv OBVIOUS
<1>1. Inv BY InitInv
<1>2. rows = {} /\ promised = {} /\ \A u \in Users : wallet[u] = 0 BY DEF Init
<1>3. Dated BY DEF Init, Dated
<1>4. ClaimsFollow BY DEF Init, ClaimsFollow, ClaimFollows
<1>5. WalletIsSumOfRows
  <2>1. \A u \in Users : {r \in rows : r.user = u} = {} BY <1>2
  <2>2. SumFunctionOnSet([r \in rows |-> r.quota], {}) = 0 BY SumOverNone
  <2>3. QED BY <1>2, <2>1, <2>2 DEF WalletIsSumOfRows
<1>6. Priced /\ RowsFollow /\ PromisesFollow BY <1>2 DEF Priced, RowsFollow, PromisesFollow
<1>7. QED BY <1>1, <1>3, <1>4, <1>5, <1>6 DEF WholeInv

LEMMA WholeStep == WholeInv /\ [Next]_vars => WholeInv'
<1> SUFFICES ASSUME WholeInv, [Next]_vars PROVE WholeInv' OBVIOUS
<1>1. Inv' BY StepInv DEF WholeInv
<1>2. CASE \E c \in Claimers : (\E u \in Users : DoCheckin(c, u)) \/ ReadToday(c) \/ Insert(c) \/ Reply(c)
  BY <1>1, <1>2, WholeReads
<1>3. CASE \E c \in Claimers : ReadYesterday(c) BY <1>1, <1>3, WholeReadYesterday
<1>4. CASE \E c \in Claimers : Commit(c) BY <1>1, <1>4, WholeCommit
<1>5. CASE \E r \in Readers : (\E u \in Users : GetCheckinInfo(r, u)) \/ InfoToday(r) \/ InfoYesterday(r)
  BY <1>1, <1>5, WholeReaders
<1>6. CASE Midnight BY <1>1, <1>6, WholeMidnight
<1>7. CASE Crash BY <1>1, <1>7, WholeCrash
<1>8. CASE UNCHANGED vars
  <2>1. Dated' /\ ClaimsFollow' BY <1>8 DEF vars, WholeInv, Dated, ClaimsFollow, ClaimFollows
  <2>2. QED BY <1>1, <1>8, <2>1, WholeRowsStay, PromisesStay DEF vars, WholeInv
<1>9. QED BY <1>2, <1>3, <1>4, <1>5, <1>6, <1>7, <1>8 DEF Next, ClaimStep

-----------------------------------------------------------------------------
\* The reward the page showed is what the claim of that day paid, a streak
\* counts every day of its run, and the wallet holds what the rows of table
\* checkins say, however the two requests and midnight interleave.
THEOREM CheckinsStayWhole == Spec => []CheckinsAreWhole
<1>1. ASSUME WholeInv PROVE CheckinsAreWhole
  <2>1. ASSUME NEW r \in rows, NEW p \in promised,
               r.user = p.user, r.day = p.day, r.user \notin late
        PROVE  r.quota = p.reward
    <3>1. r.streak = NextStreak(Keyed(rows, r.user, r.day - 1))
      BY <1>1, <2>1 DEF WholeInv, RowsFollow, Follows
    <3>2. QED BY <1>1, <2>1, <3>1 DEF WholeInv, Priced, PromisesFollow
  <2>2. ASSUME NEW r \in rows, r.user \notin late, Unbroken(r.user, r.day, r.streak + 1) PROVE FALSE
    <3>1. r.streak \in Nat BY <1>1, RowDates DEF WholeInv
    <3>2. r.streak \in 0 .. (r.streak + 1) - 1 BY <3>1
    <3>3. Taken(rows, r.user, r.day - r.streak) BY <2>2, <3>2, TakenRows DEF Unbroken
    <3>4. QED BY <1>1, <2>2, <3>3 DEF WholeInv, RowsFollow, Follows
  <2>3. PromiseKept BY <2>1 DEF PromiseKept
  <2>4. StreakIsWhole BY <2>2 DEF StreakIsWhole
  <2>5. QED BY <1>1, <2>3, <2>4 DEF WholeInv, Inv, CheckinsAreWhole
<1>2. Spec => []WholeInv BY WholeInit, WholeStep, PTL DEF Spec
<1>3. QED BY <1>1, <1>2, PTL

-----------------------------------------------------------------------------
(* All of them together.  Their composition implements each of the four: its *)
(* steps are steps of one and leave the others alone.  The orders are an     *)
(* instance of TopupOrder, and the theorems about them are taken from the    *)
(* same instance of its proofs, whose definitions are those of T.            *)

TP == INSTANCE TopupOrderProofs WITH
        Orders <- {o1, o2}, UserOf <- [o \in {o1, o2} |-> CHOOSE u \in Users : TRUE],
        GatewayOf <- [o \in {o1, o2} |-> IF o = o1 THEN "stripe" ELSE "epay"], Handlers <- Browsers,
        Prices <- {2}, LossyPrices <- {}, Payments <- {1, 2}, AsyncPayments <- TRUE,
        wallet <- orderWallet, credits <- orderCredits, lock <- orderLock, handler <- webhook,
        crashes <- orderCrashes, faults <- orderFaults

\* Both instances start alike.
LEMMA SameOrdersInit ==
  ASSUME T!Init
  PROVE  TP!Init
BY DEF T!Init, TP!Init, T!vars, TP!vars, T!Idle, TP!Idle, T!OrderRow, TP!OrderRow, T!Payment, 
       TP!Payment, T!Kinds, TP!Kinds, T!Events, TP!Events, T!Gateways, TP!Gateways, T!gateway, 
       TP!gateway

\* Both instances take the same steps.
LEMMA SameOrdersNext ==
  ASSUME T!Next
  PROVE  TP!Next
BY Zenon DEF T!Gateways, TP!Gateways, T!gateway, TP!gateway, T!vars, TP!vars, T!OrderRow, TP!OrderRow, 
       T!Payment, TP!Payment, T!Kinds, TP!Kinds, T!Events, TP!Events, T!Jobs, TP!Jobs, T!Results, 
       TP!Results, T!Handling, TP!Handling, T!Idle, TP!Idle, T!Request, TP!Request, T!CreateOrder, 
       TP!CreateOrder, T!Start, TP!Start, T!CreateOrderFails, TP!CreateOrderFails, T!Becomes, 
       TP!Becomes, T!PaidWith, TP!PaidWith, T!GatewayStep, TP!GatewayStep, T!Meaning, TP!Meaning, 
       T!Reported, TP!Reported, T!Deliver, TP!Deliver, T!AdminMark, TP!AdminMark, T!DecideComplete, 
       TP!DecideComplete, T!DecideFail, TP!DecideFail, T!Decision, TP!Decision, T!LockFree, 
       TP!LockFree, T!Begin, TP!Begin, T!Quota, TP!Quota, T!Credit, TP!Credit, T!MarkFailed, 
       TP!MarkFailed, T!Commit, TP!Commit, T!Accepted, TP!Accepted, T!Reply, TP!Reply, 
       T!HandlerStep, TP!HandlerStep, T!Crash, TP!Crash, T!Next, TP!Next

\* Both instances mean the same sums.
LEMMA SameOrdersSum ==
  ASSUME NEW f, NEW D
  PROVE  T!SumFunctionOnSet(f, D) = TP!SumFunctionOnSet(f, D)
BY DEF T!SumFunctionOnSet, TP!SumFunctionOnSet, T!FoldFunctionOnSet, TP!FoldFunctionOnSet,
       T!MapThenFoldSet, TP!MapThenFoldSet

\* Both instances promise the same.
LEMMA SameOrdersPromise ==
  ASSUME TP!OrdersAreWhole
  PROVE  T!OrdersAreWhole
<1>1. T!TypeOK
  BY DEF TP!OrdersAreWhole, T!TypeOK, TP!TypeOK, T!OrderRow, TP!OrderRow, T!Payment, TP!Payment, T!Events, TP!Events, 
       T!Kinds, TP!Kinds, T!Handling, TP!Handling, T!Jobs, TP!Jobs, T!Results, TP!Results
<1>2. T!CreditedOnce
  BY DEF TP!OrdersAreWhole, T!CreditedOnce, TP!CreditedOnce
<1>3. T!WalletIsSumOfOrders
  BY SameOrdersSum DEF TP!OrdersAreWhole, T!WalletIsSumOfOrders, TP!WalletIsSumOfOrders,
     T!Quota, TP!Quota
<1>4. T!AcknowledgedPaymentCredited
  BY DEF TP!OrdersAreWhole, T!AcknowledgedPaymentCredited, TP!AcknowledgedPaymentCredited,
     T!Settled, TP!Settled, T!PaidInFull, TP!PaidInFull, T!Kinds, TP!Kinds
<1>5. QED
  BY <1>1, <1>2, <1>3, <1>4 DEF T!OrdersAreWhole

\* A step of the composition is a step, or none, of each of the four.
LEMMA AccountsStep ==
  ASSUME [AllNext]_everything
  PROVE  /\ [AccountNext]_accountVars /\ [SignInNext]_signInVars /\ [Next]_vars
         /\ [TP!Next]_(TP!vars)
<1>1. UNCHANGED orderVars => UNCHANGED TP!vars
  BY DEF orderVars, TP!vars, TP!gateway
<1>2. CASE UNCHANGED everything
  BY <1>1, <1>2 DEF everything
<1>3. CASE AllNext
  <2>1. \/ AccountNext /\ UNCHANGED <<signInVars, vars, orderVars>>
        \/ SignInNext /\ UNCHANGED <<accountVars, vars, orderVars>>
        \/ Next /\ UNCHANGED <<accountVars, signInVars, orderVars>>
        \/ T!Next /\ UNCHANGED <<accountVars, signInVars, vars>>
    BY <1>3 DEF AllNext
  <2>2. QED BY <1>1, <2>1, SameOrdersNext
<1>4. QED BY <1>2, <1>3

\* Run beside one another, user rows, second factors, check-in and orders keep
\* every term the run checks, for any constants of the first three.
THEOREM AccountsKeepAllTheirTerms ==
  AllSpec => /\ [](/\ AccountsKeepTheirTerms /\ FactorsKeepTheirTerms /\ OneRewardPerDay
                   /\ StreakIsEarned /\ CheckinsAreWhole /\ OrdersAreWhole)
             /\ OrdersOnlyMoveOn
<1>1. AllInit => AccountInit /\ SignInInit /\ Init /\ TP!Init
  BY SameOrdersInit DEF AllInit
<1>2. AllSpec => AccountSpec
  BY <1>1, AccountsStep, PTL DEF AllSpec, AccountSpec
<1>3. AllSpec => SignInSpec
  BY <1>1, AccountsStep, PTL DEF AllSpec, SignInSpec
<1>4. AllSpec => Spec
  BY <1>1, AccountsStep, PTL DEF AllSpec, Spec
<1>5. AllSpec => TP!Spec
  BY <1>1, AccountsStep, PTL DEF AllSpec, TP!Spec
<1>6. TP!Spec => []TP!OrdersAreWhole
  BY TP!OrdersStayWhole, OrdersAssumption DEF TP!Gateways
<1>7. TP!Spec => TP!OrdersOnlyMoveOn
  BY TP!OrdersMoveOn, OrdersAssumption DEF TP!Gateways
<1>8. TP!OrdersAreWhole => OrdersAreWhole
  BY SameOrdersPromise DEF OrdersAreWhole
<1>9. TP!OrdersOnlyMoveOn => OrdersOnlyMoveOn
  BY PTL DEF OrdersOnlyMoveOn, T!OrdersOnlyMoveOn, TP!OrdersOnlyMoveOn, T!NoFreeCredit,
     TP!NoFreeCredit, T!FinishedIsFinal, TP!FinishedIsFinal, T!PaidInFull, TP!PaidInFull,
     T!vars, TP!vars, T!gateway, TP!gateway
<1>10. QED
  BY <1>2, <1>3, <1>4, <1>5, <1>6, <1>7, <1>8, <1>9, AccountsAreKept, FactorsGuardTheirAccount,
     OnePerDay, StreaksAreEarned, CheckinsStayWhole, PTL
=============================================================================
