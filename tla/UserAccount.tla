------------------------------ MODULE UserAccount ------------------------------
(***************************************************************************)
(* The table users and the handlers that write it.  User.Update sends      *)
(* every non-zero column of a struct: of a nearly empty one in UpdateSelf  *)
(* and UpdateUser, of a copy of the whole row in GenerateAccessToken,      *)
(* GetAffCode, ManageUser, EmailBind and the binding of an identity.       *)
(* Registration and sign-in by an identity provider check that a name, an  *)
(* e-mail or an identity is free and insert afterwards; only the name has  *)
(* a unique index.  The black list is a map in memory.                     *)
(***************************************************************************)
EXTENDS Integers, FiniteSets, FiniteSetsExt

CONSTANTS
  MaxUsers,       \* bound: ids are 1 .. MaxUsers, given out in order
  Forms,          \* requests being served at the same time
  Names, Emails, Idents,   \* user names, addresses and provider identities
  AdminEdits,     \* bodies an administrator sends to UpdateUser
  QuotaForNewUser, QuotaForInvitee, QuotaForInviter,
  None,           \* the empty string
  MaxRequests,    \* bound on the requests of a behaviour
  MaxRestarts, MaxRowErrors

VARIABLES
  user,           \* table users; the status of a free id is 0
  banned,         \* blacklist.blackList
  code,           \* unexpired entries of verificationMap
  form,           \* what each request is doing
  asked,          \* history: the row as the changes asked for would leave it
  stale,          \* history: columns in which an overtaken copy was written
  contended,      \* history: identities two open requests were about, an
                  \* administrator typed in, or an overtaken copy brought back
  raced,          \* history: users whose ban and row were written out of step
  promoted,       \* history: users a root made an administrator
  requests, restarts, rowErrors

accountVars == <<user, banned, code, form, asked, stale, contended, raced, promoted,
                 requests, restarts, rowErrors>>

Ids == 1 .. MaxUsers
Providers == {"github", "google", "oidc", "lark", "wechat"}
RoleCommonUser == 1
RoleAdminUser == 10
RoleRootUser == 100
UserStatusEnabled == 1
UserStatusDisabled == 2
UserStatusDeleted == 3

\* A struct model.User with zero values.
Blank == [name |-> None, pw |-> 0, role |-> 0, status |-> 0, email |-> None, github |-> None,
          google |-> None, oidc |-> None, lark |-> None, wechat |-> None, key |-> 0, quota |-> 0,
          aff |-> 0]
Cols == DOMAIN Blank

\* What an administrator sends has the columns of a user, each in its range.
ASSUME AccountAssumption ==
  /\ MaxUsers \in Nat /\ MaxUsers >= 2
  /\ QuotaForNewUser \in Nat /\ QuotaForInvitee \in Nat /\ QuotaForInviter \in Nat
  /\ \A body \in AdminEdits :
       /\ DOMAIN body = Cols /\ body.status \in 0 .. 3 /\ body.role \in {0, 1, 10, 100}
       /\ body.quota \in Nat /\ body.email \in Emails \cup {None}

UserRow(role, email, ident) ==
  [Blank EXCEPT !.role = role, !.status = UserStatusEnabled, !.email = email, !.github = ident,
                !.pw = 1, !.quota = 2, !.name = <<"old", role>>]
Idle == [pc |-> "idle", id |-> 0, copy |-> Blank, want |-> {}, dirty |-> {}, inviter |-> 0]

AccountInit ==
  /\ \E e \in Emails \cup {None}, i \in Idents \cup {None} :
       user = [u \in Ids |-> CASE u = 1 -> UserRow(RoleRootUser, None, None)
                               [] u = 2 -> UserRow(RoleCommonUser, e, i)
                               [] OTHER -> Blank]
  /\ banned = {} /\ code = {} /\ form = [f \in Forms |-> Idle] /\ asked = user
  /\ stale = [u \in Ids |-> {}] /\ contended = {} /\ raced = {} /\ promoted = {1}
  /\ requests = 0 /\ restarts = 0 /\ rowErrors = 0

-----------------------------------------------------------------------------
(* Rows and statements. *)

Exists(u) == user[u].status # 0
GetMaxUserId == Max({0} \cup {u \in Ids : Exists(u)})

(* Deliberately wrong variants of definitions below, used only to check     *)
(* that each property is able to fail.                                      *)

Saves(row, copy) == copy
TakenIfLive(col, v) ==
  Cardinality({u \in Ids : user[u][col] = v /\ user[u].status = UserStatusEnabled}) = 1
DeletedNotBanned(u, status) ==
  CASE status = UserStatusDisabled -> banned \cup {u}
    [] status = UserStatusEnabled  -> banned \ {u}
    [] OTHER                       -> banned
AnyAdminMayPromote(r, u) == user[u].role < RoleAdminUser

(* The statements themselves. *)

\* What DB.Model(user).Updates(user) makes of a row.
Updates(row, copy) == [c \in Cols |-> IF copy[c] = Blank[c] THEN row[c] ELSE copy[c]]

\* "Taken" is "exactly one row has it"; the rows of deleted users count.
IsTaken(col, v) == Cardinality({u \in Ids : user[u][col] = v}) = 1

\* The name alone has a unique index among the columns followed here.
NameFree(v) == \A u \in Ids : user[u].name # v

\* blacklist.BanUser and UnbanUser as User.Update calls them.
BanEffect(u, status) ==
  CASE status \in {UserStatusDisabled, UserStatusDeleted} -> banned \cup {u}
    [] status = UserStatusEnabled                         -> banned \ {u}
    [] OTHER                                              -> banned

-----------------------------------------------------------------------------
(* Requests. *)

NewRequest == requests < MaxRequests /\ requests' = requests + 1
Version == requests + 1      \* a password, key or code nobody had before

\* f starts to change the columns of d in the row of u, holding the copy c.
Open(f, pc, u, c, d, inviter) ==
  /\ form[f].pc = "idle" /\ NewRequest
  /\ form' = [form EXCEPT ![f] = [pc |-> pc, id |-> u, copy |-> c, want |-> d, dirty |-> {},
                                  inviter |-> inviter]]
  /\ contended' = contended \cup
       {<<p, c[p]>> : p \in {q \in Providers \cap d : c[q] # None /\
          \E g \in Forms : form[g].pc # "idle" /\ q \in form[g].want /\ form[g].copy[q] = c[q]}}
  /\ UNCHANGED <<user, banned, code, asked, stale, raced, promoted, restarts, rowErrors>>

\* A whole copy of u's row with column c set to v.
Edits(f, u, c, v) == Exists(u) /\ Open(f, "update", u, [user[u] EXCEPT ![c] = v], {c}, 0)

GenerateAccessToken(f, u) == Edits(f, u, "key", Version)
GetAffCode(f, u) == user[u].aff = 0 /\ Edits(f, u, "aff", 1)

\* The code is not consumed, and whether the address is free was asked when
\* the code was sent.
EmailBind(f, u, e) == <<"v", e>> \in code /\ Edits(f, u, "email", e)

UpdateSelf(f, u) ==
  Exists(u) /\ Open(f, "update", u, [Blank EXCEPT !.pw = Version], {"pw"}, 0)

\* r is the role in the administrator's session.
MayManage(r, u) == r > user[u].role \/ r = RoleRootUser

UpdateUser(f, r, u, body) ==
  /\ Exists(u) /\ MayManage(r, u) /\ (r > body.role \/ r = RoleRootUser)
  /\ promoted' = IF body.role >= RoleAdminUser /\ r = RoleRootUser THEN promoted \cup {u} ELSE promoted
  /\ form[f].pc = "idle" /\ NewRequest
  /\ form' = [form EXCEPT ![f] = [Idle EXCEPT !.pc = "update", !.id = u, !.copy = body,
                                              !.want = {c \in Cols : body[c] # Blank[c]}]]
  /\ contended' = contended \cup {<<p, body[p]>> : p \in {q \in Providers : body[q] # None}}
  /\ UNCHANGED <<user, banned, code, asked, stale, raced, restarts, rowErrors>>

MayPromote(r, u) == r = RoleRootUser /\ user[u].role < RoleAdminUser

Promote(f, r, u) ==
  /\ Exists(u) /\ MayManage(r, u) /\ MayPromote(r, u)
  /\ promoted' = IF r = RoleRootUser THEN promoted \cup {u} ELSE promoted
  /\ form[f].pc = "idle" /\ NewRequest
  /\ form' = [form EXCEPT ![f] = [Idle EXCEPT !.pc = "update", !.id = u, !.want = {"role"},
                                              !.copy = [user[u] EXCEPT !.role = RoleAdminUser]]]
  /\ UNCHANGED <<user, banned, code, asked, stale, contended, raced, restarts, rowErrors>>

\* The other actions of ManageUser; "delete" calls User.Delete on the copy and
\* then User.Update, so the row is written twice.
ManageUser(f, r, u, action) ==
  /\ Exists(u) /\ MayManage(r, u)
  /\ \/ action = "disable" /\ user[u].role # RoleRootUser /\ Edits(f, u, "status", UserStatusDisabled)
     \/ action = "enable" /\ Edits(f, u, "status", UserStatusEnabled)
     \/ /\ action = "delete" /\ user[u].role # RoleRootUser
        /\ Open(f, "delete", u, [user[u] EXCEPT !.status = UserStatusDeleted,
                                                !.name = <<"deleted", Version>>], {"status", "name"}, 0)
     \/ action = "demote" /\ user[u].role = RoleAdminUser /\ Edits(f, u, "role", RoleCommonUser)

\* DeleteUser, DeleteSelf: a struct with the id alone.
DeleteUserById(f, u) ==
  /\ Exists(u) /\ user[u].role # RoleRootUser
  /\ Open(f, "update", u, [Blank EXCEPT !.status = UserStatusDeleted, !.name = <<"deleted", Version>>],
          {"status", "name"}, 0)

-----------------------------------------------------------------------------
(* The steps of User.Update, User.Delete and User.Insert. *)

RowError == rowErrors < MaxRowErrors /\ rowErrors' = rowErrors + 1

\* Other requests that work on a copy of u's row have been overtaken in cols.
Overtake(f, u, cols, next) ==
  form' = [g \in Forms |-> CASE g = f -> next
             [] g # f /\ form[g].id = u -> [form[g] EXCEPT !.dirty = @ \cup cols]
             [] OTHER -> form[g]]

\* First the black list ...
Ban(f) ==
  LET u == form[f].id IN
  /\ form[f].pc \in {"update", "delete"}
  /\ banned' = BanEffect(u, form[f].copy.status)
  /\ form' = [form EXCEPT ![f].pc = IF @ = "delete" THEN "write twice" ELSE "write"]
  /\ raced' = IF \E g \in Forms \ {f} : form[g].id = u /\ form[g].pc \in {"write", "write twice"}
              THEN raced \cup {u} ELSE raced
  /\ UNCHANGED <<user, code, asked, stale, contended, promoted, requests, restarts, rowErrors>>

\* ... then the row.
Update(f) ==
  LET u == form[f].id  new == Updates(user[u], form[f].copy)  want == form[f].want IN
  /\ form[f].pc \in {"write", "write twice"}
  /\ \/ /\ \A v \in Ids \ {u} : user[v].name # new.name
        /\ user' = [user EXCEPT ![u] = new]
        /\ asked' = [asked EXCEPT ![u] = [c \in Cols |-> IF c \in want THEN new[c] ELSE @[c]]]
        /\ stale' = [stale EXCEPT ![u] = (@ \ want) \cup
                       {c \in form[f].dirty \ want : new[c] # asked[u][c]}]
        /\ contended' = contended \cup
             {<<p, new[p]>> : p \in {q \in Providers \ want : new[q] # user[u][q]}}
        /\ Overtake(f, u, want \cup {c \in Cols : new[c] # user[u][c]},
                    IF form[f].pc = "write" THEN Idle ELSE [form[f] EXCEPT !.pc = "write"])
        /\ UNCHANGED <<raced, rowErrors>>
     \/ /\ RowError /\ raced' = raced \cup {u}
        /\ form' = [form EXCEPT ![f] = Idle]
        /\ UNCHANGED <<user, asked, stale, contended>>
  /\ UNCHANGED <<banned, code, promoted, requests, restarts>>

\* A relative change of users.quota: IncreaseUserQuota and DecreaseUserQuota,
\* AdminTopUp, and the whole billing side.
AddQuota(u, d) ==
  /\ Exists(u) /\ NewRequest /\ user[u].quota + d \in Nat
  /\ user' = [user EXCEPT ![u].quota = @ + d] /\ asked' = [asked EXCEPT ![u].quota = @ + d]
  /\ form' = [g \in Forms |-> IF form[g].id = u THEN [form[g] EXCEPT !.dirty = @ \cup {"quota"}]
                                                ELSE form[g]]
  /\ UNCHANGED <<banned, code, stale, contended, raced, promoted, restarts, rowErrors>>

-----------------------------------------------------------------------------
(* Registration and identities. *)

NewUser(name, email) ==
  [Blank EXCEPT !.name = name, !.email = email, !.pw = Version, !.role = RoleCommonUser,
                !.status = UserStatusEnabled, !.key = Version, !.aff = 1, !.quota = QuotaForNewUser]

\* With EmailVerificationEnabled an address comes with its code.
Register(f, name, email, verified, inviter) ==
  /\ verified => email # None /\ <<"v", email>> \in code
  /\ ~IsTaken("name", <<"own", name>>)
  /\ email = None \/ ~IsTaken("email", email)
  /\ Open(f, "insert", 0, NewUser(<<"own", name>>, email), Cols, inviter)

CreateUser(f, name) == Open(f, "insert", 0, NewUser(<<"own", name>>, None), Cols, 0)

\* What a provider says of the code a browser brings: an identity, or None
\* when a request to it fails or its answer is unusable.
getGitHubUserInfoByCode == Idents \cup {None}
getGoogleUserInfoByCode == Idents \cup {None}
getOidcUserInfoByCode == Idents \cup {None}
getLarkUserInfoByCode == Idents \cup {None}
getWeChatIdByCode == Idents \cup {None}

\* A visitor nobody knows is registered; a known one signs in, which changes
\* no row.  The generated name needs one more query.
SignUp(f, p, i, email) ==
  /\ i # None /\ ~IsTaken(p, i)
  /\ Open(f, "name", 0, [NewUser(None, email) EXCEPT ![p] = i, !.pw = 0], Cols, 0)

GitHubOAuth(f, i, email) == i \in getGitHubUserInfoByCode /\ SignUp(f, "github", i, email)
GoogleAuth(f, i, email) == i \in getGoogleUserInfoByCode /\ SignUp(f, "google", i, email)
OidcAuth(f, i, email) == i \in getOidcUserInfoByCode /\ SignUp(f, "oidc", i, email)
LarkOAuth(f, i) == i \in getLarkUserInfoByCode /\ SignUp(f, "lark", i, None)
WeChatAuth(f, i) == i \in getWeChatIdByCode /\ SignUp(f, "wechat", i, None)

\* A signed-in user adds an identity: the check and the copy of the row are
\* two queries that nobody else's write can tell apart.
Bind(f, p, u, i) == i # None /\ ~IsTaken(p, i) /\ Edits(f, u, p, i)

GitHubBind(f, u, i) == i \in getGitHubUserInfoByCode /\ Bind(f, "github", u, i)
GoogleBind(f, u, i) == i \in getGoogleUserInfoByCode /\ Bind(f, "google", u, i)
OidcBind(f, u, i) == i \in getOidcUserInfoByCode /\ Bind(f, "oidc", u, i)
LarkBind(f, u, i) == i \in getLarkUserInfoByCode /\ Bind(f, "lark", u, i)
WeChatBind(f, u, i) == i \in getWeChatIdByCode /\ Bind(f, "wechat", u, i)

\* generatedUsernameFromGoogle and its like: provider and the next id.
GenerateName(f) ==
  /\ form[f].pc = "name"
  /\ form' = [form EXCEPT ![f].pc = "insert", ![f].copy.name = <<"next", GetMaxUserId + 1>>]
  /\ UNCHANGED <<user, banned, code, asked, stale, contended, raced, promoted, requests, restarts, rowErrors>>

\* User.Insert: the row, then what an invitation earns.
InsertUser(f) ==
  LET u == GetMaxUserId + 1  v == form[f].inviter
      row == [form[f].copy EXCEPT !.quota = @ + (IF v = 0 THEN 0 ELSE QuotaForInvitee)]
      Rewarded(t) == [t EXCEPT ![v].quota = @ + QuotaForInviter] IN
  /\ form[f].pc = "insert"
  /\ IF NameFree(form[f].copy.name)
     THEN /\ u \in Ids
          /\ user' = [(IF v = 0 THEN user ELSE Rewarded(user)) EXCEPT ![u] = row]
          /\ asked' = [(IF v = 0 THEN asked ELSE Rewarded(asked)) EXCEPT ![u] = row]
          /\ Overtake(f, v, {"quota"}, Idle)
     ELSE form' = [form EXCEPT ![f] = Idle] /\ UNCHANGED <<user, asked>>
  /\ UNCHANGED <<banned, code, stale, contended, raced, promoted, requests, restarts, rowErrors>>

-----------------------------------------------------------------------------
(* Codes by mail. *)

SendEmailVerification(e) ==
  /\ ~IsTaken("email", e) /\ NewRequest /\ code' = code \cup {<<"v", e>>}
  /\ UNCHANGED <<user, banned, form, asked, stale, contended, raced, promoted, restarts, rowErrors>>

SendPasswordResetEmail(e) ==
  /\ IsTaken("email", e) /\ NewRequest /\ code' = code \cup {<<"r", e>>}
  /\ UNCHANGED <<user, banned, form, asked, stale, contended, raced, promoted, restarts, rowErrors>>

\* Every row with the address gets the new password; the code is deleted.
ResetPassword(e) ==
  LET with == {u \in Ids : user[u].email = e}
      Reset(t) == [u \in Ids |-> IF u \in with THEN [t[u] EXCEPT !.pw = Version] ELSE t[u]] IN
  /\ <<"r", e>> \in code /\ NewRequest /\ code' = code \ {<<"r", e>>}
  /\ user' = Reset(user) /\ asked' = Reset(asked)
  /\ stale' = [u \in Ids |-> IF u \in with THEN stale[u] \ {"pw"} ELSE stale[u]]
  /\ form' = [g \in Forms |-> IF form[g].id \in with THEN [form[g] EXCEPT !.dirty = @ \cup {"pw"}]
                                                     ELSE form[g]]
  /\ UNCHANGED <<banned, contended, raced, promoted, restarts, rowErrors>>

\* Ten minutes pass, and the next registration sweeps the map.
CodeExpires(k) ==
  /\ k \in code /\ code' = code \ {k}
  /\ UNCHANGED <<user, banned, form, asked, stale, contended, raced, promoted, requests, restarts, rowErrors>>

\* The process dies: the black list, the codes and the requests were in it.
Restart ==
  /\ restarts < MaxRestarts /\ restarts' = restarts + 1
  /\ banned' = {} /\ code' = {} /\ form' = [f \in Forms |-> Idle]
  /\ UNCHANGED <<user, asked, stale, contended, raced, promoted, requests, rowErrors>>

-----------------------------------------------------------------------------
Admins == {RoleAdminUser, RoleRootUser}

Identity(f) ==
  \E i \in Idents \cup {None}, u \in Ids :
    \/ \E e \in Emails \cup {None} : GitHubOAuth(f, i, e) \/ GoogleAuth(f, i, e) \/ OidcAuth(f, i, e)
    \/ LarkOAuth(f, i) \/ WeChatAuth(f, i)
    \/ GitHubBind(f, u, i) \/ GoogleBind(f, u, i) \/ OidcBind(f, u, i)
    \/ LarkBind(f, u, i) \/ WeChatBind(f, u, i)

AccountNext ==
  \/ \E f \in Forms :
       \/ Ban(f) \/ Update(f) \/ GenerateName(f) \/ InsertUser(f) \/ Identity(f)
       \/ \E u \in Ids :
            \/ GenerateAccessToken(f, u) \/ GetAffCode(f, u) \/ UpdateSelf(f, u) \/ DeleteUserById(f, u)
            \/ \E e \in Emails : EmailBind(f, u, e)
            \/ \E r \in Admins : \/ Promote(f, r, u)
                                 \/ \E body \in AdminEdits : UpdateUser(f, r, u, body)
                                 \/ \E a \in {"disable", "enable", "delete", "demote"} : ManageUser(f, r, u, a)
       \/ \E n \in Names : \/ CreateUser(f, n)
                           \/ \E e \in Emails \cup {None}, b \in BOOLEAN, v \in 0 .. 2 : Register(f, n, e, b, v)
  \/ \E u \in Ids, d \in {-1, 1} : AddQuota(u, d)
  \/ \E e \in Emails : SendEmailVerification(e) \/ SendPasswordResetEmail(e) \/ ResetPassword(e)
  \/ \E k \in code : CodeExpires(k)
  \/ Restart

AccountSpec == AccountInit /\ [][AccountNext]_accountVars

-----------------------------------------------------------------------------
(* Properties. *)

\* Every variable has its type.
AccountTypeOK ==
  /\ \A u \in Ids : /\ DOMAIN user[u] = Cols /\ DOMAIN asked[u] = Cols /\ stale[u] \subseteq Cols
                    /\ user[u].status \in 0 .. 3 /\ user[u].role \in {0, 1, 10, 100}
                    /\ user[u].quota \in Nat /\ user[u].email \in Emails \cup {None}
  /\ banned \subseteq Ids /\ code \subseteq {"v", "r"} \X Emails
  /\ \A f \in Forms : form[f].id \in 0 .. MaxUsers

\* A column holds what the requests that were about it made of it, unless a
\* copy of the row read before one of them was written back after it: an edit
\* that is not overtaken loses no payment, ban, password or role.
RowIsWhatWasAsked ==
  \A u \in Ids, c \in Cols : c \in stale[u] \/ user[u][c] = asked[u][c]

\* Two accounts share an identity of a provider only if two requests about it
\* were open at once, an overtaken copy brought it back, or an administrator
\* typed it in.
SharedIdentityWasContended ==
  \A p \in Providers, u, v \in Ids :
    u # v /\ user[u][p] # None /\ user[u][p] = user[v][p] => <<p, user[u][p]>> \in contended

\* While nobody is writing a user's row, a banned user is not enabled, and one
\* disabled or deleted since the server started is banned, unless two writers
\* interleaved their ban and their row or a statement failed in between.
BanListFollowsRows ==
  \A u \in Ids \ raced : (\A f \in Forms : form[f].id # u) =>
    /\ u \in banned => user[u].status # UserStatusEnabled
    /\ restarts = 0 /\ user[u].status \in {UserStatusDisabled, UserStatusDeleted} => u \in banned

\* Only a root makes administrators, whatever old copies are written back.
AdminsWerePromoted == \A u \in Ids : user[u].role >= RoleAdminUser => u \in promoted

\* An account in the table is what was asked for it, identities are shared and
\* the ban list is off only where requests raced, and only the root user makes
\* administrators.
AccountsKeepTheirTerms ==
  /\ AccountTypeOK
  /\ RowIsWhatWasAsked /\ SharedIdentityWasContended /\ BanListFollowsRows /\ AdminsWerePromoted
=============================================================================
