-------------------------------- MODULE SignIn --------------------------------
(***************************************************************************)
(* Sign-in: the password step that parks an account on the session until a *)
(* second factor is shown, the TOTP secret and backup codes of the user    *)
(* row, the passkeys and their counters, and the cookie session that       *)
(* authHelper trusts.  A handler reads the row (or the passkeys) first and *)
(* writes later, so handlers of two browsers interleave in between.  The   *)
(* WebAuthn library and the authenticators are modelled from their use.    *)
(***************************************************************************)
EXTENDS Integers, FiniteSets

CONSTANTS
  Browsers,            \* cookie jars
  Keys,                \* WebAuthn credentials
  Accounts,            \* user ids, positive
  NoKey,               \* no credential
  BackupCodeCount,
  MaxGenerations,      \* bound on the secrets and code batches handed out
  MaxAssertions,       \* bound on what an authenticator signs
  MaxEvents            \* bound on sign-ins, sign-outs, removals, settings, restarts

ASSUME SignInAssumption ==
  /\ 0 \notin Accounts /\ NoKey \notin Keys
  /\ BackupCodeCount \in Nat /\ MaxGenerations \in Nat /\ MaxAssertions \in Nat /\ MaxEvents \in Nat

VARIABLES
  row,        \* users: status, two_fa_secret, two_fa_enabled, backup_codes
  barred,     \* blacklist.blackList
  passkey,    \* passkey_credentials by credential_id; owner 0: no row
  passkeySetting, \* passkey_setting: "off", "incomplete" or "valid"
  session,    \* the cookie of each browser
  op,         \* the request each browser has under way
  device,     \* the counter of each authenticator
  generation, \* secrets and code batches handed out so far
  events,
  uses,       \* history: how often each backup code was accepted
  confirmed,  \* history: secrets a code was shown for
  deleting,   \* accounts between the two halves of User.Delete
  overtaken,       \* history: accounts deleted under a registration or a restart
  lapped,     \* history: accounts written while a handler held an older copy
  crossed,    \* history: passkeys with two ceremonies in flight at once
  refused     \* history: passkeys an honest authenticator was refused with

signInVars == <<row, barred, passkey, passkeySetting, session, op, device, generation, events,
                uses, confirmed, deleting, overtaken, lapped, crossed, refused>>

Codes == (1 .. MaxGenerations) \X (1 .. BackupCodeCount)
Totp(secret) == <<secret, 0>>       \* what the authenticator app shows
Factors == Codes \cup {Totp(v) : v \in 1 .. MaxGenerations}
TotpKinds == {"enable", "disable", "regenerate", "login"}
SignedOut == [id |-> 0, status |-> "", pending |-> 0, for |-> 0, allowed |-> {}, reg |-> 0]
NoOp == [pc |-> "idle", kind |-> "", id |-> 0, copy |-> {}, code |-> Totp(0), key |-> NoKey,
         count |-> 0]

SignInInit ==
  /\ row = [u \in Accounts |-> [status |-> "enabled", secret |-> 0, enabled |-> FALSE, codes |-> {}]]
  /\ barred = {} /\ passkey = [k \in Keys |-> [owner |-> 0, count |-> 0]] /\ passkeySetting = "valid"
  /\ session = [b \in Browsers |-> SignedOut] /\ op = [b \in Browsers |-> NoOp]
  /\ device = [k \in Keys |-> 0] /\ generation = 0 /\ events = 0
  /\ uses = [c \in Codes |-> 0] /\ confirmed = {} /\ lapped = {} /\ deleting = {} /\ overtaken = {}
  /\ crossed = {} /\ refused = {}

-----------------------------------------------------------------------------
(* Deliberately wrong variants of definitions below, used only to check     *)
(* that each property is able to fail.                                      *)

KeepsCode(stored, code) == stored
IgnoresSecret(f, secret) == secret # 0 /\ f[2] = 0
StricterClone(n, stored) == n <= stored + 1
PurgeNothing(u) == passkey

-----------------------------------------------------------------------------
(* Helpers. *)

ListPasskeysByUserId(u) == {k \in Keys : passkey[k].owner = u}
HasPasskey(u) == ListPasskeysByUserId(u) # {}

\* authHelper: the session's status is the one at sign-in; only the black list
\* is current.
Admitted(b) == session[b].id # 0 /\ session[b].status # "disabled" /\ session[b].id \notin barred

\* A TOTP code of the secret that was just read.
Validate(f, secret) == secret # 0 /\ f = Totp(secret)

ConsumeBackupCode(stored, code) == stored \ {code}

\* ensurePasskeyEnabled and buildWebauthn.
PasskeysServed == passkeySetting = "valid"

\* The library: a counter that does not grow marks a clone.
CloneWarning(n, stored) == n <= stored

\* SetupLogin, on the cookie s.
SetupLogin(s, u) == [s EXCEPT !.id = u, !.status = row[u].status]

\* A write to u's factors: handlers of other browsers hold older copies.
Lap(b, u) == lapped' = IF \E c \in Browsers \ {b} : op[c].id = u /\ op[c].kind \in TotpKinds
                       THEN lapped \cup {u} ELSE lapped

\* Another ceremony with k begins.
Cross(k) == crossed' = IF \E c \in Browsers : op[c].key = k THEN crossed \cup {k} ELSE crossed

Free(b) == op[b].pc = "idle"
Settle(b) == op' = [op EXCEPT ![b] = NoOp]

-----------------------------------------------------------------------------
(* The password step and the session. *)

\* ValidateAndFill has accepted the password of u.
Login(b, u) ==
  /\ Free(b) /\ events < MaxEvents /\ events' = events + 1 /\ row[u].status = "enabled"
  /\ session' = [session EXCEPT ![b] = IF row[u].enabled \/ HasPasskey(u)
                                       THEN [@ EXCEPT !.pending = u] ELSE SetupLogin(@, u)]
  /\ UNCHANGED <<row, barred, passkey, passkeySetting, op, device, generation, uses, confirmed, lapped,
                 crossed, refused, deleting, overtaken>>

\* Logout, or authHelper refusing a session.
Clear(b) ==
  /\ Free(b) /\ events < MaxEvents /\ events' = events + 1 /\ session[b].id # 0
  /\ session' = [session EXCEPT ![b] = SignedOut]
  /\ UNCHANGED <<row, barred, passkey, passkeySetting, op, device, generation, uses, confirmed, lapped,
                 crossed, refused, deleting, overtaken>>

-----------------------------------------------------------------------------
(* TOTP and backup codes. *)

NewBatch == {c \in Codes : c[1] = generation + 1}
SetFactors(u, secret, enabled, codes) ==
  row' = [row EXCEPT ![u] = [status |-> @.status, secret |-> secret, enabled |-> enabled, codes |-> codes]]

\* One statement that does not depend on what was read.
Setup2FA(b) ==
  LET u == session[b].id IN
  /\ Free(b) /\ Admitted(b) /\ generation < MaxGenerations /\ generation' = generation + 1
  /\ SetFactors(u, generation + 1, FALSE, NewBatch) /\ Lap(b, u)
  /\ UNCHANGED <<barred, passkey, passkeySetting, session, op, device, events, uses, confirmed, crossed,
                 refused, deleting, overtaken>>

\* The handlers that read the row and check a factor f against the copy; a
\* backup code is consumed before the handler goes on.
Check(b, kind, u, f) ==
  /\ Free(b)
  /\ \/ /\ Validate(f, row[u].secret)
        /\ op' = [op EXCEPT ![b] = [NoOp EXCEPT !.pc = "write", !.kind = kind, !.id = u, !.code = f]]
     \/ /\ kind # "enable" /\ f \in row[u].codes
        /\ op' = [op EXCEPT ![b] = [NoOp EXCEPT !.pc = "consume", !.kind = kind, !.id = u,
                                                !.copy = row[u].codes, !.code = f]]
  /\ UNCHANGED <<row, barred, passkey, passkeySetting, session, device, generation, events, uses, confirmed,
                 lapped, crossed, refused, deleting, overtaken>>

Enable2FA(b, f) == Admitted(b) /\ Check(b, "enable", session[b].id, f)
Disable2FA(b, f) == Admitted(b) /\ row[session[b].id].enabled /\ Check(b, "disable", session[b].id, f)
RegenerateBackupCodes(b, f) ==
  /\ Admitted(b) /\ row[session[b].id].enabled /\ generation < MaxGenerations
  /\ Check(b, "regenerate", session[b].id, f)
Verify2FALogin(b, f) ==
  /\ session[b].pending # 0 /\ row[session[b].pending].enabled
  /\ Check(b, "login", session[b].pending, f)

\* Verify2FALogin of an account without TOTP signs in at once.
PromoteWithoutTotp(b) ==
  LET u == session[b].pending IN
  /\ Free(b) /\ u # 0 /\ ~row[u].enabled
  /\ session' = [session EXCEPT ![b] = SetupLogin([@ EXCEPT !.pending = 0], u)]
  /\ UNCHANGED <<row, barred, passkey, passkeySetting, op, device, generation, events, uses, confirmed,
                 lapped, crossed, refused, deleting, overtaken>>

\* verifyTOTPOrBackup writes the list it read without the code.
Consume(b) ==
  LET u == op[b].id IN
  /\ op[b].pc = "consume"
  /\ row' = [row EXCEPT ![u].codes = ConsumeBackupCode(op[b].copy, op[b].code)]
  /\ Lap(b, u) /\ uses' = [uses EXCEPT ![op[b].code] = @ + 1]
  /\ op' = [op EXCEPT ![b].pc = "write"]
  /\ UNCHANGED <<barred, passkey, passkeySetting, session, device, generation, events, confirmed,
                 crossed, refused, deleting, overtaken>>

Finish2FA(b) ==
  LET u == op[b].id IN
  /\ op[b].pc = "write" /\ Settle(b)
  /\ \/ /\ op[b].kind = "enable" /\ row' = [row EXCEPT ![u].enabled = TRUE]
        /\ confirmed' = confirmed \cup {op[b].code[1]} /\ Lap(b, u)
        /\ UNCHANGED <<session, generation>>
     \/ /\ op[b].kind = "disable" /\ SetFactors(u, 0, FALSE, {}) /\ Lap(b, u)
        /\ UNCHANGED <<session, generation, confirmed>>
     \/ /\ op[b].kind = "regenerate" /\ generation < MaxGenerations /\ generation' = generation + 1
        /\ row' = [row EXCEPT ![u].codes = NewBatch] /\ Lap(b, u)
        /\ UNCHANGED <<session, confirmed>>
     \/ /\ op[b].kind = "login"
        /\ session' = [session EXCEPT ![b] = SetupLogin([@ EXCEPT !.pending = 0], u)]
        /\ UNCHANGED <<row, generation, confirmed, lapped, deleting, overtaken>>
  /\ UNCHANGED <<barred, passkey, passkeySetting, device, events, uses, crossed, refused, deleting,
                 overtaken>>

-----------------------------------------------------------------------------
(* Passkeys. *)

\* An administrator edits passkey_setting.
SetPasskeySetting(v) ==
  /\ v # passkeySetting /\ passkeySetting' = v /\ events < MaxEvents /\ events' = events + 1
  /\ UNCHANGED <<row, barred, passkey, session, op, device, generation, uses, confirmed, lapped,
                 crossed, refused, deleting, overtaken>>

BeginRegisterPasskey(b) ==
  /\ Free(b) /\ Admitted(b) /\ PasskeysServed /\ session[b].reg = 0
  /\ session' = [session EXCEPT ![b].reg = session[b].id]
  /\ UNCHANGED <<row, barred, passkey, passkeySetting, op, device, generation, events, uses, confirmed,
                 lapped, crossed, refused, deleting, overtaken>>

\* The user is read and the attestation verified; the row follows.
FinishRegisterPasskey(b, k) ==
  /\ Free(b) /\ Admitted(b) /\ PasskeysServed /\ session[b].reg = session[b].id
  /\ Cross(k)
  /\ overtaken' = IF session[b].id \in deleting THEN overtaken \cup deleting ELSE overtaken
  /\ op' = [op EXCEPT ![b] = [pc |-> "insert", kind |-> "register", id |-> session[b].id, copy |-> {},
                              code |-> Totp(0), key |-> k, count |-> device[k]]]
  /\ UNCHANGED <<row, barred, passkey, passkeySetting, session, device, generation, events, uses,
                 confirmed, lapped, refused, deleting>>

CreatePasskey(b) ==
  LET k == op[b].key IN
  /\ op[b].pc = "insert" /\ Settle(b)
  /\ IF passkey[k].owner = 0
     THEN /\ passkey' = [passkey EXCEPT ![k] = [owner |-> op[b].id, count |-> op[b].count]]
          /\ session' = [session EXCEPT ![b].reg = 0]
     ELSE UNCHANGED <<passkey, session>>
  /\ UNCHANGED <<row, barred, passkeySetting, device, generation, events, uses, confirmed, lapped,
                 crossed, refused, deleting, overtaken>>

\* A challenge for u; without passkeys it names none and validates nothing.
Challenge(b, u) ==
  /\ Free(b) /\ PasskeysServed
  /\ session' = [session EXCEPT ![b].for = u, ![b].allowed = ListPasskeysByUserId(u)]
  /\ UNCHANGED <<row, barred, passkey, passkeySetting, op, device, generation, events, uses, confirmed,
                 lapped, crossed, refused, deleting, overtaken>>

BeginPasskeyLogin(b, u) == row[u].status # "deleted" /\ Challenge(b, u)   \* found by name
BeginPasskeySecondFactor(b) ==
  /\ session[b].pending # 0 /\ HasPasskey(session[b].pending) /\ Challenge(b, session[b].pending)

\* The authenticator signs with its next counter.
Sign(b, k, kind) ==
  /\ Free(b) /\ session[b].for # 0 /\ k \in session[b].allowed /\ device[k] < MaxAssertions
  /\ kind = "second" => session[b].pending # 0
  /\ device' = [device EXCEPT ![k] = @ + 1]
  /\ Cross(k)
  /\ op' = [op EXCEPT ![b] = [pc |-> "read", kind |-> kind,
                              id |-> IF kind = "second" THEN session[b].pending ELSE session[b].for,
                              copy |-> {}, code |-> Totp(0), key |-> k, count |-> device[k] + 1]]
  /\ UNCHANGED <<row, barred, passkey, passkeySetting, session, generation, events, uses, confirmed,
                 lapped, refused, deleting, overtaken>>

\* ValidateLogin of the library, on the passkeys as they are listed now.
ValidateLogin(b) ==
  LET listed == ListPasskeysByUserId(op[b].id) IN
  /\ PasskeysServed /\ session[b].for = op[b].id
  /\ session[b].allowed \subseteq listed /\ op[b].key \in session[b].allowed

\* FinishLogin up to the counter.
FinishLogin(b) ==
  LET k == op[b].key IN
  /\ op[b].pc = "read"
  /\ IF ~ValidateLogin(b) THEN Settle(b) /\ UNCHANGED refused
     ELSE IF CloneWarning(op[b].count, passkey[k].count)
     THEN Settle(b) /\ refused' = refused \cup {k}
     ELSE op' = [op EXCEPT ![b].pc = "update"] /\ UNCHANGED refused
  /\ UNCHANGED <<row, barred, passkey, passkeySetting, session, device, generation, events, uses,
                 confirmed, lapped, crossed, deleting, overtaken>>

\* UpdatePasskeyAfterAuth, then FinishPasskeyLogin or FinishPasskeySecondFactor.
FinishPasskey(b) ==
  LET k == op[b].key
      after == [session[b] EXCEPT !.for = 0, !.allowed = {}, !.pending = IF op[b].kind = "second" THEN 0 ELSE @] IN
  /\ op[b].pc = "update" /\ Settle(b)
  /\ passkey' = IF passkey[k].owner = 0 THEN passkey ELSE [passkey EXCEPT ![k].count = op[b].count]
  /\ session' = [session EXCEPT ![b] = SetupLogin(after, op[b].id)]
  /\ UNCHANGED <<row, barred, passkeySetting, device, generation, events, uses, confirmed, lapped,
                 crossed, refused, deleting, overtaken>>

\* DeleteMyPasskey, and the two handlers of an administrator.
RemovePasskeys(ks) ==
  /\ ks # {} /\ \A k \in ks : passkey[k].owner # 0
  /\ events < MaxEvents /\ events' = events + 1
  /\ passkey' = [k \in Keys |-> IF k \in ks THEN [owner |-> 0, count |-> 0] ELSE passkey[k]]
  /\ UNCHANGED <<row, barred, passkeySetting, session, op, device, generation, uses, confirmed, lapped,
                 crossed, refused, deleting, overtaken>>
DeleteMyPasskey(b, k) == Admitted(b) /\ passkey[k].owner = session[b].id /\ RemovePasskeys({k})
AdminDeletePasskey(k) == RemovePasskeys({k})
AdminClearUserPasskeys(u) == RemovePasskeys(ListPasskeysByUserId(u))

-----------------------------------------------------------------------------
(* User.Delete: the passkeys, then the black list and the row. *)

hardDeletePasskeysOnUserDelete(u) ==
  [k \in Keys |-> IF passkey[k].owner = u THEN [owner |-> 0, count |-> 0] ELSE passkey[k]]

BeginDelete(u) ==
  /\ u \notin deleting /\ deleting' = deleting \cup {u} /\ events < MaxEvents /\ events' = events + 1
  /\ passkey' = hardDeletePasskeysOnUserDelete(u)
  /\ overtaken' = IF \E b \in Browsers : op[b].pc = "insert" /\ op[b].id = u THEN overtaken \cup {u} ELSE overtaken
  /\ UNCHANGED <<row, barred, passkeySetting, session, op, device, generation, uses, confirmed, lapped,
                 crossed, refused>>

FinishDelete(u) ==
  /\ u \in deleting /\ deleting' = deleting \ {u}
  /\ barred' = barred \cup {u} /\ row' = [row EXCEPT ![u].status = "deleted"]
  /\ UNCHANGED <<passkey, passkeySetting, session, op, device, generation, events, uses, confirmed, overtaken,
                 lapped, crossed, refused>>

\* The black list and the requests under way go with the process; the cookies
\* and the rows stay.
RestartServer ==
  /\ events < MaxEvents /\ events' = events + 1
  /\ barred' = {} /\ op' = [b \in Browsers |-> NoOp] /\ deleting' = {}
  /\ overtaken' = overtaken \cup deleting \cup {u \in Accounts : row[u].status = "deleted"}
  /\ UNCHANGED <<row, passkey, passkeySetting, session, device, generation, uses, confirmed, lapped,
                 crossed, refused>>

-----------------------------------------------------------------------------
SignInNext ==
  \/ \E b \in Browsers :
       \/ Clear(b) \/ Setup2FA(b) \/ PromoteWithoutTotp(b) \/ Consume(b) \/ Finish2FA(b)
       \/ BeginRegisterPasskey(b) \/ CreatePasskey(b) \/ BeginPasskeySecondFactor(b)
       \/ FinishLogin(b) \/ FinishPasskey(b)
       \/ \E u \in Accounts : Login(b, u) \/ BeginPasskeyLogin(b, u)
       \/ \E f \in Factors : \/ Enable2FA(b, f) \/ Disable2FA(b, f)
                              \/ RegenerateBackupCodes(b, f) \/ Verify2FALogin(b, f)
       \/ \E k \in Keys : \/ FinishRegisterPasskey(b, k) \/ DeleteMyPasskey(b, k)
                           \/ \E kind \in {"passkey", "second"} : Sign(b, k, kind)
  \/ \E k \in Keys : AdminDeletePasskey(k)
  \/ \E u \in Accounts : AdminClearUserPasskeys(u) \/ BeginDelete(u) \/ FinishDelete(u)
  \/ \E v \in {"off", "incomplete", "valid"} : SetPasskeySetting(v)
  \/ RestartServer

SignInSpec == SignInInit /\ [][SignInNext]_signInVars

-----------------------------------------------------------------------------
(* Properties. *)

\* Every variable has its type.
SignInTypeOK ==
  /\ \A u \in Accounts : /\ row[u].status \in {"enabled", "deleted"} /\ row[u].enabled \in BOOLEAN
                          /\ row[u].secret \in 0 .. generation /\ row[u].codes \subseteq Codes
  /\ barred \cup deleting \cup overtaken \cup lapped \subseteq Accounts
  /\ \A k \in Keys : passkey[k].owner \in Accounts \cup {0} /\ passkey[k].count \in 0 .. device[k]
  /\ \A b \in Browsers : /\ {session[b].id, session[b].pending, session[b].reg} \subseteq Accounts \cup {0}
                          /\ op[b].pc \in {"idle", "consume", "write", "insert", "read", "update"}

\* A backup code that was accepted is not on the row any more, unless one handler wrote while another held an older copy of the list.
BackupCodesAreSpent ==
  \A u \in Accounts : u \in lapped \/ \A c \in row[u].codes : uses[c] = 0

\* TOTP is on only with a secret some code was shown for, unless Setup2FA or
\* Disable2FA ran between the check of Enable2FA and its write.
EnabledSecretWasConfirmed ==
  \A u \in Accounts : row[u].enabled => u \in lapped \/ row[u].secret \in confirmed

\* An authenticator that counts correctly is refused as a clone only if two of
\* its ceremonies were in flight at once.
HonestKeyRefusedOnlyIfCrossed == refused \subseteq crossed

\* A deleted account has no passkey, unless a registration was in flight while
\* it was deleted or the server has restarted since.
PasskeysDieWithAccount ==
  \A u \in Accounts : row[u].status = "deleted" /\ HasPasskey(u) => u \in overtaken

\* Backup codes, TOTP secrets and passkeys guard the account they were given
\* to, once, and honest ones are not refused.
FactorsKeepTheirTerms ==
  /\ SignInTypeOK
  /\ BackupCodesAreSpent /\ EnabledSecretWasConfirmed /\ HonestKeyRefusedOnlyIfCrossed
  /\ PasskeysDieWithAccount
=============================================================================
