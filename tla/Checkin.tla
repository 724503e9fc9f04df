------------------------------- MODULE Checkin -------------------------------
(***************************************************************************)
(* The daily sign-in: ClaimToday inserts the user's row for the day and    *)
(* credits the reward in one transaction that takes no lock before the     *)
(* insert, so the unique index (user_id, date) is all that stands between  *)
(* two clicks and two rewards.  GetCheckinInfo tells the user beforehand   *)
(* what the next claim will pay.  Midnight may pass between any two steps. *)
(***************************************************************************)
EXTENDS Integers, FiniteSets, Functions

CONSTANTS
  Users,
  Claimers,       \* DoCheckin requests being served at the same time
  Readers,        \* GetCheckinInfo requests being served at the same time
  Settings,       \* values of the checkin settings a server may run with
  LastDay,        \* bound: days are numbered 1 .. LastDay
  MaxCrashes, MaxDbErrors

ASSUME CheckinAssumption ==
  /\ Settings \subseteq [daily : Nat, bonus : Nat, cap : Nat] /\ LastDay \in Nat \ {0}

VARIABLES
  setting,        \* operation_setting.CheckinSetting
  today,          \* the server's local date
  rows,           \* committed rows of table checkins
  wallet,         \* users.quota, counted from the opening balance
  claim,          \* what each DoCheckin request is doing
  info,           \* what each GetCheckinInfo request is doing
  promised,       \* history: rewards shown to users who had not claimed
  late,           \* history: users one of whose claims wrote after its midnight
  crashes, faults

vars == <<setting, today, rows, wallet, claim, info, promised, late, crashes, faults>>

Days == 1 .. LastDay
Row == [id : Nat, user : Users, day : Days, streak : Nat, quota : Nat]
Claim == [pc : {"idle", "today", "yesterday", "insert", "credit", "reply"}, user : Users,
          day : Days, streak : Nat, result : {"none", "claimed", "already", "duplicate", "dberror"}]
Info == [pc : {"idle", "today", "yesterday"}, user : Users, day : Days]
Promise == [user : Users, day : Days, reward : Nat]

Init ==
  /\ setting \in Settings /\ today = 1 /\ rows = {}
  /\ wallet = [u \in Users |-> 0]
  /\ claim \in [Claimers -> {c \in [pc : {"idle"}, user : Users, day : {1}, streak : {0},
                                    result : {"none"}] : TRUE}]
  /\ info \in [Readers -> {r \in [pc : {"idle"}, user : Users, day : {1}] : TRUE}]
  /\ promised = {} /\ late = {} /\ crashes = 0 /\ faults = 0

-----------------------------------------------------------------------------
\* PreviewReward: the daily quota and a bonus for every further day in a
\* row, up to the cap; a cap of 0 is no cap.
PreviewReward(streak) ==
  LET counted == IF setting.cap > 0 /\ streak > setting.cap THEN setting.cap ELSE streak
  IN  setting.daily + (counted - 1) * setting.bonus

RowsOf(u, d) == {r \in rows : r.user = u /\ r.day = d}

-----------------------------------------------------------------------------
(* Deliberately wrong variants of definitions below, used only to check     *)
(* that each property is able to fail.                                      *)

NoUniqueIndex(u, d) == FALSE
AnyEarlierRow(u, d) == {r \in rows : r.user = u /\ r.day < d}
StreakRestarts(yesterday) == 1
StreakUnset(yesterday) == IF yesterday = {} THEN -1 ELSE (CHOOSE r \in yesterday : TRUE).streak + 1
CreditWithoutRow(c) ==
  /\ wallet' = [wallet EXCEPT ![claim[c].user] = @ + PreviewReward(claim[c].streak)]
  /\ UNCHANGED rows
CurrentStreakShown(yesterday) ==
  PreviewReward(IF yesterday = {} THEN 1 ELSE (CHOOSE r \in yesterday : TRUE).streak)

-----------------------------------------------------------------------------
(* DoCheckin. *)

StatementFails == faults < MaxDbErrors /\ faults' = faults + 1
Moves(c, pc) == claim' = [claim EXCEPT ![c].pc = pc]
Ends(c, result) == claim' = [claim EXCEPT ![c].pc = "reply", ![c].result = result]
Fails(c) == Ends(c, "dberror") /\ StatementFails
OnlyClaim == UNCHANGED <<setting, today, rows, wallet, info, promised, late, crashes>>

DoCheckin(c, u) ==
  /\ claim[c].pc = "idle"
  /\ claim' = [claim EXCEPT ![c] = [pc |-> "today", user |-> u, day |-> today, streak |-> 0,
                                    result |-> "none"]]
  /\ UNCHANGED faults /\ OnlyClaim

ReadToday(c) ==
  /\ claim[c].pc = "today"
  /\ \/ /\ IF RowsOf(claim[c].user, claim[c].day) # {} THEN Ends(c, "already") ELSE Moves(c, "yesterday")
        /\ UNCHANGED faults
     \/ Fails(c)
  /\ OnlyClaim

\* The streak of a new row, from yesterday's.
NextStreak(yesterday) == IF yesterday = {} THEN 1 ELSE (CHOOSE r \in yesterday : TRUE).streak + 1

Before(u, d) == RowsOf(u, d - 1)

ReadYesterday(c) ==
  /\ claim[c].pc = "yesterday"
  /\ \/ /\ claim' = [claim EXCEPT ![c].pc = "insert",
                                  ![c].streak = NextStreak(Before(claim[c].user, claim[c].day))]
        /\ UNCHANGED faults
     \/ Fails(c)
  /\ OnlyClaim

\* The insert waits for a transaction that has inserted the same key; when
\* that one commits, it fails.  gorm reports the driver's own error, which is
\* not ErrDuplicatedKey, so ClaimToday returns it as a failure.
KeyFree(u, d) ==
  ~\E c \in Claimers : claim[c].pc = "credit" /\ claim[c].user = u /\ claim[c].day = d

Duplicate(u, d) == RowsOf(u, d) # {}

Insert(c) ==
  LET u == claim[c].user  d == claim[c].day IN
  /\ claim[c].pc = "insert" /\ KeyFree(u, d)
  /\ \/ /\ IF Duplicate(u, d) THEN Ends(c, "duplicate") ELSE Moves(c, "credit")
        /\ UNCHANGED faults
     \/ Fails(c)
  /\ OnlyClaim

\* UPDATE users; COMMIT.
Credit(c) ==
  LET reward == PreviewReward(claim[c].streak) IN
  /\ rows' = rows \cup {[id |-> Cardinality(rows) + 1, user |-> claim[c].user, day |-> claim[c].day,
                         streak |-> claim[c].streak, quota |-> reward]}
  /\ wallet' = [wallet EXCEPT ![claim[c].user] = @ + reward]

Commit(c) ==
  /\ claim[c].pc = "credit"
  /\ \/ /\ Credit(c) /\ Ends(c, "claimed")
        /\ late' = IF claim[c].day < today THEN late \cup {claim[c].user} ELSE late
        /\ UNCHANGED faults
     \/ Fails(c) /\ UNCHANGED <<rows, wallet, late>>
  /\ UNCHANGED <<setting, today, info, promised, crashes>>

Reply(c) ==
  /\ claim[c].pc = "reply"
  /\ claim' = [claim EXCEPT ![c].pc = "idle", ![c].streak = 0, ![c].result = "none"]
  /\ UNCHANGED faults /\ OnlyClaim

ClaimStep(c) == ReadToday(c) \/ ReadYesterday(c) \/ Insert(c) \/ Commit(c) \/ Reply(c)

-----------------------------------------------------------------------------
(* GetCheckinInfo: CurrentStreak reads today's row, then yesterday's, and   *)
(* the page shows what the next claim pays.                                 *)

OnlyInfo == UNCHANGED <<setting, today, rows, wallet, claim, late, crashes, faults>>

GetCheckinInfo(r, u) ==
  /\ info[r].pc = "idle"
  /\ info' = [info EXCEPT ![r] = [pc |-> "today", user |-> u, day |-> today]]
  /\ UNCHANGED promised /\ OnlyInfo

InfoToday(r) ==
  /\ info[r].pc = "today"
  /\ info' = [info EXCEPT ![r].pc = IF RowsOf(info[r].user, info[r].day) # {} THEN "idle" ELSE "yesterday"]
  /\ UNCHANGED promised /\ OnlyInfo

\* CurrentStreak is yesterday's streak, or 0; the page adds the day to come.
TodayReward(yesterday) ==
  PreviewReward((IF yesterday = {} THEN 0 ELSE (CHOOSE r \in yesterday : TRUE).streak) + 1)

InfoYesterday(r) ==
  LET u == info[r].user  d == info[r].day IN
  /\ info[r].pc = "yesterday"
  /\ promised' = promised \cup {[user |-> u, day |-> d, reward |-> TodayReward(RowsOf(u, d - 1))]}
  /\ info' = [info EXCEPT ![r].pc = "idle"]
  /\ OnlyInfo

-----------------------------------------------------------------------------
Midnight ==
  /\ today < LastDay /\ today' = today + 1
  /\ UNCHANGED <<setting, rows, wallet, claim, info, promised, late, crashes, faults>>

\* The server dies: open transactions roll back.
Crash ==
  /\ crashes < MaxCrashes /\ crashes' = crashes + 1
  /\ claim' = [c \in Claimers |-> [claim[c] EXCEPT !.pc = "idle", !.streak = 0, !.result = "none"]]
  /\ info' = [r \in Readers |-> [info[r] EXCEPT !.pc = "idle"]]
  /\ UNCHANGED <<setting, today, rows, wallet, promised, late, faults>>

Next ==
  \/ \E c \in Claimers, u \in Users : DoCheckin(c, u)
  \/ \E c \in Claimers : ClaimStep(c)
  \/ \E r \in Readers, u \in Users : GetCheckinInfo(r, u)
  \/ \E r \in Readers : InfoToday(r) \/ InfoYesterday(r)
  \/ Midnight \/ Crash

Spec == Init /\ [][Next]_vars

-----------------------------------------------------------------------------
\* Rows, requests and promises stay in their ranges: every streak and every
\* reward the arithmetic of the handler yields is a natural number.
TypeOK ==
  /\ setting \in Settings /\ today \in Days /\ rows \subseteq Row /\ wallet \in [Users -> Nat]
  /\ claim \in [Claimers -> Claim] /\ info \in [Readers -> Info]
  /\ promised \subseteq Promise /\ late \subseteq Users
  /\ crashes \in Nat /\ faults \in Nat

\* However the clicks interleave, a day pays a user once (model/checkin.go:99).
OneRewardPerDay == \A r, s \in rows : r.user = s.user /\ r.day = s.day => r = s

\* The quota credited is what the rows of table checkins say, whatever fails.
WalletIsSumOfRows ==
  \A u \in Users :
    wallet[u] = SumFunctionOnSet([r \in rows |-> r.quota], {r \in rows : r.user = u})

Unbroken(u, d, n) == \A k \in 0 .. n - 1 : RowsOf(u, d - k) # {}

\* A streak never counts a day that was not claimed ...
StreakIsEarned == \A r \in rows : r.streak >= 1 /\ Unbroken(r.user, r.day, r.streak)

\* ... and it counts every day of the run, unless a claim was still being
\* written when its day was over.
StreakIsWhole ==
  \A r \in rows : r.user \notin late => ~Unbroken(r.user, r.day, r.streak + 1)

\* What the page promised for a day is what the claim of that day paid.
PromiseKept ==
  \A r \in rows, p \in promised :
    r.user = p.user /\ r.day = p.day /\ r.user \notin late => r.quota = p.reward

\* The promised reward is paid, a streak is whole, and the wallet holds what
\* the rows say.
CheckinsAreWhole == TypeOK /\ PromiseKept /\ StreakIsWhole /\ WalletIsSumOfRows
=============================================================================
