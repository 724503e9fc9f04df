------------------------------ MODULE OptionSync ------------------------------
(***************************************************************************)
(* The options: the table, the map in memory, the settings it feeds (flat  *)
(* variables, price tables, typed modules) and the prices requests read    *)
(* from them.  Administrators write one option or a batch, the periodic    *)
(* reload reads the table, another server process writes it.               *)
(***************************************************************************)
EXTENDS Integers, FiniteSets, Sequences

CONSTANTS
  Admins,          \* option requests in progress
  Puts,            \* what requests ask for: functions from keys to values
  FirstTables,     \* contents of table options when the process starts
  PriceNames, PriceChannels,   \* what prices are looked up for
  DefaultModelRatio, DefaultCompletionRatio,   \* in hundredths
  MaxPuts,
  MaxOptionFaults  \* bound on failing saves and restarts together

VARIABLES
  options,     \* table options, a function of the keys that have a row
  optionMap,   \* config.OptionMap
  live,        \* the settings the program reads
  admin,       \* option requests: what they still write and where they are
  loader,      \* loadOptionsFromDatabase, run by SyncOptions or a failed batch
  loose,       \* history: keys whose writers overlapped, or lost a write
  excused,     \* history: the credential was cleared behind the toggle, or may have been
  puts, optionFaults

optionVars == <<options, optionMap, live, admin, loader, loose, excused, puts, optionFaults>>

\* One key of each kind: a credential, the toggle it guards, the price tables
\* and a field of a typed module.
Tables == {"ModelRatio", "CompletionRatio", "GroupRatio"}
Keys == {"GitHubClientId", "GitHubOAuthEnabled", "google_setting.enabled"} \cup Tables
Module == "google_setting.enabled"
NoTable == [x \in {} |-> 0]
Text(t) == [text |-> t, tab |-> NoTable]
Json(tab) == [text |-> "json", tab |-> tab]
Sync == "SyncOptions"
Loaders == Admins \cup {Sync}

ASSUME OptionAssumption ==
  /\ Sync \notin Admins
  /\ \A put \in Puts : DOMAIN put \subseteq Keys
  /\ \A table \in FirstTables : DOMAIN table \subseteq Keys

IdleAdmin == [pc |-> "idle", put |-> NoTable, batch |-> FALSE]
IdleLoader == [pc |-> "idle", rows |-> NoTable, clean |-> {}, dotted |-> Text("")]
Without(f, k) == [x \in DOMAIN f \ {k} |-> f[x]]
\* f where it is defined and g elsewhere: TLC's f @@ g, which no prover knows.
Over(f, g) == [x \in DOMAIN f \cup DOMAIN g |-> IF x \in DOMAIN f THEN f[x] ELSE g[x]]

-----------------------------------------------------------------------------
(* Deliberately wrong variants of definitions below, used only to check     *)
(* that each property is able to fail.                                      *)

LiveOnly(k, put) == live[k]
NoResync(a) == admin' = [admin EXCEPT ![a] = IdleAdmin]
PlainEntryFirst(tab, default, name, ch) ==
  <<<<tab, 0>>, <<tab, ch>>, <<default, ch>>, <<default, 0>>>>

-----------------------------------------------------------------------------
(* Values and what reading them gives. *)

AddNewMissingRatio(value) ==
  IF value.text = "json" THEN Json(Over(value.tab, DefaultModelRatio)) ELSE value

\* The live table is emptied before the text is parsed, so a malformed text
\* leaves an empty one.
UpdateRatioByJSONString(value) == IF value.text = "json" THEN value.tab ELSE NoTable

\* A field of a typed module: a value that does not decode is logged and the
\* field keeps what it had.
updateConfigFromMap(old, value) == IF value.text \in {"true", "false"} THEN value.text ELSE old

\* What the OptionMap is seeded with.
configToMap == Text("false")
Seed ==
  [k \in Keys |-> CASE k = "ModelRatio" -> Json(DefaultModelRatio)
                    [] k = "CompletionRatio" -> Json(DefaultCompletionRatio)
                    [] k = "GroupRatio" -> Json(NoTable)
                    [] k = "GitHubClientId" -> Text("")
                    [] k = "GitHubOAuthEnabled" -> Text("false")
                    [] k = Module -> configToMap]

\* What a setting becomes when its key gets a value.
Setting(k, old, value) ==
  CASE k \in Tables -> UpdateRatioByJSONString(value)
    [] k = Module -> updateConfigFromMap(old, value)
    [] k = "GitHubOAuthEnabled" -> IF value.text = "true" THEN "true" ELSE "false"
    [] OTHER -> value.text
Malformed(k, value) == k \in Tables /\ value.text # "json"

updateOptionMap(k, value) ==
  /\ optionMap' = [optionMap EXCEPT ![k] = value]
  /\ live' = [live EXCEPT ![k] = Setting(k, @, value)]

\* A row as loadOptionsFromDatabase applies it.
Loaded(k, value) == IF k = "ModelRatio" THEN AddNewMissingRatio(value) ELSE value

\* Start of the process: the defaults, then every row.
InitOptionMap(table) ==
  LET all == Over([k \in DOMAIN table |-> Loaded(k, table[k])], Seed) IN
  [map |-> all, live |-> [k \in Keys |-> Setting(k, Setting(k, "", Seed[k]), all[k])]]

\* Does the table enable the provider, and does it hold the credential?
EnabledIn(table) == "GitHubOAuthEnabled" \in DOMAIN table /\ table["GitHubOAuthEnabled"].text = "true"
CredentialIn(table) == "GitHubClientId" \in DOMAIN table /\ table["GitHubClientId"].text # ""

OptionInit ==
  /\ options \in FirstTables
  /\ optionMap = InitOptionMap(options).map /\ live = InitOptionMap(options).live
  /\ admin = [a \in Admins |-> IdleAdmin] /\ loader = [l \in Loaders |-> IdleLoader]
  /\ loose = {} /\ excused = (EnabledIn(options) /\ ~CredentialIn(options))
  /\ puts = 0 /\ optionFaults = 0

-----------------------------------------------------------------------------
(* Prices. *)

\* The tables asked for a price: for the channel's kind, then for any.
Asked(tab, default, name, ch) ==
  <<<<tab, ch>>, <<default, ch>>, <<tab, 0>>, <<default, 0>>>>
LookUp(tab, default, name, ch, otherwise) ==
  LET asked == Asked(tab, default, name, ch)
      hits == {i \in 1 .. 4 : <<name, asked[i][2]>> \in DOMAIN asked[i][1]}
      first == CHOOSE i \in hits : \A j \in hits : i <= j
  IN IF hits = {} THEN otherwise ELSE asked[first][1][<<name, asked[first][2]>>]

\* The "-internet" variant of a model costs what the model costs.
Stripped(name, families) ==
  IF name.family \in families /\ name.variant = "internet" THEN [name EXCEPT !.variant = ""] ELSE name

GetModelRatio(name, ch) ==
  LookUp(live["ModelRatio"], DefaultModelRatio, Stripped(name, {"qwen", "command"}), ch, 3000)

\* What output costs more than input where no table says it.
CompletionRule(name) ==
  LET f == name.family  v == name.variant IN
  CASE f = "gpt-3.5" -> (IF v \in {"turbo", "0125"} THEN 300 ELSE IF v = "1106" THEN 200 ELSE 133)
    [] f = "gpt-4o" -> (IF v = "2024-05-13" THEN 300 ELSE 400)
    [] f = "gpt-4" -> (IF v \in {"turbo", "preview"} THEN 300 ELSE 200)
    [] f = "ibm-granite" -> (IF v = "3.0-2b" THEN 833 ELSE 500)
    [] f = "meta/llama" -> (IF v = "70b" THEN 423 ELSE IF v = "3.1-405b" THEN 100 ELSE 500)
    [] f = "mistralai" -> (IF v = "8x7b" THEN 333 ELSE 500)
    [] f = "llama2-70b-4096" -> 125
    [] f = "llama3-70b-8192" -> 134
    [] f = "o1" -> 400
    [] f \in {"claude-3", "command-r-plus"} -> 500
    [] f \in {"chatgpt-4o-latest", "claude", "mistral", "gemini", "command-r", "grok-beta"} -> 300
    [] f \in {"deepseek", "llama3-8b-8192", "command"} -> 200
    [] OTHER -> 100
GetCompletionRatio(name, ch) ==
  LET n == Stripped(name, {"qwen"}) IN
  LookUp(live["CompletionRatio"], DefaultCompletionRatio, n, ch, CompletionRule(n))

\* No default stands in for a group that is not listed.
GetGroupRatio(group) == LookUp(live["GroupRatio"], NoTable, group, 0, 100)

-----------------------------------------------------------------------------
(* The option requests. *)

Pending(a) == DOMAIN admin[a].put
Writing(k) == \E a \in Admins : k \in Pending(a)
Loading == {l \in Loaders : loader[l].pc # "idle"}

\* The value a setting will have after the request.
Effective(k, put) == IF k \in DOMAIN put THEN put[k].text ELSE live[k]
optionUpdateRejection(put) ==
  /\ "GitHubOAuthEnabled" \in DOMAIN put /\ put["GitHubOAuthEnabled"].text = "true"
  /\ Effective("GitHubClientId", put) = ""

\* A write of these keys begins: it overlaps with other writers and reloads.
Overlap(keys, others) ==
  /\ loose' = loose \cup {k \in keys : Loading # {} \/ \E b \in others : k \in Pending(b)}
  /\ loader' = [l \in Loaders |-> [loader[l] EXCEPT !.clean = @ \ keys]]

\* The check goes by the settings, once, before anything is written.  So it does
\* not see a credential that is cleared by a request without the toggle, or by one
\* that crosses a request which counts on it, nor that a setting is stale.
Clears(put) == "GitHubClientId" \in DOMAIN put /\ put["GitHubClientId"].text = ""
CountsOnIt(put) ==
  /\ "GitHubOAuthEnabled" \in DOMAIN put /\ put["GitHubOAuthEnabled"].text = "true"
  /\ "GitHubClientId" \notin DOMAIN put
Unsaved(a) == admin[a].pc \in {"create", "save", "commit"}
Unguarded(put, others) ==
  \/ Clears(put) /\ \/ "GitHubOAuthEnabled" \notin DOMAIN put
                    \/ \E b \in others : Unsaved(b) /\ CountsOnIt(admin[b].put)
  \/ CountsOnIt(put) /\ ("GitHubClientId" \in loose \/ \E b \in others : Clears(admin[b].put))

\* UpdateOption and UpdateOptionsBatch, up to their first write.
BeginPut(a, put, batch) ==
  /\ admin[a].pc = "idle" /\ puts < MaxPuts /\ puts' = puts + 1
  /\ ~optionUpdateRejection(put) /\ (batch \/ Cardinality(DOMAIN put) = 1)
  /\ admin' = [admin EXCEPT ![a] = [pc |-> IF batch THEN "commit" ELSE "create", put |-> put, batch |-> batch]]
  /\ excused' = (excused \/ Unguarded(put, Admins \ {a}))
  /\ Overlap(DOMAIN put, Admins \ {a})
  /\ UNCHANGED <<options, optionMap, live, optionFaults>>

\* FirstOrCreate: a new row is there with an empty value.
CreateRow(a) ==
  /\ admin[a].pc = "create" /\ admin' = [admin EXCEPT ![a].pc = "save"]
  /\ options' = Over(options, [k \in Pending(a) |-> Text("")])
  /\ UNCHANGED <<optionMap, live, loader, loose, excused, puts, optionFaults>>

SaveError(keys) ==
  /\ optionFaults < MaxOptionFaults /\ optionFaults' = optionFaults + 1 /\ options' = options
  /\ loose' = loose \cup keys /\ excused' = (excused \/ "GitHubClientId" \in keys)

\* Save: an error is not looked at.
SaveRow(a) ==
  /\ admin[a].pc = "save" /\ admin' = [admin EXCEPT ![a].pc = "apply"]
  /\ \/ options' = Over(admin[a].put, options) /\ UNCHANGED <<loose, excused, optionFaults>>
     \/ SaveError(Pending(a))
  /\ UNCHANGED <<optionMap, live, loader, puts>>

\* The transaction of a batch: all of it, or an error and nothing.
Commit(a) ==
  /\ admin[a].pc = "commit"
  /\ \/ /\ options' = Over(admin[a].put, options) /\ UNCHANGED <<loose, excused, optionFaults>>
        /\ admin' = [admin EXCEPT ![a].pc = "apply"]
     \/ SaveError({}) /\ admin' = [admin EXCEPT ![a] = IdleAdmin]
  /\ UNCHANGED <<optionMap, live, loader, puts>>

\* A batch that cannot be applied is followed by a reload.
Resync(a) == admin' = [admin EXCEPT ![a].pc = "reload"]
Apply(a, k) ==
  LET rest == Without(admin[a].put, k) IN
  /\ admin[a].pc = "apply" /\ k \in Pending(a) /\ updateOptionMap(k, admin[a].put[k])
  /\ IF Malformed(k, admin[a].put[k]) /\ admin[a].batch THEN Resync(a)
     ELSE admin' = [admin EXCEPT ![a] = IF DOMAIN rest = {} THEN IdleAdmin ELSE [@ EXCEPT !.put = rest]]
  /\ UNCHANGED <<options, loader, loose, excused, puts, optionFaults>>

\* Another server process writes the table; this one learns at its next reload.
OtherProcessWrites(put) ==
  /\ puts < MaxPuts /\ puts' = puts + 1
  /\ options' = Over(put, options)
  /\ loose' = loose \cup DOMAIN put
  /\ loader' = [l \in Loaders |-> [loader[l] EXCEPT !.clean = @ \ DOMAIN put]]
  /\ excused' = (excused \/ DOMAIN put \cap {"GitHubClientId", "GitHubOAuthEnabled"} # {})
  /\ UNCHANGED <<optionMap, live, admin, optionFaults>>

-----------------------------------------------------------------------------
(* loadOptionsFromDatabase, every SyncFrequency seconds or after a batch     *)
(* failed.                                                                   *)

AllOption(l) ==
  LET written == UNION {Pending(b) : b \in Admins \ {l}} IN
  /\ loader[l].pc = "idle" /\ (l \in Admins => admin[l].pc = "reload")
  /\ loader' = [loader EXCEPT ![l] = [IdleLoader EXCEPT !.pc = "apply", !.rows = options,
                   !.clean = IF Loading = {} THEN Keys \ written ELSE {}]]
  /\ loose' = loose \cup written
  /\ UNCHANGED <<options, optionMap, live, admin, excused, puts, optionFaults>>

ApplyRow(l, k) ==
  /\ loader[l].pc = "apply" /\ k \in DOMAIN loader[l].rows
  /\ updateOptionMap(k, Loaded(k, loader[l].rows[k]))
  /\ loader' = [loader EXCEPT ![l].rows = Without(@, k)]
  /\ UNCHANGED <<options, admin, loose, excused, puts, optionFaults>>

\* The OptionMap is copied, and the copy replayed into the typed modules.
TakeSnapshot(l) ==
  /\ loader[l].pc = "apply" /\ DOMAIN loader[l].rows = {}
  /\ loader' = [loader EXCEPT ![l].pc = "replay", ![l].dotted = optionMap[Module]]
  /\ UNCHANGED <<options, optionMap, live, admin, loose, excused, puts, optionFaults>>
LoadFromDB(l) ==
  /\ loader[l].pc = "replay"
  /\ live' = [live EXCEPT ![Module] = updateConfigFromMap(@, loader[l].dotted)]
  /\ loose' = loose \ loader[l].clean
  /\ loader' = [loader EXCEPT ![l] = IdleLoader]
  /\ admin' = IF l = Sync THEN admin ELSE [admin EXCEPT ![l] = IdleAdmin]
  /\ UNCHANGED <<options, optionMap, excused, puts, optionFaults>>

Reboot ==
  /\ optionFaults < MaxOptionFaults /\ optionFaults' = optionFaults + 1
  /\ optionMap' = InitOptionMap(options).map /\ live' = InitOptionMap(options).live
  /\ admin' = [a \in Admins |-> IdleAdmin] /\ loader' = [l \in Loaders |-> IdleLoader]
  /\ loose' = {} /\ UNCHANGED <<options, excused, puts>>

OptionNext ==
  \/ \E put \in Puts :
       OtherProcessWrites(put) \/ \E a \in Admins, batch \in BOOLEAN : BeginPut(a, put, batch)
  \/ \E a \in Admins : CreateRow(a) \/ SaveRow(a) \/ Commit(a) \/ \E k \in Pending(a) : Apply(a, k)
  \/ \E l \in Loaders : \/ AllOption(l) \/ TakeSnapshot(l) \/ LoadFromDB(l)
                        \/ \E k \in DOMAIN loader[l].rows : ApplyRow(l, k)
  \/ Reboot

OptionSpec == OptionInit /\ [][OptionNext]_optionVars

-----------------------------------------------------------------------------
(* Properties. *)

\* Every variable has its type.
OptionTypeOK ==
  /\ DOMAIN options \subseteq Keys /\ DOMAIN optionMap = Keys /\ DOMAIN live = Keys
  /\ \A a \in Admins : admin[a].pc \in {"idle", "create", "save", "commit", "apply", "reload"} /\ Pending(a) \subseteq Keys
  /\ \A l \in Loaders : loader[l].pc \in {"idle", "apply", "replay"} /\ loader[l].clean \subseteq Keys
  /\ loose \subseteq Keys /\ excused \in BOOLEAN

\* A row nobody is writing is what the program runs on, in the map and in the
\* setting, unless its writers or a reload overlapped, its save failed or
\* another process wrote it; and a reload no write crossed ends every such
\* exception.
OptionsFollowTable ==
  \A k \in DOMAIN options \ loose : Writing(k) \/
    /\ optionMap[k] \in {options[k], Loaded(k, options[k])}
    /\ live[k] = Setting(k, live[k], optionMap[k])

\* A price an administrator saved is the price billed, the channel's own entry
\* before the plain one, and a default only where neither was saved; a saved text
\* that does not parse brings the defaults back, not nothing.
BilledFrom(key, default, name, ch, price, otherwise) ==
  key \in DOMAIN options \ loose => Writing(key) \/
    LET tab == UpdateRatioByJSONString(options[key])  all == Over(tab, default) IN
    /\ <<name, ch>> \in DOMAIN tab => price = tab[<<name, ch>>]
    /\ {<<name, 0>>, <<name, ch>>} \cap DOMAIN all = {<<name, 0>>} => price = all[<<name, 0>>]
    /\ {<<name, 0>>, <<name, ch>>} \cap DOMAIN all = {} => price = otherwise
SavedPricesAreBilled ==
  \A n \in PriceNames, ch \in PriceChannels :
    /\ BilledFrom("ModelRatio", DefaultModelRatio, Stripped(n, {"qwen", "command"}), ch, GetModelRatio(n, ch), 3000)
    /\ LET m == Stripped(n, {"qwen"}) IN
       BilledFrom("CompletionRatio", DefaultCompletionRatio, m, ch, GetCompletionRatio(n, ch), CompletionRule(m))
    /\ BilledFrom("GroupRatio", NoTable, n, 0, GetGroupRatio(n), 100)

\* A sign-in provider is on without its credential only after the credential was
\* cleared where the check cannot see it (Unguarded), was saved in vain or came so
\* from elsewhere, while the keys are being written, or until the next reload when
\* writers overlapped.
EnabledProviderIsConfigured ==
  live["GitHubOAuthEnabled"] = "true" /\ live["GitHubClientId"] = "" =>
    \/ excused
    \/ \E k \in {"GitHubOAuthEnabled", "GitHubClientId"} : k \in loose \/ Writing(k)

\* The settings and prices in memory are those of the table, and a sign-in
\* provider that is on has its credential.
SettingsAreTheTables == OptionsFollowTable /\ SavedPricesAreBilled /\ EnabledProviderIsConfigured
===============================================================================
