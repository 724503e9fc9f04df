----------------------------- MODULE UpstreamProofs -----------------------------
(***************************************************************************)
(* Proofs about OptionSync, MediaBilling, ProviderAnswers, RateLimit and    *)
(* QuotaWarning, and about the five run beside one another (MCUpstreams).   *)
(*                                                                         *)
(* Settings: a key nobody has raced for is level with its row, follows it  *)
(* while the request that wrote it is under way, or is about to be set by  *)
(* a load that read the row.                                               *)
(*                                                                         *)
(* Media calls: what a call has paid, what still waits in the batch and    *)
(* what it has left to do add up, place by place, to what it owes.         *)
(*                                                                         *)
(* Answers: after every line an adaptor's usage is worth what the upstream *)
(* has reported so far, the text it counted is the text it sent, and the   *)
(* [DONE]s and tool calls it sent are the ones it remembers; the result of *)
(* each handler then gives the charge and the last chunk.                  *)
(*                                                                         *)
(* Limiters: the queue is the tail of the admissions, and what has left it *)
(* is old or has newer ones enough after it; through Redis, requests that  *)
(* have decided and not pushed yet are counted in.                         *)
(*                                                                         *)
(* Reminders: a crossing waits to be reminded of for as long as a request  *)
(* remembers it, and the one hour kept per user is the latest.             *)
(***************************************************************************)
EXTENDS MCUpstreams, SumTheorems, SequenceTheorems, FiniteSetTheorems, TLAPS

-----------------------------------------------------------------------------
(* The settings. *)

\* A load is under way.
OptionLoads(l) == loader[l].pc # "idle"
\* Nobody has raced for the key, or a load that nobody races is about to set it.
OptionSound(k) == k \notin loose \/ \E l \in Loaders : k \in loader[l].clean
\* Map and setting are the row's, the map perhaps not converted yet, or level with it.
OptionFollows(k) ==
  /\ optionMap[k] \in {options[k], Loaded(k, options[k])}
  /\ live[k] = Setting(k, live[k], optionMap[k])
OptionFresh(k) == optionMap[k] = Loaded(k, options[k]) /\ live[k] = Setting(k, live[k], optionMap[k])
\* The request a has written the row of k, and not yet its setting.
OptionIsWritten(a, k) ==
  k \in Pending(a) /\ (admin[a].pc \in {"apply", "reload"} \/ (admin[a].pc = "save" /\ k # "GitHubClientId"))

OptionShape ==
  /\ DOMAIN options \subseteq Keys /\ DOMAIN optionMap = Keys /\ DOMAIN live = Keys
  /\ loose \subseteq Keys /\ excused \in BOOLEAN
OptionRequests ==
  /\ DOMAIN admin = Admins
  /\ \A a \in Admins :
       /\ DOMAIN admin[a] = {"pc", "put", "batch"} /\ Pending(a) \subseteq Keys
       /\ admin[a].pc \in {"idle", "create", "save", "commit", "apply", "reload"}
       /\ admin[a].pc = "idle" => Pending(a) = {}
       /\ admin[a].pc \in {"save", "apply", "reload"} => Pending(a) \subseteq DOMAIN options
OptionLoaders ==
  /\ DOMAIN loader = Loaders
  /\ \A l \in Loaders :
       /\ DOMAIN loader[l] = {"pc", "rows", "clean", "dotted"}
       /\ loader[l].pc \in {"idle", "apply", "replay"} /\ loader[l].clean \subseteq Keys
       /\ loader[l].pc = "idle" => loader[l].clean = {}
       /\ loader[l].pc \in {"idle", "replay"} => DOMAIN loader[l].rows = {}
       /\ DOMAIN loader[l].rows \subseteq DOMAIN options
       /\ OptionLoads(l) /\ l # Sync => admin[l].pc = "reload"
OptionAlone ==
  \A a \in Admins : \A k \in Pending(a) :
    /\ \A b \in Admins \ {a} : k \in Pending(b) => k \in loose
    /\ \A l \in Loaders \ {a} : (OptionLoads(l) => k \in loose) /\ k \notin loader[l].clean
OptionWritten ==
  \A a \in Admins : \A k \in Pending(a) \ loose :
    admin[a].pc \in {"apply", "reload"} => options[k] = admin[a].put[k]
OptionRows ==
  \A l \in Loaders : \A k \in DOMAIN options :
    OptionLoads(l) /\ OptionSound(k) =>
      /\ k \in DOMAIN loader[l].rows => loader[l].rows[k] = options[k]
      /\ k \notin DOMAIN loader[l].rows => OptionFresh(k)
      /\ loader[l].pc = "replay" /\ k = Module => loader[l].dotted = options[k]
OptionFollowed ==
  \A k \in DOMAIN options \ loose : OptionFollows(k) \/ \E a \in Admins : OptionIsWritten(a, k)
OptionAbsent ==
  /\ "GitHubClientId" \notin DOMAIN options => live["GitHubClientId"] = "" /\ optionMap["GitHubClientId"] = Text("")
  /\ "GitHubOAuthEnabled" \notin DOMAIN options => live["GitHubOAuthEnabled"] = "false"
OptionGuarded ==
  ~excused =>
    /\ EnabledIn(options) => CredentialIn(options)
    /\ \A a \in Admins : Unsaved(a) =>
         /\ CountsOnIt(admin[a].put) => CredentialIn(options) /\ \A b \in Admins : Unsaved(b) => ~Clears(admin[b].put)
         /\ Clears(admin[a].put) => "GitHubOAuthEnabled" \in Pending(a) /\ admin[a].put["GitHubOAuthEnabled"].text # "true"
OptionInv ==
  /\ OptionShape /\ OptionRequests /\ OptionLoaders /\ OptionAlone /\ OptionWritten
  /\ OptionRows /\ OptionFollowed /\ OptionAbsent /\ OptionGuarded

LEMMA OptionMerge ==
  ASSUME NEW left, NEW right
  PROVE  /\ DOMAIN Over(left, right) = DOMAIN left \cup DOMAIN right
         /\ \A x \in DOMAIN left : Over(left, right)[x] = left[x]
         /\ \A x \in DOMAIN right \ DOMAIN left : Over(left, right)[x] = right[x]
BY DEF Over

LEMMA OptionSettles ==
  ASSUME NEW k, NEW old, NEW value
  PROVE  Setting(k, Setting(k, old, value), value) = Setting(k, old, value)
BY DEF Setting, UpdateRatioByJSONString, updateConfigFromMap, Tables, Module

LEMMA OptionTexts ==
  ASSUME NEW t PROVE Text(t).text = t /\ Json(t).tab = t /\ Json(t).text = "json"
BY DEF Text, Json

LEMMA OptionLoadedPlain ==
  /\ \A k, v : k # "ModelRatio" => Loaded(k, v) = v
  /\ \A old, v : Setting("GitHubClientId", old, v) = v.text
  /\ \A old, v : Setting("GitHubOAuthEnabled", old, v) = IF v.text = "true" THEN "true" ELSE "false"
  /\ \A old, v : Setting(Module, old, v) = updateConfigFromMap(old, v)
  /\ \A old, v : \A k \in Tables : Setting(k, old, v) = UpdateRatioByJSONString(v)
BY DEF Loaded, Setting, Tables, Module

LEMMA OptionSeed ==
  DOMAIN Seed = Keys /\ Seed["GitHubClientId"] = Text("") /\ Seed["GitHubOAuthEnabled"] = Text("false")
BY DEF Seed, Keys, Tables, Module

\* What a fresh start makes of the table.
LEMMA OptionStart ==
  ASSUME NEW t, DOMAIN t \subseteq Keys, NEW m, m = InitOptionMap(t)
  PROVE  /\ DOMAIN m.map = Keys /\ DOMAIN m.live = Keys
         /\ \A k \in DOMAIN t : m.map[k] = Loaded(k, t[k])
         /\ \A k \in Keys : m.live[k] = Setting(k, m.live[k], m.map[k])
         /\ "GitHubClientId" \notin DOMAIN t => m.live["GitHubClientId"] = "" /\ m.map["GitHubClientId"] = Text("")
         /\ "GitHubOAuthEnabled" \notin DOMAIN t => m.live["GitHubOAuthEnabled"] = "false"
<1> DEFINE R == [k \in DOMAIN t |-> Loaded(k, t[k])]
           All == Over(R, Seed)
           Live == [k \in Keys |-> Setting(k, Setting(k, "", Seed[k]), All[k])]
<1>1. m.map = All /\ m.live = Live BY DEF InitOptionMap
<1>2. DOMAIN R = DOMAIN t /\ \A k \in DOMAIN t : R[k] = Loaded(k, t[k]) OBVIOUS
<1> HIDE DEF R
<1>3. /\ DOMAIN All = Keys /\ \A k \in DOMAIN t : All[k] = Loaded(k, t[k])
      /\ \A k \in Keys \ DOMAIN t : All[k] = Seed[k]
  <2>1. /\ DOMAIN All = DOMAIN R \cup DOMAIN Seed /\ \A k \in DOMAIN R : All[k] = R[k]
        /\ \A k \in DOMAIN Seed \ DOMAIN R : All[k] = Seed[k]
    BY OptionMerge
  <2> HIDE DEF All
  <2>2. QED BY <1>2, <2>1, OptionSeed
<1> HIDE DEF All
<1>4. DOMAIN Live = Keys /\ \A k \in Keys : Live[k] = Setting(k, Setting(k, "", Seed[k]), All[k]) OBVIOUS
<1> HIDE DEF Live
<1>5. \A k \in Keys : Live[k] = Setting(k, Live[k], All[k])
  <2> TAKE k \in Keys
  <2>1. PICK x : x = Setting(k, "", Seed[k]) OBVIOUS
  <2>2. PICK v : v = All[k] OBVIOUS
  <2>3. Live[k] = Setting(k, x, v) BY <1>4, <2>1, <2>2
  <2>4. QED BY <2>2, <2>3, OptionSettles
<1>6. "GitHubClientId" \in Keys /\ "GitHubOAuthEnabled" \in Keys BY DEF Keys
<1>7. ASSUME "GitHubClientId" \notin DOMAIN t PROVE Live["GitHubClientId"] = "" /\ All["GitHubClientId"] = Text("")
  <2>1. All["GitHubClientId"] = Text("") BY <1>7, <1>3, <1>6, OptionSeed
  <2>2. All["GitHubClientId"].text = "" BY <2>1, OptionTexts
  <2>3. PICK x, v : x = Live["GitHubClientId"] /\ v = All["GitHubClientId"] OBVIOUS
  <2>4. x = Setting("GitHubClientId", x, v) BY <2>3, <1>5, <1>6
  <2>5. x = v.text BY <2>4, OptionLoadedPlain
  <2>6. QED BY <2>1, <2>2, <2>3, <2>5
<1>8. ASSUME "GitHubOAuthEnabled" \notin DOMAIN t PROVE Live["GitHubOAuthEnabled"] = "false"
  <2>1. All["GitHubOAuthEnabled"] = Text("false") BY <1>8, <1>3, <1>6, OptionSeed
  <2>2. All["GitHubOAuthEnabled"].text = "false" BY <2>1, OptionTexts
  <2>3. PICK x, v : x = Live["GitHubOAuthEnabled"] /\ v = All["GitHubOAuthEnabled"] OBVIOUS
  <2>4. x = Setting("GitHubOAuthEnabled", x, v) BY <2>3, <1>5, <1>6
  <2>5. x = IF v.text = "true" THEN "true" ELSE "false" BY <2>4, OptionLoadedPlain
  <2>6. QED BY <2>2, <2>3, <2>5
<1>9. QED BY <1>1, <1>3, <1>4, <1>5, <1>7, <1>8

LEMMA OptionBeginPut ==
  ASSUME OptionInv, NEW a \in Admins, NEW put \in Puts, NEW whole \in BOOLEAN, BeginPut(a, put, whole)
  PROVE  OptionInv'
<1> DEFINE K == {k \in DOMAIN put : Loading # {} \/ \E b \in Admins \ {a} : k \in Pending(b)}
<1>1. DOMAIN put \subseteq Keys BY OptionAssumption
<1>2. options' = options /\ optionMap' = optionMap /\ live' = live /\ loose' = loose \cup K
      /\ excused' = (excused \/ Unguarded(put, Admins \ {a})) /\ ~optionUpdateRejection(put)
      /\ admin[a].pc = "idle"
  BY DEF BeginPut, Overlap
<1>3. /\ DOMAIN admin' = Admins /\ \A b \in Admins \ {a} : admin'[b] = admin[b]
      /\ admin'[a].pc \in {"create", "commit"} /\ admin'[a].put = put
      /\ DOMAIN admin'[a] = {"pc", "put", "batch"}
  BY DEF BeginPut, OptionInv, OptionRequests
<1>4. /\ DOMAIN loader' = Loaders
      /\ \A l \in Loaders : /\ loader'[l].pc = loader[l].pc /\ loader'[l].rows = loader[l].rows
                            /\ loader'[l].dotted = loader[l].dotted
                            /\ loader'[l].clean = loader[l].clean \ DOMAIN put
                            /\ DOMAIN loader'[l] = {"pc", "rows", "clean", "dotted"}
  <2> SUFFICES ASSUME NEW l \in Loaders
               PROVE  /\ loader'[l].pc = loader[l].pc /\ loader'[l].rows = loader[l].rows
                      /\ loader'[l].dotted = loader[l].dotted
                      /\ loader'[l].clean = loader[l].clean \ DOMAIN put
                      /\ DOMAIN loader'[l] = {"pc", "rows", "clean", "dotted"}
    BY DEF BeginPut, Overlap
  <2>1. loader'[l] = [loader[l] EXCEPT !.clean = @ \ DOMAIN put] BY DEF BeginPut, Overlap
  <2>2. DOMAIN loader[l] = {"pc", "rows", "clean", "dotted"} BY DEF OptionInv, OptionLoaders
  <2> QED BY <2>1, <2>2
<1> K \subseteq Keys BY <1>1
<1>5. /\ Pending(a)' = DOMAIN put /\ \A b \in Admins \ {a} : Pending(b)' = Pending(b)
      /\ Pending(a) = {} /\ \A l \in Loaders : OptionLoads(l)' <=> OptionLoads(l)
      /\ ~(a \in Loaders /\ OptionLoads(a))
  BY <1>2, <1>3, <1>4, OptionAssumption DEF Pending, OptionLoads, OptionInv, OptionRequests, OptionLoaders, Loaders
<1>6. \A k : (OptionSound(k)' => OptionSound(k)) /\ (OptionFresh(k)' <=> OptionFresh(k))
             /\ (OptionFollows(k)' <=> OptionFollows(k))
  BY <1>2, <1>4 DEF OptionSound, OptionFresh, OptionFollows
<1>7. \A k \in K : k \in loose' BY <1>2
<1>8. \A k \in DOMAIN put : (\E b \in Admins \ {a} : k \in Pending(b)) \/ (\E l \in Loaders : OptionLoads(l)) => k \in K
  BY DEF Loading, OptionLoads
<1> HIDE DEF K
<1>s. OptionShape' 
  <2>1. excused' \in BOOLEAN BY <1>2
  <2>2. QED BY <1>2, <2>1 DEF OptionInv, OptionShape
<1>r. OptionRequests' BY <1>1, <1>2, <1>3, <1>5 DEF OptionInv, OptionRequests
<1>l. OptionLoaders' BY <1>2, <1>3, <1>4, <1>5 DEF OptionInv, OptionLoaders, OptionLoads, Loaders
<1>a. OptionAlone'
  <2> SUFFICES ASSUME NEW b \in Admins, NEW k \in Pending(b)'
               PROVE  /\ \A c \in Admins \ {b} : k \in Pending(c)' => k \in loose'
                      /\ \A l \in Loaders \ {b} : (OptionLoads(l)' => k \in loose') /\ k \notin loader'[l].clean
    BY DEF OptionAlone
  <2>1. CASE b = a BY <2>1, <1>2, <1>3, <1>4, <1>5, <1>8 DEF Loaders
  <2>2. CASE b # a BY <2>2, <1>2, <1>4, <1>5, <1>8 DEF OptionInv, OptionAlone
  <2>3. QED BY <2>1, <2>2
<1>w. OptionWritten' BY <1>2, <1>3, <1>5 DEF OptionInv, OptionWritten
<1>o. OptionRows' BY <1>2, <1>4, <1>5, <1>6 DEF OptionInv, OptionRows
<1>f. OptionFollowed'
  <2>1. \A b \in Admins, k \in Keys : OptionIsWritten(b, k) => OptionIsWritten(b, k)'
    BY <1>2, <1>3, <1>5 DEF OptionIsWritten
  <2>2. QED BY <2>1, <1>2, <1>6 DEF OptionInv, OptionFollowed, OptionShape
<1>b. OptionAbsent' BY <1>2 DEF OptionInv, OptionAbsent
<1>g. OptionGuarded'
  <2> SUFFICES ASSUME ~excused'
               PROVE  /\ EnabledIn(options)' => CredentialIn(options)'
                      /\ \A b \in Admins : Unsaved(b)' =>
                           /\ CountsOnIt(admin[b].put)' =>
                                CredentialIn(options)' /\ \A c \in Admins : Unsaved(c)' => ~Clears(admin[c].put)'
                           /\ Clears(admin[b].put)' =>
                                "GitHubOAuthEnabled" \in Pending(b)' /\ admin'[b].put["GitHubOAuthEnabled"].text # "true"
    BY DEF OptionGuarded
  <2>1. ~excused /\ ~Unguarded(put, Admins \ {a}) BY <1>2
  <2>2. /\ EnabledIn(options) => CredentialIn(options)
        /\ EnabledIn(options)' = EnabledIn(options) /\ CredentialIn(options)' = CredentialIn(options)
    BY <2>1, <1>2 DEF OptionInv, OptionGuarded
  <2>3. \A b \in Admins \ {a} : /\ Unsaved(b)' <=> Unsaved(b)
                                /\ CountsOnIt(admin[b].put)' <=> CountsOnIt(admin[b].put)
                                /\ Clears(admin[b].put)' <=> Clears(admin[b].put)
    BY <1>3 DEF Unsaved, CountsOnIt, Clears
  <2>4. (CountsOnIt(admin[a].put)' <=> CountsOnIt(put)) /\ (Clears(admin[a].put)' <=> Clears(put))
    BY <1>3 DEF CountsOnIt, Clears
  <2>5. ASSUME Clears(put)
        PROVE  /\ "GitHubOAuthEnabled" \in DOMAIN put /\ put["GitHubOAuthEnabled"].text # "true"
               /\ \A b \in Admins \ {a} : Unsaved(b) => ~CountsOnIt(admin[b].put)
    BY <2>5, <2>1, <1>2 DEF Unguarded, optionUpdateRejection, Effective, Clears
  <2>6. ASSUME CountsOnIt(put)
        PROVE  CredentialIn(options) /\ ~Clears(put) /\ \A b \in Admins \ {a} : ~Clears(admin[b].put)
    <3>1. "GitHubClientId" \notin loose /\ (\A b \in Admins \ {a} : ~Clears(admin[b].put)) /\ ~Clears(put)
      BY <2>6, <2>1 DEF Unguarded, CountsOnIt, Clears
    <3>2. live["GitHubClientId"] # ""
      BY <2>6, <1>2 DEF CountsOnIt, optionUpdateRejection, Effective
    <3>3. "GitHubClientId" \in DOMAIN options BY <3>2 DEF OptionInv, OptionAbsent
    <3>4. CASE OptionFollows("GitHubClientId")
      <4>1. PICK v : v = options["GitHubClientId"] OBVIOUS
      <4>2. PICK old : old = live["GitHubClientId"] OBVIOUS
      <4>3. Loaded("GitHubClientId", v) = v /\ Setting("GitHubClientId", old, v) = v.text BY OptionLoadedPlain
      <4>4. old = v.text BY <3>4, <4>1, <4>2, <4>3 DEF OptionFollows
      <4>5. QED BY <3>1, <3>2, <3>3, <4>1, <4>2, <4>4 DEF CredentialIn
    <3>5. ASSUME NEW b \in Admins, OptionIsWritten(b, "GitHubClientId") PROVE CredentialIn(options)
      <4>1. b # a /\ "GitHubClientId" \in Pending(b) /\ admin[b].pc \in {"apply", "reload"}
        BY <3>5, <1>2 DEF OptionIsWritten
      <4>2. options["GitHubClientId"] = admin[b].put["GitHubClientId"]
        BY <3>1, <4>1 DEF OptionInv, OptionWritten
      <4>3. QED BY <3>1, <3>3, <4>1, <4>2 DEF Clears, CredentialIn, Pending
    <3>6. QED BY <3>1, <3>3, <3>4, <3>5 DEF OptionInv, OptionFollowed
  <2>7. \A b \in Admins \ {a} : Unsaved(b) =>
          /\ CountsOnIt(admin[b].put) => CredentialIn(options) /\ \A c \in Admins : Unsaved(c) => ~Clears(admin[c].put)
          /\ Clears(admin[b].put) => "GitHubOAuthEnabled" \in Pending(b) /\ admin[b].put["GitHubOAuthEnabled"].text # "true"
    BY <2>1 DEF OptionInv, OptionGuarded
  <2>8. \A b \in Admins \ {a} : Unsaved(b)' /\ CountsOnIt(admin[b].put)' =>
          \A c \in Admins : Unsaved(c)' => ~Clears(admin[c].put)'
    BY <2>3, <2>4, <2>5, <2>7
  <2>9. \A b \in Admins \ {a} : Unsaved(b)' /\ Clears(admin[b].put)' =>
          "GitHubOAuthEnabled" \in Pending(b)' /\ admin'[b].put["GitHubOAuthEnabled"].text # "true"
    BY <2>3, <2>7, <1>3, <1>5
  <2>10. QED BY <2>2, <2>3, <2>4, <2>5, <2>6, <2>7, <2>8, <2>9, <1>3, <1>5
<1>q. QED BY <1>s, <1>r, <1>l, <1>a, <1>w, <1>o, <1>f, <1>b, <1>g DEF OptionInv

\* While a request writes, no load under way can be trusted with its keys.
LEMMA OptionUndisturbed ==
  ASSUME OptionInv, NEW a \in Admins, admin[a].pc # "reload"
  PROVE  \A k \in Pending(a), l \in Loaders : ~(OptionLoads(l) /\ OptionSound(k))
<1> TAKE k \in Pending(a), l \in Loaders
<1> SUFFICES ASSUME OptionLoads(l), OptionSound(k) PROVE FALSE OBVIOUS
<1>1. a \in Loaders /\ a # Sync BY OptionAssumption DEF Loaders
<1>2. ~OptionLoads(a) BY <1>1 DEF OptionInv, OptionLoaders
<1>3. loader[a].clean = {} BY <1>1, <1>2 DEF OptionInv, OptionLoaders, OptionLoads
<1>4. k \in loose BY <1>2 DEF OptionInv, OptionAlone
<1>5. \A m \in Loaders : k \notin loader[m].clean BY <1>3 DEF OptionInv, OptionAlone
<1>6. QED BY <1>4, <1>5 DEF OptionSound

LEMMA OptionCreateRow ==
  ASSUME OptionInv, NEW a \in Admins, CreateRow(a)
  PROVE  OptionInv'
<1> DEFINE New == [k \in Pending(a) |-> Text("")]
<1>1. /\ admin[a].pc = "create" /\ options' = Over(options, New)
      /\ optionMap' = optionMap /\ live' = live /\ loader' = loader /\ loose' = loose /\ excused' = excused
  BY DEF CreateRow
<1>2. /\ DOMAIN admin' = Admins /\ \A b \in Admins \ {a} : admin'[b] = admin[b]
      /\ admin'[a].pc = "save" /\ admin'[a].put = admin[a].put /\ DOMAIN admin'[a] = {"pc", "put", "batch"}
  BY DEF CreateRow, OptionInv, OptionRequests
<1>3. DOMAIN New = Pending(a) /\ \A k \in Pending(a) : New[k] = Text("") OBVIOUS
<1> HIDE DEF New
<1>4. /\ DOMAIN options' = DOMAIN options \cup Pending(a) /\ \A k \in DOMAIN options : options'[k] = options[k]
      /\ \A k \in Pending(a) \ DOMAIN options : options'[k] = Text("")
  <2>1. /\ DOMAIN Over(options, New) = DOMAIN options \cup DOMAIN New
        /\ \A k \in DOMAIN options : Over(options, New)[k] = options[k]
        /\ \A k \in DOMAIN New \ DOMAIN options : Over(options, New)[k] = New[k]
    BY OptionMerge
  <2>2. QED BY <1>1, <2>1, <1>3
<1>5. /\ \A b \in Admins : Pending(b)' = Pending(b)
      /\ \A b \in Admins : Unsaved(b)' <=> Unsaved(b)
      /\ \A l \in Loaders : OptionLoads(l)' <=> OptionLoads(l)
      /\ \A k : OptionSound(k)' <=> OptionSound(k)
  BY <1>1, <1>2 DEF Pending, Unsaved, OptionLoads, OptionSound
<1>6. \A k \in DOMAIN options : (OptionFresh(k)' <=> OptionFresh(k)) /\ (OptionFollows(k)' <=> OptionFollows(k))
  BY <1>1, <1>4 DEF OptionFresh, OptionFollows
<1>7. \A k \in Pending(a), l \in Loaders : ~(OptionLoads(l) /\ OptionSound(k))
  BY <1>1, OptionUndisturbed
<1>p. Pending(a) \subseteq Keys BY DEF OptionInv, OptionRequests
<1>s. OptionShape' BY <1>1, <1>4, <1>p DEF OptionInv, OptionShape
<1>r. OptionRequests'
  <2>1. \A b \in Admins : DOMAIN admin'[b] = {"pc", "put", "batch"} /\ Pending(b)' \subseteq Keys
    BY <1>2, <1>5 DEF OptionInv, OptionRequests
  <2>2. \A b \in Admins \ {a} :
          /\ admin'[b].pc \in {"idle", "create", "save", "commit", "apply", "reload"}
          /\ admin'[b].pc = "idle" => Pending(b)' = {}
          /\ admin'[b].pc \in {"save", "apply", "reload"} => Pending(b)' \subseteq DOMAIN options'
    BY <1>2, <1>4, <1>5 DEF OptionInv, OptionRequests
  <2>3. admin'[a].pc = "save" /\ Pending(a)' \subseteq DOMAIN options' BY <1>2, <1>4, <1>5
  <2>4. QED BY <2>1, <2>2, <2>3, <1>2 DEF OptionRequests
<1>l. OptionLoaders' BY <1>1, <1>2, <1>4, <1>5 DEF OptionInv, OptionLoaders, OptionLoads, Loaders
<1>a. OptionAlone' BY <1>1, <1>5 DEF OptionInv, OptionAlone
<1>w. OptionWritten'
  <2> SUFFICES ASSUME NEW b \in Admins, NEW k \in Pending(b) \ loose, admin'[b].pc \in {"apply", "reload"}
               PROVE  options'[k] = admin'[b].put[k]
    BY <1>1, <1>5 DEF OptionWritten
  <2>1. b # a /\ admin'[b] = admin[b] BY <1>2
  <2>2. k \in DOMAIN options BY <2>1 DEF OptionInv, OptionRequests
  <2>3. options[k] = admin[b].put[k] BY <2>1 DEF OptionInv, OptionWritten
  <2>4. QED BY <2>1, <2>2, <2>3, <1>4
<1>o. OptionRows' BY <1>1, <1>4, <1>5, <1>6, <1>7 DEF OptionInv, OptionRows
<1>f. OptionFollowed'
  <2>1. \A b \in Admins, k \in Keys : OptionIsWritten(b, k) => OptionIsWritten(b, k)'
    BY <1>1, <1>2, <1>5 DEF OptionIsWritten
  <2>2. \A k \in Pending(a) : k # "GitHubClientId" => OptionIsWritten(a, k)'
    BY <1>2, <1>5 DEF OptionIsWritten
  <2>3. "GitHubClientId" \notin DOMAIN options /\ "GitHubClientId" \in Pending(a) => OptionFollows("GitHubClientId")'
    <3> SUFFICES ASSUME "GitHubClientId" \notin DOMAIN options, "GitHubClientId" \in Pending(a)
                 PROVE  OptionFollows("GitHubClientId")'
      OBVIOUS
    <3>1. live["GitHubClientId"] = "" /\ optionMap["GitHubClientId"] = Text("") BY DEF OptionInv, OptionAbsent
    <3>2. PICK v : v = Text("") OBVIOUS
    <3>3. v.text = "" BY <3>2, OptionTexts
    <3>4. \A old : Setting("GitHubClientId", old, v) = "" BY <3>3, OptionLoadedPlain
    <3>5. options'["GitHubClientId"] = v BY <1>4, <3>2
    <3>6. QED BY <1>1, <3>1, <3>2, <3>4, <3>5 DEF OptionFollows
  <2>4. QED BY <2>1, <2>2, <2>3, <1>1, <1>4, <1>6 DEF OptionInv, OptionFollowed, OptionShape
<1>b. OptionAbsent' BY <1>1, <1>4 DEF OptionInv, OptionAbsent
<1>g. OptionGuarded'
  <2>1. EnabledIn(options)' => EnabledIn(options)
    <3>1. PICK v : v = Text("") OBVIOUS
    <3>2. v.text # "true" BY <3>1, OptionTexts
    <3>3. QED BY <1>4, <3>1, <3>2 DEF EnabledIn
  <2>2. CredentialIn(options) => CredentialIn(options)' BY <1>4 DEF CredentialIn
  <2>3. \A b \in Admins : /\ CountsOnIt(admin[b].put)' <=> CountsOnIt(admin[b].put)
                          /\ Clears(admin[b].put)' <=> Clears(admin[b].put)
                          /\ admin'[b].put = admin[b].put
    BY <1>2 DEF CountsOnIt, Clears
  <2>4. QED BY <1>1, <1>5, <2>1, <2>2, <2>3 DEF OptionInv, OptionGuarded
<1>q. QED BY <1>s, <1>r, <1>l, <1>a, <1>w, <1>o, <1>f, <1>b, <1>g DEF OptionInv

\* A Save or a transaction that succeeds.
LEMMA OptionSaved ==
  ASSUME OptionInv, NEW a \in Admins, Unsaved(a), options' = Over(admin[a].put, options),
         admin' = [admin EXCEPT ![a].pc = "apply"],
         optionMap' = optionMap, live' = live, loader' = loader, loose' = loose, excused' = excused
  PROVE  OptionInv'
<1>2. /\ DOMAIN admin' = Admins /\ \A b \in Admins \ {a} : admin'[b] = admin[b]
      /\ admin'[a].pc = "apply" /\ admin'[a].put = admin[a].put /\ DOMAIN admin'[a] = {"pc", "put", "batch"}
  BY DEF OptionInv, OptionRequests
<1>4. /\ DOMAIN options' = DOMAIN options \cup Pending(a)
      /\ \A k \in DOMAIN options \ Pending(a) : options'[k] = options[k]
      /\ \A k \in Pending(a) : options'[k] = admin[a].put[k]
  <2> DEFINE Put == admin[a].put
  <2> HIDE DEF Put
  <2>1. options' = Over(Put, options) /\ DOMAIN Put = Pending(a) BY DEF Put, Pending
  <2>2. /\ DOMAIN Over(Put, options) = DOMAIN Put \cup DOMAIN options
        /\ \A k \in DOMAIN Put : Over(Put, options)[k] = Put[k]
        /\ \A k \in DOMAIN options \ DOMAIN Put : Over(Put, options)[k] = options[k]
    BY OptionMerge
  <2>3. /\ DOMAIN options' = DOMAIN options \cup Pending(a)
        /\ \A k \in DOMAIN options \ Pending(a) : options'[k] = options[k]
        /\ \A k \in Pending(a) : options'[k] = Put[k]
    BY <2>1, <2>2
  <2>4. QED BY <2>3 DEF Put
<1>5. /\ \A b \in Admins : Pending(b)' = Pending(b)
      /\ \A b \in Admins \ {a} : Unsaved(b)' <=> Unsaved(b)
      /\ ~Unsaved(a)'
      /\ \A l \in Loaders : OptionLoads(l)' <=> OptionLoads(l)
      /\ \A k : OptionSound(k)' <=> OptionSound(k)
  BY <1>2 DEF Pending, Unsaved, OptionLoads, OptionSound
<1>6. \A k \in DOMAIN options \ Pending(a) :
        (OptionFresh(k)' <=> OptionFresh(k)) /\ (OptionFollows(k)' <=> OptionFollows(k))
  BY <1>4 DEF OptionFresh, OptionFollows
<1>7. \A k \in Pending(a), l \in Loaders : ~(OptionLoads(l) /\ OptionSound(k))
  BY OptionUndisturbed DEF Unsaved
<1>p. Pending(a) \subseteq Keys BY DEF OptionInv, OptionRequests
<1>s. OptionShape' BY <1>4, <1>p DEF OptionInv, OptionShape
<1>r. OptionRequests' BY <1>2, <1>4, <1>5 DEF OptionInv, OptionRequests
<1>l. OptionLoaders' BY <1>2, <1>4, <1>5 DEF OptionInv, OptionLoaders, OptionLoads, Loaders, Unsaved
<1>a. OptionAlone' BY <1>5 DEF OptionInv, OptionAlone
<1>w. OptionWritten'
  <2> SUFFICES ASSUME NEW b \in Admins, NEW k \in Pending(b) \ loose, admin'[b].pc \in {"apply", "reload"}
               PROVE  options'[k] = admin'[b].put[k]
    BY <1>5 DEF OptionWritten
  <2>1. CASE b = a BY <2>1, <1>2, <1>4
  <2>2. CASE b # a
    <3>1. k \notin Pending(a) BY <2>2 DEF OptionInv, OptionAlone
    <3>2. k \in DOMAIN options BY <2>2, <1>2 DEF OptionInv, OptionRequests
    <3>3. QED BY <2>2, <3>1, <3>2, <1>2, <1>4 DEF OptionInv, OptionWritten
  <2>3. QED BY <2>1, <2>2
<1>o. OptionRows' BY <1>4, <1>5, <1>6, <1>7 DEF OptionInv, OptionRows
<1>f. OptionFollowed'
  <2>1. \A b \in Admins, k \in Keys : OptionIsWritten(b, k) => OptionIsWritten(b, k)'
    BY <1>2, <1>5 DEF OptionIsWritten
  <2>2. \A k \in Pending(a) : OptionIsWritten(a, k)' BY <1>2, <1>5 DEF OptionIsWritten
  <2>4. QED BY <2>1, <2>2, <1>4, <1>6 DEF OptionInv, OptionFollowed, OptionShape
<1>b. OptionAbsent' BY <1>4 DEF OptionInv, OptionAbsent
<1>g. OptionGuarded'
  <2> SUFFICES ASSUME ~excused PROVE OptionGuarded' BY DEF OptionGuarded
  <2>1. /\ EnabledIn(options) => CredentialIn(options)
        /\ \A b \in Admins : Unsaved(b) =>
             /\ CountsOnIt(admin[b].put) => CredentialIn(options) /\ \A c \in Admins : Unsaved(c) => ~Clears(admin[c].put)
             /\ Clears(admin[b].put) => "GitHubOAuthEnabled" \in Pending(b) /\ admin[b].put["GitHubOAuthEnabled"].text # "true"
    BY DEF OptionInv, OptionGuarded
  <2>2. CredentialIn(options) /\ ~Clears(admin[a].put) => CredentialIn(options)'
    BY <1>4 DEF CredentialIn, Clears, Pending
  <2>3. EnabledIn(options)' => CredentialIn(options)'
    <3> SUFFICES ASSUME EnabledIn(options)' PROVE CredentialIn(options)' OBVIOUS
    <3>1. ~Clears(admin[a].put) BY <2>1, <1>4 DEF EnabledIn
    <3>2. CASE "GitHubClientId" \in Pending(a) BY <3>1, <3>2, <1>4 DEF CredentialIn, Clears, Pending
    <3>3. CASE "GitHubClientId" \notin Pending(a)
      <4>1. CASE "GitHubOAuthEnabled" \in Pending(a)
        BY <4>1, <3>1, <3>3, <1>4, <2>1, <2>2 DEF EnabledIn, CountsOnIt, Pending
      <4>2. CASE "GitHubOAuthEnabled" \notin Pending(a)
        BY <4>2, <3>1, <1>4, <2>1, <2>2 DEF EnabledIn
      <4>3. QED BY <4>1, <4>2
    <3>4. QED BY <3>2, <3>3
  <2>4. \A b \in Admins : /\ CountsOnIt(admin[b].put)' <=> CountsOnIt(admin[b].put)
                          /\ Clears(admin[b].put)' <=> Clears(admin[b].put)
                          /\ admin'[b].put = admin[b].put
    BY <1>2 DEF CountsOnIt, Clears
  <2>5. QED BY <1>5, <2>1, <2>2, <2>3, <2>4 DEF OptionGuarded
<1>q. QED BY <1>s, <1>r, <1>l, <1>a, <1>w, <1>o, <1>f, <1>b, <1>g DEF OptionInv

\* Nothing is written, and keys K are given up.
LEMMA OptionGivenUp ==
  ASSUME OptionInv, NEW a \in Admins, Unsaved(a), options' = options, NEW K \in SUBSET Keys,
         loose' = loose \cup K, excused' = (excused \/ "GitHubClientId" \in K),
         \/ admin' = [admin EXCEPT ![a].pc = "apply"] /\ Pending(a) \subseteq K /\ Pending(a) \subseteq DOMAIN options
         \/ admin[a].pc = "commit" /\ admin' = [admin EXCEPT ![a] = IdleAdmin],
         optionMap' = optionMap, live' = live, loader' = loader
  PROVE  OptionInv'
<1>2. /\ DOMAIN admin' = Admins /\ \A b \in Admins \ {a} : admin'[b] = admin[b]
      /\ DOMAIN admin'[a] = {"pc", "put", "batch"}
      /\ \/ admin'[a].pc = "apply" /\ admin'[a].put = admin[a].put /\ Pending(a) \subseteq K /\ Pending(a) \subseteq DOMAIN options
         \/ admin'[a].pc = "idle" /\ DOMAIN admin'[a].put = {}
  BY DEF OptionInv, OptionRequests, IdleAdmin, NoTable
<1>5. /\ \A b \in Admins \ {a} : Pending(b)' = Pending(b) /\ (Unsaved(b)' <=> Unsaved(b))
      /\ Pending(a)' \subseteq Pending(a) \cap K
      /\ ~Unsaved(a)'
      /\ \A l \in Loaders : OptionLoads(l)' <=> OptionLoads(l)
      /\ \A k : (OptionSound(k)' => OptionSound(k)) /\ (OptionFresh(k)' <=> OptionFresh(k)) /\ (OptionFollows(k)' <=> OptionFollows(k))
  BY <1>2 DEF Pending, Unsaved, OptionLoads, OptionSound, OptionFresh, OptionFollows
<1>s. OptionShape'
  <2>1. excused' \in BOOLEAN OBVIOUS
  <2>2. QED BY <2>1 DEF OptionInv, OptionShape
<1>r. OptionRequests' BY <1>2, <1>5 DEF OptionInv, OptionRequests, Pending
<1>l. OptionLoaders' BY <1>2, <1>5 DEF OptionInv, OptionLoaders, OptionLoads, Loaders, Unsaved
<1>a. OptionAlone' BY <1>5 DEF OptionInv, OptionAlone
<1>w. OptionWritten' BY <1>2, <1>5 DEF OptionInv, OptionWritten
<1>o. OptionRows' BY <1>5 DEF OptionInv, OptionRows
<1>f. OptionFollowed'
  <2>1. \A b \in Admins \ {a}, k \in Keys : OptionIsWritten(b, k) => OptionIsWritten(b, k)'
    BY <1>2, <1>5 DEF OptionIsWritten
  <2>2. \A k \in Keys \ K : ~OptionIsWritten(a, k)
    BY DEF OptionIsWritten
  <2>4. QED BY <2>1, <2>2, <1>5 DEF OptionInv, OptionFollowed, OptionShape
<1>b. OptionAbsent' BY DEF OptionInv, OptionAbsent
<1>g. OptionGuarded'
  <2>1. EnabledIn(options)' = EnabledIn(options) /\ CredentialIn(options)' = CredentialIn(options) OBVIOUS
  <2>4. \A b \in Admins \ {a} : /\ CountsOnIt(admin[b].put)' <=> CountsOnIt(admin[b].put)
                          /\ Clears(admin[b].put)' <=> Clears(admin[b].put)
                          /\ admin'[b].put = admin[b].put
    BY <1>2 DEF CountsOnIt, Clears
  <2>5. ~excused' => ~excused OBVIOUS
  <2>6. ASSUME ~excused
        PROVE  /\ EnabledIn(options) => CredentialIn(options)
               /\ \A b \in Admins : Unsaved(b) =>
                    /\ CountsOnIt(admin[b].put) => CredentialIn(options) /\ \A c \in Admins : Unsaved(c) => ~Clears(admin[c].put)
                    /\ Clears(admin[b].put) => "GitHubOAuthEnabled" \in Pending(b) /\ admin[b].put["GitHubOAuthEnabled"].text # "true"
    BY <2>6 DEF OptionInv, OptionGuarded
  <2>7. ASSUME ~excused', NEW b \in Admins, Unsaved(b)'
        PROVE  /\ CountsOnIt(admin[b].put)' => CredentialIn(options)' /\ \A c \in Admins : Unsaved(c)' => ~Clears(admin[c].put)'
               /\ Clears(admin[b].put)' => "GitHubOAuthEnabled" \in Pending(b)' /\ admin'[b].put["GitHubOAuthEnabled"].text # "true"
    <3>1. b # a /\ Unsaved(b) /\ ~excused BY <2>5, <2>7, <1>5
    <3>2. CountsOnIt(admin[b].put)' => CredentialIn(options)' /\ \A c \in Admins : Unsaved(c)' => ~Clears(admin[c].put)'
      <4> SUFFICES ASSUME CountsOnIt(admin[b].put)'
                   PROVE  CredentialIn(options)' /\ \A c \in Admins : Unsaved(c)' => ~Clears(admin[c].put)'
        OBVIOUS
      <4>1. CountsOnIt(admin[b].put) BY <3>1, <1>2 DEF CountsOnIt
      <4>2. CredentialIn(options) /\ \A c \in Admins : Unsaved(c) => ~Clears(admin[c].put) BY <4>1, <3>1, <2>6
      <4>3. QED BY <4>2, <2>1, <1>2, <1>5 DEF Clears
    <3>3. Clears(admin[b].put)' => "GitHubOAuthEnabled" \in Pending(b)' /\ admin'[b].put["GitHubOAuthEnabled"].text # "true"
      <4> SUFFICES ASSUME Clears(admin[b].put)'
                   PROVE  "GitHubOAuthEnabled" \in Pending(b)' /\ admin'[b].put["GitHubOAuthEnabled"].text # "true"
        OBVIOUS
      <4>1. admin'[b] = admin[b] /\ Pending(b)' = Pending(b) BY <3>1, <1>2, <1>5
      <4>2. Clears(admin[b].put) BY <4>1 DEF Clears
      <4>3. "GitHubOAuthEnabled" \in Pending(b) /\ admin[b].put["GitHubOAuthEnabled"].text # "true"
        BY <4>2, <3>1, <2>6
      <4>4. QED BY <4>1, <4>3
    <3>4. QED BY <3>2, <3>3
  <2>8. ~excused' => (EnabledIn(options)' => CredentialIn(options)') BY <2>1, <2>5, <2>6
  <2>9. QED BY <2>7, <2>8 DEF OptionGuarded
<1>q. QED BY <1>s, <1>r, <1>l, <1>a, <1>w, <1>o, <1>f, <1>b, <1>g DEF OptionInv

\* Actions that leave the requests and the verdict about the credential alone.
LEMMA OptionGuardedStays ==
  ASSUME OptionInv, options' = options, excused' = excused, NEW a \in Admins, ~Unsaved(a)', ~Unsaved(a),
         \A b \in Admins \ {a} : admin'[b] = admin[b]
  PROVE  OptionGuarded'
<1>1. \A b \in Admins : Unsaved(b)' <=> Unsaved(b) BY DEF Unsaved
<1>2. \A b \in Admins : Unsaved(b) => admin'[b].put = admin[b].put /\ Pending(b)' = Pending(b) BY DEF Pending
<1>3. QED BY <1>1, <1>2 DEF OptionInv, OptionGuarded, CountsOnIt, Clears

LEMMA OptionApply ==
  ASSUME OptionInv, NEW a \in Admins, NEW k \in Pending(a), Apply(a, k)
  PROVE  OptionInv'
<1> DEFINE Others == Without(admin[a].put, k)
           v == admin[a].put[k]
<1>1. /\ admin[a].pc = "apply" /\ options' = options /\ loader' = loader /\ loose' = loose /\ excused' = excused
      /\ optionMap' = [optionMap EXCEPT ![k] = v] /\ live' = [live EXCEPT ![k] = Setting(k, @, v)]
  BY DEF Apply, updateOptionMap
<1>2. DOMAIN Others = Pending(a) \ {k} /\ \A j \in Pending(a) \ {k} : Others[j] = admin[a].put[j]
  BY DEF Without, Pending
<1>3. \/ admin' = [admin EXCEPT ![a].pc = "reload"]
      \/ DOMAIN Others = {} /\ admin' = [admin EXCEPT ![a] = IdleAdmin]
      \/ DOMAIN Others # {} /\ admin' = [admin EXCEPT ![a].put = Others]
  BY DEF Apply, Resync
<1> HIDE DEF Others
<1>4. /\ DOMAIN admin' = Admins /\ \A b \in Admins \ {a} : admin'[b] = admin[b]
      /\ DOMAIN admin'[a] = {"pc", "put", "batch"}
      /\ \/ admin'[a].pc = "reload" /\ admin'[a].put = admin[a].put
         \/ admin'[a].pc = "idle" /\ DOMAIN admin'[a].put = {} /\ DOMAIN Others = {}
         \/ admin'[a].pc = "apply" /\ admin'[a].put = Others
  BY <1>1, <1>3 DEF OptionInv, OptionRequests, IdleAdmin, NoTable
<1>p. Pending(a) \subseteq Keys /\ Pending(a) \subseteq DOMAIN options /\ k \in Keys
  BY <1>1 DEF OptionInv, OptionRequests
<1>5. /\ Pending(a)' \subseteq Pending(a) /\ \A b \in Admins \ {a} : Pending(b)' = Pending(b)
      /\ \A j \in Pending(a) \ {k} : j \in Pending(a)' /\ admin'[a].pc \in {"apply", "reload"}
      /\ \A j \in Pending(a)' : admin'[a].put[j] = admin[a].put[j]
      /\ ~Unsaved(a) /\ ~Unsaved(a)'
      /\ \A l \in Loaders : OptionLoads(l)' <=> OptionLoads(l)
      /\ \A j : OptionSound(j)' <=> OptionSound(j)
  BY <1>1, <1>2, <1>4 DEF Pending, Unsaved, OptionLoads, OptionSound
<1>6. /\ DOMAIN optionMap' = Keys /\ DOMAIN live' = Keys
      /\ \A j \in Keys \ {k} : optionMap'[j] = optionMap[j] /\ live'[j] = live[j]
      /\ optionMap'[k] = v /\ live'[k] = Setting(k, live[k], v)
  BY <1>1, <1>p DEF OptionInv, OptionShape
<1>7. \A j \in Keys \ {k} : (OptionFresh(j)' <=> OptionFresh(j)) /\ (OptionFollows(j)' <=> OptionFollows(j))
  BY <1>1, <1>6 DEF OptionFresh, OptionFollows
<1>8. \A l \in Loaders : ~(OptionLoads(l) /\ OptionSound(k)) BY <1>1, OptionUndisturbed
<1>s. OptionShape' BY <1>1, <1>6 DEF OptionInv, OptionShape
<1>r. OptionRequests'
  <2>1. \A b \in Admins \ {a} :
          /\ DOMAIN admin'[b] = {"pc", "put", "batch"} /\ Pending(b)' \subseteq Keys
          /\ admin'[b].pc \in {"idle", "create", "save", "commit", "apply", "reload"}
          /\ admin'[b].pc = "idle" => Pending(b)' = {}
          /\ admin'[b].pc \in {"save", "apply", "reload"} => Pending(b)' \subseteq DOMAIN options'
    BY <1>1, <1>4, <1>5 DEF OptionInv, OptionRequests
  <2>2. /\ DOMAIN admin'[a] = {"pc", "put", "batch"} /\ Pending(a)' \subseteq Keys
        /\ admin'[a].pc \in {"idle", "create", "save", "commit", "apply", "reload"}
        /\ admin'[a].pc = "idle" => Pending(a)' = {}
        /\ Pending(a)' \subseteq DOMAIN options'
    BY <1>1, <1>4, <1>5, <1>p DEF Pending
  <2>3. QED BY <2>1, <2>2, <1>4 DEF OptionRequests
<1>l. OptionLoaders' BY <1>1, <1>4, <1>5 DEF OptionInv, OptionLoaders, OptionLoads, Loaders
<1>a. OptionAlone' BY <1>1, <1>5 DEF OptionInv, OptionAlone
<1>w. OptionWritten' BY <1>1, <1>4, <1>5 DEF OptionInv, OptionWritten
<1>o. OptionRows' BY <1>1, <1>5, <1>7, <1>8 DEF OptionInv, OptionRows, OptionShape
<1>f. OptionFollowed'
  <2>1. \A b \in Admins, j \in Keys \ {k} : OptionIsWritten(b, j) => OptionIsWritten(b, j)'
    BY <1>4, <1>5 DEF OptionIsWritten
  <2>2. k \notin loose => OptionFollows(k)'
    <3> SUFFICES ASSUME k \notin loose PROVE OptionFollows(k)' OBVIOUS
    <3>1. options[k] = v BY <1>1 DEF OptionInv, OptionWritten
    <3>2. PICK old : old = live[k] OBVIOUS
    <3>3. PICK val : val = v OBVIOUS
    <3>4. live'[k] = Setting(k, old, val) /\ optionMap'[k] = val BY <1>6, <3>2, <3>3
    <3>5. Setting(k, Setting(k, old, val), val) = Setting(k, old, val) BY OptionSettles
    <3>6. QED BY <1>1, <3>1, <3>3, <3>4, <3>5 DEF OptionFollows
  <2>3. QED BY <2>1, <2>2, <1>1, <1>7 DEF OptionInv, OptionFollowed, OptionShape
<1>b. OptionAbsent' BY <1>1, <1>6, <1>p DEF OptionInv, OptionAbsent, Keys
<1>g. OptionGuarded' BY <1>1, <1>4, <1>5, OptionGuardedStays
<1>q. QED BY <1>s, <1>r, <1>l, <1>a, <1>w, <1>o, <1>f, <1>b, <1>g DEF OptionInv

LEMMA OptionOtherProcess ==
  ASSUME OptionInv, NEW put \in Puts, OtherProcessWrites(put)
  PROVE  OptionInv'
<1>1. /\ options' = Over(put, options) /\ optionMap' = optionMap /\ live' = live /\ admin' = admin
      /\ loose' = loose \cup DOMAIN put
      /\ excused' = (excused \/ DOMAIN put \cap {"GitHubClientId", "GitHubOAuthEnabled"} # {})
      /\ loader' = [l \in Loaders |-> [loader[l] EXCEPT !.clean = @ \ DOMAIN put]]
  BY DEF OtherProcessWrites
<1>2. DOMAIN put \subseteq Keys BY OptionAssumption
<1>3. /\ DOMAIN options' = DOMAIN options \cup DOMAIN put
      /\ \A k \in DOMAIN options \ DOMAIN put : options'[k] = options[k]
  <2>1. /\ DOMAIN Over(put, options) = DOMAIN put \cup DOMAIN options
        /\ \A k \in DOMAIN put : Over(put, options)[k] = put[k]
        /\ \A k \in DOMAIN options \ DOMAIN put : Over(put, options)[k] = options[k]
    BY OptionMerge
  <2>2. QED BY <1>1, <2>1
<1>4. /\ DOMAIN loader' = Loaders
      /\ \A l \in Loaders : /\ loader'[l].pc = loader[l].pc /\ loader'[l].rows = loader[l].rows
                            /\ loader'[l].dotted = loader[l].dotted
                            /\ loader'[l].clean = loader[l].clean \ DOMAIN put
                            /\ DOMAIN loader'[l] = {"pc", "rows", "clean", "dotted"}
  <2> SUFFICES ASSUME NEW l \in Loaders
               PROVE  /\ loader'[l].pc = loader[l].pc /\ loader'[l].rows = loader[l].rows
                      /\ loader'[l].dotted = loader[l].dotted
                      /\ loader'[l].clean = loader[l].clean \ DOMAIN put
                      /\ DOMAIN loader'[l] = {"pc", "rows", "clean", "dotted"}
    BY <1>1
  <2>1. loader'[l] = [loader[l] EXCEPT !.clean = @ \ DOMAIN put] BY <1>1
  <2>2. DOMAIN loader[l] = {"pc", "rows", "clean", "dotted"} BY DEF OptionInv, OptionLoaders
  <2> QED BY <2>1, <2>2
<1>5. /\ \A b \in Admins : Pending(b)' = Pending(b) /\ (Unsaved(b)' <=> Unsaved(b))
      /\ \A l \in Loaders : OptionLoads(l)' <=> OptionLoads(l)
      /\ \A k : OptionSound(k)' => OptionSound(k) /\ k \notin DOMAIN put
  BY <1>1, <1>4 DEF Pending, Unsaved, OptionLoads, OptionSound
<1>6. \A k \in DOMAIN options \ DOMAIN put :
        (OptionFresh(k)' <=> OptionFresh(k)) /\ (OptionFollows(k)' <=> OptionFollows(k))
  BY <1>1, <1>3 DEF OptionFresh, OptionFollows
<1>s. OptionShape'
  <2>1. excused' \in BOOLEAN BY <1>1
  <2>2. QED BY <1>1, <1>2, <1>3, <2>1 DEF OptionInv, OptionShape
<1>r. OptionRequests' BY <1>1, <1>3, <1>5 DEF OptionInv, OptionRequests
<1>l. OptionLoaders' BY <1>1, <1>3, <1>4, <1>5 DEF OptionInv, OptionLoaders, OptionLoads, Loaders
<1>a. OptionAlone' BY <1>1, <1>4, <1>5 DEF OptionInv, OptionAlone
<1>w. OptionWritten'
  <2> SUFFICES ASSUME NEW b \in Admins, NEW k \in Pending(b) \ loose', admin[b].pc \in {"apply", "reload"}
               PROVE  options'[k] = admin[b].put[k]
    BY <1>1, <1>5 DEF OptionWritten
  <2>1. k \notin DOMAIN put /\ k \notin loose BY <1>1
  <2>2. k \in DOMAIN options BY DEF OptionInv, OptionRequests
  <2>3. options[k] = admin[b].put[k] BY <2>1 DEF OptionInv, OptionWritten
  <2>4. QED BY <2>1, <2>2, <2>3, <1>3
<1>o. OptionRows' BY <1>3, <1>4, <1>5, <1>6 DEF OptionInv, OptionRows
<1>f. OptionFollowed'
  <2>1. \A b \in Admins, j \in Keys : OptionIsWritten(b, j) => OptionIsWritten(b, j)'
    BY <1>1, <1>5 DEF OptionIsWritten
  <2>3. QED BY <2>1, <1>1, <1>3, <1>6 DEF OptionInv, OptionFollowed, OptionShape
<1>b. OptionAbsent' BY <1>1, <1>3 DEF OptionInv, OptionAbsent
<1>g. OptionGuarded'
  <2> SUFFICES ASSUME ~excused' PROVE OptionGuarded' BY DEF OptionGuarded
  <2>1. ~excused /\ "GitHubClientId" \notin DOMAIN put /\ "GitHubOAuthEnabled" \notin DOMAIN put BY <1>1
  <2>2. (EnabledIn(options)' <=> EnabledIn(options)) /\ (CredentialIn(options)' <=> CredentialIn(options))
    BY <2>1, <1>3 DEF EnabledIn, CredentialIn
  <2>3. QED BY <2>1, <2>2, <1>1, <1>5 DEF OptionInv, OptionGuarded, CountsOnIt, Clears
<1>q. QED BY <1>s, <1>r, <1>l, <1>a, <1>w, <1>o, <1>f, <1>b, <1>g DEF OptionInv

LEMMA OptionAllOption ==
  ASSUME OptionInv, NEW l \in Loaders, AllOption(l)
  PROVE  OptionInv'
<1> DEFINE written == UNION {Pending(b) : b \in Admins \ {l}}
           Clean == IF Loading = {} THEN Keys \ written ELSE {}
<1>1. /\ options' = options /\ optionMap' = optionMap /\ live' = live /\ admin' = admin /\ excused' = excused
      /\ loose' = loose \cup written /\ loader[l].pc = "idle" /\ (l \in Admins => admin[l].pc = "reload")
      /\ loader' = [loader EXCEPT ![l] = [IdleLoader EXCEPT !.pc = "apply", !.rows = options, !.clean = Clean]]
  BY DEF AllOption
<1>2. /\ DOMAIN loader' = Loaders /\ \A m \in Loaders \ {l} : loader'[m] = loader[m]
      /\ loader'[l].pc = "apply" /\ loader'[l].rows = options /\ loader'[l].clean = Clean
      /\ DOMAIN loader'[l] = {"pc", "rows", "clean", "dotted"}
  BY <1>1 DEF OptionInv, OptionLoaders, IdleLoader
<1>3. written \subseteq Keys /\ \A b \in Admins \ {l} : Pending(b) \subseteq written
  BY DEF OptionInv, OptionRequests
<1>4. Clean \subseteq Keys \ written /\ (Clean # {} => \A m \in Loaders : ~OptionLoads(m))
  BY DEF Loading, OptionLoads
<1> HIDE DEF written, Clean
<1>5. /\ \A b \in Admins : Pending(b)' = Pending(b)
      /\ \A m \in Loaders \ {l} : OptionLoads(m)' <=> OptionLoads(m)
      /\ OptionLoads(l)' /\ ~OptionLoads(l) /\ loader[l].clean = {}
      /\ \A k : (OptionFresh(k)' <=> OptionFresh(k)) /\ (OptionFollows(k)' <=> OptionFollows(k))
  BY <1>1, <1>2 DEF Pending, OptionLoads, OptionFresh, OptionFollows, OptionInv, OptionLoaders
<1>6. \A m \in Loaders \ {l}, k \in Keys : OptionLoads(m) /\ OptionSound(k)' => OptionSound(k)
  BY <1>1, <1>2, <1>4 DEF OptionSound
<1>s. OptionShape' BY <1>1, <1>3 DEF OptionInv, OptionShape
<1>r. OptionRequests' BY <1>1, <1>5 DEF OptionInv, OptionRequests
<1>l. OptionLoaders'
  <2>1. \A m \in Loaders \ {l} :
       /\ DOMAIN loader'[m] = {"pc", "rows", "clean", "dotted"}
       /\ loader'[m].pc \in {"idle", "apply", "replay"} /\ loader'[m].clean \subseteq Keys
       /\ loader'[m].pc = "idle" => loader'[m].clean = {}
       /\ loader'[m].pc \in {"idle", "replay"} => DOMAIN loader'[m].rows = {}
       /\ DOMAIN loader'[m].rows \subseteq DOMAIN options'
       /\ OptionLoads(m)' /\ m # Sync => admin'[m].pc = "reload"
    BY <1>1, <1>2, <1>5 DEF OptionInv, OptionLoaders
  <2>2. /\ DOMAIN loader'[l] = {"pc", "rows", "clean", "dotted"}
        /\ loader'[l].pc = "apply" /\ loader'[l].clean \subseteq Keys
        /\ DOMAIN loader'[l].rows \subseteq DOMAIN options'
        /\ l # Sync => admin'[l].pc = "reload"
    BY <1>1, <1>2, <1>4 DEF Loaders
  <2>3. QED BY <2>1, <2>2, <1>2 DEF OptionLoaders
<1>a. OptionAlone'
  <2> SUFFICES ASSUME NEW b \in Admins, NEW k \in Pending(b)
               PROVE  /\ \A c \in Admins \ {b} : k \in Pending(c) => k \in loose'
                      /\ \A m \in Loaders \ {b} : (OptionLoads(m)' => k \in loose') /\ k \notin loader'[m].clean
    BY <1>1, <1>5 DEF OptionAlone
  <2>1. \A c \in Admins \ {b} : k \in Pending(c) => k \in loose' BY <1>1 DEF OptionInv, OptionAlone
  <2>2. \A m \in Loaders \ {b, l} : (OptionLoads(m)' => k \in loose') /\ k \notin loader'[m].clean
    BY <1>1, <1>2, <1>5 DEF OptionInv, OptionAlone
  <2>3. l # b => k \in loose' /\ k \notin loader'[l].clean BY <1>1, <1>2, <1>3, <1>4
  <2>4. QED BY <2>1, <2>2, <2>3
<1>w. OptionWritten' BY <1>1, <1>5 DEF OptionInv, OptionWritten
<1>o. OptionRows'
  <2> SUFFICES ASSUME NEW m \in Loaders, NEW k \in DOMAIN options, OptionLoads(m)', OptionSound(k)'
               PROVE  /\ k \in DOMAIN loader'[m].rows => loader'[m].rows[k] = options[k]
                      /\ k \notin DOMAIN loader'[m].rows => OptionFresh(k)'
                      /\ loader'[m].pc = "replay" /\ k = Module => loader'[m].dotted = options[k]
    BY <1>1 DEF OptionRows
  <2>1. CASE m = l BY <2>1, <1>2
  <2>2. CASE m # l
    <3>1. OptionLoads(m) /\ loader'[m] = loader[m] BY <2>2, <1>2, <1>5
    <3>2. OptionSound(k) BY <2>2, <3>1, <1>6 DEF OptionInv, OptionShape
    <3>3. QED BY <3>1, <3>2, <1>5 DEF OptionInv, OptionRows
  <2>3. QED BY <2>1, <2>2
<1>f. OptionFollowed'
  <2>1. \A b \in Admins, j \in Keys : OptionIsWritten(b, j) => OptionIsWritten(b, j)'
    BY <1>1, <1>5 DEF OptionIsWritten
  <2>3. QED BY <2>1, <1>1, <1>5 DEF OptionInv, OptionFollowed, OptionShape
<1>b. OptionAbsent' BY <1>1 DEF OptionInv, OptionAbsent
<1>g. OptionGuarded' BY <1>1 DEF OptionInv, OptionGuarded, Unsaved, Pending, EnabledIn, CredentialIn, CountsOnIt, Clears
<1>q. QED BY <1>s, <1>r, <1>l, <1>a, <1>w, <1>o, <1>f, <1>b, <1>g DEF OptionInv

LEMMA OptionApplyRow ==
  ASSUME OptionInv, NEW l \in Loaders, NEW k \in DOMAIN loader[l].rows, ApplyRow(l, k)
  PROVE  OptionInv'
<1> DEFINE v == Loaded(k, loader[l].rows[k])
           Others == Without(loader[l].rows, k)
<1>1. /\ options' = options /\ admin' = admin /\ loose' = loose /\ excused' = excused /\ loader[l].pc = "apply"
      /\ optionMap' = [optionMap EXCEPT ![k] = v] /\ live' = [live EXCEPT ![k] = Setting(k, @, v)]
      /\ loader' = [loader EXCEPT ![l].rows = Others]
  BY DEF ApplyRow, updateOptionMap
<1>2. DOMAIN Others = DOMAIN loader[l].rows \ {k} /\ \A j \in DOMAIN Others : Others[j] = loader[l].rows[j]
  BY DEF Without
<1> HIDE DEF Others
<1>3. /\ DOMAIN loader' = Loaders /\ \A m \in Loaders \ {l} : loader'[m] = loader[m]
      /\ loader'[l].pc = "apply" /\ loader'[l].rows = Others /\ loader'[l].clean = loader[l].clean
      /\ DOMAIN loader'[l] = {"pc", "rows", "clean", "dotted"}
  BY <1>1 DEF OptionInv, OptionLoaders
<1>p. k \in Keys /\ k \in DOMAIN options BY DEF OptionInv, OptionLoaders, OptionShape
<1>6. /\ DOMAIN optionMap' = Keys /\ DOMAIN live' = Keys
      /\ \A j \in Keys \ {k} : optionMap'[j] = optionMap[j] /\ live'[j] = live[j]
      /\ optionMap'[k] = v /\ live'[k] = Setting(k, live[k], v)
  BY <1>1, <1>p DEF OptionInv, OptionShape
<1>5. /\ \A b \in Admins : Pending(b)' = Pending(b)
      /\ \A m \in Loaders : (OptionLoads(m)' <=> OptionLoads(m)) /\ loader'[m].clean = loader[m].clean
      /\ OptionLoads(l)
  BY <1>1, <1>3 DEF Pending, OptionLoads
<1>7. \A j : OptionSound(j)' <=> OptionSound(j) BY <1>1, <1>5 DEF OptionSound
<1>8. \A j \in Keys \ {k} : (OptionFresh(j)' <=> OptionFresh(j)) /\ (OptionFollows(j)' <=> OptionFollows(j))
  BY <1>1, <1>6 DEF OptionFresh, OptionFollows
<1>9. OptionSound(k) => OptionFresh(k)' /\ OptionFollows(k)'
  <2> SUFFICES ASSUME OptionSound(k) PROVE OptionFresh(k)' /\ OptionFollows(k)' OBVIOUS
  <2>1. loader[l].rows[k] = options[k] BY <1>5, <1>p DEF OptionInv, OptionRows
  <2>2. PICK old : old = live[k] OBVIOUS
  <2>3. PICK val : val = Loaded(k, options[k]) OBVIOUS
  <2>4. live'[k] = Setting(k, old, val) /\ optionMap'[k] = val BY <1>6, <2>1, <2>2, <2>3
  <2>5. Setting(k, Setting(k, old, val), val) = Setting(k, old, val) BY OptionSettles
  <2>6. QED BY <1>1, <2>3, <2>4, <2>5 DEF OptionFresh, OptionFollows
<1>s. OptionShape' BY <1>1, <1>6 DEF OptionInv, OptionShape
<1>r. OptionRequests' BY <1>1, <1>5 DEF OptionInv, OptionRequests
<1>l. OptionLoaders'
  <2>1. DOMAIN loader'[l].rows \subseteq DOMAIN options' BY <1>1, <1>2, <1>3 DEF OptionInv, OptionLoaders
  <2>2. QED BY <2>1, <1>1, <1>3, <1>5 DEF OptionInv, OptionLoaders
<1>a. OptionAlone' BY <1>1, <1>5 DEF OptionInv, OptionAlone
<1>w. OptionWritten' BY <1>1, <1>5 DEF OptionInv, OptionWritten
<1>o. OptionRows'
  <2> SUFFICES ASSUME NEW m \in Loaders, NEW j \in DOMAIN options, OptionLoads(m)', OptionSound(j)'
               PROVE  /\ j \in DOMAIN loader'[m].rows => loader'[m].rows[j] = options[j]
                      /\ j \notin DOMAIN loader'[m].rows => OptionFresh(j)'
                      /\ loader'[m].pc = "replay" /\ j = Module => loader'[m].dotted = options[j]
    BY <1>1 DEF OptionRows
  <2>1. /\ j \in DOMAIN loader[m].rows => loader[m].rows[j] = options[j]
        /\ j \notin DOMAIN loader[m].rows => OptionFresh(j)
        /\ loader[m].pc = "replay" /\ j = Module => loader[m].dotted = options[j]
    BY <1>5, <1>7 DEF OptionInv, OptionRows
  <2>2. j \in Keys BY DEF OptionInv, OptionShape
  <2>3. CASE m # l BY <2>1, <2>2, <2>3, <1>3, <1>7, <1>8, <1>9
  <2>4. CASE m = l BY <2>1, <2>2, <2>4, <1>2, <1>3, <1>7, <1>8, <1>9
  <2>5. QED BY <2>3, <2>4
<1>f. OptionFollowed'
  <2>1. \A b \in Admins, j \in Keys : OptionIsWritten(b, j) => OptionIsWritten(b, j)'
    BY <1>1, <1>5 DEF OptionIsWritten
  <2>2. k \notin loose => OptionSound(k) BY DEF OptionSound
  <2>3. QED BY <2>1, <2>2, <1>1, <1>8, <1>9 DEF OptionInv, OptionFollowed, OptionShape
<1>b. OptionAbsent' BY <1>1, <1>6, <1>p DEF OptionInv, OptionAbsent, Keys
<1>g. OptionGuarded' BY <1>1 DEF OptionInv, OptionGuarded, Unsaved, Pending, EnabledIn, CredentialIn, CountsOnIt, Clears
<1>q. QED BY <1>s, <1>r, <1>l, <1>a, <1>w, <1>o, <1>f, <1>b, <1>g DEF OptionInv

LEMMA OptionTakeSnapshot ==
  ASSUME OptionInv, NEW l \in Loaders, TakeSnapshot(l)
  PROVE  OptionInv'
<1>1. /\ options' = options /\ optionMap' = optionMap /\ live' = live /\ admin' = admin /\ loose' = loose /\ excused' = excused
      /\ loader[l].pc = "apply" /\ DOMAIN loader[l].rows = {}
      /\ loader' = [loader EXCEPT ![l].pc = "replay", ![l].dotted = optionMap[Module]]
  BY DEF TakeSnapshot
<1>3. /\ DOMAIN loader' = Loaders /\ \A m \in Loaders \ {l} : loader'[m] = loader[m]
      /\ loader'[l].pc = "replay" /\ loader'[l].rows = loader[l].rows /\ loader'[l].clean = loader[l].clean
      /\ loader'[l].dotted = optionMap[Module]
      /\ DOMAIN loader'[l] = {"pc", "rows", "clean", "dotted"}
  BY <1>1 DEF OptionInv, OptionLoaders
<1>5. /\ \A b \in Admins : Pending(b)' = Pending(b)
      /\ \A m \in Loaders : /\ OptionLoads(m)' <=> OptionLoads(m)
                            /\ loader'[m].clean = loader[m].clean /\ loader'[m].rows = loader[m].rows
      /\ OptionLoads(l)
      /\ \A k : (OptionFresh(k)' <=> OptionFresh(k)) /\ (OptionFollows(k)' <=> OptionFollows(k))
  BY <1>1, <1>3 DEF Pending, OptionLoads, OptionFresh, OptionFollows
<1>7. \A j : OptionSound(j)' <=> OptionSound(j) BY <1>1, <1>5 DEF OptionSound
<1>s. OptionShape' BY <1>1 DEF OptionInv, OptionShape
<1>r. OptionRequests' BY <1>1, <1>5 DEF OptionInv, OptionRequests
<1>l. OptionLoaders' BY <1>1, <1>3, <1>5 DEF OptionInv, OptionLoaders
<1>a. OptionAlone' BY <1>1, <1>5 DEF OptionInv, OptionAlone
<1>w. OptionWritten' BY <1>1, <1>5 DEF OptionInv, OptionWritten
<1>o. OptionRows'
  <2>1. Module \in DOMAIN options /\ OptionSound(Module) => optionMap[Module] = options[Module]
    <3> SUFFICES ASSUME Module \in DOMAIN options, OptionSound(Module) PROVE optionMap[Module] = options[Module]
      OBVIOUS
    <3>1. OptionFresh(Module) BY <1>1, <1>5 DEF OptionInv, OptionRows
    <3>2. PICK v : v = options[Module] OBVIOUS
    <3>3. Loaded(Module, v) = v BY DEF Loaded, Module
    <3>4. QED BY <3>1, <3>2, <3>3 DEF OptionFresh
  <2>2. QED BY <2>1, <1>1, <1>3, <1>5, <1>7 DEF OptionInv, OptionRows
<1>f. OptionFollowed'
  <2>1. \A b \in Admins, j \in Keys : OptionIsWritten(b, j) => OptionIsWritten(b, j)'
    BY <1>1, <1>5 DEF OptionIsWritten
  <2>3. QED BY <2>1, <1>1, <1>5 DEF OptionInv, OptionFollowed, OptionShape
<1>b. OptionAbsent' BY <1>1 DEF OptionInv, OptionAbsent
<1>g. OptionGuarded' BY <1>1 DEF OptionInv, OptionGuarded, Unsaved, Pending, EnabledIn, CredentialIn, CountsOnIt, Clears
<1>q. QED BY <1>s, <1>r, <1>l, <1>a, <1>w, <1>o, <1>f, <1>b, <1>g DEF OptionInv

LEMMA OptionLoadFromDB ==
  ASSUME OptionInv, NEW l \in Loaders, LoadFromDB(l)
  PROVE  OptionInv'
<1> DEFINE d == loader[l].dotted
<1>1. /\ options' = options /\ optionMap' = optionMap /\ excused' = excused /\ loader[l].pc = "replay"
      /\ live' = [live EXCEPT ![Module] = updateConfigFromMap(@, d)]
      /\ loose' = loose \ loader[l].clean /\ loader' = [loader EXCEPT ![l] = IdleLoader]
  BY DEF LoadFromDB
<1>2. /\ DOMAIN admin' = Admins /\ \A b \in Admins \ {l} : admin'[b] = admin[b]
      /\ l \in Admins => /\ admin[l].pc = "reload" /\ admin'[l].pc = "idle" /\ DOMAIN admin'[l].put = {}
                         /\ DOMAIN admin'[l] = {"pc", "put", "batch"}
  BY <1>1, OptionAssumption DEF LoadFromDB, OptionInv, OptionRequests, OptionLoaders, OptionLoads, IdleAdmin, NoTable, Loaders
<1>3. /\ DOMAIN loader' = Loaders /\ \A m \in Loaders \ {l} : loader'[m] = loader[m]
      /\ loader'[l].pc = "idle" /\ DOMAIN loader'[l].rows = {} /\ loader'[l].clean = {}
      /\ DOMAIN loader'[l] = {"pc", "rows", "clean", "dotted"}
  BY <1>1 DEF OptionInv, OptionLoaders, IdleLoader, NoTable
<1>5. /\ \A b \in Admins \ {l} : Pending(b)' = Pending(b)
      /\ l \in Admins => Pending(l)' = {}
      /\ \A m \in Loaders \ {l} : OptionLoads(m)' <=> OptionLoads(m)
      /\ OptionLoads(l) /\ ~OptionLoads(l)' /\ DOMAIN loader[l].rows = {}
  BY <1>1, <1>2, <1>3 DEF Pending, OptionLoads, OptionInv, OptionLoaders
<1>6. \A k : OptionSound(k)' => OptionSound(k) BY <1>1, <1>3 DEF OptionSound
<1>7. /\ DOMAIN live' = Keys /\ \A k \in Keys \ {Module} : live'[k] = live[k]
      /\ live'[Module] = updateConfigFromMap(live[Module], d)
  BY <1>1 DEF OptionInv, OptionShape, Keys, Module
<1>8. \A k \in DOMAIN options : OptionSound(k) => OptionFresh(k) /\ (k = Module => d = options[k])
  BY <1>1, <1>5 DEF OptionInv, OptionRows
<1>9. \A k \in DOMAIN options : OptionSound(k) => OptionFresh(k)' /\ OptionFollows(k)'
  <2> SUFFICES ASSUME NEW k \in DOMAIN options, OptionSound(k) PROVE OptionFresh(k)' /\ OptionFollows(k)' OBVIOUS
  <2>1. OptionFresh(k) /\ k \in Keys BY <1>8 DEF OptionInv, OptionShape
  <2>2. live'[k] = live[k]
    <3>1. CASE k # Module BY <3>1, <2>1, <1>7
    <3>2. CASE k = Module
      <4>1. PICK v : v = options[k] OBVIOUS
      <4>2. Loaded(Module, v) = v BY DEF Loaded, Module
      <4>3. optionMap[k] = v BY <2>1, <3>2, <4>1, <4>2 DEF OptionFresh
      <4>4. PICK old : old = live[Module] OBVIOUS
      <4>5. Setting(Module, old, v) = updateConfigFromMap(old, v) BY OptionLoadedPlain
      <4>6. old = updateConfigFromMap(old, v) BY <2>1, <3>2, <4>3, <4>4, <4>5 DEF OptionFresh
      <4>7. d = v BY <3>2, <4>1, <1>8
      <4>8. QED BY <3>2, <4>4, <4>6, <4>7, <1>7
    <3>3. QED BY <3>1, <3>2
  <2>3. QED BY <1>1, <2>1, <2>2 DEF OptionFresh, OptionFollows
<1> HIDE DEF d
<1>s. OptionShape' BY <1>1, <1>7 DEF OptionInv, OptionShape
<1>r. OptionRequests'
  <2>1. \A b \in Admins \ {l} :
          /\ DOMAIN admin'[b] = {"pc", "put", "batch"} /\ Pending(b)' \subseteq Keys
          /\ admin'[b].pc \in {"idle", "create", "save", "commit", "apply", "reload"}
          /\ admin'[b].pc = "idle" => Pending(b)' = {}
          /\ admin'[b].pc \in {"save", "apply", "reload"} => Pending(b)' \subseteq DOMAIN options'
    BY <1>1, <1>2, <1>5 DEF OptionInv, OptionRequests
  <2>2. QED BY <2>1, <1>2, <1>5 DEF OptionRequests
<1>l. OptionLoaders'
  <2>1. \A m \in Loaders \ {l} :
       /\ DOMAIN loader'[m] = {"pc", "rows", "clean", "dotted"}
       /\ loader'[m].pc \in {"idle", "apply", "replay"} /\ loader'[m].clean \subseteq Keys
       /\ loader'[m].pc = "idle" => loader'[m].clean = {}
       /\ loader'[m].pc \in {"idle", "replay"} => DOMAIN loader'[m].rows = {}
       /\ DOMAIN loader'[m].rows \subseteq DOMAIN options'
       /\ OptionLoads(m)' /\ m # Sync => admin'[m].pc = "reload"
    BY <1>1, <1>2, <1>3, <1>5 DEF OptionInv, OptionLoaders, Loaders
  <2>2. QED BY <2>1, <1>3, <1>5 DEF OptionLoaders
<1>a. OptionAlone'
  <2> SUFFICES ASSUME NEW b \in Admins \ {l}, NEW k \in Pending(b)
               PROVE  /\ \A c \in Admins \ {b} : k \in Pending(c)' => k \in loose'
                      /\ \A m \in Loaders \ {b} : (OptionLoads(m)' => k \in loose') /\ k \notin loader'[m].clean
    BY <1>5 DEF OptionAlone
  <2>1. k \notin loader[l].clean BY DEF OptionInv, OptionAlone
  <2>2. \A c \in Admins \ {b} : k \in Pending(c)' => k \in loose' BY <2>1, <1>1, <1>5 DEF OptionInv, OptionAlone
  <2>3. \A m \in Loaders \ {b} : (OptionLoads(m)' => k \in loose') /\ k \notin loader'[m].clean
    BY <2>1, <1>1, <1>3, <1>5 DEF OptionInv, OptionAlone
  <2>4. QED BY <2>2, <2>3
<1>w. OptionWritten'
  <2> SUFFICES ASSUME NEW b \in Admins \ {l}, NEW k \in Pending(b), k \notin loose', admin[b].pc \in {"apply", "reload"}
               PROVE  options[k] = admin[b].put[k]
    BY <1>1, <1>2, <1>5 DEF OptionWritten
  <2>1. k \notin loader[l].clean BY DEF OptionInv, OptionAlone
  <2>2. QED BY <2>1, <1>1 DEF OptionInv, OptionWritten
<1>o. OptionRows'
  <2> SUFFICES ASSUME NEW m \in Loaders \ {l}, NEW k \in DOMAIN options, OptionLoads(m), OptionSound(k)
               PROVE  /\ k \in DOMAIN loader[m].rows => loader[m].rows[k] = options[k]
                      /\ k \notin DOMAIN loader[m].rows => OptionFresh(k)'
                      /\ loader[m].pc = "replay" /\ k = Module => loader[m].dotted = options[k]
    BY <1>1, <1>3, <1>5, <1>6 DEF OptionRows
  <2>1. QED BY <1>9 DEF OptionInv, OptionRows
<1>f. OptionFollowed'
  <2>1. \A k \in DOMAIN options \ loose' : OptionSound(k) BY <1>1 DEF OptionSound
  <2>2. QED BY <2>1, <1>1, <1>9 DEF OptionFollowed
<1>b. OptionAbsent' BY <1>1, <1>7 DEF OptionInv, OptionAbsent, Keys, Module
<1>g. OptionGuarded'
  <2>1. CASE l \in Admins
    <3>1. ~Unsaved(l) /\ ~Unsaved(l)' BY <2>1, <1>2 DEF Unsaved
    <3>2. QED BY <2>1, <3>1, <1>1, <1>2, OptionGuardedStays
  <2>2. CASE l \notin Admins
    BY <2>2, <1>1, <1>2 DEF OptionInv, OptionGuarded, Unsaved, Pending, EnabledIn, CredentialIn, CountsOnIt, Clears
  <2>3. QED BY <2>1, <2>2
<1>q. QED BY <1>s, <1>r, <1>l, <1>a, <1>w, <1>o, <1>f, <1>b, <1>g DEF OptionInv

\* A process that has just started runs on the table.
OptionFreshStart ==
  /\ DOMAIN options \subseteq Keys /\ loose = {} /\ excused \in BOOLEAN
  /\ ~excused => (EnabledIn(options) => CredentialIn(options))
  /\ optionMap = InitOptionMap(options).map /\ live = InitOptionMap(options).live
  /\ admin = [a \in Admins |-> IdleAdmin] /\ loader = [l \in Loaders |-> IdleLoader]
LEMMA OptionStarted == OptionFreshStart => OptionInv
<1> SUFFICES ASSUME OptionFreshStart PROVE OptionInv OBVIOUS
<1>0. /\ DOMAIN options \subseteq Keys /\ loose = {} /\ excused \in BOOLEAN
      /\ ~excused => (EnabledIn(options) => CredentialIn(options))
      /\ optionMap = InitOptionMap(options).map /\ live = InitOptionMap(options).live
      /\ admin = [a \in Admins |-> IdleAdmin] /\ loader = [l \in Loaders |-> IdleLoader]
  BY DEF OptionFreshStart
<1>1. /\ DOMAIN optionMap = Keys /\ DOMAIN live = Keys
      /\ \A k \in DOMAIN options : optionMap[k] = Loaded(k, options[k])
      /\ \A k \in Keys : live[k] = Setting(k, live[k], optionMap[k])
      /\ "GitHubClientId" \notin DOMAIN options => live["GitHubClientId"] = "" /\ optionMap["GitHubClientId"] = Text("")
      /\ "GitHubOAuthEnabled" \notin DOMAIN options => live["GitHubOAuthEnabled"] = "false"
  BY <1>0, OptionStart
<1>2. /\ DOMAIN admin = Admins
      /\ \A a \in Admins : admin[a].pc = "idle" /\ Pending(a) = {} /\ DOMAIN admin[a] = {"pc", "put", "batch"}
  BY <1>0 DEF IdleAdmin, NoTable, Pending
<1>3. /\ DOMAIN loader = Loaders
      /\ \A l \in Loaders : /\ loader[l].pc = "idle" /\ loader[l].clean = {} /\ DOMAIN loader[l].rows = {}
                            /\ DOMAIN loader[l] = {"pc", "rows", "clean", "dotted"}
  BY <1>0 DEF IdleLoader, NoTable
<1>s. OptionShape BY <1>0, <1>1 DEF OptionShape
<1>r. OptionRequests BY <1>2 DEF OptionRequests
<1>l. OptionLoaders BY <1>3 DEF OptionLoaders, OptionLoads
<1>a. OptionAlone /\ OptionWritten BY <1>2 DEF OptionAlone, OptionWritten
<1>o. OptionRows BY <1>3 DEF OptionRows, OptionLoads
<1>f. OptionFollowed BY <1>0, <1>1 DEF OptionFollowed, OptionFollows
<1>b. OptionAbsent BY <1>1 DEF OptionAbsent
<1>g. OptionGuarded BY <1>0, <1>2 DEF OptionGuarded, Unsaved
<1>q. QED BY <1>s, <1>r, <1>l, <1>a, <1>o, <1>f, <1>b, <1>g DEF OptionInv

LEMMA OptionStep == OptionInv /\ [OptionNext]_optionVars => OptionInv'
<1> SUFFICES ASSUME OptionInv, [OptionNext]_optionVars PROVE OptionInv' OBVIOUS
<1>1. ASSUME NEW put \in Puts, OtherProcessWrites(put) PROVE OptionInv' BY <1>1, OptionOtherProcess
<1>2. ASSUME NEW put \in Puts, NEW a \in Admins, NEW whole \in BOOLEAN, BeginPut(a, put, whole) PROVE OptionInv'
  BY <1>2, OptionBeginPut
<1>3. ASSUME NEW a \in Admins, CreateRow(a) PROVE OptionInv' BY <1>3, OptionCreateRow
<1>4. ASSUME NEW a \in Admins, SaveRow(a) PROVE OptionInv'
  <2>1. /\ admin[a].pc = "save" /\ admin' = [admin EXCEPT ![a].pc = "apply"]
        /\ optionMap' = optionMap /\ live' = live /\ loader' = loader
    BY <1>4 DEF SaveRow
  <2>2. CASE options' = Over(admin[a].put, options) /\ loose' = loose /\ excused' = excused
    BY <2>1, <2>2, OptionSaved DEF Unsaved
  <2>3. CASE SaveError(Pending(a))
    <3>1. Pending(a) \subseteq Keys /\ Pending(a) \subseteq DOMAIN options BY <2>1 DEF OptionInv, OptionRequests
    <3>2. options' = options /\ loose' = loose \cup Pending(a) /\ excused' = (excused \/ "GitHubClientId" \in Pending(a))
      BY <2>3 DEF SaveError
    <3>3. QED BY <2>1, <3>1, <3>2, OptionGivenUp DEF Unsaved
  <2>4. QED BY <1>4, <2>2, <2>3 DEF SaveRow
<1>5. ASSUME NEW a \in Admins, Commit(a) PROVE OptionInv'
  <2>1. admin[a].pc = "commit" /\ optionMap' = optionMap /\ live' = live /\ loader' = loader BY <1>5 DEF Commit
  <2>2. CASE /\ options' = Over(admin[a].put, options) /\ loose' = loose /\ excused' = excused
             /\ admin' = [admin EXCEPT ![a].pc = "apply"]
    BY <2>1, <2>2, OptionSaved DEF Unsaved
  <2>3. CASE SaveError({}) /\ admin' = [admin EXCEPT ![a] = IdleAdmin]
    <3>1. options' = options /\ loose' = loose \cup {} /\ excused' = (excused \/ "GitHubClientId" \in {})
      BY <2>3 DEF SaveError
    <3>2. {} \in SUBSET Keys OBVIOUS
    <3>3. QED BY <2>1, <2>3, <3>1, <3>2, OptionGivenUp DEF Unsaved
  <2>4. QED BY <1>5, <2>2, <2>3 DEF Commit
<1>6. ASSUME NEW a \in Admins, NEW k \in Pending(a), Apply(a, k) PROVE OptionInv' BY <1>6, OptionApply
<1>7. ASSUME NEW l \in Loaders, AllOption(l) PROVE OptionInv' BY <1>7, OptionAllOption
<1>8. ASSUME NEW l \in Loaders, TakeSnapshot(l) PROVE OptionInv' BY <1>8, OptionTakeSnapshot
<1>9. ASSUME NEW l \in Loaders, LoadFromDB(l) PROVE OptionInv' BY <1>9, OptionLoadFromDB
<1>10. ASSUME NEW l \in Loaders, NEW k \in DOMAIN loader[l].rows, ApplyRow(l, k) PROVE OptionInv'
  BY <1>10, OptionApplyRow
<1>11. CASE Reboot
  <2>1. /\ options' = options /\ loose' = {} /\ excused' = excused
        /\ optionMap' = InitOptionMap(options').map /\ live' = InitOptionMap(options').live
        /\ admin' = [a \in Admins |-> IdleAdmin] /\ loader' = [l \in Loaders |-> IdleLoader]
    BY <1>11 DEF Reboot
  <2>2. DOMAIN options' \subseteq Keys /\ excused' \in BOOLEAN BY <2>1 DEF OptionInv, OptionShape
  <2>3. ~excused' => (EnabledIn(options') => CredentialIn(options'))
    BY <2>1 DEF OptionInv, OptionGuarded
  <2>4. OptionFreshStart' BY <2>1, <2>2, <2>3 DEF OptionFreshStart
  <2>5. QED BY <2>4, OptionStarted, PTL
<1>12. CASE UNCHANGED optionVars
  <2>1. /\ options' = options /\ optionMap' = optionMap /\ live' = live /\ admin' = admin /\ loader' = loader
        /\ loose' = loose /\ excused' = excused
    BY <1>12 DEF optionVars
  <2>2. OptionShape' /\ OptionRequests' /\ OptionLoaders'
    BY <2>1 DEF OptionInv, OptionShape, OptionRequests, OptionLoaders, OptionLoads, Pending
  <2>3. OptionAlone' /\ OptionWritten' /\ OptionAbsent'
    BY <2>1 DEF OptionInv, OptionAlone, OptionWritten, OptionAbsent, OptionLoads, Pending
  <2>4. OptionRows' /\ OptionFollowed'
    BY <2>1 DEF OptionInv, OptionRows, OptionFollowed, OptionLoads, OptionSound, OptionFresh, OptionFollows, OptionIsWritten, Pending
  <2>5. OptionGuarded' BY <2>1 DEF OptionInv, OptionGuarded, Unsaved, Pending
  <2>6. QED BY <2>2, <2>3, <2>4, <2>5 DEF OptionInv
<1>13. QED BY <1>1, <1>2, <1>3, <1>4, <1>5, <1>6, <1>7, <1>8, <1>9, <1>10, <1>11, <1>12 DEF OptionNext

\* What a price look-up finds: the first of the four tables asked that has it.
LEMMA OptionFound ==
  ASSUME NEW tab, NEW default, NEW n, NEW ch, NEW otherwise
  PROVE  LookUp(tab, default, n, ch, otherwise) =
           IF <<n, ch>> \in DOMAIN tab THEN tab[<<n, ch>>]
           ELSE IF <<n, ch>> \in DOMAIN default THEN default[<<n, ch>>]
           ELSE IF <<n, 0>> \in DOMAIN tab THEN tab[<<n, 0>>]
           ELSE IF <<n, 0>> \in DOMAIN default THEN default[<<n, 0>>] ELSE otherwise
<1> DEFINE asked == Asked(tab, default, n, ch)
           hits == {i \in 1 .. 4 : <<n, asked[i][2]>> \in DOMAIN asked[i][1]}
           first == CHOOSE i \in hits : \A j \in hits : i <= j
<1>1. LookUp(tab, default, n, ch, otherwise) =
        IF hits = {} THEN otherwise ELSE asked[first][1][<<n, asked[first][2]>>]
  BY DEF LookUp
<1>2. /\ asked[1][1] = tab /\ asked[1][2] = ch /\ asked[2][1] = default /\ asked[2][2] = ch
      /\ asked[3][1] = tab /\ asked[3][2] = 0 /\ asked[4][1] = default /\ asked[4][2] = 0
  BY DEF Asked
<1> HIDE DEF asked
<1>3. hits \subseteq 1 .. 4 OBVIOUS
<1>4. /\ 1 \in hits <=> <<n, ch>> \in DOMAIN tab
      /\ 2 \in hits <=> <<n, ch>> \in DOMAIN default
      /\ 3 \in hits <=> <<n, 0>> \in DOMAIN tab
      /\ 4 \in hits <=> <<n, 0>> \in DOMAIN default
  BY <1>2
<1> HIDE DEF hits
<1>5. \A i \in hits : (\A j \in hits : i <= j) => first = i
  <2> SUFFICES ASSUME NEW i \in hits, \A j \in hits : i <= j PROVE first = i OBVIOUS
  <2>1. first \in hits /\ \A j \in hits : first <= j OBVIOUS
  <2>2. i \in 1 .. 4 /\ first \in 1 .. 4 BY <2>1, <1>3
  <2>3. first <= i /\ i <= first BY <2>1
  <2> HIDE DEF first
  <2>4. QED BY <2>2, <2>3
<1> HIDE DEF first
<1>6. CASE 1 \in hits
  <2>1. first = 1 BY <1>3, <1>5, <1>6
  <2>2. QED BY <2>1, <1>1, <1>2, <1>4, <1>6
<1>7. CASE 1 \notin hits /\ 2 \in hits
  <2>0. \A j \in hits : 2 <= j BY <1>3, <1>7
  <2>1. first = 2 BY <2>0, <1>5, <1>7
  <2>2. QED BY <2>1, <1>1, <1>2, <1>4, <1>7
<1>8. CASE 1 \notin hits /\ 2 \notin hits /\ 3 \in hits
  <2>0. \A j \in hits : 3 <= j BY <1>3, <1>8
  <2>1. first = 3 BY <2>0, <1>5, <1>8
  <2>2. QED BY <2>1, <1>1, <1>2, <1>4, <1>8
<1>9. CASE hits = {4}
  <2>1. first = 4 BY <1>5, <1>9
  <2>2. QED BY <2>1, <1>1, <1>2, <1>4, <1>9
<1>10. CASE hits = {} BY <1>10, <1>1, <1>4
<1>11. CASE 1 \notin hits /\ 2 \notin hits /\ 3 \notin hits
  <2>1. \A i \in hits : i = 4 BY <1>3, <1>11
  <2>2. hits = {} \/ hits = {4} BY <2>1
  <2>3. QED BY <2>2, <1>9, <1>10
<1>12. QED BY <1>6, <1>7, <1>8, <1>11

\* A look-up in a saved table, or in one that defaults were added to, finds
\* what was saved.
OptionPriced(tab, default, n, ch, price, otherwise) ==
  LET all == Over(tab, default) IN
  /\ <<n, ch>> \in DOMAIN tab => price = tab[<<n, ch>>]
  /\ {<<n, 0>>, <<n, ch>>} \cap DOMAIN all = {<<n, 0>>} => price = all[<<n, 0>>]
  /\ {<<n, 0>>, <<n, ch>>} \cap DOMAIN all = {} => price = otherwise
LEMMA OptionFoundSaved ==
  ASSUME NEW tab, NEW default, NEW live1, live1 \in {tab, Over(tab, default)},
         NEW n, NEW ch, NEW otherwise
  PROVE  OptionPriced(tab, default, n, ch, LookUp(live1, default, n, ch, otherwise), otherwise)
<1> DEFINE all == Over(tab, default)
           price == LookUp(live1, default, n, ch, otherwise)
           own == <<n, ch>>
           plain == <<n, 0>>
<1>1. /\ DOMAIN all = DOMAIN tab \cup DOMAIN default
      /\ \A x \in DOMAIN tab : all[x] = tab[x]
      /\ \A x \in DOMAIN default \ DOMAIN tab : all[x] = default[x]
  BY OptionMerge
<1>2. live1 = tab \/ live1 = all OBVIOUS
<1>3. price = IF own \in DOMAIN live1 THEN live1[own] ELSE IF own \in DOMAIN default THEN default[own]
              ELSE IF plain \in DOMAIN live1 THEN live1[plain] ELSE IF plain \in DOMAIN default THEN default[plain] ELSE otherwise
  BY OptionFound
<1> HIDE DEF all, price, own, plain
<1>4. own \in DOMAIN tab => price = tab[own] BY <1>1, <1>2, <1>3
<1>5. {plain, own} \cap DOMAIN all = {plain} => price = all[plain] BY <1>1, <1>2, <1>3
<1>6. {plain, own} \cap DOMAIN all = {} => price = otherwise BY <1>1, <1>2, <1>3
<1>7. QED BY <1>4, <1>5, <1>6 DEF all, price, own, plain, OptionPriced

LEMMA OptionTableRead ==
  ASSUME OptionsFollowTable, NEW key \in Tables, key \in DOMAIN options \ loose, ~Writing(key),
         NEW default, key = "ModelRatio" => default = DefaultModelRatio
  PROVE  live[key] \in {UpdateRatioByJSONString(options[key]), Over(UpdateRatioByJSONString(options[key]), default)}
<1>1. /\ optionMap[key] \in {options[key], Loaded(key, options[key])}
      /\ live[key] = Setting(key, live[key], optionMap[key])
  BY DEF OptionsFollowTable
<1>2. live[key] = UpdateRatioByJSONString(optionMap[key]) BY <1>1, OptionLoadedPlain
<1>3. CASE key # "ModelRatio" BY <1>1, <1>2, <1>3, OptionLoadedPlain
<1>4. CASE key = "ModelRatio" /\ optionMap[key] # options[key]
  <2>1. options[key].text = "json" /\ optionMap[key] = Json(Over(options[key].tab, default))
    BY <1>1, <1>4 DEF Loaded, AddNewMissingRatio
  <2>2. PICK t : t = Over(options[key].tab, default) OBVIOUS
  <2>3. UpdateRatioByJSONString(Json(t)) = t BY DEF UpdateRatioByJSONString, Json
  <2>4. UpdateRatioByJSONString(options[key]) = options[key].tab BY <2>1 DEF UpdateRatioByJSONString
  <2>5. QED BY <1>2, <2>1, <2>2, <2>3, <2>4
<1>5. QED BY <1>1, <1>2, <1>3, <1>4

LEMMA OptionBilled ==
  ASSUME OptionsFollowTable, NEW key \in Tables, NEW default, key = "ModelRatio" => default = DefaultModelRatio,
         NEW n, NEW ch, NEW otherwise
  PROVE  BilledFrom(key, default, n, ch, LookUp(live[key], default, n, ch, otherwise), otherwise)
<1> SUFFICES ASSUME key \in DOMAIN options \ loose, ~Writing(key)
             PROVE  OptionPriced(UpdateRatioByJSONString(options[key]), default, n, ch,
                                 LookUp(live[key], default, n, ch, otherwise), otherwise)
  BY DEF BilledFrom, OptionPriced
<1>1. live[key] \in {UpdateRatioByJSONString(options[key]), Over(UpdateRatioByJSONString(options[key]), default)}
  BY OptionTableRead
<1>2. PICK tab : tab = UpdateRatioByJSONString(options[key]) OBVIOUS
<1>3. PICK read : read = live[key] OBVIOUS
<1>4. read \in {tab, Over(tab, default)} BY <1>1, <1>2, <1>3
<1>5. OptionPriced(tab, default, n, ch, LookUp(read, default, n, ch, otherwise), otherwise)
  BY <1>4, OptionFoundSaved
<1>6. QED BY <1>2, <1>3, <1>5

LEMMA OptionInvImplies == OptionInv => OptionTypeOK /\ SettingsAreTheTables
<1> SUFFICES ASSUME OptionInv PROVE OptionTypeOK /\ SettingsAreTheTables OBVIOUS
<1>1. OptionTypeOK BY DEF OptionInv, OptionShape, OptionRequests, OptionLoaders, OptionTypeOK
<1>2. OptionsFollowTable
  BY DEF OptionInv, OptionFollowed, OptionFollows, OptionIsWritten, OptionsFollowTable, Writing
<1>3. SavedPricesAreBilled
  <2> SUFFICES ASSUME NEW n \in PriceNames, NEW ch \in PriceChannels
               PROVE  /\ BilledFrom("ModelRatio", DefaultModelRatio, Stripped(n, {"qwen", "command"}), ch, GetModelRatio(n, ch), 3000)
                      /\ LET m == Stripped(n, {"qwen"}) IN
                         BilledFrom("CompletionRatio", DefaultCompletionRatio, m, ch, GetCompletionRatio(n, ch), CompletionRule(m))
                      /\ BilledFrom("GroupRatio", NoTable, n, 0, GetGroupRatio(n), 100)
    BY DEF SavedPricesAreBilled
  <2>1. BilledFrom("ModelRatio", DefaultModelRatio, Stripped(n, {"qwen", "command"}), ch, GetModelRatio(n, ch), 3000)
    <3>1. PICK m : m = Stripped(n, {"qwen", "command"}) OBVIOUS
    <3>2. BilledFrom("ModelRatio", DefaultModelRatio, m, ch, LookUp(live["ModelRatio"], DefaultModelRatio, m, ch, 3000), 3000)
      BY <1>2, OptionBilled DEF Tables
    <3>3. QED BY <3>1, <3>2 DEF GetModelRatio
  <2>2. LET m == Stripped(n, {"qwen"}) IN
        BilledFrom("CompletionRatio", DefaultCompletionRatio, m, ch, GetCompletionRatio(n, ch), CompletionRule(m))
    <3>1. PICK m : m = Stripped(n, {"qwen"}) OBVIOUS
    <3>2. PICK o : o = CompletionRule(m) OBVIOUS
    <3>3. BilledFrom("CompletionRatio", DefaultCompletionRatio, m, ch,
                     LookUp(live["CompletionRatio"], DefaultCompletionRatio, m, ch, o), o)
      BY <1>2, OptionBilled DEF Tables
    <3>4. QED BY <3>1, <3>2, <3>3 DEF GetCompletionRatio
  <2>3. BilledFrom("GroupRatio", NoTable, n, 0, LookUp(live["GroupRatio"], NoTable, n, 0, 100), 100)
    BY <1>2, OptionBilled DEF Tables
  <2>4. BilledFrom("GroupRatio", NoTable, n, 0, GetGroupRatio(n), 100) BY <2>3 DEF GetGroupRatio
  <2>5. QED BY <2>1, <2>2, <2>4
<1>4. EnabledProviderIsConfigured
  <2> SUFFICES ASSUME live["GitHubOAuthEnabled"] = "true", ~excused,
                      \A k \in {"GitHubOAuthEnabled", "GitHubClientId"} : k \notin loose /\ ~Writing(k)
               PROVE  live["GitHubClientId"] # ""
    BY DEF EnabledProviderIsConfigured
  <2>1. "GitHubOAuthEnabled" \in DOMAIN options BY DEF OptionInv, OptionAbsent
  <2>2. EnabledIn(options)
    <3>1. PICK v : v = options["GitHubOAuthEnabled"] OBVIOUS
    <3>2. Loaded("GitHubOAuthEnabled", v) = v BY OptionLoadedPlain
    <3>3. optionMap["GitHubOAuthEnabled"] = v /\ live["GitHubOAuthEnabled"] = Setting("GitHubOAuthEnabled", live["GitHubOAuthEnabled"], v)
      BY <1>2, <2>1, <3>1, <3>2 DEF OptionsFollowTable
    <3>4. v.text = "true" BY <3>3, OptionLoadedPlain
    <3>5. QED BY <2>1, <3>1, <3>4 DEF EnabledIn
  <2>3. CredentialIn(options) BY <2>2 DEF OptionInv, OptionGuarded
  <2>4. "GitHubClientId" \in DOMAIN options /\ options["GitHubClientId"].text # "" BY <2>3 DEF CredentialIn
  <2>5. PICK v : v = options["GitHubClientId"] OBVIOUS
  <2>6. PICK old : old = live["GitHubClientId"] OBVIOUS
  <2>7. Loaded("GitHubClientId", v) = v /\ Setting("GitHubClientId", old, v) = v.text BY OptionLoadedPlain
  <2>8. old = v.text BY <1>2, <2>4, <2>5, <2>6, <2>7 DEF OptionsFollowTable
  <2>9. QED BY <2>4, <2>5, <2>6, <2>8
<1>5. QED BY <1>1, <1>2, <1>3, <1>4 DEF SettingsAreTheTables

LEMMA OptionInitInv == OptionInit => OptionInv
<1> SUFFICES ASSUME OptionInit PROVE OptionInv OBVIOUS
<1>1. DOMAIN options \subseteq Keys BY OptionAssumption DEF OptionInit
<1>2. excused = (EnabledIn(options) /\ ~CredentialIn(options)) BY DEF OptionInit
<1>3. excused \in BOOLEAN /\ (~excused => (EnabledIn(options) => CredentialIn(options))) BY <1>2
<1>4. OptionFreshStart BY <1>1, <1>3 DEF OptionInit, OptionFreshStart
<1>5. QED BY <1>4, OptionStarted

\* The settings and prices the program runs on are those of the table.
THEOREM SettingsFollow == OptionSpec => [](OptionTypeOK /\ SettingsAreTheTables)
<1>1. OptionInit => OptionInv BY OptionInitInv
<1>2. OptionInv /\ [OptionNext]_optionVars => OptionInv' BY OptionStep
<1>3. OptionInv => OptionTypeOK /\ SettingsAreTheTables BY OptionInvImplies
<1>4. QED BY <1>1, <1>2, <1>3, PTL DEF OptionSpec

-----------------------------------------------------------------------------
(* The calls for images and audio. *)

\* What a token that may run out pays.
Capped(n) == IF UnlimitedQuota THEN 0 ELSE n
MediaExtra ==
  /\ DOMAIN extra = {"topups", "faults", "short"}
  /\ extra.topups \in Int /\ extra.faults \in Int /\ extra.short \in BOOLEAN
MediaTypes ==
  /\ mode \in [batch : BOOLEAN, redis : BOOLEAN]
  /\ purse \in [Ledgers -> Int] /\ DOMAIN batch = {"store", "at", "taken"}
  /\ batch.store \in [Ledgers -> Int] /\ batch.at \in 0 .. 2 /\ batch.taken \in Int
  /\ ~mode.batch => batch.at = 0 /\ \A l \in Ledgers : batch.store[l] = 0
  /\ DOMAIN lost = Ledgers /\ \A l \in Ledgers : lost[l] \in Int
  /\ MediaExtra
MediaCache == DOMAIN cached = {"there", "quota"} /\ cached.there \in BOOLEAN /\ cached.quota \in Int
CallFields == {"pc", "kind", "price", "reserved", "estimate", "seen", "todo", "outcome", "paid", "misled", "hurt"}
MediaPcs == {"idle", "get", "fill", "decide", "shrink", "trust", "legacy", "reserveToken", "reserveUser", "upstream",
             "post", "reget", "refill", "put", "done"}
MediaUnpaid(k) == k.reserved = 0 /\ k.paid["user"] = 0 /\ k.paid["token"] = 0 /\ k.outcome = "none"
Target(k) ==
  CASE k.outcome \in {"served", "undelivered"} -> k.price [] k.outcome = "reserving" -> k.reserved [] OTHER -> 0
MediaCallType(k) ==
  /\ DOMAIN k = CallFields /\ DOMAIN k.paid = Ledgers /\ \A l \in Ledgers : k.paid[l] \in Int
  /\ k.pc \in MediaPcs /\ k.kind \in {"none", "image", "speech", "transcription", "proxy"}
  /\ k.outcome \in {"none", "served", "failed", "undelivered", "refused", "reserving"}
  /\ k.price \in Int /\ k.reserved \in Nat /\ k.estimate \in Nat /\ k.seen \in Int
  /\ k.misled \in BOOLEAN /\ k.hurt \in BOOLEAN
\* A call that posts has all of x to post, or what the token still owes.
MediaPosting(k) ==
  LET x == -k.todo[1].delta IN
  /\ x \in Int
  /\ \/ /\ k.todo = PostConsumeTokenQuota(x)
        /\ k.paid["user"] = (IF k.outcome = "reserving" THEN 0 ELSE k.reserved)
        /\ k.paid["user"] + x = Target(k) /\ k.paid["token"] + Capped(x) = Capped(Target(k))
     \/ /\ k.todo = <<Stmt2("token", -x)>> /\ ~UnlimitedQuota
        /\ k.paid["user"] = Target(k) /\ k.paid["token"] + x = Target(k)
MediaCallBooks(k) ==
  /\ k.paid["user"] \in {0, k.reserved, k.price} /\ k.reserved \in {0, k.estimate}
  /\ k.kind = "speech" => k.estimate = k.price
  /\ k.kind = "image" => k.estimate = 0
  /\ k.pc \in {"get", "fill", "decide", "upstream", "post"} => k.kind \in {"image", "speech", "transcription"}
  /\ k.pc \in {"shrink", "trust", "legacy", "reserveToken", "reserveUser"} => k.kind \in {"speech", "transcription"}
  /\ k.pc \in {"idle", "get", "fill", "decide", "shrink", "trust", "legacy", "reserveToken"} => MediaUnpaid(k)
  /\ k.pc = "reserveUser" =>
       k.reserved = 0 /\ k.outcome = "none" /\ k.paid["user"] = 0 /\ k.paid["token"] = Capped(k.estimate)
  /\ k.pc = "upstream" => k.paid["user"] = k.reserved /\ k.paid["token"] = Capped(k.reserved)
  /\ k.pc = "post" => k.outcome # "none" /\ MediaPosting(k)
  /\ k.outcome = "reserving" => k.kind # "image" /\ k.reserved = k.estimate
  /\ k.pc \in {"reget", "refill", "put"} => k.outcome \in {"served", "undelivered"}
  /\ k.pc \in {"reget", "refill", "put"} \/ (k.pc = "done" /\ ~k.hurt) =>
       k.paid["user"] = Cost(k) /\ k.paid["token"] = Capped(Cost(k))
\* What the settings rule out.
MediaModal(k) ==
  /\ k.outcome = "reserving" \/ k.pc = "legacy" => mode.batch
  /\ k.pc \in {"reserveToken", "reserveUser"} => ~mode.batch
  /\ k.pc = "reserveToken" => ~UnlimitedQuota
MediaCallsBooks ==
  /\ DOMAIN call = MediaCalls
  /\ \A c \in MediaCalls : /\ MediaCallType(call[c]) /\ MediaCallBooks(call[c])
                           /\ MediaModal(call[c])
Paid(l) == SumFunctionOnSet([c \in MediaCalls |-> call[c].paid[l]], MediaCalls)
MediaPools ==
  /\ Pool("user") = StartQuota + extra.topups - lost["user"] - Paid("user")
  /\ Pool("token") = StartQuota - lost["token"] - Paid("token")
\* What a call counts on being there.
Need(k) ==
  CASE k.pc \in {"fill", "decide"} -> k.seen
    [] k.pc \in {"shrink", "trust", "legacy"} -> k.estimate
    [] k.pc = "upstream" /\ k.kind = "image" -> k.price
    [] k.pc = "upstream" /\ k.kind = "speech" -> k.price - k.reserved
    [] k.pc = "post" /\ k.todo[1].ledger = "user" -> -k.todo[1].delta
    [] OTHER -> 0
MediaExempt(k) == k.misled \/ k.kind = "transcription"
MediaPromise(k) == MediaExempt(k) \/ Need(k) <= 0 \/ Need(k) <= Pool("user")
MediaPromised == ~extra.short => \A c \in MediaCalls : MediaPromise(call[c])
MediaOver(k) ==
  IF MediaExempt(k) THEN AtLeast0(k.paid["user"] - (IF mode.batch THEN 0 ELSE k.reserved)) ELSE 0
Overs == [c \in MediaCalls |-> MediaOver(call[c])]
MediaCovered == ~extra.short => Pool("user") >= -SumFunctionOnSet(Overs, MediaCalls)
MediaInv == MediaTypes /\ MediaCache /\ MediaCallsBooks /\ MediaPools /\ MediaPromised /\ MediaCovered

LEMMA MediaPoolType == MediaTypes => Pool("user") \in Int /\ Pool("token") \in Int /\ Taken("user") \in Int /\ Taken("token") \in Int
BY DEF MediaTypes, Pool, Taken, Ledgers, FlushOrder

LEMMA MediaOverNat == ASSUME NEW k, MediaCallType(k) PROVE MediaOver(k) \in Nat
BY DEF MediaOver, MediaCallType, AtLeast0, Ledgers

\* A step that changes what one call does next and touches no ledger.
LEMMA MediaMove ==
  ASSUME MediaInv, NEW c \in MediaCalls, NEW k, call' = [call EXCEPT ![c] = k],
         mode' = mode, purse' = purse, batch' = batch, lost' = lost, extra' = extra, MediaCache',
         MediaCallType(k), MediaCallBooks(k), MediaModal(k),
         \A l \in Ledgers : k.paid[l] = call[c].paid[l],
         MediaOver(k) >= MediaOver(call[c]),
         extra.short \/ MediaPromise(k)
  PROVE  MediaInv'
<1>1. /\ DOMAIN call' = MediaCalls /\ call'[c] = k /\ \A d \in MediaCalls \ {c} : call'[d] = call[d]
  BY DEF MediaInv, MediaCallsBooks
<1>2. MediaTypes' BY DEF MediaInv, MediaTypes, MediaExtra
<1>3. MediaCallsBooks' BY <1>1 DEF MediaInv, MediaCallsBooks, MediaModal
<1>4. \A l \in Ledgers : Pool(l)' = Pool(l) BY DEF Pool, Taken
<1>5. ASSUME NEW l \in Ledgers PROVE Paid(l)' = Paid(l)
  <2> DEFINE f == [d \in MediaCalls |-> call[d].paid[l]]
             g == [d \in MediaCalls |-> call'[d].paid[l]]
  <2>1. \A d \in MediaCalls : f[d] \in Int /\ f[d] = g[d] BY <1>1 DEF MediaInv, MediaCallsBooks, MediaCallType
  <2>2. Paid(l) = SumFunctionOnSet(f, MediaCalls) /\ Paid(l)' = SumFunctionOnSet(g, MediaCalls) BY DEF Paid
  <2> HIDE DEF f, g
  <2>3. QED BY <2>1, <2>2, SumOfSame, MediaAssumption
<1>6. MediaPools' BY <1>4, <1>5 DEF MediaInv, MediaPools, Ledgers
<1>7. MediaPromised'
  <2>1. \A d \in MediaCalls : ~extra.short => MediaPromise(call'[d]) BY <1>1 DEF MediaInv, MediaPromised
  <2>2. QED BY <2>1, <1>4 DEF MediaPromised, MediaPromise, Ledgers
<1>8. MediaCovered'
  <2> DEFINE f == Overs
             g == Overs'
  <2>1. \A d \in MediaCalls : f[d] = MediaOver(call[d]) /\ g[d] = MediaOver(call'[d])
    BY DEF Overs, MediaOver
  <2>2. \A d \in MediaCalls : f[d] \in Int /\ g[d] \in Int
    BY <2>1, <1>1, MediaOverNat DEF MediaInv, MediaCallsBooks
  <2>3. \A d \in MediaCalls : f[d] <= g[d] BY <2>1, <2>2, <1>1
  <2> HIDE DEF f, g
  <2>4. SumFunctionOnSet(f, MediaCalls) <= SumFunctionOnSet(g, MediaCalls)
    BY <2>2, <2>3, SumIsMonotonic, MediaAssumption
  <2>5. SumFunctionOnSet(f, MediaCalls) \in Int /\ SumFunctionOnSet(g, MediaCalls) \in Int
    BY <2>2, SumIsInt, MediaAssumption
  <2>6. Pool("user") \in Int BY MediaPoolType DEF MediaInv
  <2>7. ~extra.short => Pool("user") >= -SumFunctionOnSet(f, MediaCalls) BY DEF MediaInv, MediaCovered, f
  <2>8. ~extra.short => Pool("user")' >= -SumFunctionOnSet(g, MediaCalls)
    BY <2>4, <2>5, <2>6, <2>7, <1>4 DEF Ledgers
  <2>9. QED BY <2>8 DEF MediaCovered, g
<1>9. QED BY <1>2, <1>3, <1>6, <1>7, <1>8 DEF MediaInv

LEMMA MediaTodo ==
  /\ ~(<<>> = <<Stmt2("token", 0)>>)
  /\ \A x \in Int :
       /\ PostConsumeTokenQuota(x)[1] = Stmt2("user", -x) /\ Head(PostConsumeTokenQuota(x)) = Stmt2("user", -x)
       /\ UnlimitedQuota => Tail(PostConsumeTokenQuota(x)) = <<>>
       /\ ~UnlimitedQuota =>
            Tail(PostConsumeTokenQuota(x)) = <<Stmt2("token", -x)>> /\ Tail(PostConsumeTokenQuota(x)) # <<>>
  /\ \A s : <<s>>[1] = s /\ Head(<<s>>) = s /\ Tail(<<s>>) = <<>>
<1>1. ~(<<>> = <<Stmt2("token", 0)>>) OBVIOUS
<1>2. \A s : <<s>>[1] = s /\ Head(<<s>>) = s /\ Tail(<<s>>) = <<>> OBVIOUS
<1>3. ASSUME NEW x \in Int
      PROVE  /\ PostConsumeTokenQuota(x)[1] = Stmt2("user", -x) /\ Head(PostConsumeTokenQuota(x)) = Stmt2("user", -x)
             /\ UnlimitedQuota => Tail(PostConsumeTokenQuota(x)) = <<>>
             /\ ~UnlimitedQuota =>
                  Tail(PostConsumeTokenQuota(x)) = <<Stmt2("token", -x)>> /\ Tail(PostConsumeTokenQuota(x)) # <<>>
  <2>1. CASE UnlimitedQuota
    <3>1. PostConsumeTokenQuota(x) = <<Stmt2("user", -x)>> BY <2>1 DEF PostConsumeTokenQuota
    <3>2. QED BY <2>1, <3>1, <1>2
  <2>2. CASE ~UnlimitedQuota
    <3>1. PostConsumeTokenQuota(x) = <<Stmt2("user", -x), Stmt2("token", -x)>> BY <2>2 DEF PostConsumeTokenQuota
    <3>2. \A s, r : <<s, r>>[1] = s /\ Head(<<s, r>>) = s /\ Tail(<<s, r>>) = <<r>> /\ <<r>> # <<>> OBVIOUS
    <3>3. QED BY <2>2, <3>1, <3>2
  <2>3. QED BY <2>1, <2>2
<1>4. QED BY <1>1, <1>2, <1>3

\* What a deduction does to the ledgers.
LEMMA MediaWrites ==
  ASSUME MediaTypes, NEW l \in Ledgers, NEW d \in Int, Write(l, d), mode' = mode, lost' = lost, MediaExtra'
  PROVE  MediaTypes' /\ Pool(l)' = Pool(l) + d /\ \A m \in Ledgers \ {l} : Pool(m)' = Pool(m)
<1>1. CASE mode.batch
  <2>1. /\ purse' = purse /\ batch'.at = batch.at /\ batch'.taken = batch.taken
        /\ DOMAIN batch' = {"store", "at", "taken"} /\ batch'.store \in [Ledgers -> Int]
        /\ batch'.store[l] = batch.store[l] + d /\ \A m \in Ledgers \ {l} : batch'.store[m] = batch.store[m]
    BY <1>1 DEF Write, addNewRecord, MediaTypes
  <2>2. MediaTypes' BY <2>1, <1>1 DEF MediaTypes
  <2>3. \A m \in Ledgers : Taken(m)' = Taken(m) BY <2>1 DEF Taken
  <2>4. \A m \in Ledgers : Taken(m) \in Int BY MediaPoolType DEF Ledgers
  <2>5. QED BY <2>1, <2>2, <2>3, <2>4 DEF Pool, MediaTypes
<1>2. CASE ~mode.batch
  <2>1. /\ batch' = batch /\ purse' \in [Ledgers -> Int]
        /\ purse'[l] = purse[l] + d /\ \A m \in Ledgers \ {l} : purse'[m] = purse[m]
    BY <1>2 DEF Write, MediaTypes
  <2>2. MediaTypes' BY <2>1 DEF MediaTypes
  <2>3. \A m \in Ledgers : Taken(m)' = Taken(m) BY <2>1 DEF Taken
  <2>4. \A m \in Ledgers : Taken(m) \in Int BY MediaPoolType DEF Ledgers
  <2>5. QED BY <2>1, <2>2, <2>3, <2>4 DEF Pool, MediaTypes
<1>3. QED BY <1>1, <1>2

\* A call that neither waits nor decides counts on nothing.
LEMMA MediaUndecided ==
  ASSUME NEW k, MediaCallType(k), MediaCallBooks(k), ~Deciding(k)
  PROVE  Need(k) <= 0
<1>1. CASE k.pc = "post"
  <2>1. PICK x \in Int : k.todo = PostConsumeTokenQuota(x) \/ k.todo = <<Stmt2("token", -x)>>
    BY <1>1 DEF MediaCallBooks, MediaPosting
  <2>2. QED BY <1>1, <2>1, MediaTodo DEF Deciding, Need, Stmt2
<1>2. CASE k.pc = "upstream"
  BY <1>2, MediaAssumption DEF Deciding, Need, MediaCallType, MediaCallBooks
<1>3. CASE k.pc \notin {"post", "upstream"}
  <2>1. k.pc \notin {"fill", "decide", "shrink", "trust", "legacy", "upstream", "post"} BY <1>3 DEF Deciding
  <2>2. Need(k) = 0 BY <2>1 DEF Need
  <2>3. QED BY <2>2
<1>4. QED BY <1>1, <1>2, <1>3

\* What a call counts on is a number.
LEMMA MediaNeedType ==
  ASSUME NEW k, MediaCallType(k), MediaCallBooks(k)
  PROVE  Need(k) \in Int
<1>1. CASE k.pc = "post"
  <2>1. k.todo[1].delta \in Int
    <3>1. PICK x \in Int : k.todo = PostConsumeTokenQuota(x) \/ k.todo = <<Stmt2("token", -x)>>
      BY <1>1 DEF MediaCallBooks, MediaPosting
    <3>2. k.todo[1] = Stmt2("user", -x) \/ k.todo[1] = Stmt2("token", -x) BY <3>1, MediaTodo
    <3>3. k.todo[1].delta = -x BY <3>2 DEF Stmt2
    <3>4. QED BY <3>3
  <2>2. QED BY <1>1, <2>1 DEF Need
<1>2. CASE k.pc # "post" BY <1>2 DEF Need, MediaCallType
<1>3. QED BY <1>1, <1>2

\* A deduction or a refund of one call, written to one ledger.
LEMMA MediaPays ==
  ASSUME MediaInv, NEW c \in MediaCalls, NEW l \in Ledgers, NEW d \in Int, NEW k,
         call' = Misleads(c, IF l = "user" THEN d ELSE 0, [call EXCEPT ![c] = k]), Write(l, d),
         mode' = mode, cached' = cached, lost' = lost, extra' = extra,
         MediaCallType(k), MediaCallBooks(k), MediaModal(k),
         k.paid[l] = call[c].paid[l] - d, \A m \in Ledgers \ {l} : k.paid[m] = call[c].paid[m],
         \/ extra.short
         \/ l = "token" /\ MediaOver(k) >= MediaOver(call[c])
         \/ l = "user" /\ (MediaOver(k) - MediaOver(call[c]) >= -d \/ Pool("user") + d >= 0),
         \/ extra.short \/ MediaExempt(k) \/ Need(k) <= 0
         \/ Need(k) <= Pool("user") + (IF l = "user" THEN d ELSE 0)
  PROVE  MediaInv'
<1> DEFINE e == IF l = "user" THEN d ELSE 0
<1>0. e \in Int OBVIOUS
<1>1. /\ DOMAIN call' = MediaCalls /\ call'[c] = k
      /\ \A x \in MediaCalls \ {c} :
           call'[x] = IF e < 0 /\ Deciding(call[x]) THEN [call[x] EXCEPT !.misled = TRUE] ELSE call[x]
  BY DEF MediaInv, MediaCallsBooks, Misleads
<1>2. /\ MediaTypes' /\ Pool(l)' = Pool(l) + d /\ \A m \in Ledgers \ {l} : Pool(m)' = Pool(m)
  <2>1. MediaExtra' BY DEF MediaInv, MediaTypes, MediaExtra
  <2>2. QED BY <2>1, MediaWrites DEF MediaInv
<1>3. Pool("user") \in Int /\ Pool("token") \in Int BY MediaPoolType DEF MediaInv
<1>4. Pool("user")' = Pool("user") + e BY <1>2, <1>3 DEF Ledgers
<1> HIDE DEF e
\* The others keep their books; the misled ones are exempt.
<1>5. ASSUME NEW x \in MediaCalls \ {c}
      PROVE  /\ MediaCallType(call'[x]) /\ MediaCallBooks(call'[x]) /\ call'[x].outcome = call[x].outcome
             /\ call'[x].pc = call[x].pc /\ call'[x].paid = call[x].paid /\ MediaOver(call'[x]) >= MediaOver(call[x])
             /\ ~extra.short => MediaExempt(call'[x]) \/ Need(call'[x]) <= 0 \/ Need(call'[x]) <= Pool("user") + e
  <2>0. MediaCallType(call[x]) /\ MediaCallBooks(call[x]) BY DEF MediaInv, MediaCallsBooks
  <2>1. CASE e < 0 /\ Deciding(call[x])
    <3>1. PICK y : y = call[x] OBVIOUS
    <3>2. PICK z : z = call'[x] OBVIOUS
    <3>3. z = [y EXCEPT !.misled = TRUE] BY <2>1, <1>1, <3>1, <3>2
    <3>4. MediaCallType(y) /\ MediaCallBooks(y) BY <2>0, <3>1
    <3>5. /\ DOMAIN z = DOMAIN y /\ z.misled = TRUE /\ z.pc = y.pc /\ z.kind = y.kind /\ z.price = y.price
          /\ z.reserved = y.reserved /\ z.estimate = y.estimate /\ z.seen = y.seen /\ z.todo = y.todo
          /\ z.outcome = y.outcome /\ z.paid = y.paid /\ z.hurt = y.hurt
      BY <3>3, <3>4 DEF MediaCallType, CallFields
    <3>6. MediaCallType(z) BY <3>4, <3>5 DEF MediaCallType
    <3>7. MediaCallBooks(z)
      <4>1. Target(z) = Target(y) /\ Cost(z) = Cost(y) /\ (MediaUnpaid(y) => MediaUnpaid(z))
        BY <3>5 DEF Target, Cost, MediaUnpaid
      <4>2. MediaPosting(y) => MediaPosting(z) BY <3>5, <4>1 DEF MediaPosting
      <4>3. PICK p : p = y.pc OBVIOUS
      <4>4. z.pc = p BY <3>5, <4>3
      <4>5. QED BY ONLY <3>4, <3>5, <4>1, <4>2, <4>3, <4>4 DEF MediaCallBooks
    <3>8. MediaExempt(z) /\ MediaOver(z) >= MediaOver(y)
      BY <3>5, <3>4 DEF MediaExempt, MediaOver, AtLeast0, MediaCallType, Ledgers
    <3>9. QED BY <3>1, <3>2, <3>5, <3>6, <3>7, <3>8
  <2>2. CASE ~(e < 0 /\ Deciding(call[x]))
    <3>1. call'[x] = call[x] BY <2>2, <1>1
    <3>2. MediaOver(call[x]) \in Int BY <2>0, MediaOverNat
    <3>3. ~extra.short => MediaPromise(call[x]) BY DEF MediaInv, MediaPromised
    <3>4. CASE e >= 0
      <4>1. Need(call[x]) \in Int BY <2>0, MediaNeedType
      <4>2. QED BY <3>1, <3>2, <3>3, <3>4, <4>1, <2>0, <1>0, <1>3 DEF MediaPromise
    <3>5. CASE ~Deciding(call[x]) BY <3>1, <3>2, <3>5, <2>0, MediaUndecided
    <3>6. QED BY <2>2, <3>4, <3>5, <1>0
  <2>3. QED BY <2>1, <2>2
<1>6. MediaCallsBooks'
  <2>1. ASSUME NEW x \in MediaCalls
        PROVE  MediaCallType(call'[x]) /\ MediaCallBooks(call'[x]) /\ MediaModal(call'[x])
    <3>1. CASE x = c BY <3>1, <1>1
    <3>2. CASE x # c
      <4>1. MediaModal(call[x]) BY DEF MediaInv, MediaCallsBooks
      <4>2. call'[x].pc = call[x].pc /\ call'[x].outcome = call[x].outcome BY <3>2, <1>5
      <4>3. MediaModal(call'[x]) BY <4>1, <4>2 DEF MediaModal
      <4>4. QED BY <3>2, <4>3, <1>5
    <3>3. QED BY <3>1, <3>2
  <2>2. QED BY <2>1, <1>1 DEF MediaCallsBooks, MediaModal
<1>7. ASSUME NEW m \in Ledgers PROVE Paid(m)' = Paid(m) - (IF m = l THEN d ELSE 0)
  <2> DEFINE f == [x \in MediaCalls |-> call[x].paid[m]]
             g == [x \in MediaCalls |-> call'[x].paid[m]]
  <2>1. \A x \in MediaCalls : f[x] \in Int /\ g[x] \in Int
    BY <1>6 DEF MediaInv, MediaCallsBooks, MediaCallType
  <2>2. \A x \in MediaCalls \ {c} : g[x] = f[x] BY <1>5
  <2>3. g[c] = f[c] - (IF m = l THEN d ELSE 0) BY <1>1, <2>1
  <2>4. Paid(m) = SumFunctionOnSet(f, MediaCalls) /\ Paid(m)' = SumFunctionOnSet(g, MediaCalls) BY DEF Paid
  <2> HIDE DEF f, g
  <2>5. SumFunctionOnSet(g, MediaCalls) = SumFunctionOnSet(f, MediaCalls) - f[c] + g[c]
    BY <2>1, <2>2, SumChanges, MediaAssumption
  <2>6. SumFunctionOnSet(f, MediaCalls) \in Int BY <2>1, SumIsInt, MediaAssumption
  <2>7. QED BY <2>1, <2>3, <2>4, <2>5, <2>6
<1>8. MediaPools'
  <2>1. Paid("user") \in Int /\ Paid("token") \in Int
    <3>1. ASSUME NEW m \in Ledgers PROVE Paid(m) \in Int
      <4> DEFINE f == [x \in MediaCalls |-> call[x].paid[m]]
      <4>1. \A x \in MediaCalls : f[x] \in Int BY DEF MediaInv, MediaCallsBooks, MediaCallType
      <4>2. Paid(m) = SumFunctionOnSet(f, MediaCalls) BY DEF Paid
      <4> HIDE DEF f
      <4>3. QED BY <4>1, <4>2, SumIsInt, MediaAssumption
    <3>2. QED BY <3>1 DEF Ledgers
  <2>2. StartQuota \in Int /\ extra.topups \in Int /\ lost["user"] \in Int /\ lost["token"] \in Int
    BY MediaAssumption DEF MediaInv, MediaTypes, MediaExtra, Ledgers
  <2>3. CASE l = "user"
    <3>1. /\ Paid("user")' = Paid("user") - d /\ Paid("token")' = Paid("token") - 0
          /\ Pool("user")' = Pool("user") + d /\ Pool("token")' = Pool("token")
      BY <1>2, <1>7, <2>3 DEF Ledgers
    <3>2. QED BY <3>1, <2>1, <2>2, <1>3 DEF MediaInv, MediaPools
  <2>4. CASE l = "token"
    <3>1. /\ Paid("user")' = Paid("user") - 0 /\ Paid("token")' = Paid("token") - d
          /\ Pool("user")' = Pool("user") /\ Pool("token")' = Pool("token") + d
      BY <1>2, <1>7, <2>4 DEF Ledgers
    <3>2. QED BY <3>1, <2>1, <2>2, <1>3 DEF MediaInv, MediaPools
  <2>5. QED BY <2>3, <2>4 DEF Ledgers
<1>9. MediaPromised'
  <2>1. ~extra.short => MediaExempt(k) \/ Need(k) <= 0 \/ Need(k) <= Pool("user") + e BY DEF e
  <2>2. \A x \in MediaCalls :
          ~extra.short => MediaExempt(call'[x]) \/ Need(call'[x]) <= 0 \/ Need(call'[x]) <= Pool("user") + e
    BY <2>1, <1>1, <1>5
  <2>3. QED BY <2>2, <1>4 DEF MediaPromised, MediaPromise
<1>10. MediaCovered'
  <2> DEFINE f == Overs
             g == Overs'
  <2>1. \A x \in MediaCalls : f[x] = MediaOver(call[x]) /\ g[x] = MediaOver(call'[x])
    BY DEF Overs, MediaOver
  <2>2. \A x \in MediaCalls : f[x] \in Nat /\ g[x] \in Nat
    BY <2>1, <1>6, MediaOverNat DEF MediaInv, MediaCallsBooks
  <2>3. f[c] = MediaOver(call[c]) /\ g[c] = MediaOver(k) /\ \A x \in MediaCalls \ {c} : f[x] <= g[x]
    BY <2>1, <2>2, <1>1, <1>5
  <2> HIDE DEF f, g
  <2>4. SumFunctionOnSet(f, MediaCalls) - f[c] + g[c] <= SumFunctionOnSet(g, MediaCalls)
    <3> DEFINE h == [x \in MediaCalls |-> IF x = c THEN f[c] ELSE g[x]]
    <3>1. \A x \in MediaCalls : h[x] \in Int /\ f[x] <= h[x] BY <2>2, <2>3
    <3>2. h[c] = f[c] /\ \A x \in MediaCalls \ {c} : h[x] = g[x] OBVIOUS
    <3> HIDE DEF h
    <3>3. SumFunctionOnSet(f, MediaCalls) <= SumFunctionOnSet(h, MediaCalls)
      BY <2>2, <3>1, SumIsMonotonic, MediaAssumption
    <3>4. SumFunctionOnSet(g, MediaCalls) = SumFunctionOnSet(h, MediaCalls) - h[c] + g[c]
      BY <2>2, <3>1, <3>2, SumChanges, MediaAssumption
    <3>5. SumFunctionOnSet(f, MediaCalls) \in Int /\ SumFunctionOnSet(h, MediaCalls) \in Int
      BY <2>2, <3>1, SumIsInt, MediaAssumption
    <3>6. f[c] \in Int /\ g[c] \in Int BY <2>2
    <3>7. QED BY <3>2, <3>3, <3>4, <3>5, <3>6
  <2>5. SumFunctionOnSet(f, MediaCalls) \in Int /\ SumFunctionOnSet(g, MediaCalls) \in Int
    BY <2>2, SumIsInt, MediaAssumption
  <2>6. SumFunctionOnSet(g, MediaCalls) >= 0
    <3> DEFINE z == [x \in MediaCalls |-> 0]
    <3>1. \A x \in MediaCalls : z[x] = 0 /\ z[x] \in Int OBVIOUS
    <3> HIDE DEF z
    <3>2. \A x \in MediaCalls : z[x] <= g[x] BY <3>1, <2>2
    <3>3. SumFunctionOnSet(z, MediaCalls) = 0 BY <3>1, SumOfZeros, MediaAssumption
    <3>4. SumFunctionOnSet(z, MediaCalls) <= SumFunctionOnSet(g, MediaCalls)
      BY <3>1, <3>2, <2>2, SumIsMonotonic, MediaAssumption
    <3>5. QED BY <3>3, <3>4, <2>5
  <2>7. ~extra.short => Pool("user") >= -SumFunctionOnSet(f, MediaCalls) BY DEF MediaInv, MediaCovered, f
  <2>8. f[c] \in Int /\ g[c] \in Int BY <2>2
  <2>9. ~extra.short => g[c] - f[c] >= -e \/ Pool("user") + e >= 0
    BY <2>3, <2>8 DEF e, Ledgers
  <2>10. ~extra.short => Pool("user") + e >= -SumFunctionOnSet(g, MediaCalls)
    BY <2>4, <2>5, <2>6, <2>7, <2>8, <2>9, <1>0, <1>3
  <2>11. QED BY <2>10, <1>4 DEF MediaCovered, g
<1>11. QED BY <1>2, <1>6, <1>8, <1>9, <1>10 DEF MediaInv, MediaCache

\* What a call paid beyond its reservation grows no smaller when it is misled.
LEMMA MediaOverGrows ==
  ASSUME NEW y, NEW k, MediaCallType(y), MediaCallType(k), k.reserved = y.reserved, k.paid["user"] = y.paid["user"],
         MediaExempt(y) => MediaExempt(k)
  PROVE  MediaOver(k) >= MediaOver(y)
BY DEF MediaCallType, MediaOver, AtLeast0, Ledgers

\* A call that has not paid is over by nothing.
LEMMA MediaOverUnpaid ==
  ASSUME NEW k, MediaUnpaid(k)
  PROVE  MediaOver(k) = 0
BY DEF MediaUnpaid, MediaOver, AtLeast0

\* A call let in, or one that ends where it came in.
MediaNew(k) ==
  /\ DOMAIN k = CallFields /\ DOMAIN k.paid = Ledgers /\ k.paid["user"] = 0 /\ k.paid["token"] = 0
  /\ k.reserved = 0 /\ k.seen = 0 /\ k.misled \in BOOLEAN /\ k.hurt \in BOOLEAN /\ k.estimate \in Nat /\ k.price \in Int
  /\ \/ k.pc = "get" /\ k.kind \in {"image", "speech", "transcription"} /\ k.outcome = "none"
     \/ k.pc = "done" /\ k.kind \in {"image", "proxy"} /\ k.price = 0 /\ k.outcome \in {"refused", "served", "failed"}

\* A request arrives.
LEMMA MediaArrives ==
  ASSUME MediaInv, NEW c \in MediaCalls, NEW k, call[c].pc = "idle", Asks(c, k), MediaNew(k),
         k.kind = "speech" => k.estimate = k.price, k.kind = "image" => k.estimate = 0
  PROVE  MediaInv'
<1>1. call' = [call EXCEPT ![c] = k] /\ UNCHANGED <<mode, purse, batch, cached, lost, extra>> BY DEF Asks
<1>2. MediaUnpaid(call[c]) BY DEF MediaInv, MediaCallsBooks, MediaCallBooks
<1>4. MediaCallType(k)
  <2>1. \A l \in Ledgers : k.paid[l] \in Int BY DEF MediaNew, Ledgers
  <2>2. k.pc \in MediaPcs BY DEF MediaPcs, MediaNew
  <2>3. k.reserved \in Nat /\ k.seen \in Int /\ k.misled \in BOOLEAN /\ k.hurt \in BOOLEAN BY DEF MediaNew
  <2>4. k.kind \in {"none", "image", "speech", "transcription", "proxy"}
        /\ k.outcome \in {"none", "served", "failed", "undelivered", "refused", "reserving"} BY DEF MediaNew
  <2>5. QED BY <2>1, <2>2, <2>3, <2>4 DEF MediaCallType, MediaNew
<1>5. Capped(0) = 0 BY DEF Capped
<1>6. MediaCallBooks(k) /\ MediaModal(k) BY <1>5 DEF MediaCallBooks, MediaModal, MediaUnpaid, Cost, MediaNew
<1>7. \A l \in Ledgers : k.paid[l] = call[c].paid[l] BY <1>2 DEF Ledgers, MediaUnpaid, MediaNew
<1>8. MediaOver(k) >= MediaOver(call[c])
  <2>1. MediaOver(call[c]) = 0 BY <1>2, MediaOverUnpaid
  <2>2. MediaOver(k) \in Nat BY <1>4, MediaOverNat
  <2>3. QED BY <2>1, <2>2
<1>9. MediaPromise(k) BY DEF MediaPromise, Need, MediaNew
<1>10. MediaCache' BY <1>1 DEF MediaInv, MediaCache
<1>11. QED BY <1>1, <1>4, <1>6, <1>7, <1>8, <1>9, <1>10, MediaMove

LEMMA MediaRelayImage == ASSUME MediaInv, NEW c \in MediaCalls, NEW r \in ImageRequests, RelayImageHelper(c, r) PROVE MediaInv'
<1> DEFINE q == getImageRequest(r)
           price == ImageQuota(q)
           k == IF validateImageRequest(q) THEN [NoCall EXCEPT !.pc = "get", !.kind = "image", !.price = price]
                ELSE Ends([NoCall EXCEPT !.kind = "image"], "refused")
<1>1. call[c].pc = "idle" /\ Asks(c, k) BY DEF RelayImageHelper
<1>2. price \in Int BY MediaAssumption
<1> HIDE DEF q, price
<1>3. k.kind = "image" /\ k.estimate = 0 BY DEF NoCall, Ends
<1>4. MediaNew(k) BY <1>2 DEF NoCall, NoDelta, Ends, CallFields, MediaNew, Ledgers
<1> HIDE DEF k
<1>6. QED BY <1>1, <1>3, <1>4, MediaArrives

LEMMA MediaRelayAudio ==
  ASSUME MediaInv, NEW c \in MediaCalls, NEW p \in Nat, NEW kind \in {"speech", "transcription"}, RelayAudioHelper(c, kind, p)
  PROVE  MediaInv'
<1> DEFINE e == IF kind = "speech" THEN p ELSE PreConsumedQuota
           k == [NoCall EXCEPT !.pc = "get", !.kind = kind, !.price = p, !.estimate = e]
<1>1. call[c].pc = "idle" /\ Asks(c, k) BY DEF RelayAudioHelper
<1>2. e \in Nat /\ (kind = "speech" => e = p) BY MediaAssumption
<1> HIDE DEF e
<1>3. (k.kind = "speech" => k.estimate = k.price) /\ (k.kind = "image" => k.estimate = 0) BY <1>2 DEF NoCall
<1>4. MediaNew(k) BY <1>2 DEF NoCall, NoDelta, CallFields, MediaNew, Ledgers
<1> HIDE DEF k
<1>5. QED BY <1>1, <1>3, <1>4, MediaArrives

LEMMA MediaRelayProxy == ASSUME MediaInv, NEW c \in MediaCalls, RelayProxyHelper(c) PROVE MediaInv'
<1>1. PICK how \in {"served", "failed"} : Asks(c, Ends([NoCall EXCEPT !.kind = "proxy"], how)) /\ call[c].pc = "idle"
  BY DEF RelayProxyHelper
<1> DEFINE k == Ends([NoCall EXCEPT !.kind = "proxy"], how)
<1>3. k.kind = "proxy" BY DEF NoCall, Ends
<1>2. MediaNew(k) BY DEF NoCall, NoDelta, Ends, CallFields, MediaNew, Ledgers
<1>4. Asks(c, k) BY <1>1
<1> HIDE DEF k
<1>5. QED BY <1>1, <1>2, <1>3, <1>4, MediaArrives

\* What is known of a call.
LEMMA MediaOf ==
  ASSUME MediaInv, NEW c \in MediaCalls
  PROVE  MediaCallType(call[c]) /\ MediaCallBooks(call[c]) /\ MediaModal(call[c]) /\ (~extra.short => MediaPromise(call[c]))
BY DEF MediaInv, MediaCallsBooks, MediaPromised

LEMMA MediaReadsBalance == ASSUME MediaInv, NEW c \in MediaCalls, CacheGetUserQuota(c) PROVE MediaInv'
<1>1. PICK y : y = call[c] OBVIOUS
<1> DEFINE hit == mode.redis /\ cached.there /\ cached.quota > PreConsumedQuota
           read == IF hit THEN cached.quota ELSE purse["user"]
           misled == y.misled \/ (y.pc = "get" /\ read # Pool("user"))
           pc == IF hit \/ ~mode.redis THEN AfterGet(y) ELSE IF y.pc = "get" THEN "fill" ELSE "refill"
           k == [y EXCEPT !.seen = read, !.misled = misled, !.pc = pc]
<1>2. /\ y.pc \in {"get", "reget"} /\ call' = [call EXCEPT ![c] = k]
      /\ UNCHANGED <<mode, purse, batch, cached, lost, extra>>
  BY <1>1 DEF CacheGetUserQuota, Moves
<1>3. MediaCallType(y) /\ MediaCallBooks(y) /\ MediaModal(y) BY <1>1, MediaOf
<1>4. read \in Int BY DEF MediaInv, MediaCache, MediaTypes, Ledgers
<1>5. misled \in BOOLEAN /\ (y.misled => misled) /\ (y.pc = "get" => misled \/ read = Pool("user")) OBVIOUS
<1>6. (y.pc = "get" => pc \in {"decide", "fill"}) /\ (y.pc = "reget" => pc \in {"put", "refill"}) BY <1>2 DEF AfterGet
<1> HIDE DEF read, misled, pc
<1>7. /\ DOMAIN k = CallFields /\ k.pc = pc /\ k.seen = read /\ k.misled = misled /\ k.kind = y.kind /\ k.price = y.price
      /\ k.reserved = y.reserved /\ k.estimate = y.estimate /\ k.outcome = y.outcome /\ k.paid = y.paid /\ k.hurt = y.hurt
  BY <1>3 DEF MediaCallType, CallFields
<1> HIDE DEF k
<1>8. MediaCallType(k) BY <1>2, <1>3, <1>4, <1>5, <1>6, <1>7 DEF MediaCallType, MediaPcs
<1>9. MediaCallBooks(k) /\ MediaModal(k)
  BY <1>2, <1>3, <1>6, <1>7 DEF MediaCallBooks, MediaModal, MediaUnpaid, Cost
<1>10. MediaOver(k) >= MediaOver(y) BY <1>3, <1>5, <1>7, <1>8, MediaOverGrows DEF MediaExempt
<1>11. MediaPromise(k)
  <2>1. CASE y.pc = "get"
    <3>1. k.misled \/ Need(k) = Pool("user") BY <2>1, <1>5, <1>6, <1>7 DEF Need
    <3>2. Pool("user") \in Int BY MediaPoolType DEF MediaInv
    <3>3. QED BY <3>1, <3>2 DEF MediaPromise, MediaExempt
  <2>2. CASE y.pc = "reget" BY <2>2, <1>6, <1>7 DEF MediaPromise, Need
  <2>3. QED BY <2>1, <2>2, <1>2
<1>12. MediaCache' BY <1>2 DEF MediaInv, MediaCache
<1>13. \A l \in Ledgers : k.paid[l] = call[c].paid[l] BY <1>1, <1>7
<1>14. QED BY <1>1, <1>2, <1>8, <1>9, <1>10, <1>11, <1>12, <1>13, MediaMove

LEMMA MediaFetches == ASSUME MediaInv, NEW c \in MediaCalls, fetchAndUpdateUserQuota(c) PROVE MediaInv'
<1>1. PICK y : y = call[c] OBVIOUS
<1> DEFINE k == [y EXCEPT !.pc = AfterGet(y)]
<1>2. /\ y.pc \in {"fill", "refill"} /\ call' = [call EXCEPT ![c] = k] /\ cached' = [there |-> TRUE, quota |-> y.seen]
      /\ UNCHANGED <<mode, purse, batch, lost, extra>>
  BY <1>1 DEF fetchAndUpdateUserQuota, Moves, RedisSet
<1>3. MediaCallType(y) /\ MediaCallBooks(y) /\ MediaModal(y) /\ (~extra.short => MediaPromise(y)) BY <1>1, MediaOf
<1>6. (y.pc = "fill" => AfterGet(y) = "decide") /\ (y.pc = "refill" => AfterGet(y) = "put") BY <1>2 DEF AfterGet
<1>7. /\ DOMAIN k = CallFields /\ k.pc = AfterGet(y) /\ k.seen = y.seen /\ k.misled = y.misled /\ k.kind = y.kind
      /\ k.price = y.price /\ k.reserved = y.reserved /\ k.estimate = y.estimate /\ k.outcome = y.outcome
      /\ k.paid = y.paid /\ k.hurt = y.hurt
  BY <1>3 DEF MediaCallType, CallFields
<1> HIDE DEF k
<1>8. MediaCallType(k) BY <1>2, <1>3, <1>6, <1>7 DEF MediaCallType, MediaPcs
<1>9. MediaCallBooks(k) /\ MediaModal(k)
  BY <1>2, <1>3, <1>6, <1>7 DEF MediaCallBooks, MediaModal, MediaUnpaid, Cost
<1>10. MediaOver(k) >= MediaOver(y) BY <1>3, <1>7, <1>8, MediaOverGrows DEF MediaExempt
<1>11. extra.short \/ MediaPromise(k)
  <2>1. CASE y.pc = "fill"
    <3>1. Need(k) = Need(y) BY <2>1, <1>6, <1>7 DEF Need
    <3>2. QED BY <3>1, <1>3, <1>7 DEF MediaPromise, MediaExempt
  <2>2. CASE y.pc = "refill" BY <2>2, <1>6, <1>7 DEF MediaPromise, Need
  <2>3. QED BY <2>1, <2>2, <1>2
<1>12. MediaCache' BY <1>2, <1>3 DEF MediaCache, MediaCallType
<1>13. \A l \in Ledgers : k.paid[l] = call[c].paid[l] BY <1>1, <1>7
<1>14. QED BY <1>1, <1>2, <1>8, <1>9, <1>10, <1>11, <1>12, <1>13, MediaMove

\* A call that ends, with nothing paid or its cost paid.
LEMMA MediaEnds ==
  ASSUME MediaInv, NEW c \in MediaCalls, NEW how \in {"served", "failed", "undelivered", "refused"}, MediaCache',
         call' = [call EXCEPT ![c] = Ends(call[c], how)], UNCHANGED <<mode, purse, batch, lost, extra>>,
         call[c].paid["user"] = Cost(Ends(call[c], how)), call[c].paid["token"] = Capped(Cost(Ends(call[c], how)))
  PROVE  MediaInv'
<1>1. PICK y : y = call[c] OBVIOUS
<1> DEFINE k == Ends(y, how)
<1>3. MediaCallType(y) /\ MediaCallBooks(y) BY <1>1, MediaOf
<1>7. /\ DOMAIN k = CallFields /\ k.pc = "done" /\ k.seen = 0 /\ k.misled = y.misled /\ k.kind = y.kind
      /\ k.price = y.price /\ k.reserved = y.reserved /\ k.estimate = y.estimate /\ k.outcome = how
      /\ k.paid = y.paid /\ k.hurt = y.hurt
  BY <1>3 DEF MediaCallType, CallFields, Ends
<1>2. call' = [call EXCEPT ![c] = k] /\ k.paid["user"] = Cost(k) /\ k.paid["token"] = Capped(Cost(k)) BY <1>1, <1>7
<1> HIDE DEF k
<1>8. MediaCallType(k)
  <2>1. k.pc \in MediaPcs /\ k.seen \in Int BY <1>7 DEF MediaPcs
  <2>2. k.outcome \in {"none", "served", "failed", "undelivered", "refused", "reserving"} BY <1>7
  <2>3. QED BY <1>3, <1>7, <2>1, <2>2 DEF MediaCallType
<1>9. MediaCallBooks(k) /\ MediaModal(k) BY <1>2, <1>3, <1>7 DEF MediaCallBooks, MediaModal
<1>10. MediaOver(k) >= MediaOver(y) BY <1>3, <1>7, <1>8, MediaOverGrows DEF MediaExempt
<1>11. MediaPromise(k) BY <1>7 DEF MediaPromise, Need
<1>13. \A l \in Ledgers : k.paid[l] = call[c].paid[l] BY <1>1, <1>7
<1>14. QED BY <1>1, <1>2, <1>8, <1>9, <1>10, <1>11, <1>13, MediaMove

LEMMA MediaCacheUpdate == ASSUME MediaInv, NEW c \in MediaCalls, CacheUpdateUserQuota(c) PROVE MediaInv'
<1>1. PICK y : y = call[c] OBVIOUS
<1>2. MediaCallType(y) /\ MediaCallBooks(y) BY <1>1, MediaOf
<1>3. /\ y.pc = "put" /\ call' = [call EXCEPT ![c] = Ends(call[c], y.outcome)]
      /\ cached' = [there |-> TRUE, quota |-> y.seen] /\ UNCHANGED <<mode, purse, batch, lost, extra>>
  BY <1>1 DEF CacheUpdateUserQuota, RedisSet, Moves
<1>4. y.outcome \in {"served", "undelivered"} /\ y.paid["user"] = Cost(y) /\ y.paid["token"] = Capped(Cost(y))
  BY <1>2, <1>3 DEF MediaCallBooks
<1>5. Cost(Ends(y, y.outcome)) = Cost(y) BY <1>2 DEF Cost, Ends, MediaCallType, CallFields
<1>6. MediaCache' BY <1>2, <1>3 DEF MediaCache, MediaCallType
<1>7. PICK how \in {"served", "undelivered"} : how = y.outcome BY <1>4
<1>8. QED BY <1>1, <1>3, <1>4, <1>5, <1>6, <1>7, MediaEnds

\* Nothing but the cache changes.
LEMMA MediaCacheOnly ==
  ASSUME MediaInv, UNCHANGED <<mode, purse, batch, call, lost, extra>>, MediaCache'
  PROVE  MediaInv'
<1>1. MediaTypes' /\ MediaCallsBooks' BY DEF MediaInv, MediaTypes, MediaExtra, MediaCallsBooks, MediaModal
<1>2. Pool("user")' = Pool("user") /\ Pool("token")' = Pool("token") BY DEF Pool, Taken
<1>3. Paid("user")' = Paid("user") /\ Paid("token")' = Paid("token") BY DEF Paid
<1>4. Overs' = Overs BY DEF Overs, MediaOver
<1>5. MediaPools' /\ MediaPromised' /\ MediaCovered'
  BY <1>2, <1>3, <1>4 DEF MediaInv, MediaPools, MediaPromised, MediaPromise, MediaCovered
<1>6. QED BY <1>1, <1>5 DEF MediaInv

LEMMA MediaDecides == ASSUME MediaInv, NEW c \in MediaCalls, Decide(c) PROVE MediaInv'
<1>1. PICK y : y = call[c] OBVIOUS
<1>2. MediaCallType(y) /\ MediaCallBooks(y) /\ MediaModal(y) /\ (~extra.short => MediaPromise(y)) BY <1>1, MediaOf
<1>3. y.pc = "decide" /\ UNCHANGED <<mode, purse, batch, cached, lost, extra>> BY <1>1 DEF Decide
<1>4. MediaCache' BY <1>3 DEF MediaInv, MediaCache
<1>5. MediaUnpaid(y) BY <1>2, <1>3 DEF MediaCallBooks
<1>6. CASE ~Affordable(y)
  <2>1. call' = [call EXCEPT ![c] = Ends(call[c], "refused")] BY <1>1, <1>6 DEF Decide, Moves
  <2>2. Cost(Ends(y, "refused")) = 0 BY <1>2 DEF Cost, Ends, MediaCallType, CallFields
  <2>3. Capped(0) = 0 BY DEF Capped
  <2>4. QED BY <1>1, <1>3, <1>4, <1>5, <2>1, <2>2, <2>3, MediaEnds DEF MediaUnpaid
<1>7. CASE Affordable(y) /\ y.kind = "image"
  <2> DEFINE k == [y EXCEPT !.pc = "upstream", !.seen = 0]
  <2>1. call' = [call EXCEPT ![c] = k] BY <1>1, <1>7 DEF Decide, Moves
  <2>2. y.price <= y.seen BY <1>2, <1>7 DEF Affordable, MediaCallType
  <2>3. /\ DOMAIN k = CallFields /\ k.pc = "upstream" /\ k.seen = 0 /\ k.misled = y.misled /\ k.kind = y.kind
        /\ k.price = y.price /\ k.reserved = y.reserved /\ k.estimate = y.estimate /\ k.outcome = y.outcome
        /\ k.paid = y.paid /\ k.hurt = y.hurt
    BY <1>2 DEF MediaCallType, CallFields
  <2> HIDE DEF k
  <2>4. Capped(0) = 0 BY DEF Capped
  <2>5. MediaCallType(k)
    <3>1. k.pc \in MediaPcs /\ k.seen \in Int BY <2>3 DEF MediaPcs
    <3>2. QED BY <1>2, <2>3, <3>1 DEF MediaCallType
  <2>6. MediaCallBooks(k) /\ MediaModal(k)
    BY <1>2, <1>3, <1>5, <1>7, <2>3, <2>4 DEF MediaCallBooks, MediaModal, MediaUnpaid
  <2>7. MediaOver(k) >= MediaOver(y) BY <1>2, <2>3, <2>5, MediaOverGrows DEF MediaExempt
  <2>8. extra.short \/ MediaPromise(k)
    <3>1. Need(k) = y.price /\ Need(y) = y.seen BY <1>3, <1>7, <2>3 DEF Need
    <3>2. Pool("user") \in Int BY MediaPoolType DEF MediaInv
    <3>3. QED BY <1>2, <2>2, <2>3, <3>1, <3>2 DEF MediaPromise, MediaExempt, MediaCallType
  <2>9. \A l \in Ledgers : k.paid[l] = call[c].paid[l] BY <1>1, <2>3
  <2>10. QED BY <1>1, <1>3, <1>4, <2>1, <2>5, <2>6, <2>7, <2>8, <2>9, MediaMove
<1>8. CASE Affordable(y) /\ y.kind # "image"
  <2> DEFINE pc == IF mode.redis THEN "shrink" ELSE "trust"
             k == [y EXCEPT !.pc = pc]
  <2>1. call' = [call EXCEPT ![c] = k] BY <1>1, <1>8 DEF Decide, Moves
  <2>2. y.estimate <= y.seen BY <1>2, <1>8 DEF Affordable, MediaCallType
  <2>0. pc \in {"shrink", "trust"} OBVIOUS
  <2> HIDE DEF pc
  <2>3. /\ DOMAIN k = CallFields /\ k.pc = pc /\ k.seen = y.seen /\ k.misled = y.misled /\ k.kind = y.kind
        /\ k.price = y.price /\ k.reserved = y.reserved /\ k.estimate = y.estimate /\ k.outcome = y.outcome
        /\ k.paid = y.paid /\ k.hurt = y.hurt
    BY <1>2 DEF MediaCallType, CallFields
  <2> HIDE DEF k
  <2>5. MediaCallType(k) BY <1>2, <2>0, <2>3 DEF MediaCallType, MediaPcs
  <2>6. MediaCallBooks(k) /\ MediaModal(k)
    BY <1>2, <1>3, <1>5, <1>8, <2>0, <2>3 DEF MediaCallBooks, MediaModal, MediaUnpaid
  <2>7. MediaOver(k) >= MediaOver(y) BY <1>2, <2>3, <2>5, MediaOverGrows DEF MediaExempt
  <2>8. extra.short \/ MediaPromise(k)
    <3>1. Need(k) = y.estimate /\ Need(y) = y.seen BY <1>3, <2>0, <2>3 DEF Need
    <3>2. Pool("user") \in Int BY MediaPoolType DEF MediaInv
    <3>3. QED BY <1>2, <2>2, <2>3, <3>1, <3>2 DEF MediaPromise, MediaExempt, MediaCallType
  <2>9. \A l \in Ledgers : k.paid[l] = call[c].paid[l] BY <1>1, <2>3
  <2>10. QED BY <1>1, <1>3, <1>4, <2>1, <2>5, <2>6, <2>7, <2>8, <2>9, MediaMove
<1>9. QED BY <1>6, <1>7, <1>8

LEMMA MediaCacheDecrease == ASSUME MediaInv, NEW c \in MediaCalls, CacheDecreaseUserQuota(c) PROVE MediaInv'
<1>1. PICK y : y = call[c] OBVIOUS
<1>2. MediaCallType(y) /\ MediaCallBooks(y) /\ MediaModal(y) /\ (~extra.short => MediaPromise(y)) BY <1>1, MediaOf
<1> DEFINE k == [y EXCEPT !.pc = "trust"]
<1>3. /\ y.pc = "shrink" /\ call' = [call EXCEPT ![c] = k] /\ cached' = [there |-> TRUE, quota |-> cached.quota - y.estimate]
      /\ UNCHANGED <<mode, purse, batch, lost, extra>>
  BY <1>1 DEF CacheDecreaseUserQuota, Moves
<1>4. MediaCache' BY <1>2, <1>3 DEF MediaInv, MediaCache, MediaCallType
<1>5. /\ DOMAIN k = CallFields /\ k.pc = "trust" /\ k.seen = y.seen /\ k.misled = y.misled /\ k.kind = y.kind
      /\ k.price = y.price /\ k.reserved = y.reserved /\ k.estimate = y.estimate /\ k.outcome = y.outcome
      /\ k.paid = y.paid /\ k.hurt = y.hurt
  BY <1>2 DEF MediaCallType, CallFields
<1> HIDE DEF k
<1>6. MediaCallType(k) BY <1>2, <1>5 DEF MediaCallType, MediaPcs
<1>7. MediaCallBooks(k) /\ MediaModal(k) BY <1>2, <1>3, <1>5 DEF MediaCallBooks, MediaModal, MediaUnpaid
<1>8. MediaOver(k) >= MediaOver(y) BY <1>2, <1>5, <1>6, MediaOverGrows DEF MediaExempt
<1>9. extra.short \/ MediaPromise(k)
  <2>1. Need(k) = Need(y) BY <1>3, <1>5 DEF Need
  <2>2. QED BY <1>2, <1>5, <2>1 DEF MediaPromise, MediaExempt
<1>10. \A l \in Ledgers : k.paid[l] = call[c].paid[l] BY <1>1, <1>5
<1>11. QED BY <1>1, <1>3, <1>4, <1>6, <1>7, <1>8, <1>9, <1>10, MediaMove

\* The reservation: trusted, made by the batched path or made at once.
LEMMA MediaTrusts ==
  ASSUME MediaInv, NEW c \in MediaCalls, PreConsumeTokenQuota(c), call[c].pc = "trust"
  PROVE  MediaInv'
<1>1. PICK y : y = call[c] OBVIOUS
<1>2. MediaCallType(y) /\ MediaCallBooks(y) /\ MediaModal(y) /\ (~extra.short => MediaPromise(y)) BY <1>1, MediaOf
<1> DEFINE pc == IF y.seen > TrustFactor * y.estimate \/ y.estimate = 0 THEN "upstream"
                 ELSE IF mode.batch THEN "legacy"
                 ELSE IF UnlimitedQuota THEN "reserveUser" ELSE "reserveToken"
           k == [y EXCEPT !.seen = 0, !.pc = pc]
<1>3. y.pc = "trust" /\ call' = [call EXCEPT ![c] = k] /\ UNCHANGED <<mode, purse, batch, cached, lost, extra>>
  BY <1>1 DEF PreConsumeTokenQuota, Moves
<1>4. MediaCache' BY <1>3 DEF MediaInv, MediaCache
<1>5. \/ pc = "upstream"
      \/ pc = "legacy" /\ mode.batch
      \/ pc = "reserveToken" /\ ~UnlimitedQuota /\ ~mode.batch
      \/ pc = "reserveUser" /\ UnlimitedQuota /\ ~mode.batch
  <2>1. CASE y.seen > TrustFactor * y.estimate \/ y.estimate = 0
    <3>1. pc \in {"upstream", "legacy"} /\ (pc = "legacy" => mode.batch) BY <2>1
    <3>2. QED BY <3>1
  <2>2. CASE ~(y.seen > TrustFactor * y.estimate \/ y.estimate = 0) /\ mode.batch
    <3>1. pc = "legacy" BY <2>2
    <3>2. QED BY <2>2, <3>1
  <2>3. CASE ~(y.seen > TrustFactor * y.estimate \/ y.estimate = 0) /\ ~mode.batch
    <3>1. pc = IF UnlimitedQuota THEN "reserveUser" ELSE "reserveToken" BY <2>3
    <3>2. QED BY <2>3, <3>1
  <2>4. QED BY <2>1, <2>2, <2>3
<1> HIDE DEF pc
<1>6. MediaUnpaid(y) BY <1>2, <1>3 DEF MediaCallBooks
<1>7. /\ DOMAIN k = CallFields /\ k.pc = pc /\ k.seen = 0 /\ k.misled = y.misled /\ k.kind = y.kind
      /\ k.price = y.price /\ k.reserved = y.reserved /\ k.estimate = y.estimate /\ k.outcome = y.outcome
      /\ k.paid = y.paid /\ k.hurt = y.hurt
  BY <1>2 DEF MediaCallType, CallFields
<1> HIDE DEF k
<1>8. MediaCallType(k)
  <2>1. k.pc \in MediaPcs /\ k.seen \in Int BY <1>5, <1>7 DEF MediaPcs
  <2>2. QED BY <1>2, <1>7, <2>1 DEF MediaCallType
<1>9. Capped(0) = 0 BY DEF Capped
<1>10. UnlimitedQuota => Capped(y.estimate) = 0 BY DEF Capped
<1>11. MediaCallBooks(k) /\ MediaModal(k)
  BY <1>2, <1>3, <1>5, <1>6, <1>7, <1>9, <1>10 DEF MediaCallBooks, MediaModal, MediaUnpaid
<1>12. MediaOver(k) >= MediaOver(y) BY <1>2, <1>7, <1>8, MediaOverGrows DEF MediaExempt
<1>13. extra.short \/ MediaPromise(k)
  <2>1. Need(y) = y.estimate BY <1>3 DEF Need
  <2>2. CASE pc = "upstream"
    <3>1. y.kind \in {"speech", "transcription"} /\ (y.kind = "speech" => y.price = y.estimate)
      BY <1>2, <1>3 DEF MediaCallBooks
    <3>2. y.kind = "speech" => Need(k) = y.price - 0
      BY <2>2, <1>6, <1>7 DEF Need, MediaUnpaid
    <3>3. y.kind = "speech" => Need(k) = Need(y) BY <2>1, <3>1, <3>2, <1>2 DEF MediaCallType
    <3>4. QED BY <3>1, <3>3, <1>2, <1>7 DEF MediaPromise, MediaExempt
  <2>3. CASE pc = "legacy"
    <3>1. Need(k) = Need(y) BY <2>1, <2>3, <1>7 DEF Need
    <3>2. QED BY <3>1, <1>2, <1>7 DEF MediaPromise, MediaExempt
  <2>4. CASE pc \in {"reserveToken", "reserveUser"}
    <3>1. Need(k) = 0 BY <2>4, <1>7 DEF Need
    <3>2. QED BY <3>1 DEF MediaPromise
  <2>5. QED BY <2>2, <2>3, <2>4, <1>5
<1>14. \A l \in Ledgers : k.paid[l] = call[c].paid[l] BY <1>1, <1>7
<1>15. QED BY <1>1, <1>3, <1>4, <1>8, <1>11, <1>12, <1>13, <1>14, MediaMove

LEMMA MediaReservesToken ==
  ASSUME MediaInv, NEW c \in MediaCalls, PreConsumeTokenQuota(c), call[c].pc = "reserveToken"
  PROVE  MediaInv'
<1>1. PICK y : y = call[c] OBVIOUS
<1>2. MediaCallType(y) /\ MediaCallBooks(y) /\ MediaModal(y) BY <1>1, MediaOf
<1>3. y.pc = "reserveToken" /\ UNCHANGED <<mode, cached, lost, extra>> BY <1>1 DEF PreConsumeTokenQuota
<1>4. MediaUnpaid(y) /\ ~UnlimitedQuota /\ ~mode.batch BY <1>2, <1>3 DEF MediaCallBooks, MediaModal
<1>5. CASE purse["token"] >= y.estimate
  <2> DEFINE d == -y.estimate
             z == [y EXCEPT !.pc = "reserveUser"]
             k == [z EXCEPT !.paid["token"] = @ - d]
  <2>1. Write("token", d) /\ call' = Misleads(c, 0, [call EXCEPT ![c] = k])
    BY <1>1, <1>3, <1>5 DEF PreConsumeTokenQuota, Pay
  <2>2. d \in Int /\ y.paid["token"] - d = y.estimate BY <1>2, <1>4 DEF MediaCallType, MediaUnpaid
  <2>3. /\ DOMAIN k = CallFields /\ k.pc = "reserveUser" /\ k.seen = y.seen /\ k.misled = y.misled /\ k.kind = y.kind
        /\ k.price = y.price /\ k.reserved = y.reserved /\ k.estimate = y.estimate /\ k.outcome = y.outcome
        /\ k.hurt = y.hurt /\ DOMAIN k.paid = Ledgers /\ k.paid["user"] = y.paid["user"]
        /\ k.paid["token"] = y.paid["token"] - d
    BY <1>2 DEF MediaCallType, CallFields, Ledgers
  <2> HIDE DEF k, d, z
  <2>4. MediaCallType(k)
    <3>1. k.pc \in MediaPcs BY <2>3 DEF MediaPcs
    <3>2. \A l \in Ledgers : k.paid[l] \in Int BY <1>2, <2>2, <2>3 DEF Ledgers, MediaCallType
    <3>3. QED BY <1>2, <2>3, <3>1, <3>2 DEF MediaCallType
  <2>5. Capped(y.estimate) = y.estimate BY <1>4 DEF Capped
  <2>6. MediaCallBooks(k) /\ MediaModal(k)
    BY <1>2, <1>3, <1>4, <2>2, <2>3, <2>5 DEF MediaCallBooks, MediaModal, MediaUnpaid
  <2>7. MediaOver(k) >= MediaOver(y) BY <1>2, <2>3, <2>4, MediaOverGrows DEF MediaExempt
  <2>8. Need(k) <= 0
    <3>1. Need(k) = 0 BY <2>3 DEF Need
    <3>2. QED BY <3>1
  <2>12. "token" \in Ledgers BY DEF Ledgers
  <2>9. /\ k.paid["token"] = call[c].paid["token"] - d
        /\ \A m \in Ledgers \ {"token"} : k.paid[m] = call[c].paid[m]
    BY <1>1, <2>3 DEF Ledgers
  <2>10. call' = Misleads(c, IF "token" = "user" THEN d ELSE 0, [call EXCEPT ![c] = k]) BY <2>1
  <2>13. MediaOver(k) >= MediaOver(call[c]) BY <1>1, <2>7
  <2>11. QED BY <1>3, <2>1, <2>2, <2>4, <2>6, <2>8, <2>9, <2>10, <2>12, <2>13, MediaPays
<1>6. CASE ~(purse["token"] >= y.estimate)
  <2>1. call' = [call EXCEPT ![c] = Ends(call[c], "refused")] /\ UNCHANGED <<purse, batch>>
    BY <1>1, <1>3, <1>6 DEF PreConsumeTokenQuota, Moves
  <2>2. Cost(Ends(y, "refused")) = 0 BY <1>2 DEF Cost, Ends, MediaCallType, CallFields
  <2>3. Capped(0) = 0 BY DEF Capped
  <2>4. MediaCache' BY <1>3 DEF MediaInv, MediaCache
  <2>5. QED BY <1>1, <1>3, <1>4, <2>1, <2>2, <2>3, <2>4, MediaEnds DEF MediaUnpaid
<1>7. QED BY <1>5, <1>6

LEMMA MediaReservesUser ==
  ASSUME MediaInv, NEW c \in MediaCalls, PreConsumeTokenQuota(c), call[c].pc = "reserveUser"
  PROVE  MediaInv'
<1>1. PICK y : y = call[c] OBVIOUS
<1>2. MediaCallType(y) /\ MediaCallBooks(y) /\ MediaModal(y) BY <1>1, MediaOf
<1>3. y.pc = "reserveUser" /\ UNCHANGED <<mode, cached, lost, extra>> BY <1>1 DEF PreConsumeTokenQuota
<1>4. /\ ~mode.batch /\ y.reserved = 0 /\ y.outcome = "none" /\ y.paid["user"] = 0 /\ y.paid["token"] = Capped(y.estimate)
  BY <1>2, <1>3 DEF MediaCallBooks, MediaModal
<1>5. CASE purse["user"] >= y.estimate
  <2> DEFINE d == -y.estimate
             z == [y EXCEPT !.pc = "upstream", !.reserved = y.estimate]
             k == [z EXCEPT !.paid["user"] = @ - d]
  <2>1. Write("user", d) /\ call' = Misleads(c, d, [call EXCEPT ![c] = k])
    BY <1>1, <1>3, <1>5 DEF PreConsumeTokenQuota, Pay
  <2>2. d \in Int /\ y.paid["user"] - d = y.estimate /\ purse["user"] + d >= 0
    BY <1>2, <1>4, <1>5 DEF MediaCallType, MediaInv, MediaTypes, Ledgers
  <2>3. /\ DOMAIN k = CallFields /\ k.pc = "upstream" /\ k.seen = y.seen /\ k.misled = y.misled /\ k.kind = y.kind
        /\ k.price = y.price /\ k.reserved = y.estimate /\ k.estimate = y.estimate /\ k.outcome = y.outcome
        /\ k.hurt = y.hurt /\ DOMAIN k.paid = Ledgers /\ k.paid["user"] = y.paid["user"] - d
        /\ k.paid["token"] = y.paid["token"]
    BY <1>2 DEF MediaCallType, CallFields, Ledgers
  <2> HIDE DEF k, d, z
  <2>4. MediaCallType(k)
    <3>1. k.pc \in MediaPcs BY <2>3 DEF MediaPcs
    <3>2. \A l \in Ledgers : k.paid[l] \in Int BY <1>2, <2>2, <2>3 DEF Ledgers, MediaCallType
    <3>3. QED BY <1>2, <2>3, <3>1, <3>2 DEF MediaCallType
  <2>6. MediaCallBooks(k) /\ MediaModal(k)
    BY <1>2, <1>3, <1>4, <2>2, <2>3 DEF MediaCallBooks, MediaModal
  <2>7. Pool("user") + d >= 0
    <3>1. Taken("user") = 0 /\ batch.store["user"] = 0 /\ purse["user"] \in Int
      BY <1>4 DEF Taken, MediaInv, MediaTypes, Ledgers
    <3>2. Pool("user") = purse["user"] BY <3>1 DEF Pool
    <3>3. QED BY <2>2, <3>2
  <2>8. MediaExempt(k) \/ Need(k) <= 0
    <3>1. y.kind \in {"speech", "transcription"} /\ (y.kind = "speech" => y.estimate = y.price)
      BY <1>2, <1>3 DEF MediaCallBooks
    <3>2. y.kind = "speech" => Need(k) = y.price - y.estimate BY <2>3 DEF Need
    <3>3. QED BY <1>2, <2>3, <3>1, <3>2 DEF MediaExempt, MediaCallType
  <2>9. /\ k.paid["user"] = call[c].paid["user"] - d
        /\ \A m \in Ledgers \ {"user"} : k.paid[m] = call[c].paid[m]
    BY <1>1, <2>3 DEF Ledgers
  <2>10. call' = Misleads(c, IF "user" = "user" THEN d ELSE 0, [call EXCEPT ![c] = k]) BY <2>1
  <2>11. QED BY <1>1, <1>3, <2>1, <2>2, <2>4, <2>6, <2>7, <2>8, <2>9, <2>10, MediaPays DEF Ledgers
<1>6. CASE ~(purse["user"] >= y.estimate) /\ UnlimitedQuota
  <2>1. call' = [call EXCEPT ![c] = Ends(call[c], "refused")] /\ UNCHANGED <<purse, batch>>
    BY <1>1, <1>3, <1>6 DEF PreConsumeTokenQuota, Moves
  <2>2. Cost(Ends(y, "refused")) = 0 BY <1>2 DEF Cost, Ends, MediaCallType, CallFields
  <2>3. Capped(0) = 0 /\ Capped(y.estimate) = 0 BY <1>6 DEF Capped
  <2>4. MediaCache' BY <1>3 DEF MediaInv, MediaCache
  <2>5. QED BY <1>1, <1>3, <1>4, <2>1, <2>2, <2>3, <2>4, MediaEnds
<1>7. CASE ~(purse["user"] >= y.estimate) /\ ~UnlimitedQuota
  <2> DEFINE repays == <<Stmt2("token", y.estimate)>>
             k == [y EXCEPT !.pc = "post", !.outcome = "refused", !.todo = repays]
  <2>1. call' = [call EXCEPT ![c] = k] /\ UNCHANGED <<purse, batch>>
    BY <1>1, <1>3, <1>7 DEF PreConsumeTokenQuota, Moves
  <2>2. repays[1] = Stmt2("token", y.estimate) BY MediaTodo
  <2> HIDE DEF repays
  <2>3. /\ DOMAIN k = CallFields /\ k.pc = "post" /\ k.seen = y.seen /\ k.misled = y.misled /\ k.kind = y.kind
        /\ k.price = y.price /\ k.reserved = y.reserved /\ k.estimate = y.estimate /\ k.outcome = "refused"
        /\ k.hurt = y.hurt /\ k.paid = y.paid /\ k.todo = repays
    BY <1>2 DEF MediaCallType, CallFields
  <2> HIDE DEF k
  <2>4. MediaCallType(k)
    <3>1. k.pc \in MediaPcs BY <2>3 DEF MediaPcs
    <3>2. k.outcome \in {"none", "served", "failed", "undelivered", "refused", "reserving"} BY <2>3
    <3>3. QED BY <1>2, <2>3, <3>1, <3>2 DEF MediaCallType
  <2>5. MediaPosting(k)
    <3>1. k.todo[1].delta = y.estimate /\ -(-y.estimate) = y.estimate BY <1>2, <2>2, <2>3 DEF Stmt2, MediaCallType
    <3>2. Target(k) = 0 BY <2>3 DEF Target
    <3>3. y.paid["token"] = y.estimate BY <1>4, <1>7 DEF Capped
    <3>4. y.estimate + (-y.estimate) = 0 /\ -y.estimate \in Int BY <1>2 DEF MediaCallType
    <3>5. QED BY <1>4, <1>7, <2>3, <3>1, <3>2, <3>3, <3>4 DEF MediaPosting, repays
  <2>6. MediaCallBooks(k) /\ MediaModal(k)
    BY <1>2, <1>3, <1>4, <2>3, <2>5 DEF MediaCallBooks, MediaModal
  <2>7. MediaOver(k) >= MediaOver(y) BY <1>2, <2>3, <2>4, MediaOverGrows DEF MediaExempt
  <2>8. Need(k) = 0 BY <2>2, <2>3 DEF Need, Stmt2
  <2>9. \A l \in Ledgers : k.paid[l] = call[c].paid[l] BY <1>1, <2>3
  <2>10. MediaPromise(k) /\ MediaCache' BY <1>3, <2>8 DEF MediaPromise, MediaInv, MediaCache
  <2>11. QED BY <1>1, <1>3, <2>1, <2>4, <2>6, <2>7, <2>9, <2>10, MediaMove
<1>8. QED BY <1>5, <1>6, <1>7

\* A call that begins to post, with nothing paid beyond its reservation.
LEMMA MediaBeginsToPost ==
  ASSUME MediaInv, NEW c \in MediaCalls, NEW k, NEW x \in Int, call[c].pc \in {"upstream", "legacy"},
         call' = [call EXCEPT ![c] = k], UNCHANGED <<mode, purse, batch, cached, lost, extra>>,
         DOMAIN k = CallFields, k.pc = "post", k.todo = PostConsumeTokenQuota(x), k.seen = call[c].seen,
         k.misled \in BOOLEAN, call[c].misled => k.misled, k.kind = call[c].kind, k.price = call[c].price,
         k.estimate = call[c].estimate, k.paid = call[c].paid, k.hurt = call[c].hurt,
         \/ /\ k.outcome = "reserving" /\ k.reserved = k.estimate /\ call[c].pc = "legacy" /\ x = k.estimate
            /\ k.misled \/ (purse["user"] >= x /\ purse["user"] = Pool("user"))
         \/ /\ k.outcome \in {"served", "undelivered", "failed"} /\ call[c].pc = "upstream" /\ k.reserved = call[c].reserved
            /\ x = Target(k) - k.reserved
  PROVE  MediaInv'
<1>1. PICK y : y = call[c] OBVIOUS
<1>2. MediaCallType(y) /\ MediaCallBooks(y) /\ MediaModal(y) /\ (~extra.short => MediaPromise(y)) BY <1>1, MediaOf
<1>3. k.reserved \in Nat /\ y.price \in Int /\ y.estimate \in Nat /\ Target(k) \in Int
  <2>1. k.reserved \in Nat /\ y.price \in Int /\ y.estimate \in Nat BY <1>1, <1>2 DEF MediaCallType
  <2>2. Target(k) \in {k.price, k.reserved, 0} BY DEF Target
  <2>3. QED BY <1>1, <2>1, <2>2
<1>4. MediaCallType(k)
  <2>1. k.pc \in MediaPcs BY DEF MediaPcs
  <2>2. k.outcome \in {"none", "served", "failed", "undelivered", "refused", "reserving"} OBVIOUS
  <2>3. k.seen \in Int /\ k.kind = y.kind /\ k.price = y.price /\ k.estimate = y.estimate /\ k.paid = y.paid /\ k.hurt = y.hurt
    BY <1>1, <1>2 DEF MediaCallType
  <2>4. QED BY <1>2, <1>3, <2>1, <2>2, <2>3 DEF MediaCallType
<1>5. k.todo[1].delta = -x /\ k.todo[1].ledger = "user" /\ -(-x) = x
  <2>1. k.todo[1] = Stmt2("user", -x) BY MediaTodo
  <2>2. QED BY <2>1 DEF Stmt2
<1>6. /\ k.paid["user"] = (IF k.outcome = "reserving" THEN 0 ELSE k.reserved)
      /\ k.paid["user"] + x = Target(k) /\ k.paid["token"] + Capped(x) = Capped(Target(k))
  <2>1. CASE k.outcome = "reserving"
    <3>1. y.paid["user"] = 0 /\ y.paid["token"] = 0 BY <1>1, <1>2, <2>1 DEF MediaCallBooks, MediaUnpaid
    <3>2. Target(k) = k.reserved /\ x = k.reserved BY <2>1 DEF Target
    <3>3. Capped(x) \in Int BY DEF Capped
    <3>4. QED BY <1>1, <1>3, <2>1, <3>1, <3>2, <3>3
  <2>2. CASE k.outcome # "reserving"
    <3>1. y.paid["user"] = k.reserved /\ y.paid["token"] = Capped(k.reserved) BY <1>1, <1>2, <2>2 DEF MediaCallBooks
    <3>2. x = Target(k) - k.reserved BY <2>2
    <3>3. Capped(k.reserved) + Capped(x) = Capped(Target(k)) BY <3>2, <1>3 DEF Capped
    <3>4. QED BY <1>1, <1>3, <2>2, <3>1, <3>2, <3>3
  <2>3. QED BY <2>1, <2>2
<1>7. MediaPosting(k) BY <1>5, <1>6 DEF MediaPosting
<1>8. MediaCallBooks(k) /\ MediaModal(k)
  <2>1. y.kind \in {"image", "speech", "transcription"} BY <1>1, <1>2 DEF MediaCallBooks
  <2>2. k.outcome # "none" OBVIOUS
  <2>3. k.outcome = "reserving" => k.kind # "image" /\ k.reserved = k.estimate /\ mode.batch
    BY <1>1, <1>2 DEF MediaCallBooks, MediaModal
  <2>4. k.reserved \in {0, k.estimate} BY <1>1, <1>2 DEF MediaCallBooks
  <2>5. k.paid["user"] \in {0, k.reserved, k.price} BY <1>6
  <2>6. (k.kind = "speech" => k.estimate = k.price) /\ (k.kind = "image" => k.estimate = 0)
    BY <1>1, <1>2 DEF MediaCallBooks
  <2>7. k.kind \in {"image", "speech", "transcription"} BY <1>1, <2>1
  <2>8. QED BY <1>7, <2>2, <2>3, <2>4, <2>5, <2>6, <2>7 DEF MediaCallBooks, MediaModal
<1>9. MediaOver(k) >= MediaOver(y)
  <2>0. MediaExempt(y) => MediaExempt(k) BY <1>1, <1>2, <1>4 DEF MediaExempt, MediaCallType
  <2>1. CASE k.outcome = "reserving"
    <3>1. MediaUnpaid(y) BY <1>1, <1>2, <2>1 DEF MediaCallBooks
    <3>2. MediaOver(y) = 0 BY <3>1, MediaOverUnpaid
    <3>3. MediaOver(k) \in Nat BY <1>4, MediaOverNat
    <3>4. QED BY <3>2, <3>3
  <2>2. CASE k.outcome # "reserving"
    <3>1. k.reserved = y.reserved /\ k.paid["user"] = y.paid["user"] BY <1>1, <2>2
    <3>2. QED BY <1>2, <1>4, <2>0, <3>1, MediaOverGrows
  <2>3. QED BY <2>1, <2>2
<1>10. extra.short \/ MediaPromise(k)
  <2>1. Need(k) = x BY <1>5 DEF Need
  <2>2. Pool("user") \in Int BY MediaPoolType DEF MediaInv
  <2>3. CASE k.outcome = "reserving"
    <3>1. k.misled \/ x <= Pool("user") BY <2>2, <2>3
    <3>2. QED BY <2>1, <3>1 DEF MediaPromise, MediaExempt
  <2>4. CASE k.outcome = "failed"
    <3>1. x <= 0 BY <1>3, <2>4 DEF Target
    <3>2. QED BY <2>1, <3>1 DEF MediaPromise
  <2>5. CASE k.outcome \in {"served", "undelivered"}
    <3>1. x = k.price - k.reserved BY <2>5 DEF Target
    <3>2. y.pc = "upstream" /\ k.reserved = y.reserved BY <1>1, <2>5
    <3>3. y.kind \in {"image", "speech", "transcription"} BY <1>2, <3>2 DEF MediaCallBooks
    <3>4. y.kind = "speech" => Need(y) = x BY <1>1, <3>1, <3>2 DEF Need
    <3>5. y.kind = "image" => y.reserved = 0 BY <1>2 DEF MediaCallBooks
    <3>6. y.kind = "image" => Need(y) = y.price BY <3>2 DEF Need
    <3>7. y.kind = "image" => Need(y) = x BY <1>1, <1>3, <3>1, <3>2, <3>5, <3>6
    <3>8. y.kind = "transcription" => MediaExempt(k) BY <1>1 DEF MediaExempt
    <3>9. MediaExempt(y) => MediaExempt(k) BY <1>1, <1>2, <1>4 DEF MediaExempt, MediaCallType
    <3>10. QED BY <1>2, <2>1, <3>3, <3>4, <3>7, <3>8, <3>9 DEF MediaPromise
  <2>6. QED BY <2>3, <2>4, <2>5
<1>11. MediaCache' BY DEF MediaInv, MediaCache
<1>12. \A l \in Ledgers : k.paid[l] = call[c].paid[l] OBVIOUS
<1>13. QED BY <1>1, <1>4, <1>8, <1>9, <1>10, <1>11, <1>12, MediaMove

LEMMA MediaLegacy == ASSUME MediaInv, NEW c \in MediaCalls, preConsumeTokenQuotaLegacy(c) PROVE MediaInv'
<1>1. PICK y : y = call[c] OBVIOUS
<1>2. MediaCallType(y) /\ MediaCallBooks(y) BY <1>1, MediaOf
<1>3. y.pc = "legacy" /\ UNCHANGED <<mode, purse, batch, cached, lost, extra>> BY <1>1 DEF preConsumeTokenQuotaLegacy
<1>4. MediaUnpaid(y) BY <1>2, <1>3 DEF MediaCallBooks
<1>5. CASE purse["user"] < y.estimate \/ (~UnlimitedQuota /\ purse["token"] < y.estimate)
  <2>1. call' = [call EXCEPT ![c] = Ends(call[c], "refused")]
    BY <1>1, <1>5 DEF preConsumeTokenQuotaLegacy, Moves
  <2>2. Cost(Ends(y, "refused")) = 0 BY <1>2 DEF Cost, Ends, MediaCallType, CallFields
  <2>3. Capped(0) = 0 BY DEF Capped
  <2>4. MediaCache' BY <1>3 DEF MediaInv, MediaCache
  <2>5. QED BY <1>1, <1>3, <1>4, <2>1, <2>2, <2>3, <2>4, MediaEnds DEF MediaUnpaid
<1>6. CASE ~(purse["user"] < y.estimate \/ (~UnlimitedQuota /\ purse["token"] < y.estimate))
  <2> DEFINE q == y.estimate
             repays == PostConsumeTokenQuota(q)
             misled == y.misled \/ purse["user"] # Pool("user")
             k == [y EXCEPT !.pc = "post", !.outcome = "reserving", !.reserved = q, !.todo = repays, !.misled = misled]
  <2>1. call' = [call EXCEPT ![c] = k] BY <1>1, <1>6 DEF preConsumeTokenQuotaLegacy, Moves
  <2>2. misled \in BOOLEAN /\ (y.misled => misled) /\ (misled \/ purse["user"] = Pool("user")) OBVIOUS
  <2>3. purse["user"] >= q /\ q \in Int BY <1>2, <1>6 DEF MediaInv, MediaTypes, Ledgers, MediaCallType
  <2> HIDE DEF repays, misled
  <2>4. /\ DOMAIN k = CallFields /\ k.pc = "post" /\ k.seen = y.seen /\ k.misled = misled /\ k.kind = y.kind
        /\ k.price = y.price /\ k.reserved = q /\ k.estimate = y.estimate /\ k.outcome = "reserving"
        /\ k.hurt = y.hurt /\ k.paid = y.paid /\ k.todo = repays
    BY <1>2 DEF MediaCallType, CallFields
  <2> HIDE DEF k
  <2>5. k.todo = PostConsumeTokenQuota(q) BY <2>4 DEF repays
  <2>6. QED BY <1>1, <1>3, <2>1, <2>2, <2>3, <2>4, <2>5, MediaBeginsToPost
<1>7. QED BY <1>5, <1>6

LEMMA MediaImageAnswered == ASSUME MediaInv, NEW c \in MediaCalls, ImageAnswered(c) PROVE MediaInv'
<1>1. PICK y : y = call[c] OBVIOUS
<1>2. MediaCallType(y) /\ MediaCallBooks(y) BY <1>1, MediaOf
<1>3. PICK how \in {"served", "failed", "undelivered"} :
        /\ y.kind = "image" /\ y.pc = "upstream" /\ UNCHANGED <<mode, purse, batch, cached, lost, extra>>
        /\ call' = [call EXCEPT ![c] = IF how = "failed" THEN Ends(y, how)
                      ELSE [y EXCEPT !.pc = "post", !.outcome = how, !.todo = PostConsumeTokenQuota(y.price)]]
  BY <1>1 DEF ImageAnswered, Moves
<1>4. y.reserved = 0 /\ y.paid["user"] = 0 /\ y.paid["token"] = Capped(0) BY <1>2, <1>3 DEF MediaCallBooks
<1>5. CASE how = "failed"
  <2>1. call' = [call EXCEPT ![c] = Ends(call[c], "failed")] BY <1>1, <1>3, <1>5
  <2>2. Cost(Ends(y, "failed")) = 0 BY <1>2 DEF Cost, Ends, MediaCallType, CallFields
  <2>3. MediaCache' BY <1>3 DEF MediaInv, MediaCache
  <2>4. QED BY <1>1, <1>3, <1>4, <2>1, <2>2, <2>3, MediaEnds
<1>6. CASE how # "failed"
  <2> DEFINE repays == PostConsumeTokenQuota(y.price)
             k == [y EXCEPT !.pc = "post", !.outcome = how, !.todo = repays]
  <2>1. call' = [call EXCEPT ![c] = k] BY <1>3, <1>6
  <2> HIDE DEF repays
  <2>4. /\ DOMAIN k = CallFields /\ k.pc = "post" /\ k.seen = y.seen /\ k.misled = y.misled /\ k.kind = y.kind
        /\ k.price = y.price /\ k.reserved = y.reserved /\ k.estimate = y.estimate /\ k.outcome = how
        /\ k.hurt = y.hurt /\ k.paid = y.paid /\ k.todo = repays
    BY <1>2 DEF MediaCallType, CallFields
  <2> HIDE DEF k
  <2>5. k.todo = PostConsumeTokenQuota(y.price) BY <2>4 DEF repays
  <2>6. y.price \in Int /\ y.misled \in BOOLEAN BY <1>2 DEF MediaCallType
  <2>7. Target(k) = y.price BY <1>6, <2>4 DEF Target
  <2>8. y.price = Target(k) - k.reserved BY <1>4, <2>4, <2>6, <2>7
  <2>9. QED BY <1>1, <1>3, <1>6, <2>1, <2>4, <2>5, <2>6, <2>8, MediaBeginsToPost
<1>7. QED BY <1>5, <1>6

LEMMA MediaAudioAnswered == ASSUME MediaInv, NEW c \in MediaCalls, AudioAnswered(c) PROVE MediaInv'
<1>1. PICK y : y = call[c] OBVIOUS
<1>2. MediaCallType(y) /\ MediaCallBooks(y) BY <1>1, MediaOf
<1>3. y.kind \in {"speech", "transcription"} /\ y.pc = "upstream" /\ UNCHANGED <<mode, purse, batch, cached, lost, extra>>
  BY <1>1 DEF AudioAnswered
<1>4. y.paid["user"] = y.reserved /\ y.paid["token"] = Capped(y.reserved) BY <1>2, <1>3 DEF MediaCallBooks
<1> DEFINE Posts(how, x) == [y EXCEPT !.pc = "post", !.outcome = how, !.todo = PostConsumeTokenQuota(x)]
<1>5. \/ call' = [call EXCEPT ![c] = Posts("served", y.price - y.reserved)]
      \/ y.reserved = 0 /\ call' = [call EXCEPT ![c] = Ends(y, "failed")]
      \/ call' = [call EXCEPT ![c] = Posts("failed", -y.reserved)]
  BY <1>1 DEF AudioAnswered, Moves
<1>6. CASE y.reserved = 0 /\ call' = [call EXCEPT ![c] = Ends(y, "failed")]
  <2>2. Cost(Ends(y, "failed")) = 0 BY <1>2 DEF Cost, Ends, MediaCallType, CallFields
  <2>3. MediaCache' BY <1>3 DEF MediaInv, MediaCache
  <2>4. /\ call' = [call EXCEPT ![c] = Ends(call[c], "failed")] /\ call[c].paid["user"] = 0
        /\ call[c].paid["token"] = Capped(0) /\ Cost(Ends(call[c], "failed")) = 0
    BY <1>1, <1>4, <1>6, <2>2
  <2>5. QED BY <1>3, <2>3, <2>4, MediaEnds
<1>7. ASSUME NEW how \in {"served", "failed"}, NEW x \in Int, call' = [call EXCEPT ![c] = Posts(how, x)],
             x = (IF how = "served" THEN y.price ELSE 0) - y.reserved
      PROVE  MediaInv'
  <2> DEFINE repays == PostConsumeTokenQuota(x)
             k == [y EXCEPT !.pc = "post", !.outcome = how, !.todo = repays]
  <2>1. call' = [call EXCEPT ![c] = k] BY <1>7
  <2> HIDE DEF repays
  <2>4. /\ DOMAIN k = CallFields /\ k.pc = "post" /\ k.seen = y.seen /\ k.misled = y.misled /\ k.kind = y.kind
        /\ k.price = y.price /\ k.reserved = y.reserved /\ k.estimate = y.estimate /\ k.outcome = how
        /\ k.hurt = y.hurt /\ k.paid = y.paid /\ k.todo = repays
    BY <1>2 DEF MediaCallType, CallFields
  <2> HIDE DEF k, Posts
  <2>5. k.todo = PostConsumeTokenQuota(x) BY <2>4 DEF repays
  <2>6. y.misled \in BOOLEAN BY <1>2 DEF MediaCallType
  <2>7. Target(k) = IF how = "served" THEN y.price ELSE 0 BY <2>4 DEF Target
  <2>8. x = Target(k) - k.reserved BY <1>7, <2>4, <2>7
  <2>9. QED BY <1>1, <1>3, <2>1, <2>4, <2>5, <2>6, <2>8, MediaBeginsToPost
<1>8. y.price \in Int /\ y.reserved \in Int BY <1>2 DEF MediaCallType
<1> HIDE DEF Posts
<1>9. CASE call' = [call EXCEPT ![c] = Posts("served", y.price - y.reserved)]
  <2>1. PICK x \in Int : x = y.price - y.reserved BY <1>8
  <2>2. "served" \in {"served", "failed"} /\ x = (IF "served" = "served" THEN y.price ELSE 0) - y.reserved BY <2>1
  <2>3. QED BY <1>7, <1>9, <2>1, <2>2
<1>10. CASE call' = [call EXCEPT ![c] = Posts("failed", -y.reserved)]
  <2>1. -y.reserved = 0 - y.reserved /\ -y.reserved \in Int BY <1>8
  <2>2. QED BY <1>7, <1>10, <2>1
<1>11. QED BY <1>5, <1>6, <1>9, <1>10

\* Where a call goes whose deduction is complete.
LEMMA MediaPosted ==
  ASSUME NEW y, NEW k, MediaCallType(y), MediaCallBooks(y), MediaModal(y), MediaCallType(k), y.pc = "post",
         k.pc = AfterPost(y), k.kind = y.kind, k.price = y.price, k.reserved = y.reserved, k.estimate = y.estimate,
         k.outcome = y.outcome, k.hurt = y.hurt, k.paid["user"] = Target(y), k.paid["token"] = Capped(Target(y))
  PROVE  MediaCallBooks(k) /\ MediaModal(k) /\ (MediaExempt(k) \/ Need(k) <= 0)
<1>1. k.pc \in {"upstream", "reget", "done"}
      /\ (k.pc = "upstream" <=> k.outcome = "reserving")
      /\ (k.pc = "reget" => k.outcome \in {"served", "undelivered"})
  BY DEF AfterPost
<1>2. /\ y.kind \in {"image", "speech", "transcription"} /\ y.reserved \in {0, y.estimate}
      /\ (y.kind = "speech" => y.estimate = y.price) /\ (y.kind = "image" => y.estimate = 0)
      /\ (y.outcome = "reserving" => y.kind # "image" /\ y.reserved = y.estimate)
  BY DEF MediaCallBooks
<1>3. k.outcome = "reserving" => Target(y) = k.reserved BY DEF Target
<1>4. k.outcome # "reserving" => Target(y) = Cost(k) BY DEF Target, Cost
<1>5. Target(y) \in {0, k.reserved, k.price} BY DEF Target
<1>6. MediaCallBooks(k)
  BY <1>1, <1>2, <1>3, <1>4, <1>5 DEF MediaCallBooks
<1>7. MediaModal(k) BY <1>1 DEF MediaModal
<1>8. MediaExempt(k) \/ Need(k) <= 0
  <2>1. CASE k.pc = "upstream" /\ k.kind = "speech"
    <3>1. Need(k) = k.price - k.reserved BY <2>1 DEF Need
    <3>2. k.price = k.reserved /\ k.price \in Int BY <1>1, <1>2, <2>1 DEF MediaCallType
    <3>3. QED BY <3>1, <3>2
  <2>2. CASE k.pc = "upstream" /\ k.kind = "transcription" BY <2>2 DEF MediaExempt
  <2>3. CASE k.pc # "upstream"
    <3>1. Need(k) = 0 BY <1>1, <2>3 DEF Need
    <3>2. QED BY <3>1
  <2>4. QED BY <1>1, <1>2, <2>1, <2>2, <2>3
<1>9. QED BY <1>6, <1>7, <1>8

LEMMA MediaPostsUser ==
  ASSUME MediaInv, NEW c \in MediaCalls, Post(c), NEW x \in Int, call[c].todo = PostConsumeTokenQuota(x),
         call[c].paid["user"] = (IF call[c].outcome = "reserving" THEN 0 ELSE call[c].reserved),
         call[c].paid["user"] + x = Target(call[c]),
         call[c].paid["token"] + Capped(x) = Capped(Target(call[c]))
  PROVE  MediaInv'
<1>1. PICK y : y = call[c] OBVIOUS
<1>2. MediaCallType(y) /\ MediaCallBooks(y) /\ MediaModal(y) /\ (~extra.short => MediaPromise(y)) BY <1>1, MediaOf
<1> DEFINE rest == Tail(y.todo)
           d == -x
           pc == IF rest = <<>> THEN AfterPost(y) ELSE y.pc
           z == [y EXCEPT !.todo = rest, !.pc = pc]
           k == [z EXCEPT !.paid["user"] = @ - d]
<1>3. Head(y.todo) = Stmt2("user", -x) BY <1>1, MediaTodo
<1>4. Head(y.todo).ledger = "user" /\ Head(y.todo).delta = -x BY <1>3 DEF Stmt2
<1>5. /\ y.pc = "post" /\ Write("user", d) /\ call' = Misleads(c, d, [call EXCEPT ![c] = k])
      /\ UNCHANGED <<mode, cached, lost, extra>>
  BY <1>1, <1>4 DEF Post, Pay
<1>6. d \in Int /\ d = -x OBVIOUS
<1>7. /\ UnlimitedQuota => rest = <<>> /\ pc = AfterPost(y)
      /\ ~UnlimitedQuota => rest = <<Stmt2("token", -x)>> /\ pc = "post"
  <2>1. CASE UnlimitedQuota BY <1>1, <2>1, MediaTodo
  <2>2. CASE ~UnlimitedQuota
    <3>1. rest = <<Stmt2("token", -x)>> /\ rest # <<>> BY <1>1, <2>2, MediaTodo
    <3>2. QED BY <2>2, <3>1, <1>5
  <2>3. QED BY <2>1, <2>2
<1>8. AfterPost(y) \in {"upstream", "reget", "done"} BY DEF AfterPost
<1> HIDE DEF rest, d, pc
<1>9. /\ DOMAIN k = CallFields /\ k.pc = pc /\ k.todo = rest /\ k.seen = y.seen /\ k.misled = y.misled /\ k.kind = y.kind
      /\ k.price = y.price /\ k.reserved = y.reserved /\ k.estimate = y.estimate /\ k.outcome = y.outcome
      /\ k.hurt = y.hurt /\ DOMAIN k.paid = Ledgers /\ k.paid["user"] = y.paid["user"] - d
      /\ k.paid["token"] = y.paid["token"]
  BY <1>2 DEF MediaCallType, CallFields, Ledgers
<1> HIDE DEF k, z
<1>10. y.paid["user"] \in Int /\ y.paid["token"] \in Int /\ y.reserved \in Nat BY <1>2 DEF MediaCallType, Ledgers
<1>11. k.paid["user"] = y.paid["user"] + x /\ k.paid["user"] = Target(y) BY <1>1, <1>6, <1>9, <1>10
<1>12. MediaCallType(k)
  <2>1. k.pc \in MediaPcs BY <1>7, <1>8, <1>9 DEF MediaPcs
  <2>2. \A l \in Ledgers : k.paid[l] \in Int BY <1>6, <1>9, <1>10 DEF Ledgers
  <2>3. QED BY <1>2, <1>9, <2>1, <2>2 DEF MediaCallType
<1>13. MediaCallBooks(k) /\ MediaModal(k) /\ (MediaExempt(k) \/ Need(k) <= 0)
  <2>1. CASE UnlimitedQuota
    <3>1. Capped(x) = 0 BY <2>1 DEF Capped
    <3>2. k.paid["token"] = Capped(Target(y)) BY <1>1, <1>9, <1>10, <3>1
    <3>3. QED BY <1>2, <1>5, <1>7, <1>9, <1>11, <1>12, <2>1, <3>2, MediaPosted
  <2>2. CASE ~UnlimitedQuota
    <3>1. k.todo[1] = Stmt2("token", -x) BY <1>7, <1>9, <2>2, MediaTodo
    <3>2. k.todo[1].ledger = "token" /\ k.todo[1].delta = -x /\ -(-x) = x BY <3>1 DEF Stmt2
    <3>3. Target(k) = Target(y) BY <1>9 DEF Target
    <3>4. k.paid["token"] + x = Target(k) BY <1>1, <1>9, <2>2, <3>3 DEF Capped
    <3>5. MediaPosting(k) BY <1>7, <1>9, <1>11, <2>2, <3>2, <3>3, <3>4 DEF MediaPosting
    <3>6. k.pc = "post" BY <1>7, <1>9, <2>2
    <3>7. Target(y) \in {0, k.reserved, k.price} BY <1>9 DEF Target
    <3>8. MediaCallBooks(k) BY <1>2, <1>5, <1>9, <1>11, <3>5, <3>6, <3>7 DEF MediaCallBooks
    <3>9. MediaModal(k) BY <1>2, <1>9, <3>6 DEF MediaModal
    <3>10. Need(k) = 0 BY <3>2, <3>6 DEF Need
    <3>11. QED BY <3>8, <3>9, <3>10
  <2>3. QED BY <2>1, <2>2
<1>14. y.todo[1].ledger = "user" /\ y.todo[1].delta = -x /\ -(-x) = x
  <2>1. y.todo[1] = Stmt2("user", -x) BY <1>1, MediaTodo
  <2>2. QED BY <2>1 DEF Stmt2
<1>15. Need(y) = x BY <1>5, <1>14 DEF Need
<1>16. Pool("user") \in Int BY MediaPoolType DEF MediaInv
<1>17. \/ extra.short
       \/ MediaOver(k) - MediaOver(y) >= -d
       \/ Pool("user") + d >= 0
  <2>1. CASE MediaExempt(y)
    <3> DEFINE a == y.paid["user"] - (IF mode.batch THEN 0 ELSE y.reserved)
    <3>1. MediaOver(y) = AtLeast0(a) BY <2>1 DEF MediaOver
    <3>2. MediaExempt(k) BY <2>1, <1>9 DEF MediaExempt
    <3>3. MediaOver(k) = AtLeast0(k.paid["user"] - (IF mode.batch THEN 0 ELSE y.reserved)) BY <3>2, <1>9 DEF MediaOver
    <3>4. k.paid["user"] - (IF mode.batch THEN 0 ELSE y.reserved) = a + x BY <1>10, <1>11
    <3>5. a \in Int /\ a >= 0 BY <1>1, <1>2, <1>10 DEF MediaModal
    <3> HIDE DEF a
    <3>6. AtLeast0(a + x) - AtLeast0(a) >= x BY <3>5 DEF AtLeast0
    <3>7. -d = x BY <1>6
    <3>8. QED BY <3>1, <3>3, <3>4, <3>6, <3>7
  <2>2. CASE ~MediaExempt(y)
    <3>1. extra.short \/ x <= 0 \/ x <= Pool("user") BY <1>2, <1>15, <2>2 DEF MediaPromise
    <3>2. MediaOver(y) = 0 /\ MediaOver(k) = 0 BY <2>2, <1>9 DEF MediaOver, MediaExempt
    <3>3. QED BY <3>1, <3>2, <1>6, <1>16
  <2>3. QED BY <2>1, <2>2
<1>18. /\ k.paid["user"] = call[c].paid["user"] - d
       /\ \A m \in Ledgers \ {"user"} : k.paid[m] = call[c].paid[m]
  BY <1>1, <1>9 DEF Ledgers
<1>19. "user" \in Ledgers /\ call' = Misleads(c, IF "user" = "user" THEN d ELSE 0, [call EXCEPT ![c] = k])
  BY <1>5 DEF Ledgers
<1>20. QED BY <1>1, <1>5, <1>6, <1>12, <1>13, <1>17, <1>18, <1>19, MediaPays

LEMMA MediaPostsToken ==
  ASSUME MediaInv, NEW c \in MediaCalls, Post(c), NEW x \in Int, call[c].todo = <<Stmt2("token", -x)>>, ~UnlimitedQuota,
         call[c].paid["user"] = Target(call[c]), call[c].paid["token"] + x = Target(call[c])
  PROVE  MediaInv'
<1>1. PICK y : y = call[c] OBVIOUS
<1>2. MediaCallType(y) /\ MediaCallBooks(y) /\ MediaModal(y) BY <1>1, MediaOf
<1> DEFINE rest == Tail(y.todo)
           d == -x
           pc == IF rest = <<>> THEN AfterPost(y) ELSE y.pc
           z == [y EXCEPT !.todo = rest, !.pc = pc]
           k == [z EXCEPT !.paid["token"] = @ - d]
<1>3. Head(y.todo) = Stmt2("token", -x) /\ rest = <<>> BY <1>1, MediaTodo
<1>4. Head(y.todo).ledger = "token" /\ Head(y.todo).delta = -x BY <1>3 DEF Stmt2
<1>5. /\ y.pc = "post" /\ Write("token", d) /\ call' = Misleads(c, 0, [call EXCEPT ![c] = k])
      /\ UNCHANGED <<mode, cached, lost, extra>>
  BY <1>1, <1>4 DEF Post, Pay
<1>6. d \in Int /\ d = -x /\ pc = AfterPost(y) BY <1>3
<1>8. AfterPost(y) \in {"upstream", "reget", "done"} BY DEF AfterPost
<1> HIDE DEF rest, d, pc
<1>9. /\ DOMAIN k = CallFields /\ k.pc = pc /\ k.seen = y.seen /\ k.misled = y.misled /\ k.kind = y.kind
      /\ k.price = y.price /\ k.reserved = y.reserved /\ k.estimate = y.estimate /\ k.outcome = y.outcome
      /\ k.hurt = y.hurt /\ DOMAIN k.paid = Ledgers /\ k.paid["user"] = y.paid["user"]
      /\ k.paid["token"] = y.paid["token"] - d
  BY <1>2 DEF MediaCallType, CallFields, Ledgers
<1> HIDE DEF k, z
<1>10. y.paid["user"] \in Int /\ y.paid["token"] \in Int BY <1>2 DEF MediaCallType, Ledgers
<1>11. k.paid["token"] = Capped(Target(y)) /\ k.paid["user"] = Target(y)
  <2>1. y.paid["token"] - d = y.paid["token"] + x BY <1>6, <1>10
  <2>2. QED BY <1>1, <1>9, <2>1 DEF Capped
<1>12. MediaCallType(k)
  <2>1. k.pc \in MediaPcs BY <1>6, <1>8, <1>9 DEF MediaPcs
  <2>2. \A l \in Ledgers : k.paid[l] \in Int BY <1>6, <1>9, <1>10 DEF Ledgers
  <2>3. QED BY <1>2, <1>9, <2>1, <2>2 DEF MediaCallType
<1>13. MediaCallBooks(k) /\ MediaModal(k) /\ (MediaExempt(k) \/ Need(k) <= 0)
  BY <1>2, <1>5, <1>6, <1>9, <1>11, <1>12, MediaPosted
<1>14. MediaOver(k) >= MediaOver(call[c]) BY <1>1, <1>2, <1>9, <1>12, MediaOverGrows DEF MediaExempt
<1>15. /\ k.paid["token"] = call[c].paid["token"] - d
       /\ \A m \in Ledgers \ {"token"} : k.paid[m] = call[c].paid[m]
  BY <1>1, <1>9 DEF Ledgers
<1>16. "token" \in Ledgers /\ call' = Misleads(c, IF "token" = "user" THEN d ELSE 0, [call EXCEPT ![c] = k])
  BY <1>5 DEF Ledgers
<1>17. QED BY <1>5, <1>6, <1>12, <1>13, <1>14, <1>15, <1>16, MediaPays

LEMMA MediaPosts == ASSUME MediaInv, NEW c \in MediaCalls, Post(c) PROVE MediaInv'
<1>1. MediaPosting(call[c]) BY MediaOf DEF Post, MediaCallBooks
<1>2. QED BY <1>1, MediaPostsUser, MediaPostsToken DEF MediaPosting

\* A step that is not a call's, and takes from the user's books only when it says so.
LEMMA MediaElsewhere ==
  ASSUME MediaInv, mode' = mode, MediaTypes', MediaCache', MediaCallsBooks',
         \A c \in MediaCalls : /\ call'[c].paid = call[c].paid /\ call'[c].reserved = call[c].reserved
                               /\ call'[c].misled = call[c].misled /\ call'[c].kind = call[c].kind
                               /\ Need(call'[c]) = Need(call[c]) \/ Need(call'[c]) = 0,
         Pool("user")' - Pool("user") = extra'.topups - extra.topups - lost'["user"] + lost["user"],
         Pool("token")' - Pool("token") = lost["token"] - lost'["token"],
         extra'.short \/ (~extra.short /\ Pool("user")' >= Pool("user"))
  PROVE  MediaInv'
<1>1. Overs' = Overs BY DEF Overs, MediaOver, MediaExempt
<1>2. [c \in MediaCalls |-> call'[c].paid["user"]] = [c \in MediaCalls |-> call[c].paid["user"]]
      /\ [c \in MediaCalls |-> call'[c].paid["token"]] = [c \in MediaCalls |-> call[c].paid["token"]]
  OBVIOUS
<1>3. Paid("user")' = Paid("user") /\ Paid("token")' = Paid("token") BY <1>2 DEF Paid
<1>4. ASSUME NEW l \in Ledgers PROVE Paid(l) \in Int
  <2> DEFINE f == [x \in MediaCalls |-> call[x].paid[l]]
  <2>1. \A x \in MediaCalls : f[x] \in Int BY DEF MediaInv, MediaCallsBooks, MediaCallType
  <2>2. Paid(l) = SumFunctionOnSet(f, MediaCalls) BY DEF Paid
  <2> HIDE DEF f
  <2>3. QED BY <2>1, <2>2, SumIsInt, MediaAssumption
<1>5. Paid("user") \in Int /\ Paid("token") \in Int BY <1>4 DEF Ledgers
<1>6. /\ Pool("user") \in Int /\ Pool("token") \in Int
      /\ StartQuota \in Int /\ extra.topups \in Int /\ lost["user"] \in Int /\ lost["token"] \in Int
  BY MediaPoolType, MediaAssumption DEF MediaInv, MediaTypes, MediaExtra, Ledgers
<1>7. /\ Pool("user")' \in Int /\ Pool("token")' \in Int
      /\ extra'.topups \in Int /\ lost'["user"] \in Int /\ lost'["token"] \in Int
  <2>1. (MediaTypes => Pool("user") \in Int /\ Pool("token") \in Int)' BY MediaPoolType, PTL
  <2>2. lost'["user"] \in Int /\ lost'["token"] \in Int BY DEF MediaTypes, Ledgers
  <2>3. extra'.topups \in Int BY DEF MediaTypes, MediaExtra
  <2>4. QED BY <2>1, <2>2, <2>3
<1>8. MediaPools' BY <1>3, <1>5, <1>6, <1>7 DEF MediaInv, MediaPools
<1>9. MediaPromised'
  <2>1. SUFFICES ASSUME ~extra'.short, NEW c \in MediaCalls 
                  PROVE  MediaExempt(call'[c]) \/ Need(call'[c]) <= 0 \/ Need(call'[c]) <= Pool("user")'
    BY DEF MediaPromised, MediaPromise
  <2>2. MediaPromise(call[c]) /\ Pool("user")' >= Pool("user") BY <2>1 DEF MediaInv, MediaPromised
  <2>3. Need(call[c]) \in Int BY MediaOf, MediaNeedType
  <2>4. QED BY <2>2, <2>3, <1>6, <1>7 DEF MediaPromise, MediaExempt
<1>10. MediaCovered'
  <2>1. \A c \in MediaCalls : Overs[c] \in Int BY MediaOf, MediaOverNat DEF Overs
  <2>2. SumFunctionOnSet(Overs, MediaCalls) \in Int BY <2>1, SumIsInt, MediaAssumption
  <2>3. QED BY <1>1, <1>6, <1>7, <2>2 DEF MediaInv, MediaCovered
<1>11. QED BY <1>8, <1>9, <1>10 DEF MediaInv

LEMMA MediaTopsUp == ASSUME MediaInv, IncreaseUserQuota PROVE MediaInv'
<1>1. /\ extra' = [extra EXCEPT !.topups = @ + 1] /\ Write("user", 1) /\ UNCHANGED <<mode, cached, call, lost>>
  BY DEF IncreaseUserQuota
<1>2. MediaExtra' /\ extra'.topups = extra.topups + 1 /\ extra'.short = extra.short /\ extra.topups \in Int
  BY <1>1 DEF MediaInv, MediaTypes, MediaExtra
<1>3. "user" \in Ledgers /\ "token" \in Ledgers \ {"user"} /\ 1 \in Int BY DEF Ledgers
<1>4. MediaTypes' /\ Pool("user")' = Pool("user") + 1 /\ Pool("token")' = Pool("token")
  BY <1>1, <1>2, <1>3, MediaWrites DEF MediaInv
<1>5. /\ Pool("user") \in Int /\ Pool("token") \in Int /\ lost["user"] \in Int /\ lost["token"] \in Int
      /\ extra.short \in BOOLEAN
  BY MediaPoolType DEF MediaInv, MediaTypes, MediaExtra, Ledgers
<1>6. MediaCache' /\ MediaCallsBooks' BY <1>1 DEF MediaInv, MediaCache, MediaCallsBooks, MediaModal
<1>7. Pool("user")' - Pool("user") = 1 /\ Pool("token")' - Pool("token") = 0 BY <1>4, <1>5
<1>8. extra'.topups - extra.topups - lost'["user"] + lost["user"] = 1 /\ lost["token"] - lost'["token"] = 0
  BY <1>1, <1>2, <1>5
<1>9. extra'.short \/ (~extra.short /\ Pool("user")' >= Pool("user")) BY <1>2, <1>4, <1>5
<1>10. QED BY <1>1, <1>4, <1>6, <1>7, <1>8, <1>9, MediaElsewhere

LEMMA MediaCrashes == ASSUME MediaInv, Crash PROVE MediaInv'
<1> DEFINE gone == batch.store["user"] + Taken("user")
<1>1. /\ extra' = [extra EXCEPT !.faults = @ + 1, !.short = @ \/ gone > 0]
      /\ lost' = [l \in Ledgers |-> lost[l] + batch.store[l] + Taken(l)]
      /\ batch' = [store |-> NoDelta, at |-> 0, taken |-> 0]
      /\ call' = [c \in MediaCalls |-> IF call[c].pc \in {"idle", "done"} THEN call[c]
                                       ELSE [call[c] EXCEPT !.pc = "done", !.hurt = TRUE, !.todo = <<>>]]
      /\ UNCHANGED <<mode, purse, cached>>
  BY DEF Crash, Fault
<1>2. /\ purse["user"] \in Int /\ purse["token"] \in Int /\ batch.store["user"] \in Int /\ batch.store["token"] \in Int
      /\ Taken("user") \in Int /\ Taken("token") \in Int /\ lost["user"] \in Int /\ lost["token"] \in Int
      /\ extra.topups \in Int /\ extra.faults \in Int /\ extra.short \in BOOLEAN
  BY MediaPoolType DEF MediaInv, MediaTypes, MediaExtra, Ledgers
<1>3. gone \in Int BY <1>2
<1> HIDE DEF gone
<1>4. /\ DOMAIN extra' = {"topups", "faults", "short"} /\ extra'.topups = extra.topups /\ extra'.faults = extra.faults + 1
      /\ extra'.short = (extra.short \/ gone > 0)
  BY <1>1 DEF MediaInv, MediaTypes, MediaExtra
<1>5. /\ batch'.store["user"] = 0 /\ batch'.store["token"] = 0 /\ batch'.at = 0 /\ batch'.taken = 0
      /\ DOMAIN batch' = {"store", "at", "taken"} /\ batch'.store \in [Ledgers -> Int]
  <2>1. NoDelta \in [Ledgers -> Int] /\ NoDelta["user"] = 0 /\ NoDelta["token"] = 0 BY DEF NoDelta, Ledgers
  <2>2. batch'.store = NoDelta /\ batch'.at = 0 /\ batch'.taken = 0 /\ DOMAIN batch' = {"store", "at", "taken"} BY <1>1
  <2>3. QED BY <2>1, <2>2
<1>6. /\ DOMAIN lost' = Ledgers /\ lost'["user"] = lost["user"] + gone
      /\ lost'["token"] = lost["token"] + batch.store["token"] + Taken("token")
  <2>1. DOMAIN lost' = Ledgers BY <1>1
  <2>2. /\ lost'["user"] = lost["user"] + batch.store["user"] + Taken("user")
        /\ lost'["token"] = lost["token"] + batch.store["token"] + Taken("token")
    BY <1>1 DEF Ledgers
  <2>3. lost["user"] + batch.store["user"] + Taken("user") = lost["user"] + gone BY <1>2 DEF gone
  <2>4. QED BY <2>1, <2>2, <2>3
<1>7. MediaTypes'
  <2>1. mode' \in [batch : BOOLEAN, redis : BOOLEAN] BY <1>1 DEF MediaInv, MediaTypes
  <2>2. purse' \in [Ledgers -> Int] BY <1>1 DEF MediaInv, MediaTypes
  <2>3. \A l \in Ledgers : batch'.store[l] = 0 /\ batch'.store[l] \in Int BY <1>5 DEF Ledgers
  <2>4. batch'.at \in 0 .. 2 /\ batch'.taken \in Int BY <1>5
  <2>5. \A l \in Ledgers : lost'[l] \in Int BY <1>2, <1>3, <1>6 DEF Ledgers
  <2>6. extra'.topups \in Int /\ extra'.faults \in Int /\ extra'.short \in BOOLEAN BY <1>2, <1>4
  <2>7. QED BY <1>4, <1>5, <1>6, <2>1, <2>2, <2>3, <2>4, <2>5, <2>6 DEF MediaTypes, MediaExtra
<1>8. ASSUME NEW c \in MediaCalls
      PROVE  /\ MediaCallType(call'[c]) /\ MediaCallBooks(call'[c]) /\ MediaModal(call'[c])
             /\ call'[c].paid = call[c].paid /\ call'[c].reserved = call[c].reserved
             /\ call'[c].misled = call[c].misled /\ call'[c].kind = call[c].kind
             /\ Need(call'[c]) = Need(call[c]) \/ Need(call'[c]) = 0
  <2>1. PICK y : y = call[c] OBVIOUS
  <2>2. PICK k : k = call'[c] OBVIOUS
  <2>3. MediaCallType(y) /\ MediaCallBooks(y) /\ MediaModal(y) BY <2>1, MediaOf
  <2>4. CASE y.pc \in {"idle", "done"}
    <3>1. k = y BY <1>1, <2>1, <2>2, <2>4
    <3>2. QED BY <2>1, <2>2, <2>3, <3>1
  <2>5. CASE y.pc \notin {"idle", "done"}
    <3>1. PICK yes \in BOOLEAN : yes = TRUE OBVIOUS
    <3>2. k = [y EXCEPT !.pc = "done", !.hurt = yes, !.todo = <<>>] BY <1>1, <2>1, <2>2, <2>5, <3>1
    <3>3. /\ DOMAIN k = CallFields /\ k.pc = "done" /\ k.seen = y.seen /\ k.misled = y.misled /\ k.kind = y.kind
          /\ k.price = y.price /\ k.reserved = y.reserved /\ k.estimate = y.estimate /\ k.outcome = y.outcome
          /\ k.hurt = yes /\ k.paid = y.paid
      BY <3>2, <2>3 DEF MediaCallType, CallFields
    <3>4. MediaCallType(k)
      <4>1. k.pc \in MediaPcs BY <3>3 DEF MediaPcs
      <4>2. QED BY <2>3, <3>3, <4>1 DEF MediaCallType
    <3>5. k.hurt BY <3>1, <3>3
    <3>6. MediaCallBooks(k) /\ MediaModal(k) BY <2>3, <3>3, <3>5 DEF MediaCallBooks, MediaModal
    <3>7. Need(k) = 0 BY <3>3 DEF Need
    <3>8. QED BY <2>1, <2>2, <3>3, <3>4, <3>6, <3>7
  <2>6. QED BY <2>4, <2>5
<1>9. MediaCallsBooks'
  <2>1. DOMAIN call' = MediaCalls BY <1>1
  <2>2. \A c \in MediaCalls : MediaModal(call'[c]) /\ MediaCallType(call'[c]) /\ MediaCallBooks(call'[c]) BY <1>8
  <2>3. QED BY <1>1, <2>1, <2>2 DEF MediaCallsBooks, MediaModal
<1>10. Taken("user")' = 0 /\ Taken("token")' = 0 BY <1>5 DEF Taken
<1>11. Pool("user")' = Pool("user") - gone /\ Pool("token")' = Pool("token") - batch.store["token"] - Taken("token")
  <2>1. /\ Pool("user")' = purse["user"] + 0 + 0 /\ Pool("token")' = purse["token"] + 0 + 0
        /\ Pool("user") = purse["user"] + batch.store["user"] + Taken("user")
        /\ Pool("token") = purse["token"] + batch.store["token"] + Taken("token")
    BY <1>1, <1>5, <1>10 DEF Pool
  <2>2. QED BY <1>2, <2>1 DEF gone
<1>12. Pool("user") \in Int /\ Pool("token") \in Int BY MediaPoolType DEF MediaInv
<1>13. /\ Pool("user")' - Pool("user") = extra'.topups - extra.topups - lost'["user"] + lost["user"]
       /\ Pool("token")' - Pool("token") = lost["token"] - lost'["token"]
  BY <1>2, <1>3, <1>4, <1>6, <1>11, <1>12
<1>14. extra'.short \/ (~extra.short /\ Pool("user")' >= Pool("user"))
  <2>1. CASE gone > 0 \/ extra.short BY <2>1, <1>4
  <2>2. CASE ~(gone > 0) /\ ~extra.short
    <3>1. Pool("user")' >= Pool("user") BY <2>2, <1>3, <1>11, <1>12
    <3>2. QED BY <2>2, <3>1
  <2>3. QED BY <2>1, <2>2
<1>15. MediaCache' BY <1>1 DEF MediaInv, MediaCache
<1>16. QED BY <1>1, <1>7, <1>8, <1>9, <1>13, <1>14, <1>15, MediaElsewhere

LEMMA MediaBatchUpdates == ASSUME MediaInv, batchUpdate PROVE MediaInv'
<1>1. mode.batch /\ UNCHANGED <<mode, cached, call>> BY DEF batchUpdate
<1>2. /\ purse["user"] \in Int /\ purse["token"] \in Int /\ batch.store["user"] \in Int /\ batch.store["token"] \in Int
      /\ lost["user"] \in Int /\ lost["token"] \in Int /\ batch.taken \in Int /\ batch.at \in 0 .. 2
      /\ extra.topups \in Int /\ extra.faults \in Int /\ extra.short \in BOOLEAN
  BY DEF MediaInv, MediaTypes, MediaExtra, Ledgers
<1>3. FlushOrder[1] = "user" /\ FlushOrder[2] = "token" /\ Len(FlushOrder) = 2 BY DEF FlushOrder
<1>4. /\ Taken("user") = (IF batch.at = 1 THEN batch.taken ELSE 0)
      /\ Taken("token") = (IF batch.at = 2 THEN batch.taken ELSE 0)
      /\ Taken("user")' = (IF batch'.at = 1 THEN batch'.taken ELSE 0)
      /\ Taken("token")' = (IF batch'.at = 2 THEN batch'.taken ELSE 0)
      \/ batch'.at \notin 0 .. 2
  <2>1. /\ Taken("user") = (IF batch.at = 1 THEN batch.taken ELSE 0)
        /\ Taken("token") = (IF batch.at = 2 THEN batch.taken ELSE 0)
    BY <1>2, <1>3 DEF Taken
  <2>2. CASE batch'.at \in 0 .. 2
    <3>1. /\ Taken("user")' = (IF batch'.at = 1 THEN batch'.taken ELSE 0)
          /\ Taken("token")' = (IF batch'.at = 2 THEN batch'.taken ELSE 0)
      BY <1>3, <2>2 DEF Taken
    <3>2. QED BY <2>1, <3>1
  <2>3. QED BY <2>1, <2>2
<1>5. CASE /\ batch.at = 0 /\ batch' = [TakeStore("user") EXCEPT !.at = 1] /\ UNCHANGED <<purse, lost, extra>>
  <2>1. /\ DOMAIN batch' = {"store", "at", "taken"} /\ batch'.store \in [Ledgers -> Int] /\ batch'.at = 1
        /\ batch'.taken = batch.store["user"] /\ batch'.store["user"] = 0 /\ batch'.store["token"] = batch.store["token"]
    BY <1>5 DEF TakeStore, MediaInv, MediaTypes, Ledgers
  <2>2. MediaTypes' BY <1>1, <1>2, <1>5, <2>1 DEF MediaInv, MediaTypes, MediaExtra
  <2>3. batch'.at \in 0 .. 2 BY <2>1
  <2>4. /\ Taken("user") = 0 /\ Taken("token") = 0 /\ Taken("user")' = batch.store["user"] /\ Taken("token")' = 0
    BY <1>4, <1>5, <2>1, <2>3
  <2>5. Pool("user")' = Pool("user") /\ Pool("token")' = Pool("token") BY <1>2, <1>5, <2>1, <2>4 DEF Pool
  <2>6. Pool("user") \in Int /\ Pool("token") \in Int BY MediaPoolType DEF MediaInv
  <2>7. /\ Pool("user")' - Pool("user") = extra'.topups - extra.topups - lost'["user"] + lost["user"]
        /\ Pool("token")' - Pool("token") = lost["token"] - lost'["token"]
        /\ extra'.short \/ (~extra.short /\ Pool("user")' >= Pool("user"))
    BY <1>2, <1>5, <2>5, <2>6
  <2>8. MediaCache' /\ MediaCallsBooks' BY <1>1 DEF MediaInv, MediaCache, MediaCallsBooks, MediaModal
  <2>9. QED BY <1>1, <2>2, <2>7, <2>8, MediaElsewhere
<1>6. ASSUME batch.at # 0, NEW fails \in BOOLEAN, NEW l, l = FlushOrder[batch.at],
             IF fails THEN Fault(IF l = "user" THEN batch.taken ELSE 0) ELSE extra' = extra,
             purse' = IF fails THEN purse ELSE [purse EXCEPT ![l] = @ + batch.taken],
             lost' = IF fails THEN [lost EXCEPT ![l] = @ + batch.taken] ELSE lost,
             batch' = IF batch.at = Len(FlushOrder) THEN [batch EXCEPT !.at = 0, !.taken = 0]
                      ELSE [TakeStore(FlushOrder[batch.at + 1]) EXCEPT !.at = @ + 1]
      PROVE  MediaInv'
  <2>1. l \in Ledgers /\ (batch.at = 1 => l = "user") /\ (batch.at = 2 => l = "token") /\ batch.at \in {1, 2}
    BY <1>2, <1>3, <1>6 DEF Ledgers
  \* The flush moves on: what it leaves in the store and takes stays in the books.
  <2>2. /\ DOMAIN batch' = {"store", "at", "taken"} /\ batch'.store \in [Ledgers -> Int]
        /\ batch'.at \in 0 .. 2 /\ batch'.taken \in Int
        /\ batch'.store["user"] = batch.store["user"] /\ Taken("user")' = 0
        /\ batch'.store["token"] + Taken("token")' = batch.store["token"]
    <3>1. CASE batch.at = 1
      <4>0. batch.at # Len(FlushOrder) /\ FlushOrder[batch.at + 1] = "token" /\ batch.at + 1 = 2 BY <1>3, <3>1
      <4>1. batch' = [TakeStore("token") EXCEPT !.at = @ + 1] BY <1>6, <4>0
      <4>2. /\ DOMAIN batch' = {"store", "at", "taken"} /\ batch'.store \in [Ledgers -> Int] /\ batch'.at = 2
            /\ batch'.taken = batch.store["token"] /\ batch'.store["token"] = 0
            /\ batch'.store["user"] = batch.store["user"]
        BY <3>1, <4>1 DEF TakeStore, MediaInv, MediaTypes, Ledgers
      <4>3. batch'.at \in 0 .. 2 BY <4>2
      <4>4. Taken("user")' = 0 /\ Taken("token")' = batch.store["token"] BY <1>4, <4>2, <4>3
      <4>5. QED BY <1>2, <4>2, <4>3, <4>4
    <3>2. CASE batch.at = 2
      <4>1. batch' = [batch EXCEPT !.at = 0, !.taken = 0] BY <1>3, <1>6, <3>2
      <4>2. DOMAIN batch' = {"store", "at", "taken"} /\ batch'.store = batch.store /\ batch'.at = 0 /\ batch'.taken = 0
        BY <4>1 DEF MediaInv, MediaTypes
      <4>3. batch'.at \in 0 .. 2 /\ batch'.taken \in Int BY <4>2
      <4>4. Taken("user")' = 0 /\ Taken("token")' = 0 BY <1>4, <4>2, <4>3
      <4>5. batch.store \in [Ledgers -> Int] BY DEF MediaInv, MediaTypes
      <4>6. QED BY <1>2, <4>2, <4>3, <4>4, <4>5
    <3>3. QED BY <2>1, <3>1, <3>2
  <2>3. /\ Taken("user") = (IF l = "user" THEN batch.taken ELSE 0)
        /\ Taken("token") = (IF l = "token" THEN batch.taken ELSE 0)
    BY <1>4, <2>1, <2>2 DEF Ledgers
  <2>4. /\ MediaExtra' /\ extra'.topups = extra.topups
        /\ ~fails => extra'.short = extra.short
        /\ fails /\ l = "user" => (extra'.short <=> extra.short \/ batch.taken > 0)
        /\ fails /\ l = "token" => (extra'.short <=> extra.short)
    <3>1. CASE fails
      <4> DEFINE gone == IF l = "user" THEN batch.taken ELSE 0
      <4>1. extra' = [extra EXCEPT !.faults = @ + 1, !.short = @ \/ gone > 0] BY <1>6, <3>1 DEF Fault
      <4>2. gone \in Int BY <1>2
      <4>3. (l = "user" => gone = batch.taken) /\ (l = "token" => ~(gone > 0)) OBVIOUS
      <4> HIDE DEF gone
      <4>4. /\ DOMAIN extra' = {"topups", "faults", "short"} /\ extra'.topups = extra.topups
            /\ extra'.faults = extra.faults + 1 /\ extra'.short = (extra.short \/ gone > 0)
        BY <4>1 DEF MediaInv, MediaTypes, MediaExtra
      <4>5. extra'.short \in BOOLEAN /\ (extra'.short <=> extra.short \/ gone > 0) BY <1>2, <4>4
      <4>6. MediaExtra' BY <1>2, <4>4, <4>5 DEF MediaExtra
      <4>7. QED BY <3>1, <4>3, <4>4, <4>5, <4>6
    <3>2. CASE ~fails BY <1>6, <3>2 DEF MediaInv, MediaTypes, MediaExtra
    <3>3. QED BY <3>1, <3>2
  <2>5. /\ purse' \in [Ledgers -> Int]
        /\ fails => purse' = purse
        /\ ~fails => purse'[l] = purse[l] + batch.taken /\ \A m \in Ledgers \ {l} : purse'[m] = purse[m]
    BY <1>2, <1>6, <2>1 DEF MediaInv, MediaTypes
  <2>6. /\ DOMAIN lost' = Ledgers /\ \A m \in Ledgers : lost'[m] \in Int
        /\ fails => lost'[l] = lost[l] + batch.taken /\ \A m \in Ledgers \ {l} : lost'[m] = lost[m]
        /\ ~fails => lost' = lost
    BY <1>2, <1>6, <2>1 DEF MediaInv, MediaTypes
  <2>7. MediaTypes' BY <1>1, <2>2, <2>4, <2>5, <2>6 DEF MediaInv, MediaTypes
  <2>8. MediaCache' /\ MediaCallsBooks' BY <1>1 DEF MediaInv, MediaCache, MediaCallsBooks, MediaModal
  <2>9. /\ Pool("user") = purse["user"] + batch.store["user"] + Taken("user")
        /\ Pool("token") = purse["token"] + batch.store["token"] + Taken("token")
        /\ Pool("user")' = purse'["user"] + batch'.store["user"] + Taken("user")'
        /\ Pool("token")' = purse'["token"] + batch'.store["token"] + Taken("token")'
    BY DEF Pool
  <2>10. /\ purse'["user"] \in Int /\ purse'["token"] \in Int /\ batch'.store["token"] \in Int /\ Taken("token")' \in Int
    <3>1. batch'.at \in 0 .. 2 BY <2>2
    <3>2. batch'.store["token"] \in Int /\ purse'["user"] \in Int /\ purse'["token"] \in Int
      BY <2>2, <2>5 DEF Ledgers
    <3>3. Taken("token")' \in Int BY <1>4, <2>2, <3>1
    <3>4. QED BY <3>2, <3>3
  <2>11. Pool("token")' = purse'["token"] + batch.store["token"] BY <1>2, <2>2, <2>9, <2>10
  <2>12. Pool("user")' = purse'["user"] + batch.store["user"] BY <1>2, <2>2, <2>9, <2>10
  <2>13. CASE l = "user"
    <3>1. "token" \in Ledgers \ {l} /\ "user" \in Ledgers BY <2>13 DEF Ledgers
    <3>2. Taken("user") = batch.taken /\ Taken("token") = 0 BY <2>3, <2>13
    <3>3. Pool("token")' = Pool("token") /\ Pool("token") \in Int
      BY <1>2, <2>5, <2>9, <2>11, <3>1, <3>2
    <3>4. lost'["token"] = lost["token"] BY <2>6, <3>1
    <3>5. CASE fails
      <4>1. Pool("user")' = Pool("user") - batch.taken /\ Pool("user") \in Int
        BY <1>2, <2>5, <2>9, <2>12, <3>2, <3>5
      <4>2. lost'["user"] = lost["user"] + batch.taken BY <2>6, <2>13, <3>5
      <4>3. extra'.short \/ (~extra.short /\ Pool("user")' >= Pool("user")) BY <1>2, <2>4, <2>13, <3>5, <4>1
      <4>4. /\ Pool("user")' - Pool("user") = extra'.topups - extra.topups - lost'["user"] + lost["user"]
            /\ Pool("token")' - Pool("token") = lost["token"] - lost'["token"]
        BY <1>2, <2>4, <3>3, <3>4, <4>1, <4>2
      <4>5. QED BY <1>1, <2>7, <2>8, <4>3, <4>4, MediaElsewhere
    <3>6. CASE ~fails
      <4>1. purse'["user"] = purse["user"] + batch.taken BY <2>5, <2>13, <3>6
      <4>2. Pool("user")' = Pool("user") /\ Pool("user") \in Int BY <1>2, <2>9, <2>12, <3>2, <4>1
      <4>3. lost'["user"] = lost["user"] BY <2>6, <3>6
      <4>4. extra'.short \/ (~extra.short /\ Pool("user")' >= Pool("user")) BY <1>2, <2>4, <3>6, <4>2
      <4>5. /\ Pool("user")' - Pool("user") = extra'.topups - extra.topups - lost'["user"] + lost["user"]
            /\ Pool("token")' - Pool("token") = lost["token"] - lost'["token"]
        BY <1>2, <2>4, <3>3, <3>4, <4>2, <4>3
      <4>6. QED BY <1>1, <2>7, <2>8, <4>4, <4>5, MediaElsewhere
    <3>7. QED BY <3>5, <3>6
  <2>14. CASE l = "token"
    <3>1. "user" \in Ledgers \ {l} /\ "token" \in Ledgers BY <2>14 DEF Ledgers
    <3>2. Taken("token") = batch.taken /\ Taken("user") = 0 BY <2>3, <2>14
    <3>3. Pool("user")' = Pool("user") /\ Pool("user") \in Int
      BY <1>2, <2>5, <2>9, <2>12, <3>1, <3>2
    <3>4. lost'["user"] = lost["user"] BY <2>6, <3>1
    <3>5. extra'.short \/ (~extra.short /\ Pool("user")' >= Pool("user")) BY <1>2, <2>4, <2>14, <3>3
    <3>6. Pool("token")' - Pool("token") = lost["token"] - lost'["token"]
      <4>1. CASE fails
        <5>1. lost'["token"] = lost["token"] + batch.taken BY <2>6, <2>14, <4>1
        <5>2. Pool("token")' = Pool("token") - batch.taken /\ Pool("token") \in Int
          BY <1>2, <2>5, <2>9, <2>11, <3>2, <4>1
        <5>3. QED BY <1>2, <5>1, <5>2
      <4>2. CASE ~fails
        <5>1. purse'["token"] = purse["token"] + batch.taken /\ lost'["token"] = lost["token"]
          BY <2>5, <2>6, <2>14, <4>2
        <5>2. Pool("token")' = Pool("token") /\ Pool("token") \in Int BY <1>2, <2>9, <2>11, <3>2, <5>1
        <5>3. QED BY <1>2, <5>1, <5>2
      <4>3. QED BY <4>1, <4>2
    <3>7. Pool("user")' - Pool("user") = extra'.topups - extra.topups - lost'["user"] + lost["user"]
      BY <1>2, <2>4, <3>3, <3>4
    <3>8. QED BY <1>1, <2>7, <2>8, <3>5, <3>6, <3>7, MediaElsewhere
  <2>15. QED BY <2>1, <2>13, <2>14 DEF Ledgers
<1>7. QED BY <1>5, <1>6 DEF batchUpdate

LEMMA MediaExpires == ASSUME MediaInv, Expire PROVE MediaInv'
<1>1. cached' = [there |-> FALSE, quota |-> 0] /\ UNCHANGED <<mode, purse, batch, call, lost, extra>>
  BY DEF Expire, NoCache
<1>2. MediaCache' BY <1>1 DEF MediaCache
<1>3. QED BY <1>1, <1>2, MediaCacheOnly

LEMMA MediaStart == MediaInit => MediaInv
<1> SUFFICES ASSUME MediaInit PROVE MediaInv OBVIOUS
<1>1. MediaTypes
  BY MediaAssumption DEF MediaInit, MediaTypes, MediaExtra, NoDelta, Ledgers
<1>2. MediaCache BY DEF MediaInit, MediaCache, NoCache
<1>3. ASSUME NEW c \in MediaCalls
      PROVE  /\ MediaCallType(call[c]) /\ MediaCallBooks(call[c]) /\ MediaModal(call[c])
             /\ call[c].paid["user"] = 0 /\ call[c].paid["token"] = 0 /\ MediaOver(call[c]) = 0 /\ Need(call[c]) = 0
  <2>1. PICK k : k = call[c] OBVIOUS
  <2>2. k = NoCall BY <2>1 DEF MediaInit
  <2>3. /\ DOMAIN k = CallFields /\ DOMAIN k.paid = Ledgers /\ k.paid["user"] = 0 /\ k.paid["token"] = 0
        /\ k.reserved = 0 /\ k.reserved \in Nat /\ k.seen \in Int /\ k.misled \in BOOLEAN /\ k.hurt \in BOOLEAN
        /\ k.estimate = 0 /\ k.estimate \in Nat /\ k.price \in Int /\ k.pc = "idle" /\ k.kind = "none" /\ k.outcome = "none"
    BY <2>2 DEF NoCall, CallFields, NoDelta, Ledgers
  <2>4. MediaCallType(k)
    <3>1. \A l \in Ledgers : k.paid[l] \in Int BY <2>3 DEF Ledgers
    <3>2. k.pc \in MediaPcs BY <2>3 DEF MediaPcs
    <3>3. k.kind \in {"none", "image", "speech", "transcription", "proxy"}
          /\ k.outcome \in {"none", "served", "failed", "undelivered", "refused", "reserving"} BY <2>3
    <3>4. QED BY <2>3, <3>1, <3>2, <3>3 DEF MediaCallType
  <2>5. MediaUnpaid(k) BY <2>3 DEF MediaUnpaid
  <2>6. MediaCallBooks(k) /\ MediaModal(k) BY <2>3, <2>5 DEF MediaCallBooks, MediaModal
  <2>7. Need(k) = 0 BY <2>3 DEF Need
  <2>8. QED BY <2>1, <2>3, <2>4, <2>5, <2>6, <2>7, MediaOverUnpaid
<1>4. MediaCallsBooks BY <1>3 DEF MediaCallsBooks, MediaInit
<1>5. ASSUME NEW l \in Ledgers PROVE Paid(l) = 0
  <2> DEFINE f == [x \in MediaCalls |-> call[x].paid[l]]
  <2>1. \A x \in MediaCalls : f[x] = 0 BY <1>3 DEF Ledgers
  <2>2. Paid(l) = SumFunctionOnSet(f, MediaCalls) BY DEF Paid
  <2> HIDE DEF f
  <2>3. QED BY <2>1, <2>2, SumOfZeros, MediaAssumption
<1>6. /\ purse["user"] = StartQuota /\ purse["token"] = StartQuota /\ batch.store["user"] = 0 /\ batch.store["token"] = 0
      /\ batch.at = 0 /\ lost["user"] = 0 /\ lost["token"] = 0 /\ extra.topups = 0
  BY DEF MediaInit, NoDelta, Ledgers
<1>7. Pool("user") = StartQuota /\ Pool("token") = StartQuota /\ StartQuota \in Nat
  <2>1. Taken("user") = 0 /\ Taken("token") = 0 BY <1>6 DEF Taken
  <2>2. QED BY <1>6, <2>1, MediaAssumption DEF Pool
<1>8. MediaPools
  <2>1. Paid("user") = 0 /\ Paid("token") = 0 BY <1>5 DEF Ledgers
  <2>2. QED BY <1>6, <1>7, <2>1 DEF MediaPools
<1>9. MediaPromised BY <1>3 DEF MediaPromised, MediaPromise
<1>10. MediaCovered
  <2>1. \A x \in MediaCalls : Overs[x] = 0 BY <1>3 DEF Overs
  <2>2. SumFunctionOnSet(Overs, MediaCalls) = 0 BY <2>1, SumOfZeros, MediaAssumption
  <2>3. QED BY <1>7, <2>2 DEF MediaCovered
<1>11. QED BY <1>1, <1>2, <1>4, <1>8, <1>9, <1>10 DEF MediaInv

\* No step of a call, of the updater or of the user breaks the books.
LEMMA MediaSteps == ASSUME MediaInv, [MediaNext]_mediaVars PROVE MediaInv'
<1>1. CASE UNCHANGED mediaVars
  <2>1. UNCHANGED <<mode, purse, batch, cached, call, lost, extra>> BY <1>1 DEF mediaVars
  <2>2. MediaCache' BY <2>1 DEF MediaInv, MediaCache
  <2>3. QED BY <2>1, <2>2, MediaCacheOnly
<1>2. ASSUME NEW c \in MediaCalls, NEW r \in ImageRequests, RelayImageHelper(c, r) PROVE MediaInv'
  BY <1>2, MediaRelayImage
<1>3. ASSUME NEW c \in MediaCalls, NEW p \in Speeches, RelayAudioHelper(c, "speech", p) PROVE MediaInv'
  <2>1. p \in Nat /\ "speech" \in {"speech", "transcription"} BY MediaAssumption
  <2>2. QED BY <1>3, <2>1, MediaRelayAudio
<1>4. ASSUME NEW c \in MediaCalls, NEW p \in Transcripts, RelayAudioHelper(c, "transcription", p) PROVE MediaInv'
  <2>1. p \in Nat /\ "transcription" \in {"speech", "transcription"} BY MediaAssumption
  <2>2. QED BY <1>4, <2>1, MediaRelayAudio
<1>5. ASSUME NEW c \in MediaCalls, PreConsumeTokenQuota(c) PROVE MediaInv'
  <2>1. call[c].pc \in {"trust", "reserveToken", "reserveUser"} BY <1>5 DEF PreConsumeTokenQuota
  <2>2. QED BY <1>5, <2>1, MediaTrusts, MediaReservesToken, MediaReservesUser
<1>6. ASSUME NEW c \in MediaCalls,
             \/ RelayProxyHelper(c) \/ CacheGetUserQuota(c) \/ fetchAndUpdateUserQuota(c) \/ CacheUpdateUserQuota(c)
             \/ Decide(c) \/ CacheDecreaseUserQuota(c) \/ preConsumeTokenQuotaLegacy(c)
             \/ ImageAnswered(c) \/ AudioAnswered(c) \/ Post(c)
      PROVE  MediaInv'
  BY <1>6, MediaRelayProxy, MediaReadsBalance, MediaFetches, MediaCacheUpdate, MediaDecides, MediaCacheDecrease,
     MediaLegacy, MediaImageAnswered, MediaAudioAnswered, MediaPosts
<1>7. CASE Expire \/ batchUpdate \/ IncreaseUserQuota \/ Crash
  BY <1>7, MediaExpires, MediaBatchUpdates, MediaTopsUp, MediaCrashes
<1>8. QED BY <1>1, <1>2, <1>3, <1>4, <1>5, <1>6, <1>7 DEF MediaNext

LEMMA MediaInvImplies == MediaInv => MediaTypeOK /\ MediaIsPaidOnce
<1> SUFFICES ASSUME MediaInv PROVE MediaTypeOK /\ MediaIsPaidOnce OBVIOUS
<1>1. MediaTypeOK
  BY MediaOf DEF MediaInv, MediaTypes, MediaCache, MediaTypeOK, MediaCallType
<1>2. MediaBooksBalance
  <2>1. /\ Paid("user") = SumFunction([c \in MediaCalls |-> call[c].paid["user"]])
        /\ Paid("token") = SumFunction([c \in MediaCalls |-> call[c].paid["token"]])
    BY DEF Paid, SumFunction
  <2>2. ASSUME NEW c \in MediaCalls, call[c].pc = "done", ~call[c].hurt
        PROVE  /\ call[c].paid["user"] = Cost(call[c])
               /\ call[c].paid["token"] = IF UnlimitedQuota THEN 0 ELSE Cost(call[c])
    BY <2>2, MediaOf DEF MediaCallBooks, Capped
  <2>3. QED BY <2>1, <2>2 DEF MediaBooksBalance, MediaInv, MediaPools
<1>3. OverdraftMeansMisled
  <2> DEFINE g == [c \in MediaCalls |-> Unreserved(c)]
             E == {c \in MediaCalls : Exempt(c)}
             f == Overs
  <2>1. ASSUME NEW c \in MediaCalls
        PROVE  f[c] = MediaOver(call[c]) /\ g[c] = Unreserved(c) /\ f[c] \in Int /\ g[c] \in Int /\ f[c] <= g[c]
    <3>1. PICK k : k = call[c] OBVIOUS
    <3>2. MediaCallType(k) /\ MediaCallBooks(k) BY <3>1, MediaOf
    <3>3. /\ k.price \in Int /\ k.estimate \in Nat /\ k.reserved \in Nat /\ k.paid["user"] \in Int
          /\ k.paid["user"] \in {0, k.reserved, k.price} /\ k.reserved \in {0, k.estimate}
      BY <3>2 DEF MediaCallType, MediaCallBooks, Ledgers
    <3>4. f[c] = MediaOver(k) /\ g[c] = Unreserved(c) BY <3>1 DEF Overs
    <3>5. Unreserved(c) = IF mode.batch THEN AtLeast0(k.price) + k.estimate ELSE AtLeast0(k.price - k.reserved)
      BY <3>1 DEF Unreserved
    <3> HIDE DEF f, g
    <3>6. Unreserved(c) \in Nat BY <3>3, <3>5 DEF AtLeast0
    <3>7. MediaOver(k) \in Nat BY <3>2, MediaOverNat
    <3>8. MediaOver(k) <= Unreserved(c)
      <4>1. CASE mode.batch
        <5>1. AtLeast0(k.paid["user"] - 0) <= AtLeast0(k.price) + k.estimate BY <3>3 DEF AtLeast0
        <5>2. MediaOver(k) \in {0, AtLeast0(k.paid["user"] - 0)} BY <4>1 DEF MediaOver
        <5>3. QED BY <4>1, <3>5, <3>6, <5>1, <5>2
      <4>2. CASE ~mode.batch
        <5>1. AtLeast0(k.paid["user"] - k.reserved) <= AtLeast0(k.price - k.reserved) BY <3>3 DEF AtLeast0
        <5>2. MediaOver(k) \in {0, AtLeast0(k.paid["user"] - k.reserved)} BY <4>2 DEF MediaOver
        <5>3. QED BY <4>2, <3>5, <3>6, <5>1, <5>2
      <4>3. QED BY <4>1, <4>2
    <3>9. QED BY <3>1, <3>4, <3>6, <3>7, <3>8
  <2>2. E \in SUBSET MediaCalls /\ IsFiniteSet(E) BY FS_Subset, MediaAssumption
  <2>3. ASSUME NEW c \in MediaCalls \ E PROVE f[c] = 0
    BY DEF Overs, MediaOver, MediaExempt, Exempt
  <2>4. OverdraftMeansMisled <=> (~extra.short => Pool("user") >= -SumFunctionOnSet(g, E))
    BY DEF OverdraftMeansMisled
  <2>5. ~extra.short => Pool("user") >= -SumFunctionOnSet(f, MediaCalls) BY DEF MediaInv, MediaCovered
  <2> HIDE DEF f, g, E
  <2>6. SumFunctionOnSet(f, MediaCalls) = SumFunctionOnSet(f, E)
    BY <2>1, <2>2, <2>3, SumOfNonzero, MediaAssumption
  <2>7. SumFunctionOnSet(f, E) <= SumFunctionOnSet(g, E) BY <2>1, <2>2, SumIsMonotonic
  <2>8. SumFunctionOnSet(f, E) \in Int /\ SumFunctionOnSet(g, E) \in Int BY <2>1, <2>2, SumIsInt
  <2>9. Pool("user") \in Int BY MediaPoolType DEF MediaInv
  <2>10. QED BY <2>4, <2>5, <2>6, <2>7, <2>8, <2>9
<1>4. QED BY <1>1, <1>2, <1>3 DEF MediaIsPaidOnce

\* Whatever the calls, their prices, the settings and the order of their steps, an
\* image or audio call pays its cost once, from the user and from a capped token,
\* and the balance falls below zero only over what a call could not have known.
THEOREM MediaCallsPayOnce == MediaSpec => [](MediaTypeOK /\ MediaIsPaidOnce)
<1>1. MediaInv /\ [MediaNext]_mediaVars => MediaInv' BY MediaSteps
<1>2. QED BY <1>1, MediaStart, MediaInvImplies, PTL DEF MediaSpec

-----------------------------------------------------------------------------
(* The answers. *)

\* How often a kind of chunk occurs in what was sent.
Count(s, kind) == Cardinality({i \in DOMAIN s : s[i] = kind})
\* The kinds of chunk a client is sent, and the fields of a handler.
ChunkKinds == {"text", "tool", "args", "stop", "empty", "raw", "DONE", "body"}
HandlerFields == {"text", "sent", "done", "closed", "call", "usage"}

\* The types of a usage and of a handler between two lines.
UsageType(u) ==
  /\ DOMAIN u = {"known", "prompt", "completion", "total"} /\ u.known \in BOOLEAN
  /\ u.prompt \in Nat /\ u.completion \in Nat /\ u.total \in Nat
HandlerType(h) ==
  /\ DOMAIN h = HandlerFields /\ h.text \in Nat /\ h.sent = <<>> /\ h.done \in BOOLEAN /\ h.closed \in BOOLEAN
  /\ h.call \in {"none", "open", "whole"} /\ UsageType(h.usage)

\* One more chunk.
LEMMA CountAppend ==
  ASSUME NEW s \in Seq(ChunkKinds), NEW c \in ChunkKinds, NEW kind
  PROVE  /\ Append(s, c) \in Seq(ChunkKinds) /\ Count(s, kind) \in Nat
         /\ Count(Append(s, c), kind) = IF c = kind THEN Count(s, kind) + 1 ELSE Count(s, kind)
         /\ Append(s, c)[Len(Append(s, c))] = c
<1> DEFINE t == Append(s, c)
           S == {i \in DOMAIN s : s[i] = kind}
           T == {i \in DOMAIN t : t[i] = kind}
           n == Len(s)
<1>1. /\ n \in Nat /\ DOMAIN s = 1 .. n /\ t \in Seq(ChunkKinds) /\ DOMAIN t = 1 .. (n + 1)
      /\ t[n + 1] = c /\ Len(t) = n + 1 /\ \A i \in 1 .. n : t[i] = s[i]
  OBVIOUS
<1>2. IsFiniteSet(S)
  <2>1. IsFiniteSet(1 .. n) BY <1>1, FS_Interval
  <2>2. S \subseteq 1 .. n BY <1>1
  <2>3. QED BY <2>1, <2>2, FS_Subset
<1>3. n + 1 \notin S BY <1>1
<1>4. T = IF c = kind THEN S \cup {n + 1} ELSE S
  <2> HIDE DEF t
  <2>1. \A i : i \in 1 .. (n + 1) <=> i \in 1 .. n \/ i = n + 1 BY <1>1
  <2>2. QED BY <1>1, <2>1
<1>5. Cardinality(S) \in Nat BY <1>2, FS_CardinalityType
<1>6. Cardinality(S \cup {n + 1}) = Cardinality(S) + 1 BY <1>2, <1>3, FS_AddElement
<1> HIDE DEF t, S, T
<1>7. Cardinality(T) = IF c = kind THEN Cardinality(S) + 1 ELSE Cardinality(S) BY <1>4, <1>6
<1>8. QED BY <1>1, <1>5, <1>7 DEF Count, t, S, T

\* What a line or the end of a stream adds to what was sent.
LEMMA SentAppend ==
  ASSUME NEW s \in Seq(ChunkKinds), NEW c \in ChunkKinds, NEW d \in ChunkKinds
  PROVE  s \o <<>> = s /\ s \o <<c>> = Append(s, c) /\ s \o <<c, d>> = Append(Append(s, c), d)
<1>1. s \o <<>> = s BY ConcatEmptySeq
<1>2. s \o <<c>> = Append(s, c) BY AppendIsConcat
<1>3. PICK p \in Seq(ChunkKinds) : p = <<c, d>> /\ Len(p) = 2 /\ p[1] = c /\ p[2] = d
  <2>1. <<c, d>> \in Seq(ChunkKinds) /\ Len(<<c, d>>) = 2 OBVIOUS
  <2>2. QED BY <2>1
<1>4. PICK a \in Seq(ChunkKinds) : a = Append(s, c) /\ Len(a) = Len(s) + 1 /\ a[Len(s) + 1] = c
                               /\ \A i \in 1 .. Len(s) : a[i] = s[i]
  <2>1. /\ Append(s, c) \in Seq(ChunkKinds) /\ Len(Append(s, c)) = Len(s) + 1
        /\ Append(s, c)[Len(s) + 1] = c /\ \A i \in 1 .. Len(s) : Append(s, c)[i] = s[i]
    BY AppendProperties
  <2>2. QED BY <2>1
<1>5. PICK b : b = Append(a, d) OBVIOUS
<1>b. /\ b \in Seq(ChunkKinds) /\ Len(b) = Len(s) + 2 /\ b[Len(s) + 2] = d
      /\ \A i \in 1 .. (Len(s) + 1) : b[i] = a[i]
  <2>1. /\ b \in Seq(ChunkKinds) /\ Len(b) = Len(a) + 1
        /\ b[Len(a) + 1] = d /\ \A i \in 1 .. Len(a) : b[i] = a[i]
    BY <1>5, AppendProperties
  <2>2. Len(s) \in Nat OBVIOUS
  <2>3. Len(a) + 1 = Len(s) + 2 BY <2>2, <1>4
  <2>4. QED BY <1>4, <2>1, <2>3
<1>6. /\ s \o p \in Seq(ChunkKinds) /\ Len(s \o p) = Len(s) + 2
      /\ \A i \in 1 .. Len(s) + 2 : (s \o p)[i] = IF i <= Len(s) THEN s[i] ELSE p[i - Len(s)]
  BY <1>3, ConcatProperties
<1>7. \A i \in 1 .. Len(b) : b[i] = (s \o p)[i]
  <2>1. Len(s) \in Nat OBVIOUS
  <2>2. QED BY <1>3, <1>4, <1>b, <1>6, <2>1
<1>8. b = s \o p BY <1>b, <1>6, <1>7, SeqEqual
<1>9. QED BY <1>1, <1>2, <1>3, <1>4, <1>5, <1>8

\* t is s and the chunk c, if it is one.
Adds(s, t, c) ==
  /\ t \in Seq(ChunkKinds)
  /\ \A kind \in ChunkKinds : Count(s, kind) \in Nat /\ Count(t, kind) = IF c = kind THEN Count(s, kind) + 1 ELSE Count(s, kind)
\* The chunk of a line, if it has one, is the only one that was added.
LEMMA Rendered ==
  ASSUME NEW s \in Seq(ChunkKinds), NEW c \in ChunkKinds \cup {"none"}, NEW t, NEW r,
         r = (IF c = "none" THEN <<>> ELSE <<c>>), t = s \o r
  PROVE  Adds(s, t, c)
<1>0. "none" \notin ChunkKinds /\ "text" \in ChunkKinds BY DEF ChunkKinds
<1>1. \A kind : Count(s, kind) \in Nat BY <1>0, CountAppend
<1>2. CASE c = "none"
  <2>1. t = s BY <1>2, <1>0, SentAppend
  <2>2. QED BY <1>0, <1>1, <1>2, <2>1 DEF Adds
<1>3. CASE c # "none"
  <2>1. t = Append(s, c) BY <1>3, SentAppend
  <2>0. c \in ChunkKinds BY <1>3
  <2>2. t \in Seq(ChunkKinds) BY <2>0, <2>1, CountAppend
  <2>3. ASSUME NEW kind \in ChunkKinds PROVE Count(t, kind) = IF c = kind THEN Count(s, kind) + 1 ELSE Count(s, kind)
    <3>1. Count(Append(s, c), kind) = IF c = kind THEN Count(s, kind) + 1 ELSE Count(s, kind) BY <2>0, CountAppend
    <3>2. QED BY <2>1, <3>1
  <2>4. QED BY <1>1, <2>2, <2>3 DEF Adds
<1>4. QED BY <1>2, <1>3

\* A line of kind k makes g of the handler h and renders the chunk c: every text
\* that can be decoded, and nothing else, is rendered as a text.
Heard(h, g, c) ==
  /\ DOMAIN g = HandlerFields /\ g.sent = (IF c = "none" THEN <<>> ELSE <<c>>)
  /\ g.text = IF c = "text" THEN h.text + 1 ELSE h.text
Keeps(h, g) ==
  (g.done <=> h.done) /\ g.done \in BOOLEAN /\ g.closed \in BOOLEAN /\ g.call \in {"none", "open", "whole"}
Passes(h, g, c, k) ==
  c \in ChunkKinds \cup {"none"} /\ Heard(h, g, c) /\ (k # "junk" => (c = "text" <=> k = "text"))

\* A line that renders one chunk.
LEMMA Says ==
  ASSUME NEW h, HandlerType(h), NEW c, NEW u, NEW g, g = Say(h, c, u)
  PROVE  Heard(h, g, c) /\ Keeps(h, g) /\ g.usage = u /\ g.call = h.call /\ (g.closed <=> h.closed)
<1>1. DOMAIN g = HandlerFields /\ g.usage = u /\ g.call = h.call /\ g.done = h.done /\ g.closed = h.closed
  BY DEF Say, HandlerType, HandlerFields
<1>2. g.sent = (IF c = "none" THEN <<>> ELSE <<c>>)
  <2>1. c = "none" => g.sent = h.sent BY DEF Say, HandlerType, HandlerFields
  <2>2. c # "none" => g.sent = Append(h.sent, c) BY DEF Say, HandlerType, HandlerFields
  <2>3. Append(<<>>, c) = <<c>> OBVIOUS
  <2>4. QED BY <2>1, <2>2, <2>3 DEF HandlerType
<1>3. g.text = IF c = "text" THEN h.text + 1 ELSE h.text BY DEF Say, HandlerType, HandlerFields
<1>4. QED BY <1>1, <1>2, <1>3 DEF Heard, Keeps, HandlerType

\* A line that renders none.
LEMMA Silent ==
  ASSUME NEW h, HandlerType(h) PROVE Heard(h, h, "none") /\ Keeps(h, h)
BY DEF Heard, Keeps, HandlerType

\* The numbers of a usage.
LEMMA Usages ==
  ASSUME NEW p \in Nat, NEW c \in Nat
  PROVE  /\ UsageType(UsageOf(p, c)) /\ UsageOf(p, c).known
         /\ UsageOf(p, c).prompt = p /\ UsageOf(p, c).completion = c /\ UsageOf(p, c).total = p + c
         /\ UsageType(TotalOnly(c)) /\ TotalOnly(c).known
         /\ TotalOnly(c).prompt = 0 /\ TotalOnly(c).completion = 0 /\ TotalOnly(c).total = c
         /\ UsageType(NoUsage) /\ ~NoUsage.known
         /\ NoUsage.prompt = 0 /\ NoUsage.completion = 0 /\ NoUsage.total = 0
BY DEF UsageOf, TotalOnly, NoUsage, UsageType

\* A handler that skips what it cannot decode hears a line of kind k: one chunk
\* or none, and usage u.
Hears(h, g, k, u) ==
  \E c : Passes(h, g, c, k) /\ Keeps(h, g) /\ c # "DONE" /\ g.usage = u
\* A line rendered as one chunk, or none, that is a text exactly when the line is.
LEMMA HearsSay ==
  ASSUME NEW h, HandlerType(h), NEW c \in ChunkKinds \cup {"none"}, c # "DONE", NEW u, NEW k, k # "junk",
         c = "text" <=> k = "text", NEW g, g = Say(h, c, u)
  PROVE  Hears(h, g, k, u)
<1>1. Heard(h, g, c) /\ Keeps(h, g) /\ g.usage = u BY Says
<1>2. QED BY <1>1 DEF Hears, Passes
\* A line that is skipped, unless it held a text.
LEMMA HearsNothing ==
  ASSUME NEW h, HandlerType(h), NEW k, k # "text" PROVE Hears(h, h, k, h.usage)
<1>1. Heard(h, h, "none") /\ Keeps(h, h) BY Silent
<1>2. Passes(h, h, "none", k) BY <1>1 DEF Passes
<1>3. QED BY <1>1, <1>2 DEF Hears

\* Gemini's line: no usage is taken over.
LEMMA HearsGemini ==
  ASSUME NEW h, HandlerType(h), NEW l, l.kind \in {"text", "tool", "stop", "junk"}
  PROVE  Hears(h, GeminiStreamHandler(h, l), l.kind, h.usage)
<1>1. CASE l.kind = "junk" BY <1>1, HearsNothing DEF GeminiStreamHandler, Skipping
<1>2. CASE l.kind # "junk"
  <2>1. PICK c : c = streamResponseGeminiChat2OpenAI(l) OBVIOUS
  <2>2. c \in ChunkKinds \cup {"none"} /\ c # "DONE" /\ (c = "text" <=> l.kind = "text")
    BY <1>2, <2>1 DEF streamResponseGeminiChat2OpenAI, Kept, ChunkKinds
  <2>3. GeminiStreamHandler(h, l) = Say(h, c, h.usage) BY <1>2, <2>1 DEF GeminiStreamHandler, Skipping
  <2>4. QED BY <1>2, <2>2, <2>3, HearsSay
<1>3. QED BY <1>1, <1>2

\* Baidu's line: a usage with a total is taken over.
LEMMA HearsBaidu ==
  ASSUME NEW h, HandlerType(h), NEW l, l.kind \in {"text", "stop", "empty", "junk"}
  PROVE  Hears(h, BaiduStreamHandler(h, l), l.kind, IF l.kind = "junk" THEN h.usage ELSE BaiduUsage(h, l))
<1>1. CASE l.kind = "junk" BY <1>1, HearsNothing DEF BaiduStreamHandler, Skipping
<1>2. CASE l.kind # "junk"
  <2>1. PICK c : c = streamResponseBaidu2OpenAI(l) OBVIOUS
  <2>2. c \in ChunkKinds \cup {"none"} /\ c # "DONE" /\ (c = "text" <=> l.kind = "text")
    BY <1>2, <2>1 DEF streamResponseBaidu2OpenAI, Kept, ChunkKinds
  <2>3. BaiduStreamHandler(h, l) = Say(h, c, BaiduUsage(h, l)) BY <1>2, <2>1 DEF BaiduStreamHandler, Skipping
  <2>4. QED BY <1>2, <2>2, <2>3, HearsSay
<1>3. QED BY <1>1, <1>2

\* Tencent's line: no usage is taken over.
LEMMA HearsTencent ==
  ASSUME NEW h, HandlerType(h), NEW l, l.kind \in {"text", "stop", "empty", "junk"}
  PROVE  Hears(h, TencentStreamHandler(h, l), l.kind, h.usage)
<1>1. CASE l.kind = "junk" BY <1>1, HearsNothing DEF TencentStreamHandler, Skipping
<1>2. CASE l.kind # "junk"
  <2>1. PICK c : c = streamResponseTencent2OpenAI(l) OBVIOUS
  <2>2. c \in ChunkKinds \cup {"none"} /\ c # "DONE" /\ (c = "text" <=> l.kind = "text")
    BY <1>2, <2>1 DEF streamResponseTencent2OpenAI, Kept, ChunkKinds
  <2>3. TencentStreamHandler(h, l) = Say(h, c, h.usage) BY <1>2, <2>1 DEF TencentStreamHandler, Skipping
  <2>4. QED BY <1>2, <2>2, <2>3, HearsSay
<1>3. QED BY <1>1, <1>2

\* Ollama's line: a usage with a completion is taken over.
LEMMA HearsOllama ==
  ASSUME NEW h, HandlerType(h), NEW l, l.kind \in {"text", "stop", "empty", "junk"}
  PROVE  Hears(h, OllamaStreamHandler(h, l), l.kind, IF l.kind = "junk" THEN h.usage ELSE (IF l.usage.completion = 0 THEN h.usage ELSE l.usage))
<1>1. CASE l.kind = "junk" BY <1>1, HearsNothing DEF OllamaStreamHandler, Skipping
<1>2. CASE l.kind # "junk"
  <2>1. PICK c : c = streamResponseOllama2OpenAI(l) OBVIOUS
  <2>2. c \in ChunkKinds \cup {"none"} /\ c # "DONE" /\ (c = "text" <=> l.kind = "text")
    BY <1>2, <2>1 DEF streamResponseOllama2OpenAI, Kept, ChunkKinds
  <2>3. OllamaStreamHandler(h, l) = Say(h, c, (IF l.usage.completion = 0 THEN h.usage ELSE l.usage)) BY <1>2, <2>1 DEF OllamaStreamHandler, Skipping
  <2>4. QED BY <1>2, <2>2, <2>3, HearsSay
<1>3. QED BY <1>1, <1>2

\* Ali's line: a usage with a completion is taken over.
LEMMA HearsAli ==
  ASSUME NEW h, HandlerType(h), NEW l, l.kind \in {"text", "tool", "stop", "empty", "junk"}
  PROVE  Hears(h, AliStreamHandler(h, l), l.kind, IF l.kind = "junk" THEN h.usage ELSE (IF l.usage.completion = 0 THEN h.usage ELSE l.usage))
<1>1. CASE l.kind = "junk" BY <1>1, HearsNothing DEF AliStreamHandler, Skipping
<1>2. CASE l.kind # "junk"
  <2>1. PICK c : c = streamResponseAli2OpenAI(l) OBVIOUS
  <2>2. c \in ChunkKinds \cup {"none"} /\ c # "DONE" /\ (c = "text" <=> l.kind = "text")
    BY <1>2, <2>1 DEF streamResponseAli2OpenAI, ChunkKinds
  <2>3. AliStreamHandler(h, l) = Say(h, c, (IF l.usage.completion = 0 THEN h.usage ELSE l.usage)) BY <1>2, <2>1 DEF AliStreamHandler, Skipping
  <2>4. QED BY <1>2, <2>2, <2>3, HearsSay
<1>3. QED BY <1>1, <1>2

\* Coze's line: no usage is taken over.
LEMMA HearsCoze ==
  ASSUME NEW h, HandlerType(h), NEW l, l.kind \in {"text", "skip", "empty", "junk"}
  PROVE  Hears(h, CozeStreamHandler(h, l), l.kind, h.usage)
<1>1. CASE l.kind = "junk" BY <1>1, HearsNothing DEF CozeStreamHandler, Skipping
<1>2. CASE l.kind # "junk"
  <2>1. PICK c : c = StreamResponseCoze2OpenAI(l) OBVIOUS
  <2>2. c \in ChunkKinds \cup {"none"} /\ c # "DONE" /\ (c = "text" <=> l.kind = "text")
    BY <1>2, <2>1 DEF StreamResponseCoze2OpenAI, Kept, ChunkKinds
  <2>3. CozeStreamHandler(h, l) = Say(h, c, h.usage) BY <1>2, <2>1 DEF CozeStreamHandler, Skipping
  <2>4. QED BY <1>2, <2>2, <2>3, HearsSay
<1>3. QED BY <1>1, <1>2

\* AIProxy's line: no usage is taken over.
LEMMA HearsAIProxy ==
  ASSUME NEW h, HandlerType(h), NEW l, l.kind \in {"text", "empty", "junk"}
  PROVE  Hears(h, AIProxyStreamHandler(h, l), l.kind, h.usage)
<1>1. CASE l.kind = "junk" BY <1>1, HearsNothing DEF AIProxyStreamHandler, Skipping
<1>2. CASE l.kind # "junk"
  <2>1. PICK c : c = streamResponseAIProxyLibrary2OpenAI(l) OBVIOUS
  <2>2. c \in ChunkKinds \cup {"none"} /\ c # "DONE" /\ (c = "text" <=> l.kind = "text")
    BY <1>2, <2>1 DEF streamResponseAIProxyLibrary2OpenAI, Kept, ChunkKinds
  <2>3. AIProxyStreamHandler(h, l) = Say(h, c, h.usage) BY <1>2, <2>1 DEF AIProxyStreamHandler, Skipping
  <2>4. QED BY <1>2, <2>2, <2>3, HearsSay
<1>3. QED BY <1>1, <1>2

\* Cohere's line: the usage of the last one is added.
LEMMA HearsCohere ==
  ASSUME NEW h, HandlerType(h), NEW l, l.kind \in {"start", "text", "stop", "skip", "junk"}
  PROVE  Hears(h, CohereStreamHandler(h, l), l.kind, IF l.kind = "junk" THEN h.usage ELSE (IF l.kind = "stop" THEN Plus(h, l) ELSE h.usage))
<1>1. CASE l.kind = "junk" BY <1>1, HearsNothing DEF CohereStreamHandler, Skipping
<1>2. CASE l.kind # "junk"
  <2>1. PICK c : c = IF l.kind = "stop" THEN "none" ELSE StreamResponseCohere2OpenAI(l) OBVIOUS
  <2>2. c \in ChunkKinds \cup {"none"} /\ c # "DONE" /\ (c = "text" <=> l.kind = "text")
    BY <1>2, <2>1 DEF StreamResponseCohere2OpenAI, ChunkKinds
  <2>3. CohereStreamHandler(h, l) = Say(h, c, (IF l.kind = "stop" THEN Plus(h, l) ELSE h.usage)) BY <1>2, <2>1 DEF CohereStreamHandler, Skipping
  <2>4. QED BY <1>2, <2>2, <2>3, HearsSay
<1>3. QED BY <1>1, <1>2

\* Zhipu's line: the usage of the last one is taken over.
LEMMA HearsZhipu ==
  ASSUME NEW h, HandlerType(h), NEW l, l.kind \in {"text", "stop"}
  PROVE  Hears(h, ZhipuStreamHandler(h, l), l.kind, IF l.kind = "stop" THEN l.usage ELSE h.usage)
<1>1. PICK c : c = IF l.kind = "stop" THEN "stop" ELSE "text" OBVIOUS
<1>2. c \in ChunkKinds \cup {"none"} /\ c # "DONE" /\ (c = "text" <=> l.kind = "text") BY <1>1 DEF ChunkKinds
<1>3. ZhipuStreamHandler(h, l) = Say(h, c, IF l.kind = "stop" THEN l.usage ELSE h.usage)
  BY <1>1 DEF ZhipuStreamHandler, streamMetaResponseZhipu2OpenAI, streamResponseZhipu2OpenAI
<1>4. QED BY <1>2, <1>3, HearsSay

\* Cloudflare's line: [DONE] ends the loop and is not rendered.
LEMMA HearsCloudflare ==
  ASSUME NEW h, HandlerType(h), NEW l, l.kind \in {"text", "done", "junk"}
  PROVE  Hears(h, CloudflareStreamHandler(h, l), l.kind, h.usage)
<1>1. CASE l.kind = "junk" BY <1>1, HearsNothing DEF CloudflareStreamHandler, Skipping
<1>2. CASE l.kind = "text"
  <2>1. CloudflareStreamHandler(h, l) = Say(h, l.kind, h.usage) BY <1>2 DEF CloudflareStreamHandler, Skipping
  <2>2. QED BY <1>2, <2>1, HearsSay DEF ChunkKinds
<1>3. CASE l.kind = "done"
  <2>1. PICK g : g = [h EXCEPT !.closed = TRUE] OBVIOUS
  <2>2. /\ DOMAIN g = HandlerFields /\ g.sent = <<>> /\ g.text = h.text /\ g.done = h.done /\ g.call = h.call
        /\ g.closed \in BOOLEAN /\ g.usage = h.usage
    BY <2>1 DEF HandlerType, HandlerFields
  <2>3. Passes(h, g, "none", l.kind) /\ Keeps(h, g) BY <1>3, <2>2 DEF Passes, Heard, Keeps, HandlerType
  <2>4. Hears(h, g, l.kind, h.usage) BY <2>2, <2>3 DEF Hears
  <2>5. QED BY <1>3, <2>1, <2>4 DEF CloudflareStreamHandler
<1>4. QED BY <1>1, <1>2, <1>3

\* A handler that passes [DONE] on.
Rings(h, g, k, u) ==
  \E c : /\ Passes(h, g, c, k) /\ (c = "DONE" <=> k = "done") /\ (g.done <=> h.done \/ k = "done")
         /\ g.done \in BOOLEAN /\ g.closed \in BOOLEAN /\ g.call \in {"none", "open", "whole"} /\ g.usage = u
\* A line other than [DONE], at a handler that passes [DONE] on.
LEMMA RingsSay ==
  ASSUME NEW h, HandlerType(h), NEW c \in ChunkKinds \cup {"none"}, c # "DONE", NEW u, NEW k, k # "done",
         k # "junk" => (c = "text" <=> k = "text"), NEW g, g = Say(h, c, u)
  PROVE  Rings(h, g, k, u)
<1>1. Heard(h, g, c) /\ Keeps(h, g) /\ g.usage = u BY Says
<1>2. QED BY <1>1 DEF Rings, Passes, Keeps
\* [DONE] itself: rendered and remembered, so that the end does not send it again.
LEMMA RingsDone ==
  ASSUME NEW h, HandlerType(h), NEW g, g = [Say(h, "DONE", h.usage) EXCEPT !.done = TRUE]
  PROVE  Rings(h, g, "done", h.usage) /\ g.closed = h.closed
<1>1. PICK s : s = Say(h, "DONE", h.usage) OBVIOUS
<1>2. Heard(h, s, "DONE") /\ Keeps(h, s) /\ s.usage = h.usage /\ (s.closed <=> h.closed) BY <1>1, Says
<1>3. /\ DOMAIN g = HandlerFields /\ g.done /\ g.done \in BOOLEAN /\ g.sent = s.sent /\ g.text = s.text
      /\ g.usage = s.usage /\ g.closed = s.closed /\ g.call = s.call
  BY <1>1, <1>2 DEF Heard, HandlerFields
<1>4. Heard(h, g, "DONE") BY <1>2, <1>3 DEF Heard
<1>5. Passes(h, g, "DONE", "done") BY <1>4 DEF Passes, ChunkKinds
<1>6. QED BY <1>2, <1>3, <1>5 DEF Rings, Keeps, HandlerType

\* OpenAI's chat line: a known usage replaces the last, and a line that cannot be
\* decoded is passed on as it is.
LEMMA RingsOpenai ==
  ASSUME NEW h, HandlerType(h), NEW l, l.kind \in {"text", "tool", "stop", "empty", "done", "junk"}
  PROVE  Rings(h, OpenaiStreamHandler(h, l), l.kind,
               IF l.usage.known /\ l.kind \notin {"done", "junk"} THEN l.usage ELSE h.usage)
<1>1. CASE l.kind = "done" BY <1>1, RingsDone DEF OpenaiStreamHandler
<1>2. CASE l.kind = "junk"
  <2>1. OpenaiStreamHandler(h, l) = Say(h, "raw", h.usage) BY <1>2 DEF OpenaiStreamHandler
  <2>2. QED BY <1>2, <2>1, RingsSay DEF ChunkKinds
<1>3. CASE l.kind = "empty" /\ ~l.usage.known
  <2>1. OpenaiStreamHandler(h, l) = h BY <1>3 DEF OpenaiStreamHandler
  <2>2. Passes(h, h, "none", l.kind) BY <1>3, Silent DEF Passes
  <2>3. QED BY <1>3, <2>1, <2>2 DEF Rings, HandlerType
<1>4. CASE l.kind \notin {"done", "junk"} /\ ~(l.kind = "empty" /\ ~l.usage.known)
  <2>1. OpenaiStreamHandler(h, l) = Say(h, l.kind, Replace(h, l)) BY <1>4 DEF OpenaiStreamHandler
  <2>2. l.kind \in ChunkKinds /\ l.kind # "DONE" BY <1>4 DEF ChunkKinds
  <2>3. Replace(h, l) = IF l.usage.known /\ l.kind \notin {"done", "junk"} THEN l.usage ELSE h.usage
    BY <1>4 DEF Replace
  <2>4. QED BY <1>4, <2>1, <2>2, <2>3, RingsSay
<1>5. QED BY <1>1, <1>2, <1>3, <1>4

\* OpenAI's completion line: no usage is taken over.
LEMMA RingsCompletions ==
  ASSUME NEW h, HandlerType(h), NEW l, l.kind \in {"text", "stop", "done", "junk"}
  PROVE  Rings(h, OpenaiCompletions(h, l), l.kind, h.usage)
<1>1. CASE l.kind = "done" BY <1>1, RingsDone DEF OpenaiCompletions
<1>2. CASE l.kind # "done"
  <2>1. PICK c : c = IF l.kind = "junk" THEN "raw" ELSE l.kind OBVIOUS
  <2>2. c \in ChunkKinds /\ c # "DONE" /\ (l.kind # "junk" => (c = "text" <=> l.kind = "text")) BY <1>2, <2>1 DEF ChunkKinds
  <2>3. OpenaiCompletions(h, l) = Say(h, c, h.usage) BY <1>2, <2>1 DEF OpenaiCompletions
  <2>4. QED BY <1>2, <2>2, <2>3, RingsSay
<1>3. QED BY <1>1, <1>2

\* Replicate's event: [DONE] also ends the loop.
LEMMA RingsReplicate ==
  ASSUME NEW h, HandlerType(h), NEW l, l.kind \in {"text", "done", "skip"}
  PROVE  /\ Rings(h, chatStreamHandler(h, l), l.kind, h.usage)
         /\ l.kind = "done" => chatStreamHandler(h, l).closed
         /\ l.kind # "done" => (chatStreamHandler(h, l).closed <=> h.closed)
<1>1. CASE l.kind = "done"
  <2>1. PICK s : s = [Say(h, "DONE", h.usage) EXCEPT !.done = TRUE] OBVIOUS
  <2>2. PICK g : g = [s EXCEPT !.closed = TRUE] OBVIOUS
  <2>3. chatStreamHandler(h, l) = g
    <3>1. PICK r : r = Say(h, "DONE", h.usage) OBVIOUS
    <3>2. chatStreamHandler(h, l) = [r EXCEPT !.done = TRUE, !.closed = TRUE] BY <1>1, <3>1 DEF chatStreamHandler
    <3>3. [r EXCEPT !.done = TRUE, !.closed = TRUE] = [[r EXCEPT !.done = TRUE] EXCEPT !.closed = TRUE] OBVIOUS
    <3>4. QED BY <2>1, <2>2, <3>1, <3>2, <3>3
  <2>4. Rings(h, s, "done", h.usage) BY <2>1, RingsDone
  <2>5. PICK c : /\ Passes(h, s, c, "done") /\ c = "DONE" /\ s.done /\ s.done \in BOOLEAN
                 /\ s.call \in {"none", "open", "whole"} /\ s.usage = h.usage
    BY <2>4 DEF Rings
  <2>6. /\ DOMAIN g = HandlerFields /\ g.sent = s.sent /\ g.text = s.text /\ g.done = s.done /\ g.closed
        /\ g.closed \in BOOLEAN /\ g.call = s.call /\ g.usage = s.usage
    BY <2>2, <2>5 DEF Passes, Heard, HandlerFields
  <2>7. Passes(h, g, c, "done") BY <2>5, <2>6 DEF Passes, Heard
  <2>8. Rings(h, g, "done", h.usage) BY <2>5, <2>6, <2>7 DEF Rings
  <2>9. QED BY <1>1, <2>3, <2>6, <2>8
<1>2. CASE l.kind = "text"
  <2>1. chatStreamHandler(h, l) = Say(h, "text", h.usage) BY <1>2 DEF chatStreamHandler
  <2>2. Rings(h, chatStreamHandler(h, l), l.kind, h.usage) BY <1>2, <2>1, RingsSay DEF ChunkKinds
  <2>3. QED BY <1>2, <2>1, <2>2, Says
<1>3. CASE l.kind = "skip"
  <2>1. chatStreamHandler(h, l) = h BY <1>3 DEF chatStreamHandler
  <2>2. Passes(h, h, "none", l.kind) BY <1>3, Silent DEF Passes
  <2>3. QED BY <1>3, <2>1, <2>2 DEF Rings, HandlerType
<1>4. QED BY <1>1, <1>2, <1>3

\* Xunfei's frame: usages are added, the last frame and one that cannot be
\* decoded end the loop.
LEMMA HearsXunfei ==
  ASSUME NEW h, HandlerType(h), NEW l, l.kind \in {"text", "tool", "stop", "junk"}
  PROVE  Hears(h, XunfeiStreamHandler(h, l), l.kind, IF l.kind = "junk" THEN h.usage ELSE Plus(h, l))
<1>1. PICK v : v = (l.kind = "stop") OBVIOUS
<1>2. CASE l.kind = "junk"
  <2>1. PICK g : g = [h EXCEPT !.closed = TRUE] OBVIOUS
  <2>2. /\ DOMAIN g = HandlerFields /\ g.sent = <<>> /\ g.text = h.text /\ g.done = h.done /\ g.call = h.call
        /\ g.closed \in BOOLEAN /\ g.usage = h.usage
    BY <2>1 DEF HandlerType, HandlerFields
  <2>3. Passes(h, g, "none", l.kind) /\ Keeps(h, g) BY <1>2, <2>2 DEF Passes, Heard, Keeps, HandlerType
  <2>4. Hears(h, g, l.kind, h.usage) BY <2>2, <2>3 DEF Hears
  <2>5. QED BY <1>2, <2>1, <2>4 DEF XunfeiStreamHandler
<1>3. CASE l.kind # "junk"
  <2>1. PICK c : c = streamResponseXunfei2OpenAI(l) OBVIOUS
  <2>2. PICK s : s = Say(h, c, Plus(h, l)) OBVIOUS
  <2>3. PICK g : g = [s EXCEPT !.closed = (l.kind = "stop")] OBVIOUS
  <2>4. c \in ChunkKinds /\ c # "DONE" /\ (c = "text" <=> l.kind = "text")
    BY <1>3, <2>1 DEF streamResponseXunfei2OpenAI, Kept, ChunkKinds
  <2>5. Heard(h, s, c) /\ Keeps(h, s) /\ s.usage = Plus(h, l) BY <2>2, Says
  <2>6. /\ DOMAIN g = HandlerFields /\ g.sent = s.sent /\ g.text = s.text /\ g.done = s.done /\ g.call = s.call
        /\ g.closed \in BOOLEAN /\ g.usage = s.usage
    BY <2>3, <2>5 DEF Heard, HandlerFields
  <2>7. Passes(h, g, c, l.kind) /\ Keeps(h, g) BY <2>4, <2>5, <2>6 DEF Passes, Heard, Keeps
  <2>8. Hears(h, g, l.kind, Plus(h, l)) BY <2>4, <2>5, <2>6, <2>7 DEF Hears
  <2>9. QED BY <1>3, <2>1, <2>2, <2>3, <2>8 DEF XunfeiStreamHandler
<1>4. QED BY <1>2, <1>3

\* A handler of Claude's events, which follows the tool call in progress.
Calls(h, g, l, u) ==
  \E c : /\ Passes(h, g, c, l.kind) /\ Keeps(h, g) /\ c # "DONE" /\ g.usage = u
         /\ (c = "tool" => g.call = "open" /\ l.kind = "tool") /\ (c \notin {"tool", "args"} => g.call = h.call)
         /\ (l.kind = "stop" /\ l.usage.known /\ h.call = "open" => c = "args")
ClaudeKinds == {"start", "text", "tool", "args", "stop", "empty", "junk"}
\* Anthropic's event: usages are added, and the chunk of a tool call leaves it open.
LEMMA CallsAnthropic ==
  ASSUME NEW h, HandlerType(h), NEW l, l.kind \in ClaudeKinds
  PROVE  Calls(h, AnthropicStreamHandler(h, l), l, IF l.kind = "junk" THEN h.usage ELSE Plus(h, l))
<1>1. CASE l.kind = "junk"
  <2>1. AnthropicStreamHandler(h, l) = h BY <1>1 DEF AnthropicStreamHandler, Skipping
  <2>2. Heard(h, h, "none") /\ Keeps(h, h) BY Silent
  <2>3. Passes(h, h, "none", l.kind) BY <1>1, <2>2 DEF Passes
  <2>4. QED BY <1>1, <2>1, <2>2, <2>3 DEF Calls
<1>2. CASE l.kind # "junk"
  <2>1. PICK c : c = ClosingChunk(h, l) OBVIOUS
  <2>2. PICK s : s = Say(h, c, Plus(h, l)) OBVIOUS
  <2>3. PICK now : now = CASE l.kind = "tool" -> "open" [] c = "args" -> "whole" [] OTHER -> s.call OBVIOUS
  <2>4. PICK g : g = [s EXCEPT !.call = now] OBVIOUS
  <2>5. /\ c \in ChunkKinds \cup {"none"} /\ c # "DONE" /\ (c = "text" <=> l.kind = "text")
        /\ (c = "tool" <=> l.kind = "tool") /\ (l.kind = "stop" /\ l.usage.known /\ h.call = "open" => c = "args")
    BY <1>2, <2>1 DEF ClosingChunk, StreamResponseClaude2OpenAI, Kept, ChunkKinds, ClaudeKinds
  <2>6. Heard(h, s, c) /\ Keeps(h, s) /\ s.usage = Plus(h, l) /\ s.call = h.call BY <2>2, Says
  <2>7. /\ DOMAIN g = HandlerFields /\ g.sent = s.sent /\ g.text = s.text /\ g.done = s.done /\ g.closed = s.closed
        /\ g.call = now /\ g.usage = s.usage
    BY <2>4, <2>6 DEF Heard, HandlerFields
  <2>8. now \in {"none", "open", "whole"} /\ (c = "tool" => now = "open") /\ (c \notin {"tool", "args"} => now = h.call)
    BY <2>3, <2>5, <2>6 DEF HandlerType
  <2>9. Passes(h, g, c, l.kind) /\ Keeps(h, g) BY <2>5, <2>6, <2>7, <2>8 DEF Passes, Heard, Keeps
  <2>10. Calls(h, g, l, Plus(h, l)) BY <2>5, <2>6, <2>7, <2>8, <2>9 DEF Calls
  <2>11. g = AnthropicStreamHandler(h, l)
    BY <1>2, <2>1, <2>2, <2>3, <2>4 DEF AnthropicStreamHandler, Skipping
  <2>12. QED BY <1>2, <2>10, <2>11
<1>3. QED BY <1>1, <1>2

\* An event of AWS that cannot be decoded ends the stream.
Breaks(h, g) ==
  /\ Passes(h, g, "none", "junk") /\ g.done \in BOOLEAN /\ g.closed \in BOOLEAN /\ g.usage = h.usage
  /\ g.call = h.call
\* Leaving the loop renders nothing and keeps usage and tool call.
LEMMA BreaksAws ==
  ASSUME NEW h, HandlerType(h), NEW g, g = [h EXCEPT !.closed = TRUE, !.done = TRUE] PROVE Breaks(h, g)
<1>1. /\ DOMAIN g = HandlerFields /\ g.sent = <<>> /\ g.text = h.text /\ g.done \in BOOLEAN /\ g.closed \in BOOLEAN
      /\ g.usage = h.usage /\ g.call = h.call
  BY DEF HandlerType, HandlerFields
<1>2. QED BY <1>1 DEF Breaks, Passes, Heard

\* Claude's event over AWS: Anthropic's handler, or the loop is left.
LEMMA CallsAwsClaude ==
  ASSUME NEW h, HandlerType(h), NEW l, l.kind \in ClaudeKinds
  PROVE  /\ l.kind # "junk" => Calls(h, AwsClaudeStreamHandler(h, l), l, Plus(h, l))
         /\ l.kind = "junk" => Breaks(h, AwsClaudeStreamHandler(h, l))
BY CallsAnthropic, BreaksAws DEF AwsClaudeStreamHandler

\* The usage Llama's event leaves behind.
LlamaUsage(h, l) ==
  UsageOf(IF l.usage.prompt > 0 THEN l.usage.prompt ELSE h.usage.prompt,
          IF l.kind = "stop" THEN l.usage.completion ELSE h.usage.completion)
\* Llama's event over AWS: a prompt is remembered, the completion is the last
\* event's, or the loop is left.
LEMMA HearsAwsLlama ==
  ASSUME NEW h, HandlerType(h), NEW l, l.kind \in {"text", "stop", "empty", "junk"}
  PROVE  /\ l.kind # "junk" => Hears(h, AwsLlamaStreamHandler(h, l), l.kind, LlamaUsage(h, l))
         /\ l.kind = "junk" => Breaks(h, AwsLlamaStreamHandler(h, l))
<1>1. CASE l.kind = "junk" BY <1>1, BreaksAws DEF AwsLlamaStreamHandler
<1>2. CASE l.kind # "junk"
  <2>1. PICK c : c = StreamResponseLlama2OpenAI(l) OBVIOUS
  <2>2. c \in ChunkKinds \cup {"none"} /\ c # "DONE" /\ (c = "text" <=> l.kind = "text")
    BY <1>2, <2>1 DEF StreamResponseLlama2OpenAI, Kept, ChunkKinds
  <2>3. AwsLlamaStreamHandler(h, l) = Say(h, c, LlamaUsage(h, l)) BY <1>2, <2>1 DEF AwsLlamaStreamHandler, LlamaUsage
  <2>4. QED BY <1>2, <2>2, <2>3, HearsSay
<1>3. QED BY <1>1, <1>2

-----------------------------------------------------------------------------
\* What an adaptor knows of the usage after x texts, before and after the last
\* line (f).
Metered(n, u, x, s, f) ==
  /\ n = "openai" => (u.known => /\ f /\ u.total = PromptTokens + x
                                 /\ \/ u.prompt = PromptTokens /\ u.completion = x
                                    \/ u.prompt = 0 /\ u.completion = 0)
  /\ n = "zhipuV4" => (u.known => f /\ u.prompt = PromptTokens /\ u.completion = x)
  /\ n = "zhipu" => (f => u.known /\ u.prompt = PromptTokens /\ u.completion = x)
  /\ n \in {"anthropic", "awsClaude"} =>
       /\ u.known /\ u.prompt = (IF s THEN PromptTokens ELSE 0) /\ u.completion = (IF f THEN x ELSE 0)
       /\ f => s
  /\ n = "awsLlama" => u.known /\ u.prompt \in {0, PromptTokens} /\ (f => u.completion = x)
  /\ n \in {"cohere", "xunfei"} =>
       /\ u.known /\ u.prompt = (IF f THEN PromptTokens ELSE 0) /\ u.completion = (IF f THEN x ELSE 0)
  /\ n = "baidu" =>
       /\ u.known
       /\ \/ u.prompt + u.completion = PromptTokens + x
          \/ ~f /\ x = 0 /\ u.prompt = 0 /\ u.completion = 0
  /\ n = "ollama" => u.known /\ (f /\ x > 0 => u.prompt = PromptTokens /\ u.completion = x)
  /\ n = "ali" => u.known /\ (x > 0 => u.prompt = PromptTokens /\ u.completion = x)

\* The types of the state; an answer that is no stream has its adaptors.
ToldFields == {"lines", "texts", "started", "final", "damaged", "cut", "dones"}
AnswersWhole ==
  \/ api.mode = "body" /\ api.name \in Bodies
  \/ api.mode = "embedding" /\ api.name \in Embeddings
  \/ api.mode = "whole" /\ api.name \in WholeStreams
AnswersTypes ==
  /\ DOMAIN told = ToldFields /\ told.lines \in 0 .. MaxLines /\ told.texts \in Nat /\ told.dones \in Nat
  /\ told.started \in BOOLEAN /\ told.final \in BOOLEAN /\ told.damaged \in BOOLEAN /\ told.cut \in BOOLEAN
  /\ HandlerType(handler) /\ rendered \in Seq(ChunkKinds)
  /\ api.mode = "stream" => api.name \in Streams
  /\ api.mode # "stream" => AnswersWhole
\* The texts after a line of kind k.
Texts(k) == IF k = "text" THEN told.texts + 1 ELSE told.texts
\* The stream is over after it, but for a report or [DONE].
Final(k) == told.final \/ k = "stop"
\* l is a line of kind k the upstream may say next.
LineOf(k, l) ==
  /\ AnswersTypes /\ api.mode = "stream" /\ k \in Kinds /\ l.kind = k /\ l.usage \in Reports(k)
  /\ (k = "start" <=> ~told.started /\ "start" \in Kinds) /\ (told.final => k \in {"done", "empty"})
  /\ Metered(api.name, handler.usage, told.texts, told.started, told.final)

\* The reports of an honest upstream, adaptor by adaptor.
LEMMA Reported ==
  ASSUME NEW k, NEW l, LineOf(k, l)
  PROVE  /\ UsageType(l.usage) /\ Texts(k) \in Nat
         /\ api.name \in CountsText \cup {"aiproxy"} => l.usage = NoUsage
<1>1. told.texts \in Nat /\ PromptTokens \in Nat BY AnswersAssumption DEF LineOf, AnswersTypes
<1>2. PICK x \in Nat : x = told.texts + (IF k = "text" THEN 1 ELSE 0) BY <1>1
<1>3. Texts(k) = x BY <1>1, <1>2 DEF Texts
<1>4. l.usage \in {NoUsage, UsageOf(PromptTokens, x), TotalOnly(PromptTokens + x), UsageOf(PromptTokens, 0), UsageOf(0, x)}
  BY <1>2 DEF LineOf, Reports
<1>5. PromptTokens + x \in Nat /\ 0 \in Nat BY <1>1
<1>6. UsageType(l.usage)
  <2>1. UsageType(UsageOf(PromptTokens, x)) /\ UsageType(NoUsage) BY <1>1, Usages
  <2>2. UsageType(TotalOnly(PromptTokens + x)) BY <1>5, Usages
  <2>3. UsageType(UsageOf(PromptTokens, 0)) BY <1>1, <1>5, Usages
  <2>4. UsageType(UsageOf(0, x)) BY <1>5, Usages
  <2>5. QED BY <1>4, <2>1, <2>2, <2>3, <2>4
<1>7. api.name \in CountsText \cup {"aiproxy"} => l.usage = NoUsage BY DEF LineOf, Reports, CountsText
<1>8. QED BY <1>3, <1>6, <1>7

\* The usage u reports prompt and completion, nothing, or the total alone.
Holds(u, p, c) == u.known /\ u.prompt = p /\ u.completion = c /\ u.total = p + c
HoldsNone(u) == ~u.known /\ u.prompt = 0 /\ u.completion = 0 /\ u.total = 0
HoldsTotal(u, t) == u.known /\ u.prompt = 0 /\ u.completion = 0 /\ u.total = t
\* The numbers of the usages the model writes down.
LEMMA HoldsUsages ==
  ASSUME NEW p \in Nat, NEW c \in Nat
  PROVE  Holds(UsageOf(p, c), p, c) /\ HoldsTotal(TotalOnly(c), c) /\ HoldsNone(NoUsage)
BY Usages DEF Holds, HoldsTotal, HoldsNone

\* The numbers an honest upstream reports on a line, adaptor by adaptor.
LEMMA ReportedNumbers ==
  ASSUME NEW k, NEW l, LineOf(k, l)
  PROVE  LET u == l.usage  x == Texts(k)  P == PromptTokens IN
         /\ api.name = "openai" =>
              HoldsNone(u) \/ (k = "empty" /\ told.final /\ (Holds(u, P, x) \/ HoldsTotal(u, P + x)))
         /\ api.name = "zhipuV4" => HoldsNone(u) \/ (k = "stop" /\ Holds(u, P, x))
         /\ api.name \in {"anthropic", "awsClaude"} =>
              IF k = "start" THEN Holds(u, P, 0) ELSE IF k = "stop" THEN Holds(u, 0, x) ELSE HoldsNone(u)
         /\ api.name = "awsLlama" => IF k = "stop" THEN Holds(u, 0, x) ELSE HoldsNone(u) \/ Holds(u, P, 0)
         /\ api.name \in {"cohere", "xunfei", "zhipu", "ollama"} => IF k = "stop" THEN Holds(u, P, x) ELSE HoldsNone(u)
         /\ api.name = "baidu" => IF k = "empty" THEN HoldsNone(u) ELSE HoldsTotal(u, P + x) \/ Holds(u, P, x)
         /\ api.name = "ali" => Holds(u, P, x)
<1>1. told.texts \in Nat /\ PromptTokens \in Nat BY AnswersAssumption DEF LineOf, AnswersTypes
<1>2. PICK x \in Nat : x = told.texts + (IF k = "text" THEN 1 ELSE 0) BY <1>1
<1>3. Texts(k) = x BY <1>1, <1>2 DEF Texts
<1>4. PromptTokens + x \in Nat /\ 0 \in Nat BY <1>1
<1>5. Holds(UsageOf(PromptTokens, x), PromptTokens, x) /\ HoldsNone(NoUsage) BY <1>1, HoldsUsages
<1>6. HoldsTotal(TotalOnly(PromptTokens + x), PromptTokens + x) BY <1>4, HoldsUsages
<1>7. Holds(UsageOf(PromptTokens, 0), PromptTokens, 0) BY <1>1, <1>4, HoldsUsages
<1>8. Holds(UsageOf(0, x), 0, x) BY <1>4, HoldsUsages
<1> DEFINE u == l.usage
<1>9. /\ api.name = "openai" => u = NoUsage \/ (k = "empty" /\ told.final /\ (u = UsageOf(PromptTokens, x) \/ u = TotalOnly(PromptTokens + x)))
      /\ api.name = "zhipuV4" => u = NoUsage \/ (k = "stop" /\ u = UsageOf(PromptTokens, x))
      /\ api.name \in {"anthropic", "awsClaude"} =>
           u = IF k = "start" THEN UsageOf(PromptTokens, 0) ELSE IF k = "stop" THEN UsageOf(0, x) ELSE NoUsage
      /\ api.name = "awsLlama" => IF k = "stop" THEN u = UsageOf(0, x) ELSE u = NoUsage \/ u = UsageOf(PromptTokens, 0)
      /\ api.name \in {"cohere", "xunfei", "zhipu", "ollama"} => u = IF k = "stop" THEN UsageOf(PromptTokens, x) ELSE NoUsage
      /\ api.name = "baidu" =>
           IF k = "empty" THEN u = NoUsage ELSE u = TotalOnly(PromptTokens + x) \/ u = UsageOf(PromptTokens, x)
      /\ api.name = "ali" => u = UsageOf(PromptTokens, x)
  BY <1>2 DEF LineOf, Reports
<1> HIDE DEF u
<1>10. QED BY <1>3, <1>5, <1>6, <1>7, <1>8, <1>9 DEF u

\* What the line leaves the adaptor with is metered as well.
Meters(k, v) == UsageType(v) /\ Metered(api.name, v, Texts(k), TRUE, Final(k))
\* What holds whenever an upstream says a line.
LEMMA LineFacts ==
  ASSUME NEW k, NEW l, LineOf(k, l)
  PROVE  /\ UsageType(handler.usage) /\ UsageType(l.usage) /\ Texts(k) \in Nat /\ told.texts \in Nat /\ PromptTokens \in Nat
         /\ (k # "text" => Texts(k) = told.texts) /\ (k = "text" => Texts(k) = told.texts + 1)
         /\ Final(k) \in BOOLEAN /\ told.final \in BOOLEAN /\ (told.final => k \in {"done", "empty"})
         /\ (Final(k) <=> told.final \/ k = "stop")
         /\ Metered(api.name, handler.usage, told.texts, told.started, told.final)
BY AnswersAssumption, Reported DEF LineOf, AnswersTypes, HandlerType, Texts, Final

\* OpenAI's usage, replaced by what is known, is still metered.
LEMMA MetersOpenai ==
  ASSUME NEW k, NEW l, LineOf(k, l), api.name \in {"openai", "zhipuV4"}, NEW v,
         v = IF l.usage.known /\ k \notin {"done", "junk"} THEN l.usage ELSE handler.usage
  PROVE  Meters(k, v)
<1>1. PICK w : w = handler.usage OBVIOUS
<1>2. PICK u : u = l.usage OBVIOUS
<1>3. /\ api.name = "openai" =>
           HoldsNone(u) \/ (k = "empty" /\ told.final /\ (Holds(u, PromptTokens, Texts(k)) \/ HoldsTotal(u, PromptTokens + Texts(k))))
      /\ api.name = "zhipuV4" => HoldsNone(u) \/ (k = "stop" /\ Holds(u, PromptTokens, Texts(k)))
  BY <1>2, ReportedNumbers
<1>4. UsageType(v) BY LineFacts
<1>5. CASE u.known /\ k \notin {"done", "junk"}
  <2>1. v = u BY <1>2, <1>5
  <2>2. Metered(api.name, u, Texts(k), TRUE, Final(k))
    BY <1>3, <1>5, LineFacts DEF Metered, Holds, HoldsNone, HoldsTotal
  <2>3. QED BY <1>4, <2>1, <2>2 DEF Meters
<1>6. CASE ~(u.known /\ k \notin {"done", "junk"})
  <2>1. v = w BY <1>1, <1>2, <1>6
  <2>2. Metered(api.name, w, told.texts, told.started, told.final) BY <1>1, LineFacts
  <2>3. Metered(api.name, w, Texts(k), TRUE, Final(k)) BY <2>2, LineFacts DEF Metered
  <2>4. QED BY <1>4, <2>1, <2>3 DEF Meters
<1>7. QED BY <1>5, <1>6

\* Zhipu's usage, replaced by the last line's, is still metered.
LEMMA MetersZhipu ==
  ASSUME NEW k, NEW l, LineOf(k, l), api.name = "zhipu", NEW v, v = IF k = "stop" THEN l.usage ELSE handler.usage
  PROVE  Meters(k, v)
<1>1. k = "stop" => Holds(l.usage, PromptTokens, Texts(k)) BY ReportedNumbers
<1>2. UsageType(v) BY LineFacts
<1>3. Metered("zhipu", v, Texts(k), TRUE, Final(k)) BY <1>1, LineFacts DEF Metered, Holds
<1>4. QED BY <1>2, <1>3 DEF Meters

\* A sum of reports.
LEMMA PlusNumbers ==
  ASSUME NEW h, NEW l, UsageType(h.usage), UsageType(l.usage)
  PROVE  UsageType(Plus(h, l)) /\ Holds(Plus(h, l), h.usage.prompt + l.usage.prompt, h.usage.completion + l.usage.completion)
<1>1. PICK p \in Nat : p = h.usage.prompt + l.usage.prompt BY DEF UsageType
<1>2. PICK c \in Nat : c = h.usage.completion + l.usage.completion BY DEF UsageType
<1>3. UsageType(UsageOf(p, c)) /\ Holds(UsageOf(p, c), p, c) BY Usages, HoldsUsages
<1>4. QED BY <1>1, <1>2, <1>3 DEF Plus

\* Claude's usage, the prompt of the first event plus the completion of the last,
\* is still metered.
LEMMA MetersClaude ==
  ASSUME NEW k, NEW l, LineOf(k, l), api.name \in {"anthropic", "awsClaude"}, NEW v,
         v = IF k = "junk" THEN handler.usage ELSE Plus(handler, l)
  PROVE  Meters(k, v)
<1>1. PICK w : w = handler.usage OBVIOUS
<1>2. PICK u : u = l.usage OBVIOUS
<1>3. IF k = "start" THEN Holds(u, PromptTokens, 0) ELSE IF k = "stop" THEN Holds(u, 0, Texts(k)) ELSE HoldsNone(u)
  BY <1>2, ReportedNumbers
<1>4. k = "start" <=> ~told.started BY DEF LineOf, Kinds
<1>5. UsageType(w) /\ Metered(api.name, w, told.texts, told.started, told.final) BY <1>1, LineFacts
<1>6. CASE k = "junk"
  <2>1. Metered(api.name, w, Texts(k), TRUE, Final(k)) BY <1>4, <1>5, <1>6, LineFacts DEF Metered
  <2>2. QED BY <1>1, <1>5, <1>6, <2>1 DEF Meters
<1>7. CASE k # "junk"
  <2>1. UsageType(v) /\ Holds(v, w.prompt + u.prompt, w.completion + u.completion)
    BY <1>1, <1>2, <1>7, LineFacts, PlusNumbers
  <2>2. w.prompt + u.prompt = PromptTokens BY <1>3, <1>4, <1>5, LineFacts DEF Metered, Holds, HoldsNone
  <2>3. w.completion + u.completion = IF Final(k) THEN Texts(k) ELSE 0
    BY <1>3, <1>4, <1>5, LineFacts DEF Metered, Holds, HoldsNone
  <2>4. Metered(api.name, v, Texts(k), TRUE, Final(k)) BY <2>1, <2>2, <2>3 DEF Metered, Holds
  <2>5. QED BY <2>1, <2>4 DEF Meters
<1>8. QED BY <1>6, <1>7

\* Cohere's and Xunfei's usage, a sum of the reports, is still metered.
LEMMA MetersSums ==
  ASSUME NEW k, NEW l, LineOf(k, l), api.name \in {"cohere", "xunfei"}, NEW v,
         v = IF k = "junk" \/ (api.name = "cohere" /\ k # "stop") THEN handler.usage ELSE Plus(handler, l)
  PROVE  Meters(k, v)
<1>1. PICK w : w = handler.usage OBVIOUS
<1>2. PICK u : u = l.usage OBVIOUS
<1>3. IF k = "stop" THEN Holds(u, PromptTokens, Texts(k)) ELSE HoldsNone(u) BY <1>2, ReportedNumbers
<1>4. k \notin {"done", "empty"} BY DEF LineOf, Kinds
<1>5. UsageType(w) /\ Metered(api.name, w, told.texts, told.started, told.final) BY <1>1, LineFacts
<1>6. CASE k = "junk" \/ (api.name = "cohere" /\ k # "stop")
  <2>1. Metered(api.name, w, Texts(k), TRUE, Final(k)) BY <1>4, <1>5, <1>6, LineFacts DEF Metered
  <2>2. QED BY <1>1, <1>5, <1>6, <2>1 DEF Meters
<1>7. CASE ~(k = "junk" \/ (api.name = "cohere" /\ k # "stop"))
  <2>1. UsageType(v) /\ Holds(v, w.prompt + u.prompt, w.completion + u.completion)
    BY <1>1, <1>2, <1>7, LineFacts, PlusNumbers
  <2>2. w.prompt + u.prompt = (IF Final(k) THEN PromptTokens ELSE 0)
    BY <1>3, <1>4, <1>5, LineFacts DEF Metered, Holds, HoldsNone
  <2>3. w.completion + u.completion = (IF Final(k) THEN Texts(k) ELSE 0)
    BY <1>3, <1>4, <1>5, LineFacts DEF Metered, Holds, HoldsNone
  <2>4. Metered(api.name, v, Texts(k), TRUE, Final(k)) BY <2>1, <2>2, <2>3 DEF Metered, Holds
  <2>5. QED BY <2>1, <2>4 DEF Meters
<1>8. QED BY <1>6, <1>7

\* Llama's usage is still metered.
LEMMA MetersLlama ==
  ASSUME NEW k, NEW l, LineOf(k, l), api.name = "awsLlama", NEW v,
         v = IF k = "junk" THEN handler.usage ELSE LlamaUsage(handler, l)
  PROVE  Meters(k, v)
<1>1. PICK w : w = handler.usage OBVIOUS
<1>2. PICK u : u = l.usage OBVIOUS
<1>3. IF k = "stop" THEN Holds(u, 0, Texts(k)) ELSE HoldsNone(u) \/ Holds(u, PromptTokens, 0) BY <1>2, ReportedNumbers
<1>5. UsageType(w) /\ Metered(api.name, w, told.texts, told.started, told.final) /\ UsageType(u) BY <1>1, <1>2, LineFacts
<1>6. CASE k = "junk"
  <2>1. Metered(api.name, w, Texts(k), TRUE, Final(k)) BY <1>5, <1>6, LineFacts DEF Metered
  <2>2. QED BY <1>1, <1>5, <1>6, <2>1 DEF Meters
<1>7. CASE k # "junk"
  <2>1. PICK p \in Nat : p = IF u.prompt > 0 THEN u.prompt ELSE w.prompt BY <1>5 DEF UsageType
  <2>2. PICK c \in Nat : c = IF k = "stop" THEN u.completion ELSE w.completion BY <1>5 DEF UsageType
  <2>3. l.kind = k BY DEF LineOf
  <2>4. v = UsageOf(p, c) BY <1>1, <1>2, <1>7, <2>1, <2>2, <2>3 DEF LlamaUsage
  <2>5. UsageType(v) /\ Holds(v, p, c)
    <3>1. UsageType(UsageOf(p, c)) BY Usages
    <3>2. Holds(UsageOf(p, c), p, c) BY HoldsUsages
    <3>3. QED BY <2>4, <3>1, <3>2
  <2>6. p \in {0, PromptTokens} BY <1>3, <1>5, <2>1, LineFacts DEF Metered, Holds, HoldsNone
  <2>7. Final(k) => c = Texts(k) BY <1>3, <1>5, <2>2, LineFacts DEF Metered, Holds, HoldsNone
  <2>8. Metered(api.name, v, Texts(k), TRUE, Final(k)) BY <2>5, <2>6, <2>7 DEF Metered, Holds
  <2>9. QED BY <2>5, <2>8 DEF Meters
<1>8. QED BY <1>6, <1>7

\* Baidu's usage, its completion computed from the total, is still metered.
LEMMA MetersBaidu ==
  ASSUME NEW k, NEW l, LineOf(k, l), api.name = "baidu", NEW v,
         v = IF k = "junk" THEN handler.usage ELSE BaiduUsage(handler, l)
  PROVE  Meters(k, v)
<1>1. PICK w : w = handler.usage OBVIOUS
<1>2. PICK u : u = l.usage OBVIOUS
<1>3. IF k = "empty" THEN HoldsNone(u) ELSE HoldsTotal(u, PromptTokens + Texts(k)) \/ Holds(u, PromptTokens, Texts(k))
  BY <1>2, ReportedNumbers
<1>4. k \in {"text", "stop", "empty", "junk"} BY DEF LineOf, Kinds
<1>5. UsageType(w) /\ Metered("baidu", w, told.texts, told.started, told.final) /\ UsageType(u) BY <1>1, <1>2, LineFacts
<1>6. CASE k = "junk" \/ u.total = 0
  <2>1. v = w BY <1>1, <1>2, <1>6 DEF BaiduUsage
  <2>2. CASE k \in {"junk", "empty"}
    <3>1. Metered("baidu", w, Texts(k), TRUE, Final(k)) BY <1>5, <2>2, LineFacts DEF Metered
    <3>2. QED BY <1>5, <2>1, <3>1 DEF Meters
  <2>3. CASE k \in {"text", "stop"}
    <3>1. PromptTokens = 0 /\ Texts(k) = 0 BY <1>3, <1>6, <2>3, LineFacts DEF Holds, HoldsTotal
    <3>2. k = "stop" /\ told.texts = 0 BY <2>3, <3>1, LineFacts
    <3>3. w.known /\ w.prompt + w.completion = 0 BY <1>5, <3>1, <3>2, LineFacts DEF Metered, UsageType
    <3>4. Metered("baidu", w, Texts(k), TRUE, Final(k)) BY <3>1, <3>3 DEF Metered
    <3>5. QED BY <1>5, <2>1, <3>4 DEF Meters
  <2>4. QED BY <1>4, <2>2, <2>3
<1>7. CASE ~(k = "junk" \/ u.total = 0)
  <2>1. PICK c : c = u.total - u.prompt OBVIOUS
  <2>2. v = [u EXCEPT !.completion = c] BY <1>2, <1>7, <2>1 DEF BaiduUsage
  <2>3. k # "empty" BY <1>3, <1>7 DEF HoldsNone
  <2>4. u.known /\ u.prompt + c = PromptTokens + Texts(k) /\ c \in Nat
    BY <1>3, <2>1, <2>3, LineFacts DEF Holds, HoldsTotal
  <2>5. /\ DOMAIN v = {"known", "prompt", "completion", "total"} /\ v.known = u.known /\ v.prompt = u.prompt
        /\ v.completion = c /\ v.total = u.total
    BY <1>5, <2>2 DEF UsageType
  <2>6. UsageType(v) BY <1>5, <2>4, <2>5 DEF UsageType
  <2>7. Metered("baidu", v, Texts(k), TRUE, Final(k)) BY <2>4, <2>5 DEF Metered
  <2>8. QED BY <2>6, <2>7 DEF Meters
<1>8. QED BY <1>6, <1>7

\* Ollama's usage, replaced by one with a completion, is still metered.
LEMMA MetersOllama ==
  ASSUME NEW k, NEW l, LineOf(k, l), api.name = "ollama", NEW v,
         v = IF k = "junk" \/ l.usage.completion = 0 THEN handler.usage ELSE l.usage
  PROVE  Meters(k, v)
<1>1. PICK w : w = handler.usage OBVIOUS
<1>2. PICK u : u = l.usage OBVIOUS
<1>3. IF k = "stop" THEN Holds(u, PromptTokens, Texts(k)) ELSE HoldsNone(u) BY <1>2, ReportedNumbers
<1>4. UsageType(v) /\ Metered("ollama", w, told.texts, told.started, told.final) BY <1>1, LineFacts
<1>5. CASE k = "stop" /\ Texts(k) # 0
  <2>1. v = u BY <1>2, <1>3, <1>5 DEF Holds
  <2>2. Metered("ollama", u, Texts(k), TRUE, Final(k)) BY <1>3, <1>5 DEF Metered, Holds
  <2>3. QED BY <1>4, <2>1, <2>2 DEF Meters
<1>6. CASE ~(k = "stop" /\ Texts(k) # 0)
  <2>1. v = w BY <1>1, <1>2, <1>3, <1>6 DEF Holds, HoldsNone
  <2>2. Metered("ollama", w, Texts(k), TRUE, Final(k)) BY <1>4, <1>6, LineFacts DEF Metered
  <2>3. QED BY <1>4, <2>1, <2>2 DEF Meters
<1>7. QED BY <1>5, <1>6

\* Ali's usage, replaced by one with a completion, is still metered.
LEMMA MetersAli ==
  ASSUME NEW k, NEW l, LineOf(k, l), api.name = "ali", NEW v,
         v = IF k = "junk" \/ l.usage.completion = 0 THEN handler.usage ELSE l.usage
  PROVE  Meters(k, v)
<1>1. PICK w : w = handler.usage OBVIOUS
<1>2. PICK u : u = l.usage OBVIOUS
<1>3. Holds(u, PromptTokens, Texts(k)) BY <1>2, ReportedNumbers
<1>4. UsageType(v) /\ Metered("ali", w, told.texts, told.started, told.final) BY <1>1, LineFacts
<1>5. CASE k # "junk" /\ Texts(k) # 0
  <2>1. v = u BY <1>2, <1>3, <1>5 DEF Holds
  <2>2. Metered("ali", u, Texts(k), TRUE, Final(k)) BY <1>3, <1>5 DEF Metered, Holds
  <2>3. QED BY <1>4, <2>1, <2>2 DEF Meters
<1>6. CASE ~(k # "junk" /\ Texts(k) # 0)
  <2>1. v = w BY <1>1, <1>2, <1>3, <1>6 DEF Holds
  <2>2. Metered("ali", w, Texts(k), TRUE, Final(k)) BY <1>4, <1>6, LineFacts DEF Metered
  <2>3. QED BY <1>4, <2>1, <2>2 DEF Meters
<1>7. QED BY <1>5, <1>6

\* The other adaptors count the text themselves and take no report over.
LEMMA MetersNothing ==
  ASSUME NEW k, NEW l, LineOf(k, l), api.name \in CountsText \cup {"aiproxy"} PROVE Meters(k, handler.usage)
BY LineFacts DEF Meters, Metered, CountsText

-----------------------------------------------------------------------------
\* What a stream under way has come to.
Ringing == {"openai", "completions", "zhipuV4", "replicate"}
Claude == {"anthropic", "awsClaude"}
Broken == told.damaged /\ api.name \in {"awsClaude", "awsLlama"}
TextsCounted == handler.text = Count(rendered, "text") /\ (~told.damaged => handler.text = told.texts)
DonesCounted ==
  IF api.name \in Ringing
  THEN /\ Count(rendered, "DONE") = told.dones /\ (handler.done <=> told.dones > 0)
       /\ api.name = "replicate" => told.dones <= 1 /\ (handler.done => handler.closed)
  ELSE Broken \/ (Count(rendered, "DONE") = 0 /\ ~handler.done)
ToolsFollowed ==
  api.name \in Claude =>
    /\ Count(rendered, "tool") > 0 => handler.call = "open" \/ Count(rendered, "args") > 0
    /\ told.final /\ Count(rendered, "tool") > 0 => Count(rendered, "args") > 0
Reading ==
  /\ TextsCounted /\ DonesCounted /\ ToolsFollowed
  /\ Metered(api.name, handler.usage, told.texts, told.started, told.final)

\* The inductive invariant.
AnswersInv ==
  /\ AnswersTypes /\ outcome.open \in BOOLEAN /\ outcome.charge \in Nat
  /\ api.mode # "stream" => told.dones = 0 /\ ~told.damaged
  /\ outcome.open /\ api.mode = "stream" => Reading
  /\ ~outcome.open => AnswersAreCharged

\* The handler has made g of a line of kind k.
LineTo(k, g) ==
  /\ api.mode = "stream" /\ outcome.open /\ ~handler.closed /\ told.lines < MaxLines /\ api' = api /\ outcome' = outcome
  /\ handler' = [g EXCEPT !.sent = <<>>] /\ rendered' = rendered \o g.sent
  /\ told' = [told EXCEPT !.lines = @ + 1, !.started = TRUE, !.texts = IF k = "text" THEN @ + 1 ELSE @,
                          !.final = @ \/ k = "stop", !.damaged = @ \/ k = "junk",
                          !.dones = IF k = "done" THEN @ + 1 ELSE @]
\* The handler's flags have their types.
GoodFlags(g) == g.done \in BOOLEAN /\ g.closed \in BOOLEAN /\ g.call \in {"none", "open", "whole"}

\* What the upstream has told after the line.
LEMMA LineTold ==
  ASSUME AnswersTypes, NEW k, NEW g, LineTo(k, g)
  PROVE  /\ DOMAIN told' = ToldFields /\ told'.lines \in 0 .. MaxLines /\ told'.texts = Texts(k) /\ told'.texts \in Nat
         /\ told'.started /\ told'.started \in BOOLEAN /\ (told'.final <=> Final(k)) /\ told'.final \in BOOLEAN
         /\ (told'.damaged <=> told.damaged \/ k = "junk") /\ told'.damaged \in BOOLEAN
         /\ told'.cut \in BOOLEAN /\ told'.dones = (IF k = "done" THEN told.dones + 1 ELSE told.dones) /\ told'.dones \in Nat
<1>1. /\ DOMAIN told = ToldFields /\ told.lines \in 0 .. MaxLines /\ told.texts \in Nat /\ told.dones \in Nat
      /\ told.started \in BOOLEAN /\ told.final \in BOOLEAN /\ told.damaged \in BOOLEAN /\ told.cut \in BOOLEAN
      /\ told.lines < MaxLines /\ MaxLines \in Nat
  BY AnswersAssumption DEF AnswersTypes, LineTo
<1>2. /\ DOMAIN told' = ToldFields /\ told'.lines = told.lines + 1
      /\ told'.texts = (IF k = "text" THEN told.texts + 1 ELSE told.texts) /\ told'.cut = told.cut
      /\ told'.dones = (IF k = "done" THEN told.dones + 1 ELSE told.dones)
  BY <1>1 DEF LineTo, ToldFields
<1>3. told'.started /\ told'.started \in BOOLEAN BY <1>1 DEF LineTo, ToldFields
<1>4. (told'.final <=> told.final \/ k = "stop") /\ told'.final \in BOOLEAN BY <1>1 DEF LineTo, ToldFields
<1>5. (told'.damaged <=> told.damaged \/ k = "junk") /\ told'.damaged \in BOOLEAN BY <1>1 DEF LineTo, ToldFields
<1>6. QED BY <1>1, <1>2, <1>3, <1>4, <1>5 DEF Texts, Final

\* The part of the invariant that does not depend on what the adaptor follows.
LEMMA LineReads ==
  ASSUME AnswersInv, NEW k, NEW l, LineOf(k, l), NEW g, LineTo(k, g), NEW c, Passes(handler, g, c, k),
         Meters(k, g.usage), GoodFlags(g)
  PROVE  /\ AnswersTypes' /\ TextsCounted'
         /\ Metered(api.name, handler'.usage, told'.texts, told'.started, told'.final)
         /\ \A kind \in ChunkKinds : /\ Count(rendered, kind) \in Nat
                                     /\ Count(rendered', kind) = IF c = kind THEN Count(rendered, kind) + 1 ELSE Count(rendered, kind)
         /\ (handler'.done <=> g.done) /\ (handler'.closed <=> g.closed) /\ handler'.call = g.call
<1>1. AnswersTypes BY DEF AnswersInv
<1>2. c \in ChunkKinds \cup {"none"} /\ DOMAIN g = HandlerFields /\ g.sent = (IF c = "none" THEN <<>> ELSE <<c>>)
      /\ g.text = IF c = "text" THEN handler.text + 1 ELSE handler.text
  BY DEF Passes, Heard
<1>3. /\ DOMAIN handler' = HandlerFields /\ handler'.sent = <<>> /\ handler'.text = g.text /\ handler'.usage = g.usage
      /\ handler'.done = g.done /\ handler'.closed = g.closed /\ handler'.call = g.call
  BY <1>2 DEF LineTo, HandlerFields
<1>4. rendered \in Seq(ChunkKinds) BY <1>1 DEF AnswersTypes
<1>5. rendered' = rendered \o g.sent BY DEF LineTo
<1>6. PICK r, s, old : r = g.sent /\ s = rendered' /\ old = rendered OBVIOUS
<1>7. /\ s \in Seq(ChunkKinds)
      /\ \A kind \in ChunkKinds : /\ Count(rendered, kind) \in Nat
                                  /\ Count(s, kind) = IF c = kind THEN Count(rendered, kind) + 1 ELSE Count(rendered, kind)
  <2>1. old \in Seq(ChunkKinds) /\ r = (IF c = "none" THEN <<>> ELSE <<c>>) /\ s = old \o r BY <1>2, <1>4, <1>5, <1>6
  <2>2. Adds(old, s, c) BY <1>2, <2>1, Rendered
  <2>3. QED BY <1>6, <2>2 DEF Adds
<1>8. HandlerType(handler)' BY <1>1, <1>2, <1>3 DEF HandlerType, GoodFlags, Meters, AnswersTypes
<1>9. AnswersTypes'
  <2>1. api' = api BY DEF LineTo
  <2>2. AnswersWhole' = AnswersWhole BY <2>1 DEF AnswersWhole
  <2>3. QED BY <1>1, <1>6, <1>7, <1>8, <2>1, <2>2, LineTold DEF AnswersTypes, LineTo
<1>10. TextsCounted'
  <2>1. handler.text = Count(rendered, "text") /\ (~told.damaged => handler.text = told.texts)
    BY DEF AnswersInv, Reading, TextsCounted, LineTo
  <2>2. "text" \in ChunkKinds BY DEF ChunkKinds
  <2>3. handler'.text = Count(s, "text") BY <1>2, <1>3, <1>7, <2>1, <2>2
  <2>4. ASSUME ~told'.damaged PROVE handler'.text = told'.texts
    <3>1. ~told.damaged /\ k # "junk" /\ told'.texts = Texts(k) BY <2>4, <1>1, LineTold
    <3>2. c = "text" <=> k = "text" BY <3>1 DEF Passes
    <3>3. QED BY <1>2, <1>3, <2>1, <3>1, <3>2 DEF Texts
  <2>5. QED BY <1>6, <2>3, <2>4 DEF TextsCounted
<1>11. Metered(api.name, handler'.usage, told'.texts, told'.started, told'.final)
  <2>1. Metered(api.name, g.usage, Texts(k), TRUE, Final(k)) BY DEF Meters
  <2>2. PICK u, x, y, f : u = handler'.usage /\ x = told'.texts /\ y = told'.started /\ f = told'.final OBVIOUS
  <2>3. u = g.usage /\ x = Texts(k) /\ y /\ (f <=> Final(k)) BY <1>1, <1>3, <2>2, LineTold
  <2>4. Metered(api.name, u, x, y, f) BY <2>1, <2>3 DEF Metered
  <2>5. QED BY <2>2, <2>4
<1>12. QED BY <1>3, <1>6, <1>7, <1>9, <1>10, <1>11

\* With what the adaptor follows, the invariant holds after the line.
LEMMA LineInv ==
  ASSUME AnswersInv, NEW k, NEW l, LineOf(k, l), NEW g, LineTo(k, g), NEW c, Passes(handler, g, c, k),
         Meters(k, g.usage), GoodFlags(g), DonesCounted', ToolsFollowed'
  PROVE  AnswersInv'
<1>1. AnswersTypes' /\ TextsCounted' BY LineReads
<1>2. Metered(api.name, handler'.usage, told'.texts, told'.started, told'.final) BY LineReads
<1>3. api' = api /\ outcome' = outcome /\ api.mode = "stream" /\ outcome.open BY DEF LineTo
<1>4. Reading' BY <1>1, <1>2, <1>3 DEF Reading
<1>5. QED BY <1>1, <1>3, <1>4 DEF AnswersInv

\* A line without [DONE], at a handler that passes none on, leaves [DONE] to the end.
LEMMA LineQuiet ==
  ASSUME AnswersInv, NEW k, NEW l, LineOf(k, l), NEW g, LineTo(k, g), NEW c, Passes(handler, g, c, k),
         Meters(k, g.usage), GoodFlags(g), api.name \notin Ringing, c # "DONE", g.done <=> handler.done
  PROVE  DonesCounted'
<1>1. DonesCounted /\ AnswersTypes /\ api' = api BY DEF AnswersInv, Reading, LineTo
<1>2. told'.damaged <=> told.damaged \/ k = "junk" BY <1>1, LineTold
<1>3. "DONE" \in ChunkKinds BY DEF ChunkKinds
<1>4. Count(rendered', "DONE") = Count(rendered, "DONE") /\ (handler'.done <=> g.done) BY <1>3, LineReads
<1>5. Broken \/ (Count(rendered, "DONE") = 0 /\ ~handler.done) BY <1>1 DEF DonesCounted
<1>6. Broken' \/ (Count(rendered', "DONE") = 0 /\ ~handler'.done) BY <1>1, <1>2, <1>4, <1>5 DEF Broken
<1>7. QED BY <1>1, <1>6 DEF DonesCounted

\* A line of an adaptor that neither passes [DONE] on nor follows tool calls.
LEMMA LineHears ==
  ASSUME AnswersInv, NEW k, NEW l, LineOf(k, l), NEW g, LineTo(k, g),
         api.name \notin Ringing \cup Claude, Hears(handler, g, k, g.usage), Meters(k, g.usage)
  PROVE  AnswersInv'
<1>1. PICK c : Passes(handler, g, c, k) /\ Keeps(handler, g) /\ c # "DONE" BY DEF Hears
<1>2. GoodFlags(g) /\ (g.done <=> handler.done) BY <1>1 DEF Keeps, GoodFlags
<1>3. DonesCounted' BY <1>1, <1>2, LineQuiet
<1>4. ToolsFollowed' BY DEF ToolsFollowed, LineTo
<1>5. QED BY <1>1, <1>2, <1>3, <1>4, LineInv

\* A line of an adaptor that passes [DONE] on: it is sent as often as it came.
LEMMA LineRings ==
  ASSUME AnswersInv, NEW k, NEW l, LineOf(k, l), NEW g, LineTo(k, g),
         api.name \in Ringing, Rings(handler, g, k, g.usage), Meters(k, g.usage),
         api.name = "replicate" /\ k = "done" => g.closed
  PROVE  AnswersInv'
<1>1. PICK c : /\ Passes(handler, g, c, k) /\ (c = "DONE" <=> k = "done") /\ (g.done <=> handler.done \/ k = "done")
               /\ GoodFlags(g)
  BY DEF Rings, GoodFlags
<1>2. DonesCounted /\ AnswersTypes /\ api' = api /\ ~handler.closed BY DEF AnswersInv, Reading, LineTo
<1>3. told'.dones = (IF k = "done" THEN told.dones + 1 ELSE told.dones) /\ told'.dones \in Nat /\ told.dones \in Nat
  BY <1>2, LineTold DEF AnswersTypes
<1>4. "DONE" \in ChunkKinds BY DEF ChunkKinds
<1>5. (handler'.done <=> g.done) /\ (handler'.closed <=> g.closed) BY <1>1, LineReads
<1>6. Count(rendered', "DONE") = IF c = "DONE" THEN Count(rendered, "DONE") + 1 ELSE Count(rendered, "DONE")
  BY <1>1, <1>4, LineReads
<1>7. /\ Count(rendered, "DONE") = told.dones /\ (handler.done <=> told.dones > 0)
      /\ api.name = "replicate" => told.dones = 0 /\ ~handler.done
  BY <1>2, <1>3 DEF DonesCounted
<1>8. Count(rendered', "DONE") = told'.dones /\ (handler'.done <=> told'.dones > 0)
  BY <1>1, <1>3, <1>5, <1>6, <1>7
<1>9. api.name = "replicate" => told'.dones <= 1 /\ (handler'.done => handler'.closed) BY <1>1, <1>3, <1>5, <1>7
<1>10. DonesCounted' BY <1>2, <1>8, <1>9 DEF DonesCounted
<1>11. ToolsFollowed' BY DEF ToolsFollowed, LineTo, Ringing, Claude
<1>12. QED BY <1>1, <1>10, <1>11, LineInv

\* An event of Claude: the last one closes the tool call that is open.
LEMMA LineCalls ==
  ASSUME AnswersInv, NEW k, NEW l, LineOf(k, l), NEW g, LineTo(k, g),
         api.name \in Claude, Calls(handler, g, l, g.usage), Meters(k, g.usage)
  PROVE  AnswersInv'
<1>0. l.kind = k BY DEF LineOf
<1>1. PICK c : /\ Passes(handler, g, c, k) /\ Keeps(handler, g) /\ c # "DONE"
               /\ (c = "tool" => g.call = "open" /\ k = "tool") /\ (c \notin {"tool", "args"} => g.call = handler.call)
               /\ (k = "stop" /\ l.usage.known /\ handler.call = "open" => c = "args")
  BY <1>0 DEF Calls
<1>2. GoodFlags(g) /\ (g.done <=> handler.done) BY <1>1 DEF Keeps, GoodFlags
<1>3. api.name \notin Ringing BY DEF Ringing, Claude
<1>4. DonesCounted' BY <1>1, <1>2, <1>3, LineQuiet
<1>5. ToolsFollowed /\ AnswersTypes /\ api' = api BY DEF AnswersInv, Reading, LineTo
<1>6. "tool" \in ChunkKinds /\ "args" \in ChunkKinds BY DEF ChunkKinds
<1>7. /\ Count(rendered, "tool") \in Nat
      /\ Count(rendered', "tool") = IF c = "tool" THEN Count(rendered, "tool") + 1 ELSE Count(rendered, "tool")
  BY <1>1, <1>2, <1>6, LineReads
<1>8. /\ Count(rendered, "args") \in Nat
      /\ Count(rendered', "args") = IF c = "args" THEN Count(rendered, "args") + 1 ELSE Count(rendered, "args")
  BY <1>1, <1>2, <1>6, LineReads
<1>9. handler'.call = g.call BY <1>1, <1>2, LineReads
<1>10. told'.final <=> told.final \/ k = "stop" BY <1>5, LineTold DEF Final
<1>11. told.final => k \in {"done", "empty"} BY DEF LineOf
<1>12. k = "stop" => l.usage.known BY ReportedNumbers DEF Claude, Holds
<1>13. /\ Count(rendered, "tool") > 0 => handler.call = "open" \/ Count(rendered, "args") > 0
       /\ told.final /\ Count(rendered, "tool") > 0 => Count(rendered, "args") > 0
  BY <1>5 DEF ToolsFollowed
<1>14. Count(rendered', "tool") > 0 => handler'.call = "open" \/ Count(rendered', "args") > 0
  BY <1>1, <1>7, <1>8, <1>9, <1>13
<1>15. ASSUME told'.final, Count(rendered', "tool") > 0 PROVE Count(rendered', "args") > 0
  <2>1. CASE told.final
    <3>1. c # "tool" BY <1>1, <1>11, <2>1
    <3>2. QED BY <1>7, <1>8, <1>13, <1>15, <2>1, <3>1
  <2>2. CASE k = "stop"
    <3>1. c # "tool" BY <1>1, <2>2
    <3>2. Count(rendered, "args") > 0 \/ handler.call = "open" BY <1>7, <1>13, <1>15, <3>1
    <3>3. handler.call = "open" => c = "args" BY <1>1, <1>12, <2>2
    <3>4. QED BY <1>8, <3>2, <3>3
  <2>3. QED BY <1>10, <1>15, <2>1, <2>2
<1>16. ToolsFollowed' BY <1>5, <1>14, <1>15 DEF ToolsFollowed
<1>17. QED BY <1>1, <1>2, <1>4, <1>16, LineInv

\* An event of AWS that cannot be decoded: the stream is damaged, its [DONE] excused.
LEMMA LineBreaks ==
  ASSUME AnswersInv, NEW l, LineOf("junk", l), NEW g, LineTo("junk", g),
         api.name \in {"awsClaude", "awsLlama"}, Breaks(handler, g), Meters("junk", g.usage)
  PROVE  AnswersInv'
<1>1. PICK c, k : c = "none" /\ k = "junk" OBVIOUS
<1>2. Passes(handler, g, c, k) /\ g.call = handler.call /\ g.done \in BOOLEAN /\ g.closed \in BOOLEAN BY <1>1 DEF Breaks
<1>3. LineOf(k, l) /\ LineTo(k, g) /\ Meters(k, g.usage) BY <1>1
<1>4. ToolsFollowed /\ AnswersTypes /\ api' = api BY DEF AnswersInv, Reading, LineTo
<1>5. GoodFlags(g) BY <1>2, <1>4 DEF GoodFlags, AnswersTypes, HandlerType
<1>6. told'.damaged /\ (told'.final <=> told.final) BY <1>1, <1>3, <1>4, LineTold DEF Final
<1>7. DonesCounted' BY <1>4, <1>6 DEF DonesCounted, Broken, Ringing
<1>8. "tool" \in ChunkKinds /\ "args" \in ChunkKinds BY DEF ChunkKinds
<1>9. Count(rendered', "tool") = Count(rendered, "tool") /\ Count(rendered', "args") = Count(rendered, "args")
  <2>1. c # "tool" /\ c # "args" BY <1>1
  <2>2. Count(rendered', "tool") = Count(rendered, "tool") BY <1>2, <1>3, <1>5, <1>8, <2>1, LineReads
  <2>3. Count(rendered', "args") = Count(rendered, "args") BY <1>2, <1>3, <1>5, <1>8, <2>1, LineReads
  <2>4. QED BY <2>2, <2>3
<1>10. handler'.call = handler.call BY <1>2, <1>3, <1>5, LineReads
<1>11. ToolsFollowed' BY <1>4, <1>6, <1>9, <1>10 DEF ToolsFollowed
<1>12. QED BY <1>2, <1>3, <1>5, <1>7, <1>11, LineInv

\* The usage a handler ends the line with is its own.
LEMMA TakenOver ==
  ASSUME NEW h, NEW g, NEW k, NEW l, NEW u
  PROVE  /\ Hears(h, g, k, u) => Hears(h, g, k, g.usage) /\ g.usage = u
         /\ Rings(h, g, k, u) => Rings(h, g, k, g.usage) /\ g.usage = u
         /\ Calls(h, g, l, u) => Calls(h, g, l, g.usage) /\ g.usage = u
BY DEF Hears, Rings, Calls

\* A line of each adaptor's stream.
LEMMA LineStep ==
  ASSUME AnswersInv, NEW k, NEW l, LineOf(k, l), NEW g, g = StreamHandler(handler, l), LineTo(k, g)
  PROVE  AnswersInv'
<1>1. HandlerType(handler) /\ l.kind = k /\ k \in Kinds /\ api.name \in Streams BY DEF LineOf, AnswersTypes
<1>2. CASE api.name = "gemini"
  <2>1. k \in {"text", "tool", "stop", "junk"} BY <1>1, <1>2 DEF Kinds
  <2>2. g = GeminiStreamHandler(handler, l) BY <1>2 DEF StreamHandler
  <2>3. PICK u : u = handler.usage OBVIOUS
  <2>4. Hears(handler, g, k, u) BY <1>1, <2>1, <2>2, <2>3, HearsGemini
  <2>5. Meters(k, u) BY <1>2, <2>3, MetersNothing DEF CountsText
  <2>6. Hears(handler, g, k, g.usage) /\ g.usage = u BY <2>4, TakenOver
  <2>7. QED BY <1>2, <2>5, <2>6, LineHears DEF Ringing, Claude
<1>3. CASE api.name = "baidu"
  <2>1. k \in {"text", "stop", "empty", "junk"} BY <1>1, <1>3 DEF Kinds
  <2>2. g = BaiduStreamHandler(handler, l) BY <1>3 DEF StreamHandler
  <2>3. PICK u : u = IF k = "junk" THEN handler.usage ELSE BaiduUsage(handler, l) OBVIOUS
  <2>4. Hears(handler, g, k, u) BY <1>1, <2>1, <2>2, <2>3, HearsBaidu
  <2>5. Meters(k, u) BY <1>3, <2>3, MetersBaidu
  <2>6. Hears(handler, g, k, g.usage) /\ g.usage = u BY <2>4, TakenOver
  <2>7. QED BY <1>3, <2>5, <2>6, LineHears DEF Ringing, Claude
<1>4. CASE api.name = "tencent"
  <2>1. k \in {"text", "stop", "empty", "junk"} BY <1>1, <1>4 DEF Kinds
  <2>2. g = TencentStreamHandler(handler, l) BY <1>4 DEF StreamHandler
  <2>3. PICK u : u = handler.usage OBVIOUS
  <2>4. Hears(handler, g, k, u) BY <1>1, <2>1, <2>2, <2>3, HearsTencent
  <2>5. Meters(k, u) BY <1>4, <2>3, MetersNothing DEF CountsText
  <2>6. Hears(handler, g, k, g.usage) /\ g.usage = u BY <2>4, TakenOver
  <2>7. QED BY <1>4, <2>5, <2>6, LineHears DEF Ringing, Claude
<1>5. CASE api.name = "ollama"
  <2>1. k \in {"text", "stop", "empty", "junk"} BY <1>1, <1>5 DEF Kinds
  <2>2. g = OllamaStreamHandler(handler, l) BY <1>5 DEF StreamHandler
  <2>3. PICK u : u = IF k = "junk" THEN handler.usage ELSE (IF l.usage.completion = 0 THEN handler.usage ELSE l.usage) OBVIOUS
  <2>4. Hears(handler, g, k, u) BY <1>1, <2>1, <2>2, <2>3, HearsOllama
  <2>5. Meters(k, u) BY <1>5, <2>3, MetersOllama
  <2>6. Hears(handler, g, k, g.usage) /\ g.usage = u BY <2>4, TakenOver
  <2>7. QED BY <1>5, <2>5, <2>6, LineHears DEF Ringing, Claude
<1>6. CASE api.name = "ali"
  <2>1. k \in {"text", "tool", "stop", "empty", "junk"} BY <1>1, <1>6 DEF Kinds
  <2>2. g = AliStreamHandler(handler, l) BY <1>6 DEF StreamHandler
  <2>3. PICK u : u = IF k = "junk" THEN handler.usage ELSE (IF l.usage.completion = 0 THEN handler.usage ELSE l.usage) OBVIOUS
  <2>4. Hears(handler, g, k, u) BY <1>1, <2>1, <2>2, <2>3, HearsAli
  <2>5. Meters(k, u) BY <1>6, <2>3, MetersAli
  <2>6. Hears(handler, g, k, g.usage) /\ g.usage = u BY <2>4, TakenOver
  <2>7. QED BY <1>6, <2>5, <2>6, LineHears DEF Ringing, Claude
<1>7. CASE api.name = "coze"
  <2>1. k \in {"text", "skip", "empty", "junk"} BY <1>1, <1>7 DEF Kinds
  <2>2. g = CozeStreamHandler(handler, l) BY <1>7 DEF StreamHandler
  <2>3. PICK u : u = handler.usage OBVIOUS
  <2>4. Hears(handler, g, k, u) BY <1>1, <2>1, <2>2, <2>3, HearsCoze
  <2>5. Meters(k, u) BY <1>7, <2>3, MetersNothing DEF CountsText
  <2>6. Hears(handler, g, k, g.usage) /\ g.usage = u BY <2>4, TakenOver
  <2>7. QED BY <1>7, <2>5, <2>6, LineHears DEF Ringing, Claude
<1>8. CASE api.name = "aiproxy"
  <2>1. k \in {"text", "empty", "junk"} BY <1>1, <1>8 DEF Kinds
  <2>2. g = AIProxyStreamHandler(handler, l) BY <1>8 DEF StreamHandler
  <2>3. PICK u : u = handler.usage OBVIOUS
  <2>4. Hears(handler, g, k, u) BY <1>1, <2>1, <2>2, <2>3, HearsAIProxy
  <2>5. Meters(k, u) BY <1>8, <2>3, MetersNothing
  <2>6. Hears(handler, g, k, g.usage) /\ g.usage = u BY <2>4, TakenOver
  <2>7. QED BY <1>8, <2>5, <2>6, LineHears DEF Ringing, Claude
<1>9. CASE api.name = "cohere"
  <2>1. k \in {"start", "text", "stop", "skip", "junk"} BY <1>1, <1>9 DEF Kinds
  <2>2. g = CohereStreamHandler(handler, l) BY <1>9 DEF StreamHandler
  <2>3. PICK u : u = IF k = "junk" THEN handler.usage ELSE (IF k = "stop" THEN Plus(handler, l) ELSE handler.usage) OBVIOUS
  <2>4. Hears(handler, g, k, u) BY <1>1, <2>1, <2>2, <2>3, HearsCohere
  <2>5. Meters(k, u) BY <1>9, <2>3, MetersSums
  <2>6. Hears(handler, g, k, g.usage) /\ g.usage = u BY <2>4, TakenOver
  <2>7. QED BY <1>9, <2>5, <2>6, LineHears DEF Ringing, Claude
<1>10. CASE api.name = "zhipu"
  <2>1. k \in {"text", "stop"} BY <1>1, <1>10 DEF Kinds
  <2>2. g = ZhipuStreamHandler(handler, l) BY <1>10 DEF StreamHandler
  <2>3. PICK u : u = IF k = "stop" THEN l.usage ELSE handler.usage OBVIOUS
  <2>4. Hears(handler, g, k, u) BY <1>1, <2>1, <2>2, <2>3, HearsZhipu
  <2>5. Meters(k, u) BY <1>10, <2>3, MetersZhipu
  <2>6. Hears(handler, g, k, g.usage) /\ g.usage = u BY <2>4, TakenOver
  <2>7. QED BY <1>10, <2>5, <2>6, LineHears DEF Ringing, Claude
<1>11. CASE api.name = "cloudflare"
  <2>1. k \in {"text", "done", "junk"} BY <1>1, <1>11 DEF Kinds
  <2>2. g = CloudflareStreamHandler(handler, l) BY <1>11 DEF StreamHandler
  <2>3. PICK u : u = handler.usage OBVIOUS
  <2>4. Hears(handler, g, k, u) BY <1>1, <2>1, <2>2, <2>3, HearsCloudflare
  <2>5. Meters(k, u) BY <1>11, <2>3, MetersNothing DEF CountsText
  <2>6. Hears(handler, g, k, g.usage) /\ g.usage = u BY <2>4, TakenOver
  <2>7. QED BY <1>11, <2>5, <2>6, LineHears DEF Ringing, Claude
<1>12. CASE api.name = "xunfei"
  <2>1. k \in {"text", "tool", "stop", "junk"} BY <1>1, <1>12 DEF Kinds
  <2>2. g = XunfeiStreamHandler(handler, l) BY <1>12 DEF StreamHandler
  <2>3. PICK u : u = IF k = "junk" THEN handler.usage ELSE Plus(handler, l) OBVIOUS
  <2>4. Hears(handler, g, k, u) BY <1>1, <2>1, <2>2, <2>3, HearsXunfei
  <2>5. Meters(k, u) BY <1>12, <2>3, MetersSums
  <2>6. Hears(handler, g, k, g.usage) /\ g.usage = u BY <2>4, TakenOver
  <2>7. QED BY <1>12, <2>5, <2>6, LineHears DEF Ringing, Claude
<1>13. CASE api.name = "openai"
  <2>1. k \in {"text", "tool", "stop", "empty", "done", "junk"} BY <1>1, <1>13 DEF Kinds
  <2>2. g = OpenaiStreamHandler(handler, l) BY <1>13 DEF StreamHandler
  <2>3. PICK u : u = IF l.usage.known /\ k \notin {"done", "junk"} THEN l.usage ELSE handler.usage OBVIOUS
  <2>4. Rings(handler, g, k, u) BY <1>1, <2>1, <2>2, <2>3, RingsOpenai
  <2>5. Meters(k, u) BY <1>13, <2>3, MetersOpenai
  <2>6. Rings(handler, g, k, g.usage) /\ g.usage = u BY <2>4, TakenOver
  <2>7. QED BY <1>13, <2>5, <2>6, LineRings DEF Ringing
<1>14. CASE api.name = "zhipuV4"
  <2>1. k \in {"text", "tool", "stop", "empty", "done", "junk"} BY <1>1, <1>14 DEF Kinds
  <2>2. g = OpenaiStreamHandler(handler, l) BY <1>14 DEF StreamHandler
  <2>3. PICK u : u = IF l.usage.known /\ k \notin {"done", "junk"} THEN l.usage ELSE handler.usage OBVIOUS
  <2>4. Rings(handler, g, k, u) BY <1>1, <2>1, <2>2, <2>3, RingsOpenai
  <2>5. Meters(k, u) BY <1>14, <2>3, MetersOpenai
  <2>6. Rings(handler, g, k, g.usage) /\ g.usage = u BY <2>4, TakenOver
  <2>7. QED BY <1>14, <2>5, <2>6, LineRings DEF Ringing
<1>15. CASE api.name = "completions"
  <2>1. k \in {"text", "stop", "done", "junk"} BY <1>1, <1>15 DEF Kinds
  <2>2. g = OpenaiCompletions(handler, l) BY <1>15 DEF StreamHandler
  <2>3. PICK u : u = handler.usage OBVIOUS
  <2>4. Rings(handler, g, k, u) BY <1>1, <2>1, <2>2, <2>3, RingsCompletions
  <2>5. Meters(k, u) BY <1>15, <2>3, MetersNothing DEF CountsText
  <2>6. Rings(handler, g, k, g.usage) /\ g.usage = u BY <2>4, TakenOver
  <2>7. QED BY <1>15, <2>5, <2>6, LineRings DEF Ringing
<1>16. CASE api.name = "replicate"
  <2>1. k \in {"text", "done", "skip"} BY <1>1, <1>16 DEF Kinds
  <2>2. g = chatStreamHandler(handler, l) BY <1>16 DEF StreamHandler
  <2>3. PICK u : u = handler.usage OBVIOUS
  <2>4. Rings(handler, g, k, u) BY <1>1, <2>1, <2>2, <2>3, RingsReplicate
  <2>5. Meters(k, u) BY <1>16, <2>3, MetersNothing DEF CountsText
  <2>6. Rings(handler, g, k, g.usage) /\ g.usage = u BY <2>4, TakenOver
  <2>7. k = "done" => g.closed BY <1>1, <2>1, <2>2, RingsReplicate
  <2>8. QED BY <1>16, <2>5, <2>6, <2>7, LineRings DEF Ringing
<1>17. CASE api.name = "anthropic"
  <2>1. k \in {"start", "text", "tool", "args", "stop", "empty", "junk"} BY <1>1, <1>17 DEF Kinds
  <2>2. g = AnthropicStreamHandler(handler, l) BY <1>17 DEF StreamHandler
  <2>3. PICK u : u = IF k = "junk" THEN handler.usage ELSE Plus(handler, l) OBVIOUS
  <2>4. Calls(handler, g, l, u) BY <1>1, <2>1, <2>2, <2>3, CallsAnthropic DEF ClaudeKinds
  <2>5. Meters(k, u) BY <1>17, <2>3, MetersClaude
  <2>6. Calls(handler, g, l, g.usage) /\ g.usage = u BY <2>4, TakenOver
  <2>7. QED BY <1>17, <2>5, <2>6, LineCalls DEF Claude
<1>18. CASE api.name = "awsClaude"
  <2>1. k \in ClaudeKinds /\ g = AwsClaudeStreamHandler(handler, l) BY <1>1, <1>18 DEF Kinds, ClaudeKinds, StreamHandler
  <2>2. PICK u : u = IF k = "junk" THEN handler.usage ELSE Plus(handler, l) OBVIOUS
  <2>3. Meters(k, u) BY <1>18, <2>2, MetersClaude
  <2>4. CASE k # "junk"
    <3>1. Calls(handler, g, l, u) BY <1>1, <2>1, <2>2, <2>4, CallsAwsClaude
    <3>2. Calls(handler, g, l, g.usage) /\ g.usage = u BY <3>1, TakenOver
    <3>3. QED BY <1>18, <2>3, <3>2, LineCalls DEF Claude
  <2>5. CASE k = "junk"
    <3>1. Breaks(handler, g) BY <1>1, <2>1, <2>5, CallsAwsClaude
    <3>2. g.usage = u BY <2>2, <2>5, <3>1 DEF Breaks
    <3>3. QED BY <1>18, <2>3, <2>5, <3>1, <3>2, LineBreaks
  <2>6. QED BY <2>4, <2>5
<1>19. CASE api.name = "awsLlama"
  <2>1. k \in {"text", "stop", "empty", "junk"} /\ g = AwsLlamaStreamHandler(handler, l) BY <1>1, <1>19 DEF Kinds, StreamHandler
  <2>2. PICK u : u = IF k = "junk" THEN handler.usage ELSE LlamaUsage(handler, l) OBVIOUS
  <2>3. Meters(k, u) BY <1>19, <2>2, MetersLlama
  <2>4. CASE k # "junk"
    <3>1. Hears(handler, g, k, u) BY <1>1, <2>1, <2>2, <2>4, HearsAwsLlama
    <3>2. Hears(handler, g, k, g.usage) /\ g.usage = u BY <3>1, TakenOver
    <3>3. QED BY <1>19, <2>3, <3>2, LineHears DEF Ringing, Claude
  <2>5. CASE k = "junk"
    <3>1. Breaks(handler, g) BY <1>1, <2>1, <2>5, HearsAwsLlama
    <3>2. g.usage = u BY <2>2, <2>5, <3>1 DEF Breaks
    <3>3. QED BY <1>19, <2>3, <2>5, <3>1, <3>2, LineBreaks
  <2>6. QED BY <2>4, <2>5
<1>20. QED BY <1>1, <1>2, <1>3, <1>4, <1>5, <1>6, <1>7, <1>8, <1>9, <1>10, <1>11, <1>12, <1>13, <1>14, <1>15, <1>16, <1>17, <1>18, <1>19
  DEF Streams, ReportsAtEnd, ReportsRunningTotal, CountsText

\* The action Line preserves the invariant.
LEMMA AnyLine ==
  ASSUME AnswersInv, api.mode = "stream", NEW k \in Kinds, Line(k) PROVE AnswersInv'
<1>1. PICK u \in Reports(k) :
        LET h == StreamHandler(handler, [kind |-> k, usage |-> u]) IN
        /\ handler' = [h EXCEPT !.sent = <<>>] /\ rendered' = rendered \o h.sent
        /\ told' = [told EXCEPT !.lines = @ + 1, !.started = TRUE, !.texts = IF k = "text" THEN @ + 1 ELSE @,
                                !.final = @ \/ k = "stop", !.damaged = @ \/ k = "junk",
                                !.dones = IF k = "done" THEN @ + 1 ELSE @]
  BY DEF Line
<1>2. PICK l : l = [kind |-> k, usage |-> u] OBVIOUS
<1>3. PICK g : g = StreamHandler(handler, l) OBVIOUS
<1>4. outcome.open /\ ~handler.closed /\ told.lines < MaxLines /\ api' = api /\ outcome' = outcome BY DEF Line
<1>5. LineTo(k, g) BY <1>1, <1>2, <1>3, <1>4 DEF LineTo
<1>6. (k = "start" <=> ~told.started /\ "start" \in Kinds) /\ (told.final => k \in {"done", "empty"}) BY DEF Line
<1>7. l.kind = k /\ l.usage \in Reports(k) BY <1>2
<1>8. AnswersTypes /\ Metered(api.name, handler.usage, told.texts, told.started, told.final)
  BY <1>4 DEF AnswersInv, Reading
<1>9. LineOf(k, l) BY <1>6, <1>7, <1>8 DEF LineOf
<1>10. QED BY <1>3, <1>5, <1>9, LineStep

\* A stream under way.
Streaming == AnswersInv /\ api.mode = "stream" /\ outcome.open
\* What ends a stream, and what its usage is worth.
Sends(r) == IF handler.done THEN r.sent = <<>> ELSE r.sent \in {<<"DONE">>, <<"stop", "DONE">>}
Worth(u, n) == u.known /\ u.prompt + u.completion = PromptTokens + n
Fair(u) ==
  /\ UsageType(u)
  /\ ~told.damaged /\ told.final /\ api.name # "aiproxy" /\ (api.name = "zhipuV4" => u.known)
       /\ (api.name = "awsLlama" => u.prompt > 0) /\ (api.name \in {"ollama", "ali"} => told.texts > 0)
       => Worth(u, told.texts)
  /\ api.name \in CountsText => Worth(u, handler.text)

\* What the end of a stream adds: nothing that is counted, but the [DONE] still due.
LEMMA Closes ==
  ASSUME NEW s \in Seq(ChunkKinds), NEW r, Sends(r), NEW t, t = s \o r.sent
  PROVE  /\ t \in Seq(ChunkKinds)
         /\ Count(t, "text") = Count(s, "text") /\ Count(t, "tool") = Count(s, "tool") /\ Count(t, "args") = Count(s, "args")
         /\ handler.done => Count(t, "DONE") = Count(s, "DONE")
         /\ ~handler.done => Count(t, "DONE") = Count(s, "DONE") + 1 /\ t[Len(t)] = "DONE"
<1>0. {"text", "tool", "args", "DONE", "stop"} \subseteq ChunkKinds BY DEF ChunkKinds
<1>1. CASE handler.done
  <2>1. t = s BY <1>1, SentAppend, <1>0 DEF Sends
  <2>2. QED BY <1>1, <2>1
<1>2. CASE ~handler.done /\ r.sent = <<"DONE">>
  <2>1. t = Append(s, "DONE") BY <1>0, <1>2, SentAppend
  <2>2. Count(t, "text") = Count(s, "text") BY <1>0, <2>1, CountAppend
  <2>3. Count(t, "tool") = Count(s, "tool") BY <1>0, <2>1, CountAppend
  <2>4. Count(t, "args") = Count(s, "args") BY <1>0, <2>1, CountAppend
  <2>5. Count(t, "DONE") = Count(s, "DONE") + 1 /\ t \in Seq(ChunkKinds) /\ t[Len(t)] = "DONE" BY <1>0, <2>1, CountAppend
  <2>6. QED BY <1>2, <2>2, <2>3, <2>4, <2>5
<1>3. CASE ~handler.done /\ r.sent = <<"stop", "DONE">>
  <2>1. PICK a : a = Append(s, "stop") OBVIOUS
  <2>2. a \in Seq(ChunkKinds) BY <1>0, <2>1, CountAppend
  <2>3. t = Append(a, "DONE") BY <1>0, <1>3, <2>1, SentAppend
  <2>4. Count(a, "text") = Count(s, "text") BY <1>0, <2>1, CountAppend
  <2>5. Count(a, "tool") = Count(s, "tool") BY <1>0, <2>1, CountAppend
  <2>6. Count(a, "args") = Count(s, "args") BY <1>0, <2>1, CountAppend
  <2>7. Count(a, "DONE") = Count(s, "DONE") BY <1>0, <2>1, CountAppend
  <2>8. Count(t, "text") = Count(a, "text") BY <1>0, <2>2, <2>3, CountAppend
  <2>9. Count(t, "tool") = Count(a, "tool") BY <1>0, <2>2, <2>3, CountAppend
  <2>10. Count(t, "args") = Count(a, "args") BY <1>0, <2>2, <2>3, CountAppend
  <2>11. Count(t, "DONE") = Count(a, "DONE") + 1 /\ t \in Seq(ChunkKinds) /\ t[Len(t)] = "DONE"
    BY <1>0, <2>2, <2>3, CountAppend
  <2>12. QED BY <1>3, <2>4, <2>5, <2>6, <2>7, <2>8, <2>9, <2>10, <2>11
<1>4. QED BY <1>1, <1>2, <1>3 DEF Sends

\* The usage a handler ends with.
LEMMA CountedIsFair ==
  ASSUME Streaming, api.name \notin {"zhipuV4", "awsLlama", "ollama", "ali"}, NEW u, u = ResponseText2Usage(handler.text)
  PROVE  Fair(u)
<1>1. handler.text \in Nat /\ PromptTokens \in Nat
  BY AnswersAssumption DEF Streaming, AnswersInv, AnswersTypes, HandlerType
<1>2. ~told.damaged => handler.text = told.texts BY DEF Streaming, AnswersInv, Reading, TextsCounted
<1>3. u = UsageOf(PromptTokens, handler.text) BY DEF ResponseText2Usage
<1>4. PICK n \in Nat : n = handler.text BY <1>1
<1>5. UsageType(u) /\ u.known /\ u.prompt = PromptTokens /\ u.completion = n
  <2>1. UsageType(UsageOf(PromptTokens, n)) BY <1>1, Usages
  <2>2. Holds(UsageOf(PromptTokens, n), PromptTokens, n) BY <1>1, HoldsUsages
  <2>3. QED BY <1>3, <1>4, <2>1, <2>2 DEF Holds
<1>6. QED BY <1>2, <1>4, <1>5 DEF Fair, Worth

\* The usage an adaptor took from the reports is worth the prompt and the text.
LEMMA ReportedIsFair ==
  ASSUME Streaming, api.name \notin CountsText \cup {"openai"}
  PROVE  Fair(handler.usage)
<1>1. /\ UsageType(handler.usage) /\ told.texts \in Nat /\ PromptTokens \in Nat /\ told.final \in BOOLEAN
      /\ told.started \in BOOLEAN /\ api.name \in Streams
  BY AnswersAssumption DEF Streaming, AnswersInv, AnswersTypes, HandlerType
<1>2. Metered(api.name, handler.usage, told.texts, told.started, told.final) BY DEF Streaming, AnswersInv, Reading
<1>3. PICK u, n, x : u = handler.usage /\ n = api.name /\ x = told.texts OBVIOUS
<1>4. u.prompt \in Nat /\ u.completion \in Nat /\ x \in Nat BY <1>1, <1>3 DEF UsageType
<1>5. n \in ReportsAtEnd \cup ReportsRunningTotal \cup {"aiproxy"} /\ n # "openai" BY <1>1, <1>3 DEF Streams
<1>6. ASSUME told.final, n # "aiproxy", n = "zhipuV4" => u.known, n = "awsLlama" => u.prompt > 0,
             n \in {"ollama", "ali"} => x > 0
      PROVE  Worth(u, x)
  BY <1>1, <1>2, <1>3, <1>4, <1>5, <1>6 DEF Metered, Worth, ReportsAtEnd, ReportsRunningTotal
<1>7. QED BY <1>1, <1>3, <1>6 DEF Fair

\* OpenAI's usage, completed from its total or counted anew, is worth the prompt
\* and the text.
LEMMA OpenaiIsFair ==
  ASSUME Streaming, api.name = "openai", NEW u,
         u = IF ~handler.usage.known \/ handler.usage.total = 0 THEN ResponseText2Usage(handler.text)
             ELSE IF handler.usage.prompt = 0 THEN UsageOf(PromptTokens, handler.usage.total - PromptTokens)
             ELSE handler.usage
  PROVE  Fair(u)
<1>1. UsageType(handler.usage) /\ told.texts \in Nat /\ PromptTokens \in Nat
  BY AnswersAssumption DEF Streaming, AnswersInv, AnswersTypes, HandlerType
<1>2. Metered("openai", handler.usage, told.texts, told.started, told.final) BY DEF Streaming, AnswersInv, Reading
<1>3. PICK w : w = handler.usage OBVIOUS
<1>4. w.known => /\ w.total = PromptTokens + told.texts
                 /\ (w.prompt = PromptTokens /\ w.completion = told.texts) \/ (w.prompt = 0 /\ w.completion = 0)
  BY <1>2, <1>3 DEF Metered
<1>5. CASE ~w.known \/ w.total = 0
  <2>1. u = ResponseText2Usage(handler.text) BY <1>3, <1>5
  <2>2. QED BY <2>1, CountedIsFair
<1>6. CASE w.known /\ w.total # 0 /\ w.prompt = 0
  <2>1. PICK n \in Nat : n = w.total - PromptTokens /\ n = told.texts BY <1>1, <1>4, <1>6
  <2>2. u = UsageOf(PromptTokens, n) BY <1>3, <1>6, <2>1
  <2>3. UsageType(u) /\ u.known /\ u.prompt = PromptTokens /\ u.completion = n
    <3>1. UsageType(UsageOf(PromptTokens, n)) BY <1>1, Usages
    <3>2. Holds(UsageOf(PromptTokens, n), PromptTokens, n) BY <1>1, HoldsUsages
    <3>3. QED BY <2>2, <3>1, <3>2 DEF Holds
  <2>4. QED BY <2>1, <2>3 DEF Fair, Worth, CountsText
<1>7. CASE w.known /\ w.total # 0 /\ w.prompt # 0
  <2>1. u = w BY <1>3, <1>7
  <2>2. w.prompt = PromptTokens /\ w.completion = told.texts BY <1>4, <1>7
  <2>3. QED BY <1>1, <1>3, <1>7, <2>1, <2>2 DEF Fair, Worth, CountsText
<1>8. UsageType(w) BY <1>1, <1>3
<1>9. QED BY <1>5, <1>6, <1>7

\* The result of a stream's handler.
LEMMA Results ==
  ASSUME Streaming, NEW cut \in BOOLEAN, NEW r, r = StreamResult(handler, cut)
  PROVE  /\ api.name = "replicate" /\ cut => r = Failed
         /\ ~(api.name = "replicate" /\ cut) => (r.err = FALSE) /\ Sends(r) /\ Fair(r.usage)
<1>1. api.name \in Streams BY DEF Streaming, AnswersInv, AnswersTypes
<1>2. CASE api.name = "replicate" /\ cut BY <1>2 DEF StreamResult, ReplicateChatHandler
<1>3. CASE api.name \in CountsText /\ ~(api.name = "replicate" /\ cut)
  <2>1. r = Ended(handler, ResponseText2Usage(handler.text))
    BY <1>3 DEF StreamResult, CountsText, CountedDoResponse, GeminiDoResponse, TencentDoResponse, CozeDoResponse, ReplicateChatHandler
  <2>2. Sends(r) /\ (r.err = FALSE) /\ r.usage = ResponseText2Usage(handler.text) BY <2>1 DEF Ended, Sends
  <2>3. Fair(r.usage) BY <1>3, <2>2, CountedIsFair DEF CountsText
  <2>4. QED BY <1>3, <2>2, <2>3
<1>4. CASE api.name = "openai"
  <2>1. PICK u : u = IF ~handler.usage.known \/ handler.usage.total = 0 THEN ResponseText2Usage(handler.text)
             ELSE IF handler.usage.prompt = 0 THEN UsageOf(PromptTokens, handler.usage.total - PromptTokens)
             ELSE handler.usage
    OBVIOUS
  <2>2. r = Ended(handler, u) BY <1>4, <2>1 DEF StreamResult, OpenaiDoResponse
  <2>3. Sends(r) /\ (r.err = FALSE) /\ r.usage = u BY <2>2 DEF Ended, Sends
  <2>4. Fair(u) BY <1>4, <2>1, OpenaiIsFair
  <2>5. QED BY <1>4, <2>3, <2>4
<1>5. CASE api.name = "aiproxy"
  <2>1. r = [err |-> FALSE, sent |-> <<"stop", "DONE">>, usage |-> handler.usage]
    BY <1>5 DEF StreamResult, AIProxyEnd, documentsAIProxyLibrary
  <2>2. ~handler.done BY <1>5 DEF Streaming, AnswersInv, Reading, DonesCounted, Broken, Ringing
  <2>3. Sends(r) /\ (r.err = FALSE) /\ r.usage = handler.usage BY <2>1, <2>2 DEF Sends
  <2>4. Fair(handler.usage) BY <1>5, ReportedIsFair DEF CountsText
  <2>5. QED BY <1>5, <2>3, <2>4
<1>6. CASE api.name \notin CountsText \cup {"openai", "aiproxy"}
  <2>1. r = Ended(handler, handler.usage) BY <1>6 DEF StreamResult, DoResponseV4, ReportedDoResponse, CountsText
  <2>2. Sends(r) /\ (r.err = FALSE) /\ r.usage = handler.usage BY <2>1 DEF Ended, Sends
  <2>3. Fair(handler.usage) BY <1>6, ReportedIsFair
  <2>4. QED BY <1>6, <2>2, <2>3 DEF CountsText
<1>7. QED BY <1>1, <1>2, <1>3, <1>4, <1>5, <1>6

\* The types after the end of a call that leaves the handler alone.
LEMMA EndTypes ==
  ASSUME AnswersInv, api' = api, handler' = handler, rendered' \in Seq(ChunkKinds),
         DOMAIN told' = ToldFields, told'.lines = told.lines, told'.texts \in Nat, told'.dones = told.dones,
         told'.started = told.started, told'.final = told.final, told'.damaged = told.damaged, told'.cut \in BOOLEAN
  PROVE  AnswersTypes'
<1>1. AnswersTypes BY DEF AnswersInv
<1>2. AnswersWhole' = AnswersWhole BY DEF AnswersWhole
<1>3. HandlerType(handler)' = HandlerType(handler) OBVIOUS
<1>4. QED BY <1>1, <1>2, <1>3 DEF AnswersTypes

\* What is charged is a natural number, and for a usage that is worth n the
\* prompt and n.
LEMMA Charged ==
  ASSUME NEW r, Finish(r), UsageType(r.usage), r.err \in BOOLEAN
  PROVE  /\ outcome'.open = FALSE /\ outcome'.err = r.err /\ outcome'.usage = r.usage /\ outcome'.charge \in Nat
         /\ \A n : ~r.err /\ Worth(r.usage, n) => outcome'.charge = PromptTokens + n
<1>1. PICK reserved \in {0, PromptTokens} :
        outcome' = [open |-> FALSE, err |-> r.err, usage |-> r.usage, charge |-> Charge(r, reserved)]
  BY DEF Finish
<1>2. PICK c : c = Charge(r, reserved) OBVIOUS
<1>3. PromptTokens \in Nat /\ reserved \in Nat BY AnswersAssumption
<1>4. /\ r.err => c = 0
      /\ ~r.err /\ ~r.usage.known => c = reserved
      /\ ~r.err /\ r.usage.known => c = r.usage.prompt + r.usage.completion
  BY <1>2 DEF Charge
<1>5. c \in Nat BY <1>3, <1>4 DEF UsageType
<1>6. \A n : ~r.err /\ Worth(r.usage, n) => c = PromptTokens + n BY <1>4 DEF Worth
<1>7. outcome'.open = FALSE /\ outcome'.err = r.err /\ outcome'.usage = r.usage /\ outcome'.charge = c BY <1>1, <1>2
<1>8. QED BY <1>5, <1>6, <1>7

\* A stream that is answered.
LEMMA AnsweredStream ==
  ASSUME Streaming, NEW r, (r.err = FALSE), Sends(r), Fair(r.usage), Finish(r), rendered' = rendered \o r.sent,
         AnswersTypes', api' = api, told'.texts = told.texts, told'.dones = told.dones, told'.final = told.final,
         told'.damaged = told.damaged
  PROVE  AnswersInv'
<1>1. /\ UsageType(r.usage) /\ AnswersInv /\ AnswersTypes /\ Reading /\ api.mode = "stream" /\ outcome.open
      /\ rendered \in Seq(ChunkKinds) /\ told.dones \in Nat
  BY DEF Fair, Streaming, AnswersInv, AnswersTypes
<1>2. /\ outcome'.open = FALSE /\ outcome'.err = FALSE /\ outcome'.usage = r.usage /\ outcome'.charge \in Nat
      /\ \A n : Worth(r.usage, n) => outcome'.charge = PromptTokens + n
  BY <1>1, Charged
<1>3. PICK s, t : s = rendered /\ t = rendered' OBVIOUS
<1>4. /\ Count(t, "text") = Count(s, "text") /\ Count(t, "tool") = Count(s, "tool") /\ Count(t, "args") = Count(s, "args")
      /\ handler.done => Count(t, "DONE") = Count(s, "DONE")
      /\ ~handler.done => Count(t, "DONE") = Count(s, "DONE") + 1 /\ t[Len(t)] = "DONE"
  <2>1. s \in Seq(ChunkKinds) /\ t = s \o r.sent BY <1>1, <1>3
  <2>2. QED BY <2>1, Closes
<1>5. StreamsAreMetered'
  <2>1. ASSUME ~told'.damaged, told'.final, api.name # "aiproxy", api.name = "zhipuV4" => outcome'.usage.known,
               api.name = "awsLlama" => outcome'.usage.prompt > 0, api.name \in {"ollama", "ali"} => told'.texts > 0
        PROVE  outcome'.charge = PromptTokens + told'.texts
    <3>1. Worth(r.usage, told.texts) BY <1>2, <2>1 DEF Fair
    <3>2. QED BY <1>2, <3>1
  <2>2. ASSUME api.name \in CountsText PROVE outcome'.charge = PromptTokens + Cardinality({i \in DOMAIN t : t[i] = "text"})
    <3>1. Worth(r.usage, handler.text) BY <2>2 DEF Fair
    <3>2. handler.text = Count(t, "text") BY <1>1, <1>3, <1>4 DEF Reading, TextsCounted
    <3>3. QED BY <1>2, <3>1, <3>2 DEF Count
  <2>3. QED BY <1>3, <2>1, <2>2 DEF StreamsAreMetered, Chunks
<1>6. ASSUME ~Broken
      PROVE  /\ Count(t, "DONE") = IF told.dones > 1 /\ api.name \in {"openai", "completions", "zhipuV4"} THEN told.dones ELSE 1
             /\ told.dones = 0 => t[Len(t)] = "DONE"
  <2>1. CASE api.name \in Ringing
    <3>1. /\ Count(s, "DONE") = told.dones /\ (handler.done <=> told.dones > 0)
          /\ api.name = "replicate" => told.dones <= 1
      BY <1>1, <1>3, <2>1 DEF Reading, DonesCounted
    <3>2. api.name \in {"openai", "completions", "zhipuV4"} \/ api.name = "replicate" BY <2>1 DEF Ringing
    <3>3. QED BY <1>1, <1>4, <3>1, <3>2
  <2>2. CASE api.name \notin Ringing
    <3>1. Count(s, "DONE") = 0 /\ ~handler.done BY <1>1, <1>3, <1>6, <2>2 DEF Reading, DonesCounted
    <3>2. api.name \notin {"openai", "completions", "zhipuV4"} BY <2>2 DEF Ringing
    <3>3. QED BY <1>4, <3>1, <3>2
  <2>3. QED BY <2>1, <2>2
<1>7. ASSUME api.name \in {"anthropic", "awsClaude"}, told.final, Count(t, "tool") > 0 PROVE Count(t, "args") > 0
  BY <1>1, <1>3, <1>4, <1>7 DEF Reading, ToolsFollowed, Claude
<1>8. StreamsAreWellFormed'
  <2>1. \A kind : Chunks(kind)' = Count(t, kind) BY <1>3 DEF Chunks, Count
  <2>2. ~(told'.damaged /\ api'.name \in {"awsClaude", "awsLlama"}) =>
          /\ Chunks("DONE")' = IF told'.dones > 1 /\ api'.name \in {"openai", "completions", "zhipuV4"} THEN told'.dones ELSE 1
          /\ told'.dones = 0 => rendered'[Len(rendered')] = "DONE"
    BY <1>3, <1>6, <2>1 DEF Broken
  <2>3. api'.name \in {"anthropic", "awsClaude"} /\ told'.final /\ Chunks("tool")' > 0 => Chunks("args")' > 0
    BY <1>7, <2>1
  <2>4. QED BY <2>2, <2>3 DEF StreamsAreWellFormed
<1>9. FailedCallsDeliverNothing' BY <1>2 DEF FailedCallsDeliverNothing
<1>10. AnswersAreCharged' BY <1>5, <1>8, <1>9 DEF AnswersAreCharged
<1>11. QED BY <1>1, <1>2, <1>10 DEF AnswersInv

\* The chunks of an answer that is sent whole, and its usage.
LEMMA CountEmpty ==
  ASSUME NEW kind PROVE <<>> \in Seq(ChunkKinds) /\ Count(<<>>, kind) = 0
<1>1. {i \in DOMAIN <<>> : <<>>[i] = kind} = {} OBVIOUS
<1>2. QED BY <1>1, FS_EmptySet DEF Count

\* The types of a body and of what is counted in it.
LEMMA Bodied ==
  ASSUME NEW b \in BodiesSent
  PROVE  /\ UsageType(b.usage) /\ Tokens(b) \in Nat /\ FirstText(b) \in Nat /\ Len(b.texts) \in Nat
         /\ b.readable \in BOOLEAN /\ b.parsed \in BOOLEAN /\ b.error \in BOOLEAN
<1>1. /\ b.texts \in {<<>>, <<1>>, <<1, 1>>} /\ b.readable \in BOOLEAN /\ b.parsed \in BOOLEAN /\ b.error \in BOOLEAN
      /\ b.usage \in {NoUsage} \cup {UsageOf(PromptTokens, n) : n \in 0 .. 2}
  BY DEF BodiesSent
<1>2. UsageType(b.usage)
  <2>1. PromptTokens \in Nat BY AnswersAssumption
  <2>2. UsageType(NoUsage) BY <2>1, Usages
  <2>3. ASSUME NEW n \in 0 .. 2 PROVE UsageType(UsageOf(PromptTokens, n))
    <3>1. n \in Nat OBVIOUS
    <3>2. QED BY <2>1, <3>1, Usages
  <2>4. QED BY <1>1, <2>2, <2>3
<1>3. PICK t : t = b.texts OBVIOUS
<1>4. Len(t) \in Nat /\ DOMAIN t = 1 .. Len(t)
  <2>1. t = <<>> \/ t = <<1>> \/ t = <<1, 1>> BY <1>1, <1>3
  <2>2. CASE t = <<>> BY <2>2
  <2>3. CASE t = <<1>> BY <2>3
  <2>4. CASE t = <<1, 1>> BY <2>4
  <2>5. QED BY <2>1, <2>2, <2>3, <2>4
<1>5. Tokens(b) \in Nat
  <2>1. IsFiniteSet(1 .. Len(t)) BY <1>4, FS_Interval
  <2>2. {i \in DOMAIN t : t[i] = 1} \subseteq 1 .. Len(t) BY <1>4
  <2>3. IsFiniteSet({i \in DOMAIN t : t[i] = 1}) BY <2>1, <2>2, FS_Subset
  <2>4. QED BY <1>3, <2>3, FS_CardinalityType DEF Tokens
<1>6. FirstText(b) \in Nat BY DEF FirstText
<1>7. QED BY <1>1, <1>2, <1>3, <1>4, <1>5, <1>6

\* The result of a handler that answers at once.
Good(r) == r = Failed \/ \E u : UsageType(u) /\ r = Served(u)
\* A body that is decoded is refused or served.
LEMMA DecodedIsGood ==
  ASSUME NEW b, NEW refused, NEW u, UsageType(u) PROVE Good(Decoded(b, refused, u)) /\ Good(Served(u)) /\ Good(Failed)
BY DEF Good, Decoded

\* The usages the handlers make of a body.
LEMMA BodyUsages ==
  ASSUME NEW b \in BodiesSent
  PROVE  /\ UsageType(b.usage) /\ UsageType(ResponseText2Usage(Tokens(b))) /\ UsageType(ResponseText2Usage(FirstText(b)))
         /\ UsageType(UsageOf(b.usage.prompt, b.usage.completion)) /\ UsageType(ZeroUsage)
         /\ UsageType(UsageOf(PromptLength, 0)) /\ UsageType(TotalOnly(b.usage.total)) /\ UsageType(NoUsage)
<1>1. /\ UsageType(b.usage) /\ Tokens(b) \in Nat /\ FirstText(b) \in Nat /\ PromptTokens \in Nat /\ PromptLength \in Nat
      /\ b.usage.prompt \in Nat /\ b.usage.completion \in Nat /\ b.usage.total \in Nat /\ 0 \in Nat
  BY Bodied, AnswersAssumption DEF UsageType
<1>2. UsageType(ResponseText2Usage(Tokens(b))) BY <1>1, Usages DEF ResponseText2Usage
<1>3. UsageType(ResponseText2Usage(FirstText(b))) BY <1>1, Usages DEF ResponseText2Usage
<1>4. UsageType(UsageOf(b.usage.prompt, b.usage.completion)) BY <1>1, Usages
<1>5. UsageType(ZeroUsage) BY <1>1, Usages DEF ZeroUsage
<1>6. UsageType(UsageOf(PromptLength, 0)) BY <1>1, Usages
<1>7. UsageType(TotalOnly(b.usage.total)) /\ UsageType(NoUsage) BY <1>1, Usages
<1>8. QED BY <1>1, <1>2, <1>3, <1>4, <1>5, <1>6, <1>7

\* Every handler of a whole answer refuses it or serves it with a usage.
LEMMA BodyIsGood ==
  ASSUME NEW b \in BodiesSent, api.name \in Bodies PROVE Good(BodyResult(b))
<1>1. CASE api.name = "openai" BY <1>1, BodyUsages, DecodedIsGood DEF BodyResult, OpenaiHandler
<1>2. CASE api.name = "gemini" BY <1>2, BodyUsages, DecodedIsGood DEF BodyResult, GeminiHandler, GeminiText
<1>3. CASE api.name = "anthropic" BY <1>3, BodyUsages, DecodedIsGood DEF BodyResult, AnthropicHandler
<1>4. CASE api.name = "awsClaude" BY <1>4, BodyUsages, DecodedIsGood DEF BodyResult, AwsClaudeHandler
<1>5. CASE api.name = "awsLlama" BY <1>5, BodyUsages, DecodedIsGood DEF BodyResult, AwsLlamaHandler
<1>6. CASE api.name = "baidu" BY <1>6, BodyUsages, DecodedIsGood DEF BodyResult, BaiduHandler, responseBaidu2OpenAI
<1>7. CASE api.name = "tencent" BY <1>7, BodyUsages, DecodedIsGood DEF BodyResult, TencentHandler, responseTencent2OpenAI
<1>8. CASE api.name = "zhipu" BY <1>8, BodyUsages, DecodedIsGood DEF BodyResult, ZhipuHandler, responseZhipu2OpenAI
<1>9. CASE api.name = "ollama" BY <1>9, BodyUsages, DecodedIsGood DEF BodyResult, OllamaHandler, responseOllama2OpenAI
<1>10. CASE api.name = "ali" BY <1>10, BodyUsages, DecodedIsGood DEF BodyResult, AliHandler, responseAli2OpenAI
<1>11. CASE api.name = "cohere" BY <1>11, BodyUsages, DecodedIsGood DEF BodyResult, CohereHandler
<1>12. CASE api.name = "aiproxy" BY <1>12, BodyUsages, DecodedIsGood DEF BodyResult, AIProxyHandler, responseAIProxyLibrary2OpenAI
<1>13. CASE api.name = "coze" BY <1>13, BodyUsages, DecodedIsGood DEF BodyResult, CozeHandler, ResponseCoze2OpenAI
<1>14. CASE api.name = "palm" BY <1>14, BodyUsages, DecodedIsGood DEF BodyResult, PalmHandler
<1>15. CASE api.name = "deepl" BY <1>15, BodyUsages, DecodedIsGood DEF BodyResult, DeepLHandler
<1>16. CASE api.name = "cloudflare" BY <1>16, BodyUsages, DecodedIsGood DEF BodyResult, CloudflareHandler
<1>17. CASE api.name = "proxy" BY <1>17, BodyUsages, DecodedIsGood DEF BodyResult, ProxyResponse
<1>18. QED BY <1>1, <1>2, <1>3, <1>4, <1>5, <1>6, <1>7, <1>8, <1>9, <1>10, <1>11, <1>12, <1>13, <1>14, <1>15, <1>16, <1>17 DEF Bodies

\* So does every handler of an embedding.
LEMMA EmbeddingIsGood ==
  ASSUME NEW b \in BodiesSent, api.name \in Embeddings PROVE Good(EmbeddingResult(b))
<1>1. CASE api.name = "ali" BY <1>1, BodyUsages, DecodedIsGood DEF EmbeddingResult, AliEmbedding, embeddingResponseAli2OpenAI
<1>2. CASE api.name = "tencent" BY <1>2, BodyUsages, DecodedIsGood DEF EmbeddingResult, TencentEmbedding, embeddingResponseTencent2OpenAI
<1>3. CASE api.name = "gemini" BY <1>3, BodyUsages, DecodedIsGood DEF EmbeddingResult, GeminiEmbedding, embeddingResponseGemini2OpenAI
<1>4. CASE api.name = "ollama" BY <1>4, BodyUsages, DecodedIsGood DEF EmbeddingResult, OllamaEmbedding, embeddingResponseOllama2OpenAI
<1>5. CASE api.name = "baidu" BY <1>5, BodyUsages, DecodedIsGood DEF EmbeddingResult, BaiduEmbedding, embeddingResponseBaidu2OpenAI
<1>6. CASE api.name = "zhipu" BY <1>6, BodyUsages, DecodedIsGood DEF EmbeddingResult, ZhipuEmbedding, embeddingResponseZhipu2OpenAI
<1>7. QED BY <1>1, <1>2, <1>3, <1>4, <1>5, <1>6 DEF Embeddings

\* The result of a handler that makes a stream of a whole body.
WholeSent(r) ==
  r = Failed \/ \E u, c : UsageType(u) /\ c \in {"text", "empty"} /\ r = [err |-> FALSE, usage |-> u, sent |-> <<c, "DONE">>]
\* A stream made of a whole body is refused, or is one chunk and [DONE].
LEMMA WholeIsSent ==
  ASSUME NEW b \in BodiesSent PROVE WholeSent(PalmStream(b)) /\ WholeSent(DeepLStream(b))
<1>1. PICK c : c = IF FirstText(b) = 1 THEN "text" ELSE "empty" OBVIOUS
<1>2. c \in {"text", "empty"} BY <1>1
<1>3. PalmStream(b) = Failed \/ PalmStream(b) = [err |-> FALSE, usage |-> ResponseText2Usage(FirstText(b)), sent |-> <<c, "DONE">>]
  BY <1>1 DEF PalmStream
<1>4. DeepLStream(b) = Failed \/ DeepLStream(b) = [err |-> FALSE, usage |-> UsageOf(PromptLength, 0), sent |-> <<c, "DONE">>]
  BY <1>1 DEF DeepLStream
<1>5. QED BY <1>2, <1>3, <1>4, BodyUsages DEF WholeSent

\* A stream that ends or breaks off.
LEMMA AnyEnd ==
  ASSUME AnswersInv, NEW cut \in BOOLEAN, StreamEnds(cut) PROVE AnswersInv'
<1>1. PICK r : r = StreamResult(handler, cut) OBVIOUS
<1>2. /\ api.mode = "stream" /\ outcome.open /\ rendered' = rendered \o r.sent /\ Finish(r)
      /\ told' = [told EXCEPT !.cut = cut] /\ api' = api /\ handler' = handler
  BY <1>1 DEF StreamEnds
<1>3. AnswersTypes /\ Streaming BY <1>2 DEF AnswersInv, Streaming
<1>4. /\ DOMAIN told' = ToldFields /\ told'.lines = told.lines /\ told'.texts = told.texts /\ told'.dones = told.dones
      /\ told'.started = told.started /\ told'.final = told.final /\ told'.damaged = told.damaged /\ told'.cut = cut
      /\ told'.texts \in Nat
  BY <1>2, <1>3 DEF AnswersTypes, ToldFields
<1>5. rendered \in Seq(ChunkKinds) BY <1>3 DEF AnswersTypes
<1>6. CASE api.name = "replicate" /\ cut
  <2>1. r = Failed BY <1>1, <1>3, <1>6, Results
  <2>2. r.err = TRUE /\ r.sent = <<>> /\ r.usage = NoUsage BY <2>1 DEF Failed
  <2>3. rendered' = rendered BY <1>2, <1>5, <2>2, ConcatEmptySeq
  <2>4. AnswersTypes' BY <1>2, <1>4, <1>5, <2>3, EndTypes
  <2>5. UsageType(r.usage)
    <3>1. 0 \in Nat OBVIOUS
    <3>2. UsageType(NoUsage) BY <3>1, Usages
    <3>3. QED BY <2>2, <3>2
  <2>6. outcome'.open = FALSE /\ outcome'.err = TRUE /\ outcome'.charge \in Nat BY <1>2, <2>2, <2>5, Charged
  <2>7. AnswersAreCharged'
    BY <1>2, <1>4, <1>6, <2>6 DEF AnswersAreCharged, StreamsAreMetered, StreamsAreWellFormed, FailedCallsDeliverNothing
  <2>8. QED BY <1>2, <2>4, <2>6, <2>7 DEF AnswersInv
<1>7. CASE ~(api.name = "replicate" /\ cut)
  <2>1. (r.err = FALSE) /\ Sends(r) /\ Fair(r.usage) BY <1>1, <1>3, <1>7, Results
  <2>2. PICK t : t = rendered \o r.sent OBVIOUS
  <2>3. t \in Seq(ChunkKinds) BY <1>5, <2>1, <2>2, Closes
  <2>4. AnswersTypes' BY <1>2, <1>4, <2>2, <2>3, EndTypes
  <2>5. QED BY <1>2, <1>3, <1>4, <2>1, <2>4, AnsweredStream
<1>8. QED BY <1>6, <1>7

\* Everything was rendered, and closing the body fails.
LEMMA AnyCloseFails ==
  ASSUME AnswersInv, CloseFails PROVE AnswersInv'
<1>1. PICK r : r = StreamResult(handler, FALSE) OBVIOUS
<1>2. /\ api.mode = "stream" /\ outcome.open /\ rendered' = rendered \o r.sent /\ Finish(Failed)
      /\ told' = told /\ api' = api /\ handler' = handler /\ api.name # "replicate"
  BY <1>1 DEF CloseFails
<1>3. AnswersTypes /\ Streaming BY <1>2 DEF AnswersInv, Streaming
<1>4. Sends(r)
  <2>1. PICK cut \in BOOLEAN : cut = FALSE OBVIOUS
  <2>2. r = StreamResult(handler, cut) BY <1>1, <2>1
  <2>3. QED BY <1>2, <1>3, <2>2, Results
<1>5. rendered \in Seq(ChunkKinds) BY <1>3 DEF AnswersTypes
<1>6. PICK t : t = rendered \o r.sent OBVIOUS
<1>7. t \in Seq(ChunkKinds) /\ (~handler.done => t[Len(t)] = "DONE") BY <1>4, <1>5, <1>6, Closes
<1>8. AnswersTypes' BY <1>2, <1>3, <1>6, <1>7, EndTypes DEF AnswersTypes
<1>9. PICK f : f = Failed OBVIOUS
<1>10. f.err = TRUE /\ UsageType(f.usage)
  <2>1. 0 \in Nat OBVIOUS
  <2>2. UsageType(NoUsage) BY <2>1, Usages
  <2>3. QED BY <1>9, <2>2 DEF Failed
<1>11. outcome'.open = FALSE /\ outcome'.err = TRUE /\ outcome'.charge \in Nat BY <1>2, <1>9, <1>10, Charged
<1>12. FailedCallsDeliverNothing' BY <1>2, <1>6, <1>7, <1>11 DEF FailedCallsDeliverNothing
<1>13. AnswersAreCharged' BY <1>11, <1>12 DEF AnswersAreCharged, StreamsAreMetered, StreamsAreWellFormed
<1>14. QED BY <1>2, <1>8, <1>11, <1>13 DEF AnswersInv

\* An answer that is read whole.
LEMMA AnyAnswer ==
  ASSUME AnswersInv, NEW b \in BodiesSent, Answer(b) PROVE AnswersInv'
<1>1. PICK r : /\ r = CASE api.mode = "body" -> BodyResult(b) [] api.mode = "embedding" -> EmbeddingResult(b)
                        [] api.mode = "whole" /\ api.name = "palm" -> PalmStream(b) [] OTHER -> DeepLStream(b)
               /\ rendered' = r.sent /\ Finish(r)
  BY DEF Answer
<1>2. /\ api.mode # "stream" /\ outcome.open /\ told' = [told EXCEPT !.texts = Len(b.texts)] /\ api' = api /\ handler' = handler
  BY DEF Answer
<1>3. AnswersTypes /\ AnswersWhole /\ told.dones = 0 /\ ~told.damaged BY <1>2 DEF AnswersInv, AnswersTypes
<1>4. Len(b.texts) \in Nat BY Bodied
<1>5. /\ DOMAIN told' = ToldFields /\ told'.lines = told.lines /\ told'.texts = Len(b.texts) /\ told'.dones = told.dones
      /\ told'.started = told.started /\ told'.final = told.final /\ told'.damaged = told.damaged /\ told'.cut = told.cut
  BY <1>2, <1>3 DEF AnswersTypes, ToldFields
<1>6. told'.cut \in BOOLEAN BY <1>3, <1>5 DEF AnswersTypes
<1>7. UsageType(NoUsage)
  <2>1. 0 \in Nat OBVIOUS
  <2>2. QED BY <2>1, Usages
<1>8. PICK u, c : /\ UsageType(u) /\ c \in {"text", "empty"}
                  /\ \/ r = Failed
                     \/ api.mode # "whole" /\ r = Served(u)
                     \/ api.mode = "whole" /\ r = [err |-> FALSE, usage |-> u, sent |-> <<c, "DONE">>]
  <2>1. CASE api.mode = "body"
    <3>1. r = BodyResult(b) /\ api.name \in Bodies BY <1>1, <1>3, <2>1 DEF AnswersWhole
    <3>2. Good(r) BY <3>1, BodyIsGood
    <3>3. QED BY <1>7, <2>1, <3>2 DEF Good
  <2>2. CASE api.mode = "embedding"
    <3>1. r = EmbeddingResult(b) /\ api.name \in Embeddings BY <1>1, <1>3, <2>2 DEF AnswersWhole
    <3>2. Good(r) BY <3>1, EmbeddingIsGood
    <3>3. QED BY <1>7, <2>2, <3>2 DEF Good
  <2>3. CASE api.mode = "whole"
    <3>1. r = PalmStream(b) \/ r = DeepLStream(b) BY <1>1, <2>3
    <3>2. WholeSent(r) BY <3>1, WholeIsSent
    <3>3. QED BY <1>7, <2>3, <3>2 DEF WholeSent
  <2>4. QED BY <1>3, <2>1, <2>2, <2>3 DEF AnswersWhole
<1>14. \/ r.err = TRUE /\ r.sent = <<>> /\ r.usage = NoUsage
       \/ r.err = FALSE /\ r.usage = u /\ api.mode # "whole" /\ r.sent = <<"body">>
       \/ r.err = FALSE /\ r.usage = u /\ api.mode = "whole" /\ r.sent = <<c, "DONE">>
  <2>1. CASE r = Failed BY <2>1 DEF Failed
  <2>2. CASE api.mode # "whole" /\ r = Served(u) BY <2>2 DEF Served
  <2>3. CASE api.mode = "whole" /\ r = [err |-> FALSE, usage |-> u, sent |-> <<c, "DONE">>] BY <2>3
  <2>4. QED BY <1>8, <2>1, <2>2, <2>3
<1>9. r.err \in BOOLEAN /\ UsageType(r.usage) BY <1>7, <1>8, <1>14
<1>10. outcome'.open = FALSE /\ outcome'.err = r.err /\ outcome'.charge \in Nat BY <1>1, <1>9, Charged
<1>11. c \in ChunkKinds /\ "body" \in ChunkKinds /\ "DONE" \in ChunkKinds /\ c # "DONE" BY <1>8 DEF ChunkKinds
<1>12. PICK e, t : e = <<>> /\ t = rendered' OBVIOUS
<1>13. e \in Seq(ChunkKinds) /\ Count(e, "DONE") = 0 BY <1>12, CountEmpty
<1>15. <<c, "DONE">> \in Seq(ChunkKinds) /\ <<"body">> \in Seq(ChunkKinds) BY <1>11
<1>16. t \in Seq(ChunkKinds) BY <1>1, <1>12, <1>13, <1>14, <1>15
<1>17. AnswersTypes' BY <1>2, <1>4, <1>5, <1>6, <1>12, <1>16, EndTypes
<1>18. ASSUME api.mode = "whole", r.err = FALSE PROVE Count(t, "DONE") = 1 /\ t[Len(t)] = "DONE"
  <2>1. t = <<c, "DONE">> BY <1>1, <1>12, <1>14, <1>18
  <2>2. e \o <<c, "DONE">> = t BY <1>12, <1>15, <2>1, ConcatEmptySeq
  <2>3. PICK a : a = Append(e, c) OBVIOUS
  <2>4. a \in Seq(ChunkKinds) /\ Count(a, "DONE") = 0 BY <1>11, <1>13, <2>3, CountAppend
  <2>5. t = Append(a, "DONE") BY <1>11, <1>13, <2>2, <2>3, SentAppend
  <2>6. Count(t, "DONE") = Count(a, "DONE") + 1 /\ t[Len(t)] = "DONE" BY <1>11, <2>4, <2>5, CountAppend
  <2>7. QED BY <2>4, <2>6
<1>19. StreamsAreWellFormed'
  <2>1. ASSUME r.err = FALSE, api.mode = "whole" PROVE Chunks("DONE")' = 1 /\ rendered'[Len(rendered')] = "DONE"
    BY <1>12, <1>18, <2>1 DEF Count, Chunks
  <2>2. api.mode = "whole" => api.name \notin {"anthropic", "awsClaude"} BY <1>3 DEF AnswersWhole, WholeStreams
  <2>3. told'.dones = 0 BY <1>3, <1>5
  <2>4. api'.mode \in {"stream", "whole"} => api.mode = "whole" BY <1>2
  <2>5. ~outcome'.err => r.err = FALSE BY <1>9, <1>10
  <2>6. ~(told'.dones > 1) BY <2>3
  <2>7. ASSUME ~outcome'.err, api'.mode \in {"stream", "whole"}
        PROVE  /\ Chunks("DONE")' = IF told'.dones > 1 /\ api'.name \in {"openai", "completions", "zhipuV4"}
                                   THEN told'.dones ELSE 1
               /\ rendered'[Len(rendered')] = "DONE"
               /\ api'.name \notin {"anthropic", "awsClaude"}
    BY <1>2, <2>1, <2>2, <2>4, <2>5, <2>6, <2>7
  <2>8. QED BY <2>7 DEF StreamsAreWellFormed
<1>20. FailedCallsDeliverNothing' BY <1>1, <1>10, <1>14 DEF FailedCallsDeliverNothing
<1>21. AnswersAreCharged' BY <1>2, <1>19, <1>20 DEF AnswersAreCharged, StreamsAreMetered
<1>22. QED BY <1>2, <1>3, <1>5, <1>10, <1>17, <1>21 DEF AnswersInv

\* No answer yet.
LEMMA AnswersStart == AnswersInit => AnswersInv
<1> SUFFICES ASSUME AnswersInit PROVE AnswersInv OBVIOUS
<1>1. /\ told = [lines |-> 0, texts |-> 0, started |-> FALSE, final |-> FALSE, damaged |-> FALSE, cut |-> FALSE, dones |-> 0]
      /\ handler = [text |-> 0, sent |-> <<>>, done |-> FALSE, closed |-> FALSE, call |-> "none",
                    usage |-> IF api.name \in {"openai", "completions", "zhipu", "zhipuV4"} THEN NoUsage ELSE ZeroUsage]
      /\ rendered = <<>> /\ outcome = [open |-> TRUE, err |-> FALSE, usage |-> NoUsage, charge |-> 0]
  BY DEF AnswersInit
<1>2. /\ api.mode = "stream" => api.name \in Streams
      /\ api.mode # "stream" => AnswersWhole
  BY DEF AnswersInit, AnswersWhole
<1>3. PICK u : u = IF api.name \in {"openai", "completions", "zhipu", "zhipuV4"} THEN NoUsage ELSE ZeroUsage OBVIOUS
<1>4. UsageType(u) /\ u.prompt = 0 /\ u.completion = 0 /\ (u.known <=> api.name \notin {"openai", "completions", "zhipu", "zhipuV4"})
  <2>1. PICK z \in Nat : z = 0 OBVIOUS
  <2>2. UsageType(UsageOf(z, z)) /\ UsageOf(z, z).known /\ UsageOf(z, z).prompt = z /\ UsageOf(z, z).completion = z BY Usages
  <2>3. UsageType(NoUsage) /\ ~NoUsage.known /\ NoUsage.prompt = 0 /\ NoUsage.completion = 0 BY <2>1, Usages
  <2>4. QED BY <1>3, <2>1, <2>2, <2>3 DEF ZeroUsage
<1>5. /\ DOMAIN handler = HandlerFields /\ handler.text = 0 /\ handler.sent = <<>> /\ handler.done = FALSE
      /\ handler.closed = FALSE /\ handler.call = "none" /\ handler.usage = u
  BY <1>1, <1>3 DEF HandlerFields
<1>6. HandlerType(handler)
  <2>1. handler.text \in Nat BY <1>5
  <2>2. PICK f \in BOOLEAN : f = FALSE OBVIOUS
  <2>3. handler.done = f /\ handler.closed = f BY <1>5, <2>2
  <2>4. handler.done \in BOOLEAN /\ handler.closed \in BOOLEAN BY <2>3
  <2>5. QED BY <1>4, <1>5, <2>1, <2>4 DEF HandlerType
<1>7. AnswersTypes
  <2>1. DOMAIN told = ToldFields BY <1>1 DEF ToldFields
  <2>2. 0 \in 0 .. MaxLines BY AnswersAssumption
  <2>3. rendered \in Seq(ChunkKinds) BY <1>1, CountEmpty
  <2>4. QED BY <1>1, <1>2, <1>6, <2>1, <2>2, <2>3 DEF AnswersTypes
<1>8. \A kind : Count(rendered, kind) = 0 BY <1>1, CountEmpty
<1>9. TextsCounted /\ DonesCounted /\ ToolsFollowed BY <1>1, <1>5, <1>8 DEF TextsCounted, DonesCounted, ToolsFollowed
<1>10. Metered(api.name, handler.usage, told.texts, told.started, told.final)
  <2>1. told.texts = 0 /\ told.started = FALSE /\ told.final = FALSE BY <1>1
  <2>2. Metered(api.name, u, 0, FALSE, FALSE) BY <1>4, AnswersAssumption DEF Metered
  <2>3. QED BY <1>5, <2>1, <2>2
<1>11. QED BY <1>1, <1>7, <1>9, <1>10 DEF AnswersInv, Reading

\* Every action preserves the invariant.
LEMMA AnswersStep == AnswersInv /\ [AnswersNext]_answersVars => AnswersInv'
<1> SUFFICES ASSUME AnswersInv, [AnswersNext]_answersVars PROVE AnswersInv' OBVIOUS
<1>1. CASE api.mode = "stream" /\ \E k \in Kinds : Line(k) BY <1>1, AnyLine
<1>2. CASE \E cut \in BOOLEAN : StreamEnds(cut) BY <1>2, AnyEnd
<1>3. CASE CloseFails BY <1>3, AnyCloseFails
<1>4. CASE \E b \in BodiesSent : Answer(b) BY <1>4, AnyAnswer
<1>5. CASE UNCHANGED answersVars
  <2>1. api' = api /\ told' = told /\ handler' = handler /\ rendered' = rendered /\ outcome' = outcome
    BY <1>5 DEF answersVars
  <2>2. AnswersTypes' BY <2>1 DEF AnswersInv, AnswersTypes, AnswersWhole
  <2>3. Reading' = Reading BY <2>1 DEF Reading, TextsCounted, DonesCounted, ToolsFollowed, Broken
  <2>4. AnswersAreCharged' = AnswersAreCharged
    BY <2>1 DEF AnswersAreCharged, StreamsAreMetered, StreamsAreWellFormed, FailedCallsDeliverNothing, Closed, Chunks
  <2>5. QED BY <2>1, <2>2, <2>3, <2>4 DEF AnswersInv
<1>6. QED BY <1>1, <1>2, <1>3, <1>4, <1>5 DEF AnswersNext

\* AnswersAreCharged, for every number of lines and every prompt: an undamaged
\* stream that ran to its end is charged for the prompt and the text it held, one
\* the gateway counts for what the client was sent; an answered stream ends with
\* one [DONE] and a stopped tool call has arguments; a failed call delivered
\* nothing, but for the two ways a stream can fail after it was rendered.
THEOREM AnswersCharged == AnswersSpec => [](AnswersTypeOK /\ AnswersAreCharged)
<1>1. AnswersInv => AnswersTypeOK /\ AnswersAreCharged
  <2>1. AnswersInv => AnswersTypeOK BY DEF AnswersInv, AnswersTypes, AnswersTypeOK, HandlerType
  <2>2. AnswersInv => AnswersAreCharged
    BY DEF AnswersInv, AnswersAreCharged, StreamsAreMetered, StreamsAreWellFormed, FailedCallsDeliverNothing, Closed
  <2>3. QED BY <2>1, <2>2
<1>2. QED BY <1>1, AnswersStart, AnswersStep, PTL DEF AnswersSpec
-----------------------------------------------------------------------------
(* The limiter in memory.  Its queue is the tail of the admissions, newest   *)
(* first.  While there is room in it, either everything admitted so far is   *)
(* in the queue or what is not left it when the key expired, and is old.     *)

LimiterTypes ==
  /\ clock \in Nat /\ window \in Seq(Nat) /\ admitted \in Seq(Nat)
  /\ \A r \in LimitRequests : request[r] = "none"

WindowIsTail ==
  /\ Len(window) <= maxRequestNum /\ Len(window) <= Len(admitted)
  /\ \A i \in 1 .. Len(window) : window[i] = admitted[Len(admitted) + 1 - i]

AdmittedInOrder ==
  \A j \in 1 .. Len(admitted) :
    admitted[j] <= clock /\ \A i \in 1 .. j : admitted[i] <= admitted[j]

ForgottenIsOld ==
  Len(window) < maxRequestNum =>
    \A j \in 1 .. Len(admitted) - Len(window) : clock - admitted[j] >= duration

AdmittedApart ==
  \A i \in 1 .. Len(admitted) - maxRequestNum : admitted[i + maxRequestNum] - admitted[i] >= duration

MemoryInv ==
  limiter = "memory" =>
    LimiterTypes /\ WindowIsTail /\ AdmittedInOrder /\ ForgottenIsOld /\ AdmittedApart

\* The invariant holds at the start, with nothing admitted.
LEMMA LimiterInit == LimitInit => MemoryInv
BY LimitAssumption DEF LimitInit, MemoryInv, LimiterTypes, WindowIsTail, AdmittedInOrder,
   ForgottenIsOld, AdmittedApart

\* A request is admitted when there is room, or in place of an old one.
LEMMA LimiterRequest ==
  ASSUME MemoryInv, Request
  PROVE  MemoryInv'
<1> DEFINE n == Len(admitted)
           w == Len(window)
           N == maxRequestNum
<1>1. /\ limiter = "memory" /\ limiter' = "memory" /\ UNCHANGED <<clock, request>>
      /\ admitted' = Append(admitted, clock)
  BY DEF Request, Admit
<1>2. LimiterTypes /\ WindowIsTail /\ AdmittedInOrder /\ ForgottenIsOld /\ AdmittedApart
  BY <1>1 DEF MemoryInv
<1>3. /\ clock \in Nat /\ window \in Seq(Nat) /\ admitted \in Seq(Nat) /\ n \in Nat /\ w \in Nat
      /\ N \in Nat /\ N > 0 /\ w <= N /\ w <= n /\ duration \in Nat
  BY <1>2, LimitAssumption DEF LimiterTypes, WindowIsTail
<1>4. /\ admitted' \in Seq(Nat) /\ Len(admitted') = n + 1 /\ admitted'[n + 1] = clock
      /\ \A i \in 1 .. n : admitted'[i] = admitted[i]
  BY <1>1, <1>3
<1>5. AdmittedInOrder'
  BY <1>1, <1>2, <1>3, <1>4 DEF AdmittedInOrder
<1>6. \A i \in 1 .. n : admitted[i] \in Nat
  BY <1>3
<1>7. CASE w < N /\ window' = <<clock>> \o window
  <2>1. /\ window' \in Seq(Nat) /\ Len(window') = w + 1 /\ window'[1] = clock
        /\ \A i \in 2 .. w + 1 : window'[i] = window[i - 1]
    BY <1>3, <1>7
  <2>2. WindowIsTail'
    <3>1. ASSUME NEW i \in 2 .. w + 1 PROVE window[i - 1] = admitted[n + 1 - (i - 1)]
      <4>1. i - 1 \in 1 .. w
        BY <1>3
      <4>2. QED BY <1>2, <4>1 DEF WindowIsTail
    <3>2. ASSUME NEW i \in 1 .. w + 1 PROVE window'[i] = admitted'[n + 2 - i]
      <4>1. CASE i = 1
        BY <1>3, <1>4, <2>1, <4>1
      <4>2. CASE i \in 2 .. w + 1
        <5>1. n + 2 - i \in 1 .. n /\ n + 1 - (i - 1) = n + 2 - i
          BY <1>3, <4>2
        <5>2. QED BY <1>4, <2>1, <3>1, <4>2, <5>1
      <4>3. QED BY <1>3, <4>1, <4>2
    <3>3. QED BY <1>3, <1>4, <1>7, <2>1, <3>2 DEF WindowIsTail
  <2>3. \A j \in 1 .. n - w : clock - admitted[j] >= duration
    BY <1>2, <1>7 DEF ForgottenIsOld
  <2>4. ForgottenIsOld'
    BY <1>1, <1>3, <1>4, <2>1, <2>3 DEF ForgottenIsOld
  <2>5. AdmittedApart'
    <3> SUFFICES ASSUME NEW i \in 1 .. (n + 1) - N
                 PROVE  admitted'[i + N] - admitted'[i] >= duration
      BY <1>4 DEF AdmittedApart
    <3>1. CASE i + N = n + 1
      <4>1. i \in 1 .. n - w /\ i \in 1 .. n
        BY <1>3, <1>7, <3>1
      <4>2. QED BY <1>4, <2>3, <3>1, <4>1
    <3>2. CASE i + N # n + 1
      <4>1. i \in 1 .. n - N /\ i + N \in 1 .. n /\ i \in 1 .. n
        <5> HIDE DEF n, N
        <5> QED BY <1>3, <3>2
      <4>2. admitted[i + N] - admitted[i] >= duration
        <5>1. \A j \in 1 .. n - N : admitted[j + N] - admitted[j] >= duration
          BY <1>2 DEF AdmittedApart
        <5>2. QED BY <4>1, <5>1
      <4>3. admitted'[i + N] = admitted[i + N] /\ admitted'[i] = admitted[i]
        BY <1>4, <4>1
      <4>4. QED BY <4>2, <4>3
    <3>3. QED BY <3>1, <3>2
  <2>6. QED BY <1>1, <1>2, <1>4, <1>5, <2>1, <2>2, <2>4, <2>5 DEF MemoryInv, LimiterTypes
<1>8. CASE w >= N /\ clock - Last(window) >= duration /\ window' = <<clock>> \o Front(window)
  <2>1. w = N /\ Last(window) = window[N] /\ Front(window) = SubSeq(window, 1, N - 1)
    BY <1>3, <1>8 DEF Last, Front
  <2>2. /\ Front(window) \in Seq(Nat) /\ Len(Front(window)) = N - 1
        /\ \A i \in 1 .. N - 1 : Front(window)[i] = window[i]
    BY <1>3, <2>1
  <2>3. /\ window' \in Seq(Nat) /\ Len(window') = N /\ window'[1] = clock
        /\ \A i \in 2 .. N : window'[i] = window[i - 1]
    BY <1>3, <1>8, <2>2
  <2>4. WindowIsTail'
    <3>1. ASSUME NEW i \in 2 .. N PROVE window[i - 1] = admitted[n + 1 - (i - 1)]
      <4>1. i - 1 \in 1 .. w
        BY <1>3, <2>1
      <4>2. QED BY <1>2, <4>1 DEF WindowIsTail
    <3>2. ASSUME NEW i \in 1 .. N PROVE window'[i] = admitted'[n + 2 - i]
      <4>1. CASE i = 1
        BY <1>3, <1>4, <2>3, <4>1
      <4>2. CASE i \in 2 .. N
        <5>1. n + 2 - i \in 1 .. n /\ n + 1 - (i - 1) = n + 2 - i
          BY <1>3, <2>1, <4>2
        <5>2. QED BY <1>4, <2>3, <3>1, <4>2, <5>1
      <4>3. QED BY <1>3, <4>1, <4>2
    <3>3. QED BY <1>3, <1>4, <2>1, <2>3, <3>2 DEF WindowIsTail
  <2>5. ForgottenIsOld'
    BY <1>3, <2>3 DEF ForgottenIsOld
  <2>6. AdmittedApart'
    <3> SUFFICES ASSUME NEW i \in 1 .. (n + 1) - N
                 PROVE  admitted'[i + N] - admitted'[i] >= duration
      BY <1>4 DEF AdmittedApart
    <3>1. CASE i + N = n + 1
      <4>1. window[N] = admitted[n + 1 - N] /\ i = n + 1 - N /\ i \in 1 .. n
        <5>1. N \in 1 .. w
          BY <1>3, <2>1
        <5>2. window[N] = admitted[n + 1 - N]
          BY <1>2, <5>1 DEF WindowIsTail
        <5>3. i = n + 1 - N /\ i \in 1 .. n
          <6> HIDE DEF n, w, N
          <6> QED BY <1>3, <2>1, <3>1
        <5>4. QED BY <5>2, <5>3
      <4>2. QED BY <1>3, <1>4, <1>8, <2>1, <3>1, <4>1
    <3>2. CASE i + N # n + 1
      <4>1. i \in 1 .. n - N /\ i + N \in 1 .. n /\ i \in 1 .. n
        <5> HIDE DEF n, N
        <5> QED BY <1>3, <3>2
      <4>2. admitted[i + N] - admitted[i] >= duration
        <5>1. \A j \in 1 .. n - N : admitted[j + N] - admitted[j] >= duration
          BY <1>2 DEF AdmittedApart
        <5>2. QED BY <4>1, <5>1
      <4>3. admitted'[i + N] = admitted[i + N] /\ admitted'[i] = admitted[i]
        BY <1>4, <4>1
      <4>4. QED BY <4>2, <4>3
    <3>3. QED BY <3>1, <3>2
  <2>7. QED BY <1>1, <1>2, <1>4, <1>5, <2>3, <2>4, <2>5, <2>6 DEF MemoryInv, LimiterTypes
<1>9. QED BY <1>7, <1>8 DEF Request

\* A key is dropped only when even its newest entry is old.
LEMMA LimiterClear ==
  ASSUME MemoryInv, clearExpiredItems
  PROVE  MemoryInv'
<1>1. /\ limiter = "memory" /\ UNCHANGED <<limiter, clock, request, admitted>> /\ window' = <<>>
      /\ window # <<>> /\ clock - Head(window) > RateLimitKeyExpirationDuration
  BY DEF clearExpiredItems, Expired
<1>2. LimiterTypes /\ WindowIsTail /\ AdmittedInOrder /\ ForgottenIsOld /\ AdmittedApart
  BY <1>1 DEF MemoryInv
<1>3. /\ Len(window) \in Nat \ {0} /\ Head(window) = window[1] /\ Len(admitted) \in Nat \ {0}
      /\ window[1] = admitted[Len(admitted)] /\ clock \in Nat
      /\ \A j \in 1 .. Len(admitted) : admitted[j] \in Nat /\ admitted[j] <= admitted[Len(admitted)]
  <2>1. /\ window \in Seq(Nat) /\ admitted \in Seq(Nat) /\ clock \in Nat /\ window # <<>>
        /\ Len(window) <= Len(admitted)
    BY <1>1, <1>2 DEF LimiterTypes, WindowIsTail
  <2>2. Len(window) \in Nat \ {0} /\ Head(window) = window[1] /\ Len(admitted) \in Nat \ {0}
    BY <2>1
  <2>3. window[1] = admitted[Len(admitted) + 1 - 1] /\ Len(admitted) + 1 - 1 = Len(admitted)
    BY <1>2, <2>2 DEF WindowIsTail
  <2>4. \A j \in 1 .. Len(admitted) : admitted[j] \in Nat /\ admitted[j] <= admitted[Len(admitted)]
    BY <1>2, <2>1, <2>2 DEF AdmittedInOrder
  <2>5. QED BY <2>1, <2>2, <2>3, <2>4
<1>4. \A j \in 1 .. Len(admitted) : clock - admitted[j] >= duration
  BY <1>1, <1>3, LimitAssumption
<1>5. Len(window') = 0 /\ window' \in Seq(Nat)
  BY <1>1
<1>6. ForgottenIsOld'
  BY <1>1, <1>3, <1>4, <1>5 DEF ForgottenIsOld
<1>7. LimiterTypes' /\ WindowIsTail' /\ AdmittedInOrder' /\ AdmittedApart'
  BY <1>1, <1>2, <1>3, <1>5, LimitAssumption
     DEF LimiterTypes, WindowIsTail, AdmittedInOrder, AdmittedApart
<1>8. QED BY <1>6, <1>7 DEF MemoryInv

\* Time only makes admissions older.
LEMMA LimiterTick ==
  ASSUME MemoryInv, LimitTick
  PROVE  MemoryInv'
<1>1. UNCHANGED <<limiter, window, request, admitted>> /\ clock' = clock + 1
  BY DEF LimitTick
<1>2. CASE limiter = "memory"
  <2>1. LimiterTypes /\ WindowIsTail /\ AdmittedInOrder /\ ForgottenIsOld /\ AdmittedApart
    BY <1>2 DEF MemoryInv
  <2>2. /\ clock \in Nat /\ \A j \in 1 .. Len(admitted) : admitted[j] \in Nat
        /\ Len(admitted) \in Nat /\ Len(window) \in Nat
    BY <2>1 DEF LimiterTypes
  <2>3. LimiterTypes' /\ WindowIsTail' /\ AdmittedApart'
    BY <1>1, <2>1 DEF LimiterTypes, WindowIsTail, AdmittedApart
  <2>4. AdmittedInOrder'
    BY <1>1, <2>1, <2>2 DEF AdmittedInOrder
  <2>5. ForgottenIsOld'
    BY <1>1, <2>1, <2>2, LimitAssumption DEF ForgottenIsOld
  <2>6. QED BY <2>3, <2>4, <2>5 DEF MemoryInv
<1>3. CASE limiter # "memory"
  BY <1>1, <1>3 DEF MemoryInv
<1>4. QED BY <1>2, <1>3

\* The Redis commands do nothing here.
LEMMA LimiterRedis ==
  ASSUME MemoryInv,
         \/ redisExpire \/ UNCHANGED limitVars
         \/ \E r \in LimitRequests : redisLLen(r) \/ redisLIndex(r) \/ redisLPush(r) \/ redisLTrim(r)
  PROVE  MemoryInv'
<1>1. CASE UNCHANGED limitVars
  BY <1>1 DEF limitVars, MemoryInv, LimiterTypes, WindowIsTail, AdmittedInOrder, ForgottenIsOld,
     AdmittedApart
<1>2. CASE ~UNCHANGED limitVars
  <2>1. limiter # "memory" /\ limiter' = limiter
    BY <1>2 DEF MemoryInv, LimiterTypes, redisExpire, redisLLen, redisLIndex, redisLPush, redisLTrim
  <2>2. QED BY <2>1 DEF MemoryInv
<1>3. QED BY <1>1, <1>2

-----------------------------------------------------------------------------
(* The limiter in Redis.  Its list is the tail of the admissions here too,   *)
(* but a request decides at one command and pushes at a later one.  The      *)
(* requests that found room can make the list longer than its limit by one   *)
(* each but the first, and each one that pushed after LINDEX by one more     *)
(* until its LTRIM (ListIsShort).  An admission is old once as many came     *)
(* after it as the bound allows, less those whose push is still to come      *)
(* (RecentAreFew).                                                           *)

Stages == {"none", "room", "full", "pass", "trim"}
At(state, stage) == {r \in LimitRequests : state[r] = stage}
NumberAt(state, stage) == Cardinality(At(state, stage))
Overlapping == Cardinality(LimitRequests)
MostAdmitted == maxRequestNum + 2 * (Overlapping - 1)

CommandTypes ==
  /\ clock \in Nat /\ window \in Seq(Nat) /\ admitted \in Seq(Nat)
  /\ request \in [LimitRequests -> Stages]

ListIsTail ==
  /\ Len(window) <= Len(admitted)
  /\ \A i \in 1 .. Len(window) : window[i] = admitted[Len(admitted) + 1 - i]

ListIsShort ==
  Len(window) + NumberAt(request, "room") < maxRequestNum + Overlapping + NumberAt(request, "trim")

RecentAreFew ==
  \A j \in 1 .. Len(admitted) - (MostAdmitted - NumberAt(request, "room") - NumberAt(request, "pass")) :
    clock - admitted[j] >= duration

OverlapsApart ==
  \A i \in 1 .. Len(admitted) - MostAdmitted : admitted[i + MostAdmitted] - admitted[i] >= duration

RedisInv ==
  limiter = "redis" =>
    /\ CommandTypes /\ ListIsTail /\ AdmittedInOrder /\ ForgottenIsOld
    /\ ListIsShort /\ RecentAreFew /\ OverlapsApart

\* A set in two parts.
LEMMA DisjointUnion ==
  ASSUME NEW S, NEW T, IsFiniteSet(S), IsFiniteSet(T), S \cap T = {}
  PROVE  IsFiniteSet(S \cup T) /\ Cardinality(S \cup T) = Cardinality(S) + Cardinality(T)
<1>1. Cardinality(S \cap T) = 0
  BY FS_EmptySet
<1>2. /\ IsFiniteSet(S \cup T)
      /\ Cardinality(S \cup T) = Cardinality(S) + Cardinality(T) - Cardinality(S \cap T)
  BY FS_Union
<1>3. Cardinality(S) \in Nat /\ Cardinality(T) \in Nat
  BY FS_CardinalityType
<1>4. QED BY <1>1, <1>2, <1>3

\* The stages share the requests out among them.
Shared(state) ==
  /\ Overlapping \in Nat \ {0}
  /\ NumberAt(state, "room") \in Nat /\ NumberAt(state, "full") \in Nat
  /\ NumberAt(state, "pass") \in Nat /\ NumberAt(state, "trim") \in Nat
  /\ NumberAt(state, "room") + NumberAt(state, "full") + NumberAt(state, "pass") + NumberAt(state, "trim")
       <= Overlapping

\* No more than the requests there are.
LEMMA CountBounds ==
  ASSUME NEW state \in [LimitRequests -> Stages]
  PROVE  Shared(state)
<1> DEFINE A == At(state, "room")
           B == At(state, "full")
           C == At(state, "pass")
           D == At(state, "trim")
<1>1. IsFiniteSet(LimitRequests) /\ LimitRequests # {}
  BY LimitAssumption
<1>2. Overlapping \in Nat \ {0}
  BY <1>1, FS_CardinalityType, FS_EmptySet DEF Overlapping
<1>3. ASSUME NEW stage PROVE IsFiniteSet(At(state, stage)) /\ NumberAt(state, stage) \in Nat
  <2>1. At(state, stage) \in SUBSET LimitRequests
    BY DEF At
  <2>2. QED BY <1>1, <2>1, FS_Subset, FS_CardinalityType DEF NumberAt
<1>4. A \cap B = {} /\ (A \cup B) \cap C = {} /\ ((A \cup B) \cup C) \cap D = {}
  BY DEF At
<1>5. IsFiniteSet(A) /\ IsFiniteSet(B) /\ IsFiniteSet(C) /\ IsFiniteSet(D)
  BY <1>3
<1>6. ((A \cup B) \cup C) \cup D \in SUBSET LimitRequests
  BY DEF At
<1> HIDE DEF A, B, C, D
<1>7. IsFiniteSet(A \cup B) /\ Cardinality(A \cup B) = Cardinality(A) + Cardinality(B)
  BY <1>4, <1>5, DisjointUnion
<1>8. /\ IsFiniteSet((A \cup B) \cup C)
      /\ Cardinality((A \cup B) \cup C) = Cardinality(A \cup B) + Cardinality(C)
  BY <1>4, <1>5, <1>7, DisjointUnion
<1>9. Cardinality(((A \cup B) \cup C) \cup D) = Cardinality((A \cup B) \cup C) + Cardinality(D)
  BY <1>4, <1>5, <1>8, DisjointUnion
<1>10. Cardinality(((A \cup B) \cup C) \cup D) <= Overlapping
  BY <1>1, <1>6, FS_Subset DEF Overlapping
<1>11. Cardinality(A) + Cardinality(B) + Cardinality(C) + Cardinality(D) <= Overlapping
  BY <1>7, <1>8, <1>9, <1>10
<1>12. QED BY <1>2, <1>3, <1>11 DEF A, B, C, D, NumberAt, Shared

\* A request goes from one stage to another.
Moved(state, next, from, to) ==
  /\ NumberAt(next, to) = NumberAt(state, to) + 1
  /\ NumberAt(state, from) \in Nat \ {0} /\ NumberAt(next, from) = NumberAt(state, from) - 1
  /\ \A stage : stage # to /\ stage # from => NumberAt(next, stage) = NumberAt(state, stage)

\* A request that moves is one less here and one more there.
LEMMA CountMoves ==
  ASSUME NEW state \in [LimitRequests -> Stages], NEW r \in LimitRequests, NEW from, NEW to, NEW next,
         state[r] = from, from # to, next = [state EXCEPT ![r] = to]
  PROVE  Moved(state, next, from, to)
<1>1. /\ \A q \in LimitRequests : next[q] = IF q = r THEN to ELSE state[q]
      /\ \A stage : At(state, stage) \in SUBSET LimitRequests
  BY DEF At
<1>2. \A stage : IsFiniteSet(At(state, stage)) /\ NumberAt(state, stage) \in Nat
  BY <1>1, LimitAssumption, FS_Subset, FS_CardinalityType DEF NumberAt
<1>3. At(next, to) = At(state, to) \cup {r} /\ r \notin At(state, to)
  BY <1>1 DEF At
<1>4. At(next, from) = At(state, from) \ {r} /\ r \in At(state, from)
  BY <1>1 DEF At
<1>5. \A stage : stage # to /\ stage # from => At(next, stage) = At(state, stage)
  BY <1>1 DEF At
<1>6. At(state, from) # {}
  BY <1>4
<1>7. NumberAt(next, to) = NumberAt(state, to) + 1
  BY <1>2, <1>3, FS_AddElement DEF NumberAt
<1>8. NumberAt(next, from) = NumberAt(state, from) - 1
  BY <1>2, <1>4, FS_RemoveElement DEF NumberAt
<1>9. NumberAt(state, from) \in Nat \ {0}
  BY <1>2, <1>6, FS_EmptySet DEF NumberAt
<1>10. \A stage : stage # to /\ stage # from => NumberAt(next, stage) = NumberAt(state, stage)
  BY <1>5 DEF NumberAt
<1>11. QED BY <1>7, <1>8, <1>9, <1>10 DEF Moved

\* The same for a step of a request.
LEMMA RequestMoves ==
  ASSUME CommandTypes, NEW r \in LimitRequests, NEW from, NEW to,
         request[r] = from, from # to, request' = [request EXCEPT ![r] = to]
  PROVE  Moved(request, request', from, to)
<1>1. PICK next : next = request'
  OBVIOUS
<1>2. Moved(request, next, from, to)
  <2>1. request \in [LimitRequests -> Stages] /\ next = [request EXCEPT ![r] = to]
    BY <1>1 DEF CommandTypes
  <2>2. QED BY <2>1, CountMoves
<1>3. QED BY <1>1, <1>2

\* The same bounds after a step.
LEMMA RequestsShared ==
  ASSUME CommandTypes'
  PROVE  Shared(request')
<1>1. PICK next : next = request'
  OBVIOUS
<1>2. next \in [LimitRequests -> Stages]
  BY <1>1 DEF CommandTypes
<1>3. Shared(next)
  BY <1>2, CountBounds
<1>4. QED BY <1>1, <1>3

\* The invariant holds at the start, with nothing admitted.
LEMMA RedisInit == LimitInit => RedisInv
<1> SUFFICES ASSUME LimitInit, limiter = "redis" PROVE RedisInv
  BY DEF RedisInv
<1>1. /\ clock = 0 /\ window = <<>> /\ admitted = <<>> /\ request = [r \in LimitRequests |-> "none"]
  BY DEF LimitInit
<1>2. CommandTypes
  BY <1>1 DEF CommandTypes, Stages
<1>3. Len(window) = 0 /\ Len(admitted) = 0
  BY <1>1
<1>4. Shared(request)
  BY <1>2, CountBounds DEF CommandTypes
<1>5. ListIsTail /\ AdmittedInOrder /\ ForgottenIsOld
  BY <1>3 DEF ListIsTail, AdmittedInOrder, ForgottenIsOld
<1>6. maxRequestNum \in Nat \ {0}
  BY LimitAssumption
<1>7. ListIsShort
  BY <1>3, <1>4, <1>6 DEF ListIsShort, Shared
<1>8. RecentAreFew /\ OverlapsApart
  BY <1>3, <1>4, <1>6 DEF RecentAreFew, OverlapsApart, MostAdmitted, Shared
<1>9. QED BY <1>2, <1>5, <1>7, <1>8 DEF RedisInv

\* LLEN finds room: whatever left the list is old.
LEMMA RedisLLen ==
  ASSUME RedisInv, NEW r \in LimitRequests, redisLLen(r)
  PROVE  RedisInv'
<1>1. /\ limiter = "redis" /\ request[r] = "none" /\ UNCHANGED <<limiter, clock, window, admitted>>
      /\ request' = [request EXCEPT ![r] = IF Len(window) < maxRequestNum THEN "room" ELSE "full"]
  BY DEF redisLLen
<1>2. /\ CommandTypes /\ ListIsTail /\ AdmittedInOrder /\ ForgottenIsOld
      /\ ListIsShort /\ RecentAreFew /\ OverlapsApart
  BY <1>1 DEF RedisInv
<1>3. CommandTypes'
  BY <1>1, <1>2 DEF CommandTypes, Stages
<1>4. ListIsTail' /\ AdmittedInOrder' /\ ForgottenIsOld' /\ OverlapsApart'
  BY <1>1, <1>2 DEF ListIsTail, AdmittedInOrder, ForgottenIsOld, OverlapsApart
<1> DEFINE w == Len(window)
           n == Len(admitted)
           R == NumberAt(request, "room")
           P == NumberAt(request, "pass")
           T == NumberAt(request, "trim")
           F == NumberAt(request, "full")
<1>5. /\ Overlapping \in Nat \ {0} /\ R \in Nat /\ F \in Nat /\ P \in Nat /\ T \in Nat
      /\ R + F + P + T <= Overlapping
  BY <1>2, CountBounds DEF CommandTypes, Shared
<1>6. /\ w \in Nat /\ n \in Nat /\ w <= n /\ maxRequestNum \in Nat \ {0}
      /\ R \in Nat /\ P \in Nat /\ T \in Nat /\ F \in Nat
  BY <1>2, <1>5, LimitAssumption DEF CommandTypes, ListIsTail
<1>7. CASE w < maxRequestNum
  <2>1. request' = [request EXCEPT ![r] = "room"]
    BY <1>1, <1>7
  <2>2. NumberAt(request', "room") = R + 1 /\ NumberAt(request', "pass") = P /\ NumberAt(request', "trim") = T
    <3>1. Moved(request, request', "none", "room")
      BY <1>1, <1>2, <2>1, RequestMoves
    <3>2. QED BY <3>1 DEF Moved
  <2>3. Shared(request')
    BY <1>3, RequestsShared
  <2>4. \A j \in 1 .. n - w : clock - admitted[j] >= duration
    BY <1>2, <1>7 DEF ForgottenIsOld
  <2>5. R + 1 + P + T <= Overlapping
    BY <1>6, <2>2, <2>3 DEF Shared
  <2>6. w + (R + 1) < maxRequestNum + Overlapping + T /\ w <= MostAdmitted - (R + 1) - P
    <3> HIDE DEF R, P, T, F, w
    <3> QED BY <1>5, <1>6, <1>7, <2>5 DEF MostAdmitted
  <2>7. ListIsShort'
    BY <1>1, <2>2, <2>6 DEF ListIsShort
  <2>8. RecentAreFew'
    <3>1. \A j \in 1 .. n - (MostAdmitted - (R + 1) - P) : j \in 1 .. n - w
      <4> HIDE DEF R, P, w, n
      <4> QED BY <1>5, <1>6, <2>6 DEF MostAdmitted
    <3>2. \A j \in 1 .. n - (MostAdmitted - (R + 1) - P) : clock - admitted[j] >= duration
      BY <2>4, <3>1
    <3>3. QED BY <1>1, <2>2, <3>2 DEF RecentAreFew, MostAdmitted, Overlapping
  <2>9. QED BY <1>1, <1>3, <1>4, <2>7, <2>8 DEF RedisInv
<1>8. CASE ~(w < maxRequestNum)
  <2>1. request' = [request EXCEPT ![r] = "full"]
    BY <1>1, <1>8
  <2>2. NumberAt(request', "room") = R /\ NumberAt(request', "pass") = P /\ NumberAt(request', "trim") = T
    <3>1. Moved(request, request', "none", "full")
      BY <1>1, <1>2, <2>1, RequestMoves
    <3>2. QED BY <3>1 DEF Moved
  <2>3. ListIsShort' /\ RecentAreFew'
    BY <1>1, <1>2, <2>2 DEF ListIsShort, RecentAreFew, MostAdmitted, Overlapping
  <2>4. QED BY <1>1, <1>3, <1>4, <2>3 DEF RedisInv
<1>9. QED BY <1>7, <1>8

\* LINDEX finds the oldest entry of the list old, so it and all before it are.
LEMMA RedisLIndex ==
  ASSUME RedisInv, NEW r \in LimitRequests, redisLIndex(r)
  PROVE  RedisInv'
<1>1. /\ request[r] = "full" /\ UNCHANGED <<limiter, clock, window, admitted>>
      /\ request' = [request EXCEPT ![r] = IF window # <<>> /\ clock - Last(window) >= duration
                                           THEN "pass" ELSE "none"]
  BY DEF redisLIndex
<1> SUFFICES ASSUME limiter = "redis" PROVE RedisInv'
  BY <1>1 DEF RedisInv
<1>2. /\ CommandTypes /\ ListIsTail /\ AdmittedInOrder /\ ForgottenIsOld
      /\ ListIsShort /\ RecentAreFew /\ OverlapsApart
  BY DEF RedisInv
<1>3. CommandTypes'
  BY <1>1, <1>2 DEF CommandTypes, Stages
<1>4. ListIsTail' /\ AdmittedInOrder' /\ ForgottenIsOld' /\ OverlapsApart'
  BY <1>1, <1>2 DEF ListIsTail, AdmittedInOrder, ForgottenIsOld, OverlapsApart
<1> DEFINE w == Len(window)
           n == Len(admitted)
           R == NumberAt(request, "room")
           P == NumberAt(request, "pass")
           T == NumberAt(request, "trim")
           F == NumberAt(request, "full")
<1>5. /\ Overlapping \in Nat \ {0} /\ R \in Nat /\ F \in Nat /\ P \in Nat /\ T \in Nat
      /\ R + F + P + T <= Overlapping
  BY <1>2, CountBounds DEF CommandTypes, Shared
<1>6. /\ w \in Nat /\ n \in Nat /\ w <= n /\ maxRequestNum \in Nat \ {0} /\ duration \in Nat
      /\ clock \in Nat /\ R \in Nat /\ P \in Nat /\ T \in Nat
  BY <1>2, <1>5, LimitAssumption DEF CommandTypes, ListIsTail
<1>7. CASE window # <<>> /\ clock - Last(window) >= duration
  <2>1. request' = [request EXCEPT ![r] = "pass"]
    BY <1>1, <1>7
  <2>2. Moved(request, request', "full", "pass")
    BY <1>1, <1>2, <2>1, RequestMoves
  <2>3. /\ NumberAt(request', "room") = R /\ NumberAt(request', "pass") = P + 1
        /\ NumberAt(request', "trim") = T /\ F \in Nat \ {0}
    BY <2>2 DEF Moved
  <2>4. w \in Nat \ {0} /\ Last(window) = admitted[n + 1 - w] /\ n + 1 - w \in 1 .. n
    BY <1>2, <1>6, <1>7 DEF ListIsTail, CommandTypes, Last
  <2>5. \A j \in 1 .. n + 1 - w : clock - admitted[j] >= duration
    <3> SUFFICES ASSUME NEW j \in 1 .. n + 1 - w PROVE clock - admitted[j] >= duration
      OBVIOUS
    <3>1. admitted[j] <= admitted[n + 1 - w]
      BY <1>2, <2>4 DEF AdmittedInOrder
    <3>2. j \in 1 .. n
      BY <1>6, <2>4
    <3>3. admitted[j] \in Nat /\ admitted[n + 1 - w] \in Nat
      BY <1>2, <2>4, <3>2 DEF CommandTypes
    <3>4. QED BY <1>6, <1>7, <2>4, <3>1, <3>3
  <2>6. w - 1 <= MostAdmitted - R - (P + 1)
    <3>1. w + R < maxRequestNum + Overlapping + T
      BY <1>2 DEF ListIsShort
    <3> HIDE DEF R, P, T, F, w
    <3> QED BY <1>5, <1>6, <2>3, <2>4, <3>1 DEF MostAdmitted
  <2>7. ListIsShort'
    BY <1>1, <1>2, <2>3 DEF ListIsShort
  <2>8. RecentAreFew'
    <3>1. \A j \in 1 .. n - (MostAdmitted - R - (P + 1)) : j \in 1 .. n + 1 - w
      <4> HIDE DEF R, P, w, n
      <4> QED BY <1>5, <1>6, <2>6 DEF MostAdmitted
    <3>2. \A j \in 1 .. n - (MostAdmitted - R - (P + 1)) : clock - admitted[j] >= duration
      BY <2>5, <3>1
    <3>3. QED BY <1>1, <2>3, <3>2 DEF RecentAreFew, MostAdmitted, Overlapping
  <2>9. QED BY <1>1, <1>3, <1>4, <2>7, <2>8 DEF RedisInv
<1>8. CASE ~(window # <<>> /\ clock - Last(window) >= duration)
  <2>1. request' = [request EXCEPT ![r] = "none"]
    BY <1>1, <1>8
  <2>2. NumberAt(request', "room") = R /\ NumberAt(request', "pass") = P /\ NumberAt(request', "trim") = T
    <3>1. Moved(request, request', "full", "none")
      BY <1>1, <1>2, <2>1, RequestMoves
    <3>2. QED BY <3>1 DEF Moved
  <2>3. ListIsShort' /\ RecentAreFew'
    BY <1>1, <1>2, <2>2 DEF ListIsShort, RecentAreFew, MostAdmitted, Overlapping
  <2>4. QED BY <1>1, <1>3, <1>4, <2>3 DEF RedisInv
<1>9. QED BY <1>7, <1>8

\* LPUSH admits: the push that is owed becomes an admission, and the one that
\* many places before it is old by RecentAreFew.
LEMMA RedisLPush ==
  ASSUME RedisInv, NEW r \in LimitRequests, redisLPush(r)
  PROVE  RedisInv'
<1>1. /\ request[r] \in {"room", "pass"} /\ UNCHANGED <<limiter, clock>>
      /\ admitted' = Append(admitted, clock) /\ window' = <<clock>> \o window
      /\ request' = [request EXCEPT ![r] = IF request[r] = "pass" THEN "trim" ELSE "none"]
  BY DEF redisLPush, Admit
<1> SUFFICES ASSUME limiter = "redis" PROVE RedisInv'
  BY <1>1 DEF RedisInv
<1>2. /\ CommandTypes /\ ListIsTail /\ AdmittedInOrder /\ ForgottenIsOld
      /\ ListIsShort /\ RecentAreFew /\ OverlapsApart
  BY DEF RedisInv
<1> DEFINE w == Len(window)
           n == Len(admitted)
           R == NumberAt(request, "room")
           P == NumberAt(request, "pass")
           T == NumberAt(request, "trim")
           F == NumberAt(request, "full")
           K == MostAdmitted
<1>3. /\ Overlapping \in Nat \ {0} /\ R \in Nat /\ F \in Nat /\ P \in Nat /\ T \in Nat
      /\ R + F + P + T <= Overlapping
  BY <1>2, CountBounds DEF CommandTypes, Shared
<1>4. /\ w \in Nat /\ n \in Nat /\ w <= n /\ maxRequestNum \in Nat \ {0} /\ duration \in Nat
      /\ clock \in Nat /\ R \in Nat /\ P \in Nat /\ T \in Nat /\ F \in Nat
      /\ \A j \in 1 .. n : admitted[j] \in Nat
  BY <1>2, <1>3, LimitAssumption DEF CommandTypes, ListIsTail
<1>5. /\ admitted' \in Seq(Nat) /\ Len(admitted') = n + 1 /\ admitted'[n + 1] = clock
      /\ \A i \in 1 .. n : admitted'[i] = admitted[i]
  BY <1>1, <1>2 DEF CommandTypes
<1>6. /\ window' \in Seq(Nat) /\ Len(window') = w + 1 /\ window'[1] = clock
      /\ \A i \in 2 .. w + 1 : window'[i] = window[i - 1]
  BY <1>1, <1>2 DEF CommandTypes
<1>7. CommandTypes'
  BY <1>1, <1>2, <1>5, <1>6 DEF CommandTypes, Stages
<1>8. AdmittedInOrder'
  BY <1>1, <1>2, <1>4, <1>5 DEF AdmittedInOrder
<1>9. ListIsTail'
  <2>1. ASSUME NEW i \in 2 .. w + 1 PROVE window[i - 1] = admitted[n + 1 - (i - 1)]
    <3>1. i - 1 \in 1 .. w
      BY <1>4
    <3>2. QED BY <1>2, <3>1 DEF ListIsTail
  <2>2. ASSUME NEW i \in 1 .. w + 1 PROVE window'[i] = admitted'[n + 2 - i]
    <3>1. CASE i = 1
      BY <1>4, <1>5, <1>6, <3>1
    <3>2. CASE i \in 2 .. w + 1
      <4>1. n + 2 - i \in 1 .. n /\ n + 1 - (i - 1) = n + 2 - i
        BY <1>4, <3>2
      <4>2. QED BY <1>5, <1>6, <2>1, <3>2, <4>1
    <3>3. QED BY <1>4, <3>1, <3>2
  <2>3. QED BY <1>4, <1>5, <1>6, <2>2 DEF ListIsTail
<1>10. ForgottenIsOld'
  <2>1. w + 1 < maxRequestNum => \A j \in 1 .. n - w : clock - admitted[j] >= duration
    BY <1>2, <1>4 DEF ForgottenIsOld
  <2>2. (n + 1) - (w + 1) = n - w /\ \A j \in 1 .. n - w : j \in 1 .. n
    BY <1>4
  <2>3. QED BY <1>1, <1>5, <1>6, <2>1, <2>2 DEF ForgottenIsOld
<1> DEFINE Rn == NumberAt(request', "room")
           Pn == NumberAt(request', "pass")
           Tn == NumberAt(request', "trim")
<1>11. /\ Rn \in Nat /\ Pn \in Nat /\ Tn \in Nat
       /\ Rn + T = (R + Tn) - 1 /\ Rn + Pn = (R + P) - 1
  <2>1. Rn \in Nat /\ Pn \in Nat /\ Tn \in Nat
    BY <1>7, RequestsShared DEF Shared
  <2>2. CASE request[r] = "room"
    <3>1. request' = [request EXCEPT ![r] = "none"]
      BY <1>1, <2>2
    <3>2. Moved(request, request', "room", "none")
      BY <1>2, <2>2, <3>1, RequestMoves
    <3>3. Rn = R - 1 /\ Pn = P /\ Tn = T
      BY <3>2 DEF Moved
    <3> HIDE DEF R, P, T, Rn, Pn, Tn
    <3>4. QED BY <1>4, <2>1, <3>3
  <2>3. CASE request[r] = "pass"
    <3>1. request' = [request EXCEPT ![r] = "trim"]
      BY <1>1, <2>3
    <3>2. Moved(request, request', "pass", "trim")
      BY <1>2, <2>3, <3>1, RequestMoves
    <3>3. Rn = R /\ Pn = P - 1 /\ Tn = T + 1
      BY <3>2 DEF Moved
    <3> HIDE DEF R, P, T, Rn, Pn, Tn
    <3>4. QED BY <1>4, <2>1, <3>3
  <2>4. QED BY <1>1, <2>2, <2>3
<1>12. K \in Nat \ {0} /\ R + P <= Overlapping /\ K - R - P >= 0
  <2> HIDE DEF R, P, T, F
  <2> QED BY <1>3, <1>4 DEF MostAdmitted
<1>13. ListIsShort'
  <2>1. w + R < maxRequestNum + Overlapping + T
    BY <1>2 DEF ListIsShort
  <2>2. (w + 1) + Rn < maxRequestNum + Overlapping + Tn
    <3> HIDE DEF R, P, T, F, w, Rn, Pn, Tn
    <3> QED BY <1>3, <1>4, <1>11, <2>1
  <2>3. QED BY <1>6, <2>2 DEF ListIsShort, Overlapping
<1>14. \A j \in 1 .. n - (K - R - P) : clock - admitted[j] >= duration
  BY <1>2 DEF RecentAreFew
<1>15. RecentAreFew'
  <2>1. /\ (n + 1) - (K - Rn - Pn) = n - (K - R - P)
        /\ \A j \in 1 .. n - (K - R - P) : j \in 1 .. n
    <3> HIDE DEF R, P, T, F, n, K, Rn, Pn, Tn
    <3> QED BY <1>4, <1>11, <1>12
  <2>2. \A j \in 1 .. n - (K - R - P) : clock' - admitted'[j] >= duration
    BY <1>1, <1>5, <1>14, <2>1
  <2>3. K' = K
    BY DEF MostAdmitted, Overlapping
  <2>4. QED BY <1>5, <2>1, <2>2, <2>3 DEF RecentAreFew
<1>16. OverlapsApart'
  <2> SUFFICES ASSUME NEW i \in 1 .. (n + 1) - K PROVE admitted'[i + K] - admitted'[i] >= duration
    BY <1>5 DEF OverlapsApart, MostAdmitted, Overlapping
  <2>1. CASE i + K = n + 1
    <3>1. i \in 1 .. n - (K - R - P) /\ i \in 1 .. n
      <4> HIDE DEF R, P, T, F, n, K, Rn, Pn, Tn
      <4> QED BY <1>4, <1>11, <1>12, <2>1
    <3>2. QED BY <1>5, <1>14, <2>1, <3>1
  <2>2. CASE i + K # n + 1
    <3>1. i \in 1 .. n - K /\ i + K \in 1 .. n /\ i \in 1 .. n
      <4> HIDE DEF n, K
      <4> QED BY <1>4, <1>12, <2>2
    <3>2. admitted[i + K] - admitted[i] >= duration
      <4>1. \A j \in 1 .. n - K : admitted[j + K] - admitted[j] >= duration
        BY <1>2 DEF OverlapsApart
      <4>2. QED BY <3>1, <4>1
    <3>3. admitted'[i + K] = admitted[i + K] /\ admitted'[i] = admitted[i]
      BY <1>5, <3>1
    <3>4. QED BY <3>2, <3>3
  <2>3. QED BY <2>1, <2>2
<1>17. QED BY <1>1, <1>7, <1>8, <1>9, <1>10, <1>13, <1>15, <1>16 DEF RedisInv

\* LTRIM leaves a list that is as long as the limit, or all of a shorter one.
LEMMA RedisLTrim ==
  ASSUME RedisInv, NEW r \in LimitRequests, redisLTrim(r)
  PROVE  RedisInv'
<1>1. /\ request[r] = "trim" /\ UNCHANGED <<limiter, clock, admitted>>
      /\ request' = [request EXCEPT ![r] = "none"]
      /\ window' = SubSeq(window, 1, IF Len(window) < maxRequestNum THEN Len(window) ELSE maxRequestNum)
  BY DEF redisLTrim
<1> SUFFICES ASSUME limiter = "redis" PROVE RedisInv'
  BY <1>1 DEF RedisInv
<1>2. /\ CommandTypes /\ ListIsTail /\ AdmittedInOrder /\ ForgottenIsOld
      /\ ListIsShort /\ RecentAreFew /\ OverlapsApart
  BY DEF RedisInv
<1> DEFINE w == Len(window)
           n == Len(admitted)
           R == NumberAt(request, "room")
           P == NumberAt(request, "pass")
           T == NumberAt(request, "trim")
           F == NumberAt(request, "full")
           kept == IF w < maxRequestNum THEN w ELSE maxRequestNum
<1>3. /\ Overlapping \in Nat \ {0} /\ R \in Nat /\ F \in Nat /\ P \in Nat /\ T \in Nat
      /\ R + F + P + T <= Overlapping
  BY <1>2, CountBounds DEF CommandTypes, Shared
<1>4. /\ w \in Nat /\ n \in Nat /\ w <= n /\ maxRequestNum \in Nat \ {0} /\ kept \in Nat /\ kept <= w
      /\ R \in Nat /\ P \in Nat /\ T \in Nat /\ F \in Nat
  BY <1>2, <1>3, LimitAssumption DEF CommandTypes, ListIsTail
<1>5. /\ window' \in Seq(Nat) /\ Len(window') = kept
      /\ \A i \in 1 .. kept : window'[i] = window[i]
  <2>1. window \in Seq(Nat) /\ kept \in 0 .. Len(window) /\ window' = SubSeq(window, 1, kept)
    BY <1>1, <1>2, <1>4 DEF CommandTypes
  <2> HIDE DEF kept
  <2>2. QED BY <2>1
<1>6. CommandTypes'
  BY <1>1, <1>2, <1>5 DEF CommandTypes, Stages
<1>7. AdmittedInOrder' /\ OverlapsApart'
  BY <1>1, <1>2 DEF AdmittedInOrder, OverlapsApart
<1>8. ListIsTail'
  <2>1. \A i \in 1 .. kept : i \in 1 .. w
    BY <1>4
  <2>2. QED BY <1>1, <1>2, <1>4, <1>5, <2>1 DEF ListIsTail
<1>9. ForgottenIsOld'
  BY <1>1, <1>2, <1>4, <1>5 DEF ForgottenIsOld
<1>10. /\ NumberAt(request', "room") = R /\ NumberAt(request', "pass") = P
       /\ NumberAt(request', "trim") = T - 1 /\ T \in Nat \ {0}
  <2>1. Moved(request, request', "trim", "none")
    BY <1>1, <1>2, RequestMoves
  <2>2. QED BY <2>1 DEF Moved
<1>11. ListIsShort'
  <2>1. kept + R < maxRequestNum + Overlapping + (T - 1) /\ kept <= maxRequestNum
    <3>1. kept <= maxRequestNum
      BY <1>4
    <3> HIDE DEF R, P, T, F, kept
    <3> QED BY <1>3, <1>4, <1>10, <3>1
  <2>2. QED BY <1>5, <1>10, <2>1 DEF ListIsShort, Overlapping
<1>12. RecentAreFew'
  BY <1>1, <1>2, <1>10 DEF RecentAreFew, MostAdmitted, Overlapping
<1>13. QED BY <1>1, <1>6, <1>7, <1>8, <1>9, <1>11, <1>12 DEF RedisInv

\* The key expires only when even its newest entry is old.
LEMMA RedisExpire ==
  ASSUME RedisInv, redisExpire
  PROVE  RedisInv'
<1>1. /\ limiter = "redis" /\ UNCHANGED <<limiter, clock, request, admitted>> /\ window' = <<>>
      /\ window # <<>> /\ clock - Head(window) >= RateLimitKeyExpirationDuration
  BY DEF redisExpire
<1>2. /\ CommandTypes /\ ListIsTail /\ AdmittedInOrder /\ ForgottenIsOld
      /\ ListIsShort /\ RecentAreFew /\ OverlapsApart
  BY <1>1 DEF RedisInv
<1>3. /\ Len(window) \in Nat \ {0} /\ Head(window) = window[1] /\ Len(admitted) \in Nat \ {0}
      /\ clock \in Nat
  BY <1>1, <1>2 DEF CommandTypes, ListIsTail
<1>4. window[1] = admitted[Len(admitted)]
  <2>1. window[1] = admitted[Len(admitted) + 1 - 1] /\ Len(admitted) + 1 - 1 = Len(admitted)
    BY <1>2, <1>3 DEF ListIsTail
  <2>2. QED BY <2>1
<1>5. \A j \in 1 .. Len(admitted) : admitted[j] \in Nat /\ admitted[j] <= admitted[Len(admitted)]
  BY <1>2, <1>3 DEF AdmittedInOrder, CommandTypes
<1>6. \A j \in 1 .. Len(admitted) : clock - admitted[j] >= duration
  BY <1>1, <1>3, <1>4, <1>5, LimitAssumption
<1>7. Len(window') = 0 /\ window' \in Seq(Nat)
  BY <1>1
<1>8. CommandTypes' /\ ListIsTail' /\ AdmittedInOrder' /\ OverlapsApart' /\ RecentAreFew'
  BY <1>1, <1>2, <1>3, <1>7
     DEF CommandTypes, ListIsTail, AdmittedInOrder, OverlapsApart, RecentAreFew
<1>9. ForgottenIsOld'
  BY <1>1, <1>3, <1>6, <1>7 DEF ForgottenIsOld
<1>10. ListIsShort'
  <2>1. Shared(request)
    BY <1>2, CountBounds DEF CommandTypes
  <2>2. 0 + NumberAt(request, "room") < maxRequestNum + Overlapping + NumberAt(request, "trim")
    BY <2>1, LimitAssumption DEF Shared
  <2>3. QED BY <1>1, <1>7, <2>2 DEF ListIsShort, NumberAt, At, Overlapping
<1>11. QED BY <1>1, <1>8, <1>9, <1>10 DEF RedisInv

\* Time only makes admissions older.
LEMMA RedisTick ==
  ASSUME RedisInv, LimitTick
  PROVE  RedisInv'
<1>1. UNCHANGED <<limiter, window, request, admitted>> /\ clock' = clock + 1
  BY DEF LimitTick
<1> SUFFICES ASSUME limiter = "redis" PROVE RedisInv'
  BY <1>1 DEF RedisInv
<1>2. /\ CommandTypes /\ ListIsTail /\ AdmittedInOrder /\ ForgottenIsOld
      /\ ListIsShort /\ RecentAreFew /\ OverlapsApart
  BY DEF RedisInv
<1>3. /\ clock \in Nat /\ \A j \in 1 .. Len(admitted) : admitted[j] \in Nat
      /\ Len(admitted) \in Nat /\ Len(window) \in Nat /\ Len(window) <= Len(admitted)
  BY <1>2 DEF CommandTypes, ListIsTail
<1>4. CommandTypes' /\ ListIsTail' /\ OverlapsApart' /\ ListIsShort'
  BY <1>1, <1>2
     DEF CommandTypes, ListIsTail, OverlapsApart, ListIsShort, MostAdmitted, Overlapping, NumberAt, At
<1>5. AdmittedInOrder'
  BY <1>1, <1>2, <1>3 DEF AdmittedInOrder
<1>6. ForgottenIsOld'
  BY <1>1, <1>2, <1>3, LimitAssumption DEF ForgottenIsOld
<1>7. RecentAreFew'
  <2> DEFINE owed == MostAdmitted - NumberAt(request, "room") - NumberAt(request, "pass")
  <2>1. \A j \in 1 .. Len(admitted) - owed : clock - admitted[j] >= duration
    BY <1>2 DEF RecentAreFew
  <2>2. Shared(request)
    BY <1>2, CountBounds DEF CommandTypes
  <2>3. owed \in Nat
    BY <2>2, LimitAssumption DEF Shared, MostAdmitted
  <2> HIDE DEF owed
  <2>4. PICK later \in Nat : later = clock + 1
    BY <1>3
  <2>5. \A j \in 1 .. Len(admitted) - owed : later - admitted[j] >= duration
    BY <1>3, <2>1, <2>3, <2>4, LimitAssumption
  <2>6. clock' = later /\ owed' = owed /\ admitted' = admitted
    BY <1>1, <2>4 DEF owed, MostAdmitted, Overlapping
  <2>7. \A j \in 1 .. Len(admitted') - owed' : clock' - admitted'[j] >= duration
    BY <2>5, <2>6
  <2>8. QED BY <2>7 DEF owed, RecentAreFew
<1>8. QED BY <1>1, <1>4, <1>5, <1>6, <1>7 DEF RedisInv

\* Every action preserves the invariant.
LEMMA RedisStep ==
  ASSUME RedisInv, [LimitNext]_limitVars
  PROVE  RedisInv'
<1>1. CASE Request \/ clearExpiredItems
  <2>1. limiter = "memory" /\ limiter' = limiter
    BY <1>1 DEF Request, clearExpiredItems
  <2>2. QED BY <2>1 DEF RedisInv
<1>2. CASE redisExpire
  BY <1>2, RedisExpire
<1>3. CASE LimitTick
  BY <1>3, RedisTick
<1>4. ASSUME NEW r \in LimitRequests, redisLLen(r) \/ redisLIndex(r) \/ redisLPush(r) \/ redisLTrim(r)
      PROVE  RedisInv'
  BY <1>4, RedisLLen, RedisLIndex, RedisLPush, RedisLTrim
<1>5. CASE UNCHANGED limitVars
  BY <1>5 DEF limitVars, RedisInv, CommandTypes, ListIsTail, AdmittedInOrder, ForgottenIsOld,
     ListIsShort, RecentAreFew, OverlapsApart, MostAdmitted, Overlapping, NumberAt, At
<1>6. QED BY <1>1, <1>2, <1>3, <1>4, <1>5 DEF LimitNext

\* The types, with the bounds of the run.
LimiterBounds == limiter \in {"memory", "redis"} /\ LimitTypeOK

\* The bounds hold at the start.
LEMMA LimiterBoundsInit == LimitInit => LimiterBounds
<1> SUFFICES ASSUME LimitInit PROVE LimiterBounds
  OBVIOUS
<1>1. 0 \in 0 .. MaxNow
  BY LimitAssumption
<1>2. QED BY <1>1 DEF LimitInit, LimiterBounds, LimitTypeOK

\* Every action keeps the bounds.
LEMMA LimiterBoundsStep ==
  ASSUME LimiterBounds, [LimitNext]_limitVars
  PROVE  LimiterBounds'
<1> DEFINE Time == 0 .. MaxNow
<1>1. /\ limiter \in {"memory", "redis"} /\ clock \in Time /\ window \in Seq(Time) /\ admitted \in Seq(Time)
      /\ request \in [LimitRequests -> {"none", "room", "full", "pass", "trim"}]
  BY DEF LimiterBounds, LimitTypeOK
<1>2. /\ limiter' = limiter /\ MaxNow \in Nat /\ maxRequestNum \in Nat \ {0}
  BY LimitAssumption DEF LimitNext, limitVars, Request, clearExpiredItems, redisExpire, LimitTick,
     redisLLen, redisLIndex, redisLPush, redisLTrim
<1>3. clock' \in Time
  BY <1>1, <1>2 DEF LimitNext, limitVars, Request, clearExpiredItems, redisExpire, LimitTick,
     redisLLen, redisLIndex, redisLPush, redisLTrim
<1>4. request' \in [LimitRequests -> {"none", "room", "full", "pass", "trim"}]
  BY <1>1 DEF LimitNext, limitVars, Request, clearExpiredItems, redisExpire, LimitTick,
     redisLLen, redisLIndex, redisLPush, redisLTrim
<1> HIDE DEF Time
<1>5. admitted' \in Seq(Time)
  <2>1. \/ admitted' = admitted \/ admitted' = Append(admitted, clock)
    BY DEF LimitNext, limitVars, Request, clearExpiredItems, redisExpire, LimitTick,
       redisLLen, redisLIndex, redisLPush, redisLTrim, Admit
  <2>2. QED BY <1>1, <2>1
<1>6. window' \in Seq(Time)
  <2>1. <<clock>> \in Seq(Time)
    BY <1>1
  <2>2. CASE Request
    <3>1. CASE window' = <<clock>> \o window
      BY <1>1, <2>1, <3>1
    <3>2. CASE Len(window) >= maxRequestNum /\ window' = <<clock>> \o Front(window)
      <4>1. Len(window) \in Nat \ {0}
        BY <1>1, <1>2, <3>2
      <4>2. Front(window) \in Seq(Time)
        BY <1>1, <4>1 DEF Front
      <4>3. QED BY <2>1, <3>2, <4>2
    <3>3. QED BY <2>2, <3>1, <3>2 DEF Request
  <2>3. CASE window' = <<>>
    BY <2>3
  <2>4. CASE window' = window
    BY <1>1, <2>4
  <2>5. ASSUME NEW r \in LimitRequests, redisLPush(r) PROVE window' \in Seq(Time)
    BY <1>1, <2>1, <2>5 DEF redisLPush
  <2>6. ASSUME NEW r \in LimitRequests, redisLTrim(r) PROVE window' \in Seq(Time)
    <3> DEFINE kept == IF Len(window) < maxRequestNum THEN Len(window) ELSE maxRequestNum
    <3>1. kept \in 0 .. Len(window) /\ window' = SubSeq(window, 1, kept)
      BY <1>1, <1>2, <2>6 DEF redisLTrim
    <3> HIDE DEF kept
    <3>2. QED BY <1>1, <3>1
  <2>7. \/ Request \/ window' = <<>> \/ window' = window
        \/ \E r \in LimitRequests : redisLPush(r) \/ redisLTrim(r)
    BY DEF LimitNext, limitVars, clearExpiredItems, redisExpire, LimitTick, redisLLen, redisLIndex
  <2>8. QED BY <2>2, <2>3, <2>4, <2>5, <2>6, <2>7
<1>7. QED BY <1>1, <1>2, <1>3, <1>4, <1>5, <1>6 DEF LimiterBounds, LimitTypeOK, Time

\* Neither limiter lets more through in less than its duration than it may: its
\* number of requests, and through Redis two more for each request but the first
\* that can be under way at once, whatever the limits, although idle keys are
\* dropped (common/rate-limit.go Request and clearExpiredItems;
\* middleware/rate-limit.go redisRateLimiter).
THEOREM LimitsHold == LimitSpec => [](LimitTypeOK /\ LimitHolds)
<1>1. MemoryInv /\ [LimitNext]_limitVars => MemoryInv'
  BY LimiterRequest, LimiterClear, LimiterTick, LimiterRedis DEF LimitNext
<1>2. RedisInv /\ [LimitNext]_limitVars => RedisInv'
  BY RedisStep
<1>3. LimiterBounds /\ [LimitNext]_limitVars => LimiterBounds'
  BY LimiterBoundsStep
<1>4. MemoryInv /\ RedisInv /\ LimiterBounds => LimitTypeOK /\ LimitHolds
  <2> SUFFICES ASSUME MemoryInv, RedisInv, LimiterBounds PROVE LimitHolds
    BY DEF LimiterBounds
  <2>1. CASE limiter = "memory"
    BY <2>1, LimitAssumption DEF MemoryInv, LimitHolds, AdmittedApart
  <2>2. CASE limiter = "redis"
    BY <2>2 DEF RedisInv, LimitHolds, OverlapsApart, MostAdmitted, Overlapping
  <2>3. QED BY <2>1, <2>2 DEF LimiterBounds
<1>5. QED BY <1>1, <1>2, <1>3, <1>4, LimiterInit, RedisInit, LimiterBoundsInit, PTL DEF LimitSpec

-----------------------------------------------------------------------------
(* The reminder. *)

ReserverType ==
  [pc : {"idle", "read", "decide"}, user : WarnedUsers \cup {"none"}, cost : Int, seen : Int]

ReminderTypes ==
  /\ balance \in [WarnedUsers -> Int] /\ hour \in Int
  /\ reserver \in [Reservers -> ReserverType]
  /\ \A r \in Reservers : reserver[r].pc # "idle" => reserver[r].user \in WarnedUsers
  /\ lastSent \in [WarnedUsers -> SUBSET Int] /\ attempts \in [WarnedUsers -> SUBSET Int]
  /\ crossing \in [WarnedUsers -> {"none", "blurred", "plain", "silent", "told", "cooled"}]

\* The request r took the balance of u below the threshold, and nothing has
\* happened to the balance before r read it.
Telling(r, u) ==
  /\ reserver[r].user = u
  /\ \/ /\ reserver[r].pc = "read"
        /\ balance[u] < ThresholdQuota /\ balance[u] + reserver[r].cost >= ThresholdQuota
     \/ /\ reserver[r].pc = "decide"
        /\ reserver[r].seen < ThresholdQuota
        /\ reserver[r].seen + reserver[r].cost >= ThresholdQuota

PlainIsTold ==
  \A u \in WarnedUsers : crossing[u] = "plain" => \E r \in Reservers : Telling(r, u)

\* One hour is remembered, and whatever is forgotten is a cooldown old.
LastSentIsNewest ==
  \A u \in WarnedUsers :
    /\ \A s, t \in lastSent[u] : s = t
    /\ \A t \in attempts[u] : t <= hour /\ (t \in lastSent[u] \/ hour - t >= CooldownHours)

AttemptsApart ==
  \A u \in WarnedUsers : \A s, t \in attempts[u] : s < t => t - s >= CooldownHours

ReminderInv == ReminderTypes /\ PlainIsTold /\ LastSentIsNewest /\ AttemptsApart

\* The invariant holds at the start, with nothing attempted.
LEMMA ReminderInit == WarnInit => ReminderInv
BY WarnAssumption DEF WarnInit, ReminderInv, ReminderTypes, PlainIsTold, LastSentIsNewest,
   AttemptsApart, ReserverType, Resting

\* A deduction from u spoils a reading under way; otherwise it crosses for the
\* request that asks, or for nobody.
LEMMA CrossesEffect ==
  ASSUME ReminderTypes, NEW u \in WarnedUsers, NEW c \in Int, NEW asks \in BOOLEAN, Crosses(u, c, asks)
  PROVE  /\ crossing' \in [WarnedUsers -> {"none", "blurred", "plain", "silent", "told", "cooled"}]
         /\ \A v \in WarnedUsers \ {u} : crossing'[v] = crossing[v]
         /\ crossing'[u] = "plain" =>
              /\ \A r \in Reservers : ~(reserver[r].pc = "read" /\ reserver[r].user = u)
              /\ \/ asks /\ balance[u] >= ThresholdQuota /\ balance[u] - c < ThresholdQuota
                 \/ crossing[u] = "plain"
BY DEF Crosses, ReminderTypes

\* Deductions: of a reservation, or one that never asks.
LEMMA ReminderReserve ==
  ASSUME ReminderInv, NEW r \in Reservers, NEW u \in WarnedUsers, NEW c \in Costs, Reserve(r, u, c)
  PROVE  ReminderInv'
<1>1. c \in Int /\ ReminderTypes
  BY WarnAssumption DEF ReminderInv
<1>2. Crosses(u, c, TRUE) /\ UNCHANGED <<lastSent, hour, attempts>>
  BY DEF Reserve
<1>3. /\ balance' = [balance EXCEPT ![u] = balance[u] - c]
      /\ reserver' = [reserver EXCEPT ![r] = [pc |-> "read", user |-> u, cost |-> c, seen |-> 0]]
      /\ reserver[r].pc = "idle"
  BY DEF Reserve
<1>4. ReminderTypes'
  <2>1. [pc |-> "read", user |-> u, cost |-> c, seen |-> 0] \in ReserverType
    BY <1>1 DEF ReserverType
  <2>2. crossing' \in [WarnedUsers -> {"none", "blurred", "plain", "silent", "told", "cooled"}]
    BY <1>1, <1>2, CrossesEffect
  <2>3. balance' \in [WarnedUsers -> Int]
    BY <1>1, <1>3 DEF ReminderTypes
  <2>4. /\ reserver' \in [Reservers -> ReserverType]
        /\ \A q \in Reservers : reserver'[q].pc # "idle" => reserver'[q].user \in WarnedUsers
    BY <1>1, <1>3, <2>1 DEF ReminderTypes
  <2>5. QED BY <1>1, <1>2, <2>2, <2>3, <2>4 DEF ReminderTypes
<1>5. PlainIsTold'
  <2> SUFFICES ASSUME NEW v \in WarnedUsers, crossing'[v] = "plain"
               PROVE  \E q \in Reservers : Telling(q, v)'
    BY DEF PlainIsTold
  <2>1. CASE v = u /\ balance[u] >= ThresholdQuota /\ balance[u] - c < ThresholdQuota
    <3>1. Telling(r, u)'
      BY <1>1, <1>3, <2>1, WarnAssumption DEF Telling, ReminderTypes
    <3>2. QED BY <2>1, <3>1
  <2>2. CASE crossing[v] = "plain"
    <3>1. PICK q \in Reservers : Telling(q, v)
      BY <2>2 DEF ReminderInv, PlainIsTold
    <3>2. q # r /\ reserver'[q] = reserver[q]
      BY <1>1, <1>3, <3>1 DEF Telling, ReminderTypes
    <3>3. v = u => reserver[q].pc # "read"
      BY <1>1, <1>2, <3>1, CrossesEffect DEF Telling
    <3>4. v # u => balance'[v] = balance[v]
      BY <1>1, <1>3 DEF ReminderTypes
    <3>5. Telling(q, v)'
      BY <3>1, <3>2, <3>3, <3>4 DEF Telling
    <3>6. QED BY <3>5
  <2>3. QED BY <1>1, <1>2, <2>1, <2>2, CrossesEffect
<1>6. LastSentIsNewest' /\ AttemptsApart'
  BY <1>2 DEF ReminderInv, LastSentIsNewest, AttemptsApart
<1>7. QED BY <1>4, <1>5, <1>6 DEF ReminderInv

\* A deduction nobody is reminded after.
LEMMA ReminderSettle ==
  ASSUME ReminderInv, NEW u \in WarnedUsers, NEW c \in Int, Settle(u, c)
  PROVE  ReminderInv'
<1>1. ReminderTypes
  BY DEF ReminderInv
<1>2. /\ Crosses(u, c, FALSE) /\ UNCHANGED <<reserver, lastSent, hour, attempts>>
      /\ balance' = [balance EXCEPT ![u] = balance[u] - c]
  BY DEF Settle
<1>3. ReminderTypes'
  <2>1. crossing' \in [WarnedUsers -> {"none", "blurred", "plain", "silent", "told", "cooled"}]
    BY <1>1, <1>2, CrossesEffect
  <2>2. balance' \in [WarnedUsers -> Int]
    BY <1>1, <1>2 DEF ReminderTypes
  <2>3. QED BY <1>1, <1>2, <2>1, <2>2 DEF ReminderTypes
<1>4. PlainIsTold'
  <2> SUFFICES ASSUME NEW v \in WarnedUsers, crossing'[v] = "plain"
               PROVE  \E q \in Reservers : Telling(q, v)'
    BY DEF PlainIsTold
  <2>1. crossing[v] = "plain"
    BY <1>1, <1>2, CrossesEffect
  <2>2. PICK q \in Reservers : Telling(q, v)
    BY <2>1 DEF ReminderInv, PlainIsTold
  <2>3. v = u => reserver[q].pc # "read"
    BY <1>1, <1>2, <2>2, CrossesEffect DEF Telling
  <2>4. v # u => balance'[v] = balance[v]
    BY <1>1, <1>2 DEF ReminderTypes
  <2>5. Telling(q, v)'
    BY <1>2, <2>2, <2>3, <2>4 DEF Telling
  <2>6. QED BY <2>5
<1>5. LastSentIsNewest' /\ AttemptsApart'
  BY <1>2 DEF ReminderInv, LastSentIsNewest, AttemptsApart
<1>6. QED BY <1>3, <1>4, <1>5 DEF ReminderInv

\* The balance is read back: the request now remembers the crossing itself.
LEMMA ReminderRead ==
  ASSUME ReminderInv, NEW r \in Reservers, GetUserQuota(r)
  PROVE  ReminderInv'
<1>1. ReminderTypes /\ reserver[r] \in ReserverType /\ reserver[r].user \in WarnedUsers
  BY DEF ReminderInv, ReminderTypes, GetUserQuota
<1>2. /\ reserver[r].pc = "read" /\ balance[reserver[r].user] \in Int
      /\ UNCHANGED <<balance, lastSent, hour, attempts, crossing>>
  BY <1>1 DEF GetUserQuota, ReminderTypes
<1>3. reserver' = [reserver EXCEPT ![r] = [reserver[r] EXCEPT !.pc = "decide",
                                                            !.seen = balance[reserver[r].user]]]
  BY <1>1 DEF GetUserQuota, ReminderTypes
<1>4. /\ reserver'[r] \in ReserverType /\ reserver'[r].pc = "decide"
      /\ reserver'[r].user = reserver[r].user /\ reserver'[r].cost = reserver[r].cost
      /\ reserver'[r].seen = balance[reserver[r].user]
      /\ \A q \in Reservers \ {r} : reserver'[q] = reserver[q]
      /\ reserver' \in [Reservers -> ReserverType]
  BY <1>1, <1>2, <1>3 DEF ReserverType, ReminderTypes
<1>5. ReminderTypes'
  BY <1>1, <1>2, <1>4 DEF ReminderTypes
<1>6. PlainIsTold'
  <2>1. \A q \in Reservers, u \in WarnedUsers : Telling(q, u) => Telling(q, u)'
    BY <1>2, <1>4 DEF Telling
  <2>2. QED BY <1>2, <2>1 DEF ReminderInv, PlainIsTold
<1>7. LastSentIsNewest' /\ AttemptsApart'
  BY <1>2 DEF ReminderInv, LastSentIsNewest, AttemptsApart
<1>8. QED BY <1>5, <1>6, <1>7 DEF ReminderInv

\* The decision: a request that crossed the threshold always wants to remind,
\* and a reminder is recorded only once the last one is a cooldown old.
LEMMA ReminderDecide ==
  ASSUME ReminderInv, NEW r \in Reservers, maybeSendQuotaWarning(r)
  PROVE  ReminderInv'
<1> DEFINE u == reserver[r].user
           post == reserver[r].seen
           send == shouldSendQuotaWarning(post + reserver[r].cost, post)
<1>1. ReminderTypes /\ u \in WarnedUsers /\ reserver[r].pc = "decide" /\ hour \in Int
  BY DEF ReminderInv, ReminderTypes, maybeSendQuotaWarning
<1>2. UNCHANGED <<balance, hour>> /\ reserver' = [reserver EXCEPT ![r] = Resting]
  BY DEF maybeSendQuotaWarning
<1>3. \A q \in Reservers \ {r} : reserver'[q] = reserver[q]
  BY <1>1, <1>2 DEF ReminderTypes
<1>4. \/ /\ send /\ CooldownOver(u) /\ lastSent' = RecordSent(u)
         /\ attempts' = [attempts EXCEPT ![u] = attempts[u] \cup {hour}]
         /\ crossing' = [crossing EXCEPT ![u] = "told"]
      \/ /\ UNCHANGED <<lastSent, attempts>>
         /\ crossing' = IF send THEN [crossing EXCEPT ![u] = "cooled"] ELSE crossing
  BY DEF maybeSendQuotaWarning
<1>5. ReminderTypes'
  <2>1. Resting \in ReserverType /\ Resting.pc = "idle"
    BY DEF Resting, ReserverType
  <2>2. lastSent' \in [WarnedUsers -> SUBSET Int] /\ attempts' \in [WarnedUsers -> SUBSET Int]
    BY <1>1, <1>4 DEF ReminderTypes, RecordSent
  <2>3. crossing' \in [WarnedUsers -> {"none", "blurred", "plain", "silent", "told", "cooled"}]
    BY <1>1, <1>4 DEF ReminderTypes
  <2>4. QED BY <1>1, <1>2, <2>1, <2>2, <2>3 DEF ReminderTypes
<1>6. PlainIsTold'
  <2> SUFFICES ASSUME NEW v \in WarnedUsers, crossing'[v] = "plain"
               PROVE  \E q \in Reservers : Telling(q, v)'
    BY DEF PlainIsTold
  <2>1. crossing[v] = "plain" /\ (v = u => ~send)
    BY <1>1, <1>4 DEF ReminderTypes
  <2>2. PICK q \in Reservers : Telling(q, v)
    BY <2>1 DEF ReminderInv, PlainIsTold
  <2>3. q # r
    BY <1>1, <2>1, <2>2 DEF Telling, shouldSendQuotaWarning, crossedThreshold
  <2>4. Telling(q, v)'
    BY <1>2, <1>3, <2>2, <2>3 DEF Telling
  <2>5. QED BY <2>4
<1>7. LastSentIsNewest' /\ AttemptsApart'
  <2>1. CASE UNCHANGED <<lastSent, attempts>>
    BY <1>2, <2>1 DEF ReminderInv, LastSentIsNewest, AttemptsApart
  <2>2. CASE /\ CooldownOver(u) /\ lastSent' = RecordSent(u)
             /\ attempts' = [attempts EXCEPT ![u] = attempts[u] \cup {hour}]
    <3>1. \A t \in attempts[u] : t \in Int /\ t <= hour /\ hour - t >= CooldownHours
      BY <1>1, <2>2 DEF CooldownOver, ReminderInv, LastSentIsNewest, ReminderTypes
    <3>2. lastSent'[u] = {hour} /\ attempts'[u] = attempts[u] \cup {hour}
      BY <1>1, <2>2 DEF RecordSent, ReminderTypes
    <3>3. \A v \in WarnedUsers \ {u} :
            /\ attempts'[v] = attempts[v]
            /\ lastSent'[v] = IF \E t \in lastSent[v] : hour - t >= CooldownHours THEN {} ELSE lastSent[v]
      BY <1>1, <2>2 DEF RecordSent, ReminderTypes
    <3>4. LastSentIsNewest'
      <4> SUFFICES ASSUME NEW v \in WarnedUsers
                   PROVE  /\ \A s, t \in lastSent'[v] : s = t
                          /\ \A t \in attempts'[v] :
                               t <= hour' /\ (t \in lastSent'[v] \/ hour' - t >= CooldownHours)
        BY DEF LastSentIsNewest
      <4>1. CASE v = u
        BY <1>1, <1>2, <3>1, <3>2, <4>1
      <4>2. CASE v # u
        BY <1>2, <3>3, <4>2 DEF ReminderInv, LastSentIsNewest
      <4>3. QED BY <4>1, <4>2
    <3>5. AttemptsApart'
      <4> SUFFICES ASSUME NEW v \in WarnedUsers, NEW s \in attempts'[v], NEW t \in attempts'[v], s < t
                   PROVE  t - s >= CooldownHours
        BY DEF AttemptsApart
      <4>1. CASE v = u
        BY <1>1, <3>1, <3>2, <4>1 DEF ReminderInv, AttemptsApart
      <4>2. CASE v # u
        BY <3>3, <4>2 DEF ReminderInv, AttemptsApart
      <4>3. QED BY <4>1, <4>2
    <3>6. QED BY <3>4, <3>5
  <2>3. QED BY <1>4, <2>1, <2>2
<1>8. QED BY <1>5, <1>6, <1>7 DEF ReminderInv

\* An hour passes, or nothing happens.
LEMMA ReminderHour ==
  ASSUME ReminderInv, HourPasses \/ UNCHANGED warnVars
  PROVE  ReminderInv'
<1>1. UNCHANGED <<balance, reserver, lastSent, attempts, crossing>> /\ hour' \in {hour, hour + 1}
  BY DEF HourPasses, warnVars
<1>2. ReminderTypes' /\ PlainIsTold' /\ AttemptsApart'
  BY <1>1 DEF ReminderInv, ReminderTypes, PlainIsTold, Telling, AttemptsApart
<1>3. LastSentIsNewest'
  <2> SUFFICES ASSUME NEW u \in WarnedUsers, NEW t \in attempts[u]
               PROVE  t <= hour' /\ (t \in lastSent[u] \/ hour' - t >= CooldownHours)
    BY <1>1 DEF ReminderInv, LastSentIsNewest
  <2>1. t \in Int /\ hour \in Int /\ CooldownHours \in Int
    BY WarnAssumption DEF ReminderInv, ReminderTypes
  <2>2. t <= hour /\ (t \in lastSent[u] \/ hour - t >= CooldownHours)
    BY DEF ReminderInv, LastSentIsNewest
  <2>3. CASE hour' = hour
    BY <2>2, <2>3
  <2>4. CASE hour' = hour + 1
    <3>1. t <= hour + 1 /\ (hour - t >= CooldownHours => hour + 1 - t >= CooldownHours)
      BY <2>1, <2>2
    <3>2. QED BY <2>1, <2>2, <2>4, <3>1
  <2>5. QED BY <1>1, <2>3, <2>4
<1>4. QED BY <1>2, <1>3 DEF ReminderInv

\* The types, with the bounds of the run: what is remembered was attempted.
ReminderBounds ==
  hour \in 0 .. MaxHours /\ \A u \in WarnedUsers : lastSent[u] \subseteq attempts[u]

\* Every action keeps the bounds.
LEMMA ReminderBoundsStep ==
  ASSUME ReminderInv, ReminderBounds, [WarnNext]_warnVars
  PROVE  ReminderBounds'
<1>1. ReminderTypes
  BY DEF ReminderInv
<1>2. ASSUME NEW r \in Reservers, maybeSendQuotaWarning(r) PROVE ReminderBounds'
  <2> DEFINE u == reserver[r].user
  <2>1. hour' = hour
    BY <1>2 DEF maybeSendQuotaWarning
  <2>2. CASE UNCHANGED <<lastSent, attempts>>
    BY <2>1, <2>2 DEF ReminderBounds
  <2>3. CASE lastSent' = RecordSent(u) /\ attempts' = [attempts EXCEPT ![u] = attempts[u] \cup {hour}]
    <3> SUFFICES ASSUME NEW v \in WarnedUsers PROVE lastSent'[v] \subseteq attempts'[v]
      BY <2>1 DEF ReminderBounds
    <3>1. lastSent[v] \subseteq attempts[v]
      BY DEF ReminderBounds
    <3>2. attempts'[v] = IF v = u THEN attempts[v] \cup {hour} ELSE attempts[v]
      BY <1>1, <2>3 DEF ReminderTypes
    <3>3. \/ lastSent'[v] = {} \/ lastSent'[v] = lastSent[v]
          \/ v = u /\ lastSent'[v] = {hour}
      BY <2>3 DEF RecordSent
    <3>4. QED BY <3>1, <3>2, <3>3
  <2>4. QED BY <1>2, <2>2, <2>3 DEF maybeSendQuotaWarning
<1>3. CASE HourPasses
  BY <1>3, WarnAssumption DEF HourPasses, ReminderBounds
<1>4. CASE UNCHANGED <<lastSent, attempts, hour>>
  BY <1>4 DEF ReminderBounds
<1>5. \/ \E r \in Reservers : maybeSendQuotaWarning(r)
      \/ HourPasses \/ UNCHANGED <<lastSent, attempts, hour>>
  BY DEF WarnNext, warnVars, Reserve, Settle, GetUserQuota
<1>6. QED BY <1>2, <1>3, <1>4, <1>5

\* Both together are the types.
LEMMA ReminderTyped ==
  ASSUME ReminderInv, ReminderBounds
  PROVE  WarnTypeOK
<1>1. ASSUME NEW u \in WarnedUsers PROVE Cardinality(lastSent[u]) <= 1
  <2>1. CASE lastSent[u] = {}
    BY <2>1, FS_EmptySet
  <2>2. CASE lastSent[u] # {}
    <3>1. PICK t : t \in lastSent[u]
      BY <2>2
    <3>2. lastSent[u] = {t}
      BY <3>1 DEF ReminderInv, LastSentIsNewest
    <3>3. Cardinality({t}) = 1
      BY FS_Singleton
    <3>4. QED BY <3>2, <3>3
  <2>3. QED BY <2>1, <2>2
<1>2. ASSUME NEW r \in Reservers PROVE reserver[r].pc \in {"idle", "read", "decide"}
  BY DEF ReminderInv, ReminderTypes, ReserverType
<1>3. QED BY <1>1, <1>2 DEF ReminderInv, ReminderTypes, ReminderBounds, WarnTypeOK

\* A reservation that takes a balance below the threshold is followed by its
\* reminder, and reminders are a cooldown apart, for any number of requests,
\* users and deductions in between (quota_warning.go maybeSendQuotaWarning).
THEOREM CrossingsAreReminded == WarnSpec => [](WarnTypeOK /\ CrossingIsReminded)
<1>1. ReminderInv /\ [WarnNext]_warnVars => ReminderInv'
  <2> SUFFICES ASSUME ReminderInv, [WarnNext]_warnVars PROVE ReminderInv'
    OBVIOUS
  <2>1. \A c \in Costs \cup {-ThresholdQuota} : c \in Int
    BY WarnAssumption
  <2>2. QED
    BY <2>1, ReminderReserve, ReminderSettle, ReminderRead, ReminderDecide, ReminderHour DEF WarnNext
<1>2. ReminderInv => CrossingIsReminded
  BY DEF ReminderInv, PlainIsTold, Telling, AttemptsApart, CrossingIsReminded
<1>3. WarnInit => ReminderBounds
  BY WarnAssumption DEF WarnInit, ReminderBounds
<1>4. ReminderInv /\ ReminderBounds /\ [WarnNext]_warnVars => ReminderBounds'
  BY ReminderBoundsStep
<1>5. ReminderInv /\ ReminderBounds => WarnTypeOK
  BY ReminderTyped
<1>6. QED BY <1>1, <1>2, <1>3, <1>4, <1>5, ReminderInit, PTL DEF WarnSpec

-----------------------------------------------------------------------------
(* All of them together.  Each of the five specifications is implemented by  *)
(* their composition: its steps are steps of one and leave the others alone. *)

LEMMA UpstreamStep ==
  ASSUME [Next]_vars
  PROVE  /\ [AnswersNext]_answersVars /\ [MediaNext]_mediaVars /\ [LimitNext]_limitVars
         /\ [WarnNext]_warnVars /\ [OptionNext]_optionVars
<1>1. CASE UNCHANGED vars
  BY <1>1 DEF vars
<1>2. CASE Next
  <2>1. \/ AnswersNext /\ UNCHANGED <<mediaVars, limitVars, warnVars, optionVars>>
        \/ MediaNext /\ UNCHANGED <<answersVars, limitVars, warnVars, optionVars>>
        \/ LimitNext /\ UNCHANGED <<answersVars, mediaVars, warnVars, optionVars>>
        \/ WarnNext /\ UNCHANGED <<answersVars, mediaVars, limitVars, optionVars>>
        \/ OptionNext /\ UNCHANGED <<answersVars, mediaVars, limitVars, warnVars>>
    BY <1>2 DEF Next
  <2>2. QED BY <2>1
<1>3. QED BY <1>1, <1>2

\* Run beside one another, the adaptors, the media calls, the limiters, the
\* reminders and the settings keep every term the run checks, for any constants.
THEOREM UpstreamsKeepTheirTerms ==
  Spec => [](/\ TypeOK /\ AnswersAreCharged /\ MediaIsPaidOnce /\ LimitHolds
             /\ CrossingIsReminded /\ SettingsAreTheTables)
<1>1. Init => AnswersInit /\ MediaInit /\ LimitInit /\ WarnInit /\ OptionInit
  BY DEF Init
<1>2. Spec => AnswersSpec
  BY <1>1, UpstreamStep, PTL DEF Spec, AnswersSpec
<1>3. Spec => MediaSpec
  BY <1>1, UpstreamStep, PTL DEF Spec, MediaSpec
<1>4. Spec => LimitSpec
  BY <1>1, UpstreamStep, PTL DEF Spec, LimitSpec
<1>5. Spec => WarnSpec
  BY <1>1, UpstreamStep, PTL DEF Spec, WarnSpec
<1>6. Spec => OptionSpec
  BY <1>1, UpstreamStep, PTL DEF Spec, OptionSpec
<1>7. AnswersTypeOK /\ MediaTypeOK /\ LimitTypeOK /\ WarnTypeOK /\ OptionTypeOK => TypeOK
  BY DEF TypeOK
<1>8. QED
  BY <1>2, <1>3, <1>4, <1>5, <1>6, <1>7, AnswersCharged, MediaCallsPayOnce, LimitsHold,
     CrossingsAreReminded, SettingsFollow, PTL
=============================================================================
