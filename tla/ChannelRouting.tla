---------------------------- MODULE ChannelRouting ----------------------------
(***************************************************************************)
(* Channels, the abilities derived from them, the in-memory routing table  *)
(* and what switches channels on and off: administrators, failing relays,  *)
(* the low success rate, the test sweep and the balance sweep.  A handler  *)
(* is the list of statements it still has to run; there is no transaction, *)
(* so the statements of several handlers interleave.                       *)
(***************************************************************************)
EXTENDS Integers, FiniteSets, Sequences, FiniteSetsExt

CONSTANTS
  Channels, OldChannels,   \* the latter are there from the start
  Routes,        \* pairs of a group and a model
  GroupOf,       \* the group of a route
  TypeOf,        \* channel.Type
  Bodies,        \* what UpdateChannel and AddChannel are sent: routes, priority, status
  Replies,       \* answers of a billing endpoint
  Handlers,      \* requests and goroutines besides the two sweeps
  AutomaticDisableChannelEnabled, AutomaticEnableChannelEnabled,
  MaxCalls,      \* bound on handlers started
  MaxFaults      \* bound on failing statements

ASSUME RoutingAssumption ==
  /\ OldChannels \subseteq Channels
  /\ \A b \in Bodies : b.routes \subseteq Routes /\ b.status \in 0 .. 3 /\ b.priority \in Int

VARIABLES
  channel,   \* table channels
  ability,   \* table abilities
  todo,      \* the statements each handler and sweep still runs
  held,      \* the struct a handler holds
  sweep,     \* testAllChannelsRunning and the lists the sweeps work through
  sync,      \* InitChannelCache between its two queries
  cache,     \* group2model2channels, flattened
  panicked,  \* channels whose group had no entry when the table was built
  broken,    \* history: channels whose two tables may disagree
  fresh,     \* history: is the cache younger than the last write?
  calls, faults

routingVars == <<channel, ability, todo, held, sweep, sync, cache, panicked, broken, fresh, calls, faults>>

Enabled == 1
ManuallyDisabled == 2
AutoDisabled == 3
Sweeps == {"tester", "balancer"}
Slots == Handlers \cup Sweeps
NoRow == [there |-> FALSE, born |-> FALSE, status |-> 0, routes |-> {}, priority |-> 0, balance |-> 0]
Gone == [NoRow EXCEPT !.born = TRUE]      \* ids are not used again
NewRow(body) == [there |-> TRUE, born |-> TRUE, routes |-> body.routes,
                 status |-> IF body.status = 0 THEN Enabled ELSE body.status,
                 priority |-> body.priority, balance |-> 0]
Free(s) == todo[s] = <<>>

-----------------------------------------------------------------------------
(* Deliberately wrong variants of definitions below, used only to check     *)
(* that each property is able to fail.                                      *)

AlwaysEnabled(c, row) ==
  {[route |-> r, ch |-> c, enabled |-> TRUE, priority |-> row.priority] : r \in row.routes}
FirstGroupOnly(c, row) ==
  LET first == CHOOSE r \in row.routes : TRUE IN
  {[route |-> first, ch |-> c, enabled |-> row.status = Enabled, priority |-> row.priority]}
WholeList(S) == S
Unflagged(list) == [on |-> FALSE, runs |-> TRUE, list |-> list]

-----------------------------------------------------------------------------
\* The abilities a channel's row asks for.
NewAbilities(c, row) ==
  {[route |-> r, ch |-> c, enabled |-> row.status = Enabled, priority |-> row.priority] : r \in row.routes}

RoutingInit ==
  /\ \E b \in {b \in Bodies : b.routes # {}} :
       channel = [c \in Channels |-> IF c \in OldChannels THEN NewRow(b) ELSE NoRow]
  /\ ability = UNION {NewAbilities(c, channel[c]) : c \in OldChannels} /\ cache = {}
  /\ todo = [s \in Slots |-> <<>>] /\ held = [s \in Slots |-> NoRow]
  /\ sweep = [s \in Sweeps |-> [on |-> FALSE, runs |-> FALSE, list |-> {}]]
  /\ sync = [pc |-> "idle", rows |-> {}, changed |-> {}]
  /\ panicked = {} /\ broken = {} /\ fresh = "no" /\ calls = 0 /\ faults = 0

-----------------------------------------------------------------------------
(* Choosing a channel. *)

Top(S) == {x \in S : \A y \in S : y.priority <= x.priority}

\* GetRandomSatisfiedChannel on the table.
GetRandomSatisfiedChannel(route, ignoreFirstPriority) ==
  LET on == {a \in ability : a.route = route /\ a.enabled} IN
  {a.ch : a \in IF ignoreFirstPriority THEN on ELSE Top(on)}

\* The candidates before a retry looks further down: with no positive
\* priority all of them count as first.
FirstChoice(S) == IF \E x \in S : x.priority > 0 THEN Top(S) ELSE S

\* CacheGetRandomSatisfiedChannel with the memory cache.
CacheGetRandomSatisfiedChannel(route, ignoreFirstPriority) ==
  LET S == {x \in cache : x.route = route}  first == FirstChoice(S) IN
  {x.ch : x \in IF ignoreFirstPriority /\ first # S THEN S \ first ELSE first}

\* Distribute: a channel asked for by its id, or any of the candidates.
Distribute(route, specific) ==
  {c \in Channels : IF specific = {} THEN c \in CacheGetRandomSatisfiedChannel(route, FALSE)
                    ELSE c \in specific /\ channel[c].there /\ channel[c].status = Enabled}

-----------------------------------------------------------------------------
(* Handlers as lists of statements. *)

About(s, c) == todo[s] # <<>> /\ Head(todo[s]).ch = c
Stmt(op, c, arg) == [op |-> op, ch |-> c, arg |-> arg]

\* A write changes what a concurrent InitChannelCache may have read.
Touch(c) ==
  /\ fresh' = "no"
  /\ sync' = IF sync.pc = "idle" THEN sync ELSE [sync EXCEPT !.changed = @ \cup {c}]

\* s starts to run stmts on channel c, with the struct row in hand.
Start(s, c, row, stmts) ==
  /\ Free(s)
  /\ todo' = [todo EXCEPT ![s] = stmts] /\ held' = [held EXCEPT ![s] = row]
  /\ broken' = IF \E t \in Slots \ {s} : About(t, c) THEN broken \cup {c} ELSE broken

Call == calls < MaxCalls /\ calls' = calls + 1
Begin(s, c, row, stmts) ==
  /\ s \in Handlers /\ Call /\ Start(s, c, row, stmts)
  /\ UNCHANGED <<channel, ability, sweep, sync, cache, panicked, fresh, faults>>

\* What the methods of a channel run, in this order.
BatchInsertChannels(c) == <<Stmt("create", c, 0), Stmt("add", c, 0)>>
UpdateAbilities(c) == <<Stmt("drop", c, 0), Stmt("add", c, 0)>>
Update(c) == <<Stmt("update", c, 0), Stmt("first", c, 0)>> \o UpdateAbilities(c)
Delete(c) == <<Stmt("delete", c, 0), Stmt("drop", c, 0)>>

\* One of the keys an administrator adds.
AddChannel(s, c, body) ==
  /\ ~channel[c].born /\ body.routes # {} /\ \A t \in Slots : ~About(t, c)
  /\ Begin(s, c, NewRow(body), BatchInsertChannels(c))

\* The toggle of the channel list too; the channel may have gone in the
\* meantime, and then the struct of the request is used.
UpdateChannel(s, c, body) ==
  channel[c].born /\ Begin(s, c, [NoRow EXCEPT !.status = body.status, !.routes = body.routes,
                                              !.priority = body.priority], Update(c))

DeleteChannel(s, c) == channel[c].born /\ Begin(s, c, NoRow, Delete(c))

UpdateChannelStatusById(c, status) ==
  <<Stmt("abilityStatus", c, status), Stmt("channelStatus", c, status)>>

\* A relay failed with an error ShouldDisableChannel knows; the goroutine runs
\* when the channel may already be gone.
ShouldDisableChannel(fatal) == AutomaticDisableChannelEnabled /\ fatal
DisableChannel(s, c) ==
  \E fatal \in BOOLEAN :
    channel[c].born /\ ShouldDisableChannel(fatal) /\ Begin(s, c, NoRow, UpdateChannelStatusById(c, AutoDisabled))
MetricDisableChannel(s, c) == channel[c].born /\ Begin(s, c, NoRow, UpdateChannelStatusById(c, AutoDisabled))
EnableChannel(c) == UpdateChannelStatusById(c, Enabled)

\* One statement: the rows go, their abilities stay.
DeleteDisabledChannel ==
  LET off == {c \in Channels : channel[c].there /\ channel[c].status \in {ManuallyDisabled, AutoDisabled}} IN
  /\ off # {} /\ Call
  /\ channel' = [c \in Channels |-> IF c \in off THEN Gone ELSE channel[c]]
  /\ broken' = broken \cup off /\ fresh' = "no"
  /\ sync' = IF sync.pc = "idle" THEN sync ELSE [sync EXCEPT !.changed = @ \cup off]
  /\ UNCHANGED <<ability, todo, held, sweep, cache, panicked, faults>>

-----------------------------------------------------------------------------
(* Statements. *)

Rest(s) == todo' = [todo EXCEPT ![s] = Tail(@)]
Next1(s, op) == todo[s] # <<>> /\ Head(todo[s]).op = op
ChOf(s) == Head(todo[s]).ch

\* DB.Create, DB.Model(channel).Updates, DB.Delete and the status of the row.
WriteRow(s) ==
  LET c == ChOf(s)  old == channel[c]  new == held[s] IN
  /\ \/ /\ Next1(s, "create") /\ channel' = [channel EXCEPT ![c] = new] /\ UNCHANGED broken
     \/ /\ Next1(s, "update")
        /\ channel' = IF ~old.there THEN channel ELSE
             [channel EXCEPT ![c].status = IF new.status = 0 THEN @ ELSE new.status,
                             ![c].routes = IF new.routes = {} THEN @ ELSE new.routes,
                             ![c].priority = IF new.priority = 0 THEN @ ELSE new.priority]
        /\ broken' = IF old.there THEN broken ELSE broken \cup {c}
     \/ Next1(s, "delete") /\ channel' = [channel EXCEPT ![c] = Gone] /\ UNCHANGED broken
     \/ /\ Next1(s, "channelStatus") /\ UNCHANGED broken
        /\ channel' = IF old.there THEN [channel EXCEPT ![c].status = Head(todo[s]).arg] ELSE channel
  /\ Rest(s) /\ Touch(c)
  /\ UNCHANGED <<ability, held, sweep, cache, panicked, calls, faults>>

\* DB.Model(channel).First after an update.
ReadBack(s) ==
  LET c == ChOf(s) IN
  /\ Next1(s, "first") /\ Rest(s)
  /\ held' = IF channel[c].there THEN [held EXCEPT ![s] = channel[c]] ELSE held
  /\ UNCHANGED <<channel, ability, sweep, sync, cache, panicked, broken, fresh, calls, faults>>

DeleteAbilities(s) ==
  LET c == ChOf(s) IN
  /\ Next1(s, "drop") /\ Rest(s) /\ Touch(c)
  /\ ability' = {a \in ability : a.ch # c}
  /\ UNCHANGED <<channel, held, sweep, cache, panicked, broken, calls, faults>>

\* The insert is refused as a whole when a row with such a key is there.
AddAbilities(s) ==
  LET c == ChOf(s)  new == NewAbilities(c, held[s])
      clash == \E a \in ability, b \in new : a.route = b.route /\ a.ch = b.ch IN
  /\ Next1(s, "add") /\ Rest(s) /\ Touch(c)
  /\ ability' = IF clash THEN ability ELSE ability \cup new
  /\ UNCHANGED <<channel, held, sweep, cache, panicked, broken, calls, faults>>

UpdateAbilityStatus(s) ==
  LET c == ChOf(s)  on == Head(todo[s]).arg = Enabled IN
  /\ Next1(s, "abilityStatus") /\ Rest(s) /\ Touch(c)
  /\ ability' = {IF a.ch = c THEN [a EXCEPT !.enabled = on] ELSE a : a \in ability}
  /\ UNCHANGED <<channel, held, sweep, cache, panicked, broken, calls, faults>>

\* A statement fails: UpdateChannelStatusById logs and goes on, the other
\* handlers return.
StatementFails(s) ==
  /\ todo[s] # <<>> /\ faults < MaxFaults /\ faults' = faults + 1
  /\ todo' = [todo EXCEPT ![s] = IF Head(@).op \in {"abilityStatus", "channelStatus", "first"}
                                 THEN Tail(@) ELSE <<>>]
  /\ broken' = broken \cup {ChOf(s)}
  /\ UNCHANGED <<channel, ability, held, sweep, sync, cache, panicked, fresh, calls>>

-----------------------------------------------------------------------------
(* The sweeps. *)

\* testAllChannelsRunning is set and the goroutine works through its list.
Round(list) == [on |-> TRUE, runs |-> TRUE, list |-> list]

\* testChannels: the flag is set before the channels are listed; when that
\* fails it stays set and nothing runs.
TestChannels ==
  /\ ~sweep["tester"].on /\ Call
  /\ \/ /\ sweep' = [sweep EXCEPT !["tester"] =
             Round({[ch |-> c, on |-> channel[c].status = Enabled] : c \in {d \in Channels : channel[d].there}})]
        /\ faults' = faults
     \/ /\ faults < MaxFaults /\ faults' = faults + 1
        /\ sweep' = [sweep EXCEPT !["tester"].on = TRUE]
  /\ UNCHANGED <<channel, ability, todo, held, sync, cache, panicked, broken, fresh>>

ShouldEnableChannel(answered) == AutomaticEnableChannelEnabled /\ answered

\* What testChannel finds: a good answer, an error, or one that took too long.
testChannel(x) == {"good", "error", "fatal", "slow"}

\* The sweep judges the channel by the status it had when the list was read.
TestOne(x) ==
  LET s == "tester"  c == x.ch  list == sweep[s].list \ {x} IN
  /\ x \in sweep[s].list /\ Free(s) /\ sweep' = [sweep EXCEPT ![s].list = list]
  /\ \E o \in testChannel(x) :
       IF x.on /\ (ShouldDisableChannel(o = "fatal") \/ (o = "slow" /\ AutomaticDisableChannelEnabled))
       THEN Start(s, c, NoRow, UpdateChannelStatusById(c, AutoDisabled))
       ELSE IF ~x.on /\ ShouldEnableChannel(o \in {"good", "slow"})
       THEN Start(s, c, NoRow, EnableChannel(c))
       ELSE UNCHANGED <<todo, held, broken>>
  /\ UNCHANGED <<channel, ability, sync, cache, panicked, fresh, calls, faults>>

\* The goroutine is through its list.
SweepEnds(s) ==
  /\ sweep[s].runs /\ sweep[s].list = {} /\ Free(s)
  /\ sweep' = [sweep EXCEPT ![s] = [on |-> FALSE, runs |-> FALSE, list |-> {}]]
  /\ UNCHANGED <<channel, ability, todo, held, sync, cache, panicked, broken, fresh, calls, faults>>

\* The balance each kind of account reports; the empty set is an error.
GetResponseBody(a, read) == IF a.fail THEN {} ELSE read
updateChannelCloseAIBalance(a) == GetResponseBody(a, {a.granted})
updateChannelOpenAISBBalance(a) == GetResponseBody(a, IF a.listed THEN {a.granted} ELSE {})
updateChannelAIProxyBalance(a) == GetResponseBody(a, IF a.listed THEN {a.granted} ELSE {})
updateChannelAPI2GPTBalance(a) == GetResponseBody(a, {a.granted})
updateChannelAIGC2DBalance(a) == GetResponseBody(a, {a.granted})
updateChannelSiliconFlowBalance(a) == GetResponseBody(a, IF a.listed THEN {a.granted} ELSE {})
updateChannelDeepSeekBalance(a) == GetResponseBody(a, IF a.listed THEN {a.granted} ELSE {})
updateChannelOpenRouterBalance(a) == GetResponseBody(a, {a.granted - a.used})
updateChannelBalance(type, a) ==
  CASE type \in {"OpenAI", "Custom"} -> GetResponseBody(a, {a.granted - a.used})
    [] type = "CloseAI"     -> updateChannelCloseAIBalance(a)
    [] type = "OpenAISB"    -> updateChannelOpenAISBBalance(a)
    [] type = "AIProxy"     -> updateChannelAIProxyBalance(a)
    [] type = "API2GPT"     -> updateChannelAPI2GPTBalance(a)
    [] type = "AIGC2D"      -> updateChannelAIGC2DBalance(a)
    [] type = "SiliconFlow" -> updateChannelSiliconFlowBalance(a)
    [] type = "DeepSeek"    -> updateChannelDeepSeekBalance(a)
    [] type = "OpenRouter"  -> updateChannelOpenRouterBalance(a)
    [] OTHER                -> {}

UpdateBalance(c, b) ==
  channel' = IF channel[c].there THEN [channel EXCEPT ![c].balance = b] ELSE channel

UpdateChannelBalance(c, a) ==
  /\ channel[c].there /\ Call /\ \E b \in updateChannelBalance(TypeOf[c], a) : UpdateBalance(c, b)
  /\ UNCHANGED <<ability, todo, held, sweep, sync, cache, panicked, broken, fresh, faults>>

\* AutomaticallyUpdateChannels starts a round of updateAllChannelsBalance.
UpdateAllChannels ==
  /\ ~sweep["balancer"].on /\ Call
  /\ sweep' = [sweep EXCEPT !["balancer"] =
       Round({[ch |-> c, on |-> TRUE] : c \in {d \in Channels :
                channel[d].there /\ channel[d].status = Enabled /\ TypeOf[d] \in {"OpenAI", "Custom"}}})]
  /\ UNCHANGED <<channel, ability, todo, held, sync, cache, panicked, broken, fresh, faults>>

updateAllChannelsBalance(x, a) ==
  LET s == "balancer"  c == x.ch  read == updateChannelBalance(TypeOf[c], a) IN
  /\ x \in sweep[s].list /\ Free(s) /\ sweep' = [sweep EXCEPT ![s].list = @ \ {x}]
  /\ IF read = {} THEN UNCHANGED <<channel, todo, held, broken>>
     ELSE \E b \in read :
       /\ UpdateBalance(c, b)
       /\ IF b <= 0 THEN Start(s, c, NoRow, UpdateChannelStatusById(c, AutoDisabled))
          ELSE UNCHANGED <<todo, held, broken>>
  /\ UNCHANGED <<ability, sync, cache, panicked, fresh, calls, faults>>

-----------------------------------------------------------------------------
(* The routing table in memory. *)

Busy == {c \in Channels : \E s \in Slots : About(s, c)}

\* The first query of InitChannelCache: the enabled channels.
ReadChannels ==
  /\ sync.pc = "idle" /\ fresh # "yes" /\ fresh' = "reading"
  /\ sync' = [pc |-> "read", changed |-> Busy,
              rows |-> {[ch |-> c, routes |-> channel[c].routes, priority |-> channel[c].priority] :
                        c \in {d \in Channels : channel[d].there /\ channel[d].status = Enabled}}]
  /\ UNCHANGED <<channel, ability, todo, held, sweep, cache, panicked, broken, calls, faults>>

\* Rows of a group no ability names: the table has no map for the group, and
\* writing to it ends the process.
WithoutGroup(rows) ==
  {x.ch : x \in {y \in rows : \E r \in y.routes : \A a \in ability : GroupOf[a.route] # GroupOf[r]}}

\* The second query, the abilities, and the new table.
InitChannelCache ==
  /\ sync.pc = "read"
  /\ panicked' = WithoutGroup(sync.rows)
  /\ IF panicked' # {}
     THEN cache' = cache /\ sync' = [sync EXCEPT !.changed = @ \cup Busy] /\ fresh' = fresh
     ELSE /\ cache' = UNION {{[route |-> r, ch |-> x.ch, priority |-> x.priority] : r \in x.routes} :
                             x \in sync.rows}
          /\ sync' = [pc |-> "idle", rows |-> {}, changed |-> {}]
          /\ fresh' = IF fresh = "reading" THEN "yes" ELSE "no"
  /\ UNCHANGED <<channel, ability, todo, held, sweep, broken, calls, faults>>

-----------------------------------------------------------------------------
RoutingNext ==
  /\ panicked = {}
  /\ \/ \E s \in Handlers, c \in Channels :
          \/ DeleteChannel(s, c) \/ DisableChannel(s, c) \/ MetricDisableChannel(s, c)
          \/ \E b \in Bodies : AddChannel(s, c, b) \/ UpdateChannel(s, c, b)
     \/ \E s \in Slots : \/ WriteRow(s) \/ ReadBack(s) \/ DeleteAbilities(s) \/ AddAbilities(s)
                         \/ UpdateAbilityStatus(s) \/ StatementFails(s)
     \/ DeleteDisabledChannel \/ TestChannels \/ UpdateAllChannels
     \/ \E x \in sweep["tester"].list : TestOne(x)
     \/ \E x \in sweep["balancer"].list, a \in Replies : updateAllChannelsBalance(x, a)
     \/ \E s \in Sweeps : SweepEnds(s)
     \/ \E c \in Channels, a \in Replies : UpdateChannelBalance(c, a)
     \/ ReadChannels \/ InitChannelCache

RoutingSpec == RoutingInit /\ [][RoutingNext]_routingVars

-----------------------------------------------------------------------------
(* Properties. *)

\* Every variable has its type.
RoutingTypeOK ==
  /\ \A c \in Channels : channel[c].status \in 0 .. 3 /\ channel[c].routes \subseteq Routes
  /\ \A a \in ability : a.route \in Routes /\ a.ch \in Channels /\ a.enabled \in BOOLEAN
  /\ \A x \in cache : x.route \in Routes /\ x.ch \in Channels
  /\ \A s \in Sweeps : sweep[s].runs => sweep[s].on
  /\ broken \subseteq Channels /\ panicked \subseteq Channels /\ fresh \in {"no", "reading", "yes"}

\* A channel nobody is writing has exactly the abilities its row asks for,
\* enabled exactly when it is, unless two writers overlapped on it, a statement
\* failed, or its row was gone when it was updated or swept away.
AbilitiesFollowChannels ==
  \A c \in Channels \ broken : c \in Busy \/
    {a \in ability : a.ch = c} =
      {[route |-> r, ch |-> c, enabled |-> channel[c].status = Enabled, priority |-> channel[c].priority] :
       r \in {r \in channel[c].routes : channel[c].there}}

\* Building the routing table ends the process only over a channel that was
\* written while the table was built, or whose two tables disagreed before.
PanicsOnlyOverChangedChannels == panicked \subseteq broken \cup sync.changed

\* A routing table younger than the last write sends a request to a channel
\* that is there, enabled and serves the route, a retry too, and to the ones
\* the database would give it wherever a positive priority is in use.
CachedChoiceIsTheTables ==
  fresh = "yes" /\ broken = {} /\ Busy = {} => \A r \in Routes :
    /\ \A c \in Distribute(r, {}) : channel[c].there /\ channel[c].status = Enabled /\ r \in channel[c].routes
    /\ CacheGetRandomSatisfiedChannel(r, TRUE) \subseteq GetRandomSatisfiedChannel(r, TRUE)
    /\ (\E x \in cache : x.route = r /\ x.priority > 0)
         => CacheGetRandomSatisfiedChannel(r, FALSE) = GetRandomSatisfiedChannel(r, FALSE)
===============================================================================
