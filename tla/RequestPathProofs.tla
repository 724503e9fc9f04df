-------------------------- MODULE RequestPathProofs --------------------------
(***************************************************************************)
(* Proofs about where a relay request goes: the channels it may be routed  *)
(* to, and the success rate its outcome counts in; for any channels,       *)
(* routes, handlers, bodies, accounts and queue size.                      *)
(***************************************************************************)
EXTENDS ChannelRouting, ChannelMetric, SequenceTheorems, TLAPS

-----------------------------------------------------------------------------
(* Channels and abilities.  As long as a channel is not broken one handler    *)
(* at most writes it, and what is in its two tables follows from what that    *)
(* handler has left to run.                                                   *)

Balances == {0} \cup UNION {updateChannelBalance(TypeOf[c], a) : c \in Channels, a \in Replies}
Row == {row \in [there : BOOLEAN, born : BOOLEAN, status : 0 .. 3, routes : SUBSET Routes,
                 priority : Int, balance : Balances] : row.there => row.born}
Ability == [route : Routes, ch : Channels, enabled : BOOLEAN, priority : Int]
Listed == [ch : Channels, on : BOOLEAN]
RowRead == [ch : Channels, routes : SUBSET Routes, priority : Int]
Statuses == {Enabled, AutoDisabled}

\* What a handler of channel c may have left to run.
Add(c) == <<Stmt("add", c, 0)>>
Rebuild(c) == <<Stmt("first", c, 0), Stmt("drop", c, 0), Stmt("add", c, 0)>>
Drop(c) == <<Stmt("drop", c, 0)>>
SetStatus(c, status) == <<Stmt("channelStatus", c, status)>>
Programs(c) ==
  {BatchInsertChannels(c), Add(c), Update(c), Rebuild(c), UpdateAbilities(c), Delete(c), Drop(c)}
    \cup {UpdateChannelStatusById(c, status) : status \in Statuses}
    \cup {SetStatus(c, status) : status \in Statuses}

TablesShape == channel \in [Channels -> Row] /\ ability \subseteq Ability
ProgramShape ==
  /\ todo \in [Slots -> {<<>>} \cup UNION {Programs(c) : c \in Channels}]
  /\ held \in [Slots -> Row]
SweepShape ==
  /\ sweep \in [Sweeps -> [on : BOOLEAN, runs : BOOLEAN, list : SUBSET Listed]]
  /\ \A s \in Sweeps : sweep[s].runs => sweep[s].on
SyncShape == sync \in [pc : {"idle", "read"}, rows : SUBSET RowRead, changed : SUBSET Channels]
CacheShape ==
  /\ cache \subseteq [route : Routes, ch : Channels, priority : Int]
  /\ panicked \subseteq Channels /\ fresh \in {"no", "reading", "yes"}
RoutingShape ==
  TablesShape /\ ProgramShape /\ SweepShape /\ SyncShape /\ CacheShape /\ broken \subseteq Channels

\* The abilities of channel c in a table, and those its row asks for.
AbilitiesOf(table, c) == {a \in table : a.ch = c}
Asked(c, row, on) ==
  {[route |-> r, ch |-> c, enabled |-> on, priority |-> row.priority] : r \in {r \in row.routes : row.there}}
SameTerms(x, y) == x.status = y.status /\ x.routes = y.routes /\ x.priority = y.priority
SameRow(x, y) == x.there = y.there /\ SameTerms(x, y)

\* A handler with the program l still to run and the struct h in hand, over a
\* channel with the row and the abilities given.
Midway(c, l, h, row, abilities) ==
  \/ l = BatchInsertChannels(c) /\ abilities = {} /\ ~row.there /\ h.there
  \/ l = Add(c) /\ abilities = {} /\ row.there /\ SameTerms(h, row)
  \/ l = Update(c)
  \/ l = Rebuild(c) /\ row.there
  \/ l = UpdateAbilities(c) /\ row.there /\ SameTerms(h, row)
  \/ l = Delete(c)
  \/ l = Drop(c) /\ ~row.there
  \/ \E status \in Statuses :
       /\ l = UpdateChannelStatusById(c, status)
       /\ abilities = Asked(c, row, row.status = Enabled)
  \/ \E status \in Statuses : l = SetStatus(c, status) /\ abilities = Asked(c, row, status = Enabled)

\* What stands for channel c when its row is row, its abilities are S, and the
\* handlers have td to run and hd in hand.
Writes(td, s, c) == td[s] # <<>> /\ Head(td[s]).ch = c
Stands(c, td, hd, row, S) ==
  /\ \A s, t \in Slots : Writes(td, s, c) /\ Writes(td, t, c) => s = t
  /\ \A s \in Slots : Writes(td, s, c) => Midway(c, td[s], hd[s], row, S)
  /\ (\A s \in Slots : ~Writes(td, s, c)) => S = Asked(c, row, row.status = Enabled)
OneWriterEach ==
  \A c \in Channels \ broken : Stands(c, todo, held, channel[c], AbilitiesOf(ability, c))

EnabledRows(rows) ==
  {[ch |-> c, routes |-> rows[c].routes, priority |-> rows[c].priority] :
   c \in {d \in Channels : rows[d].there /\ rows[d].status = Enabled}}
CacheOf(read) == UNION {{[route |-> r, ch |-> x.ch, priority |-> x.priority] : r \in x.routes} : x \in read}

ReadRowsStand ==
  sync.pc = "read" => \A x \in sync.rows : x.ch \notin broken \cup sync.changed =>
    channel[x.ch].there /\ channel[x.ch].routes = x.routes

CacheIsFresh ==
  /\ fresh = "reading" => sync.pc = "read" /\ sync.rows = EnabledRows(channel)
  /\ fresh = "yes" => cache = CacheOf(EnabledRows(channel))

RoutingInv ==
  /\ RoutingShape /\ OneWriterEach /\ ReadRowsStand /\ CacheIsFresh /\ PanicsOnlyOverChangedChannels

\* The four statements of an update.
LEMMA UpdateIs ==
  ASSUME NEW c
  PROVE  Update(c) = <<Stmt("update", c, 0), Stmt("first", c, 0), Stmt("drop", c, 0), Stmt("add", c, 0)>>
<1> DEFINE S == {Stmt("update", c, 0), Stmt("first", c, 0), Stmt("drop", c, 0), Stmt("add", c, 0)}
           all == <<Stmt("update", c, 0), Stmt("first", c, 0), Stmt("drop", c, 0), Stmt("add", c, 0)>>
<1>1. PICK v : v = <<Stmt("update", c, 0), Stmt("first", c, 0)>>
  OBVIOUS
<1>2. PICK w : w = UpdateAbilities(c)
  OBVIOUS
<1>3. /\ v \in Seq(S) /\ Len(v) = 2 /\ v[1] = Stmt("update", c, 0) /\ v[2] = Stmt("first", c, 0)
      /\ w \in Seq(S) /\ Len(w) = 2 /\ w[1] = Stmt("drop", c, 0) /\ w[2] = Stmt("add", c, 0)
  BY <1>1, <1>2 DEF UpdateAbilities
<1>4. /\ all \in Seq(S) /\ Len(all) = 4 /\ all[1] = Stmt("update", c, 0) /\ all[2] = Stmt("first", c, 0)
      /\ all[3] = Stmt("drop", c, 0) /\ all[4] = Stmt("add", c, 0)
  OBVIOUS
<1> HIDE DEF S, all
<1>5. /\ v \o w \in Seq(S) /\ Len(v \o w) = 4
      /\ \A i \in 1 .. 4 : (v \o w)[i] = IF i <= 2 THEN v[i] ELSE w[i - 2]
  <2>1. /\ v \o w \in Seq(S) /\ Len(v \o w) = Len(v) + Len(w)
        /\ \A i \in 1 .. Len(v) + Len(w) : (v \o w)[i] = IF i <= Len(v) THEN v[i] ELSE w[i - Len(v)]
    <3>1. v \in Seq(S) /\ w \in Seq(S)
      BY <1>3
    <3> QED BY <3>1, ConcatProperties, Zenon
  <2> QED BY <2>1, <1>3
<1>6. \A i \in 1 .. 4 : (v \o w)[i] = all[i]
  BY <1>3, <1>4, <1>5
<1>7. v \o w = all
  BY <1>4, <1>5, <1>6, SeqEqual
<1> QED BY <1>1, <1>2, <1>7 DEF Update, all

\* The statements of a program, one after the other.
LEMMA ProgramSteps ==
  ASSUME NEW c, NEW status
  PROVE  /\ Head(BatchInsertChannels(c)) = Stmt("create", c, 0) /\ Tail(BatchInsertChannels(c)) = Add(c)
         /\ Head(Add(c)) = Stmt("add", c, 0) /\ Tail(Add(c)) = <<>>
         /\ Head(Update(c)) = Stmt("update", c, 0) /\ Tail(Update(c)) = Rebuild(c)
         /\ Head(Rebuild(c)) = Stmt("first", c, 0) /\ Tail(Rebuild(c)) = UpdateAbilities(c)
         /\ Head(UpdateAbilities(c)) = Stmt("drop", c, 0) /\ Tail(UpdateAbilities(c)) = Add(c)
         /\ Head(Delete(c)) = Stmt("delete", c, 0) /\ Tail(Delete(c)) = Drop(c)
         /\ Head(Drop(c)) = Stmt("drop", c, 0) /\ Tail(Drop(c)) = <<>>
         /\ Head(UpdateChannelStatusById(c, status)) = Stmt("abilityStatus", c, status)
         /\ Tail(UpdateChannelStatusById(c, status)) = SetStatus(c, status)
         /\ Head(SetStatus(c, status)) = Stmt("channelStatus", c, status)
         /\ Tail(SetStatus(c, status)) = <<>>
<1>1. Head(Update(c)) = Stmt("update", c, 0) /\ Tail(Update(c)) = Rebuild(c)
  <2>1. Update(c) = <<Stmt("update", c, 0), Stmt("first", c, 0), Stmt("drop", c, 0), Stmt("add", c, 0)>>
    BY UpdateIs, Zenon
  <2> QED BY <2>1 DEF Rebuild
<1>2. /\ Head(BatchInsertChannels(c)) = Stmt("create", c, 0) /\ Tail(BatchInsertChannels(c)) = Add(c)
      /\ Head(Add(c)) = Stmt("add", c, 0) /\ Tail(Add(c)) = <<>>
  BY DEF BatchInsertChannels, Add
<1>3. /\ Head(Rebuild(c)) = Stmt("first", c, 0) /\ Tail(Rebuild(c)) = UpdateAbilities(c)
      /\ Head(UpdateAbilities(c)) = Stmt("drop", c, 0) /\ Tail(UpdateAbilities(c)) = Add(c)
  BY DEF Rebuild, UpdateAbilities, Add
<1>4. /\ Head(Delete(c)) = Stmt("delete", c, 0) /\ Tail(Delete(c)) = Drop(c)
      /\ Head(Drop(c)) = Stmt("drop", c, 0) /\ Tail(Drop(c)) = <<>>
  BY DEF Delete, Drop
<1>5. /\ Head(UpdateChannelStatusById(c, status)) = Stmt("abilityStatus", c, status)
      /\ Tail(UpdateChannelStatusById(c, status)) = SetStatus(c, status)
      /\ Head(SetStatus(c, status)) = Stmt("channelStatus", c, status)
      /\ Tail(SetStatus(c, status)) = <<>>
  BY DEF UpdateChannelStatusById, SetStatus
<1> QED BY <1>1, <1>2, <1>3, <1>4, <1>5

\* What the first statement head of a program l, and the rest of it, say
\* about it.
Says(c, l, head, rest) ==
  /\ l # <<>> /\ head.ch = c /\ rest \in {<<>>} \cup Programs(c)
  /\ head.op = "create" => l = BatchInsertChannels(c) /\ rest = Add(c)
  /\ head.op = "add" => l = Add(c) /\ rest = <<>>
  /\ head.op = "update" => l = Update(c) /\ rest = Rebuild(c)
  /\ head.op = "first" => l = Rebuild(c) /\ rest = UpdateAbilities(c)
  /\ head.op = "drop" => \/ l = UpdateAbilities(c) /\ rest = Add(c)
                         \/ l = Drop(c) /\ rest = <<>>
  /\ head.op = "delete" => l = Delete(c) /\ rest = Drop(c)
  /\ head.op = "abilityStatus" => /\ l = UpdateChannelStatusById(c, head.arg) /\ head.arg \in Statuses
                                  /\ rest = SetStatus(c, head.arg)
  /\ head.op = "channelStatus" => /\ l = SetStatus(c, head.arg) /\ head.arg \in Statuses
                                  /\ rest = <<>>

LEMMA ProgramFacts ==
  ASSUME NEW c, NEW l \in Programs(c)
  PROVE  Says(c, l, Head(l), Tail(l))
<1>1. /\ BatchInsertChannels(c) # <<>> /\ Add(c) # <<>> /\ UpdateAbilities(c) # <<>>
      /\ Rebuild(c) # <<>> /\ Delete(c) # <<>> /\ Drop(c) # <<>>
      /\ \A status : UpdateChannelStatusById(c, status) # <<>> /\ SetStatus(c, status) # <<>>
  BY DEF BatchInsertChannels, Add, UpdateAbilities, Rebuild, Delete, Drop, UpdateChannelStatusById, SetStatus
<1>2. Update(c) # <<>>
  BY UpdateIs
<1>3. l \in {BatchInsertChannels(c), Add(c), Update(c), Rebuild(c), UpdateAbilities(c), Delete(c), Drop(c)}
      \/ \E status \in Statuses : l = UpdateChannelStatusById(c, status) \/ l = SetStatus(c, status)
  BY DEF Programs
<1>4. /\ {BatchInsertChannels(c), Add(c), Update(c), Rebuild(c), UpdateAbilities(c), Delete(c), Drop(c)}
           \subseteq Programs(c)
      /\ \A status \in Statuses : /\ UpdateChannelStatusById(c, status) \in Programs(c)
                                  /\ SetStatus(c, status) \in Programs(c)
  BY DEF Programs
<1>5. PICK head, rest : head = Head(l) /\ rest = Tail(l)
  OBVIOUS
<1>6. SUFFICES Says(c, l, head, rest)
  BY <1>5
<1>7. CASE l = BatchInsertChannels(c)
  <2>1. head = Stmt("create", c, 0) /\ rest = Add(c)
    BY <1>5, <1>7, ProgramSteps, Zenon
  <2>2. head.op = "create" /\ head.ch = c
    BY <2>1 DEF Stmt
  <2> QED BY <1>1, <1>2, <1>4, <1>7, <2>1, <2>2 DEF Says
<1>8. CASE l = Add(c)
  <2>1. head = Stmt("add", c, 0) /\ rest = <<>>
    BY <1>5, <1>8, ProgramSteps, Zenon
  <2>2. head.op = "add" /\ head.ch = c
    BY <2>1 DEF Stmt
  <2> QED BY <1>1, <1>2, <1>4, <1>8, <2>1, <2>2 DEF Says
<1>9. CASE l = Update(c)
  <2>1. head = Stmt("update", c, 0) /\ rest = Rebuild(c)
    BY <1>5, <1>9, ProgramSteps, Zenon
  <2>2. head.op = "update" /\ head.ch = c
    BY <2>1 DEF Stmt
  <2> QED BY <1>1, <1>2, <1>4, <1>9, <2>1, <2>2 DEF Says
<1>10. CASE l = Rebuild(c)
  <2>1. head = Stmt("first", c, 0) /\ rest = UpdateAbilities(c)
    BY <1>5, <1>10, ProgramSteps, Zenon
  <2>2. head.op = "first" /\ head.ch = c
    BY <2>1 DEF Stmt
  <2> QED BY <1>1, <1>2, <1>4, <1>10, <2>1, <2>2 DEF Says
<1>11. CASE l = UpdateAbilities(c)
  <2>1. head = Stmt("drop", c, 0) /\ rest = Add(c)
    BY <1>5, <1>11, ProgramSteps, Zenon
  <2>2. head.op = "drop" /\ head.ch = c
    BY <2>1 DEF Stmt
  <2> QED BY <1>1, <1>2, <1>4, <1>11, <2>1, <2>2 DEF Says
<1>12. CASE l = Delete(c)
  <2>1. head = Stmt("delete", c, 0) /\ rest = Drop(c)
    BY <1>5, <1>12, ProgramSteps, Zenon
  <2>2. head.op = "delete" /\ head.ch = c
    BY <2>1 DEF Stmt
  <2> QED BY <1>1, <1>2, <1>4, <1>12, <2>1, <2>2 DEF Says
<1>13. CASE l = Drop(c)
  <2>1. head = Stmt("drop", c, 0) /\ rest = <<>>
    BY <1>5, <1>13, ProgramSteps, Zenon
  <2>2. head.op = "drop" /\ head.ch = c
    BY <2>1 DEF Stmt
  <2> QED BY <1>1, <1>2, <1>4, <1>13, <2>1, <2>2 DEF Says
<1>14. ASSUME NEW status \in Statuses, l = UpdateChannelStatusById(c, status) PROVE Says(c, l, head, rest)
  <2>1. head = Stmt("abilityStatus", c, status) /\ rest = SetStatus(c, status)
    BY <1>5, <1>14, ProgramSteps, Zenon
  <2>2. head.op = "abilityStatus" /\ head.ch = c /\ head.arg = status
    BY <2>1 DEF Stmt
  <2> QED BY <1>1, <1>4, <1>14, <2>1, <2>2 DEF Says
<1>15. ASSUME NEW status \in Statuses, l = SetStatus(c, status) PROVE Says(c, l, head, rest)
  <2>1. head = Stmt("channelStatus", c, status) /\ rest = <<>>
    BY <1>5, <1>15, ProgramSteps, Zenon
  <2>2. head.op = "channelStatus" /\ head.ch = c /\ head.arg = status
    BY <2>1 DEF Stmt
  <2> QED BY <1>1, <1>4, <1>15, <2>1, <2>2 DEF Says
<1> QED BY <1>3, <1>7, <1>8, <1>9, <1>10, <1>11, <1>12, <1>13, <1>14, <1>15

\* The program of a handler that is not free is about one channel.
LEMMA ProgramOf ==
  ASSUME ProgramShape, NEW s \in Slots, ~Free(s)
  PROVE  /\ ChOf(s) \in Channels /\ todo[s] \in Programs(ChOf(s)) /\ About(s, ChOf(s))
         /\ Says(ChOf(s), todo[s], Head(todo[s]), Tail(todo[s]))
         /\ \A d : About(s, d) => d = ChOf(s)
<1>1. PICK c \in Channels : todo[s] \in Programs(c)
  BY DEF ProgramShape, Free
<1>2. Says(c, todo[s], Head(todo[s]), Tail(todo[s]))
  BY <1>1, ProgramFacts, Zenon
<1>3. Head(todo[s]).ch = c
  BY <1>2 DEF Says
<1> QED BY <1>1, <1>2, <1>3, Zenon DEF ChOf, About, Free

LEMMA RowsOfNoChannel == NoRow \in Row /\ ~NoRow.there /\ Gone \in Row /\ ~Gone.there
<1>1. NoRow \in Row /\ ~NoRow.there
  BY DEF NoRow, Row, Balances
<1>2. PICK yes \in BOOLEAN : yes = TRUE
  OBVIOUS
<1>3. PICK none : none = NoRow
  OBVIOUS
<1>4. Gone = [none EXCEPT !.born = yes]
  BY <1>2, <1>3, Zenon DEF Gone
<1>5. Gone \in Row /\ ~Gone.there
  BY <1>1, <1>3, <1>4 DEF Row
<1> QED BY <1>1, <1>5

LEMMA RoutingStart == RoutingInit => RoutingInv
<1> SUFFICES ASSUME RoutingInit PROVE RoutingInv
  OBVIOUS
<1>1. PICK b \in Bodies : channel = [c \in Channels |-> IF c \in OldChannels THEN NewRow(b) ELSE NoRow]
  BY DEF RoutingInit
<1>2. /\ ability = UNION {NewAbilities(c, channel[c]) : c \in OldChannels} /\ cache = {}
      /\ todo = [s \in Slots |-> <<>>] /\ held = [s \in Slots |-> NoRow]
      /\ sweep = [s \in Sweeps |-> [on |-> FALSE, runs |-> FALSE, list |-> {}]]
      /\ sync = [pc |-> "idle", rows |-> {}, changed |-> {}]
      /\ panicked = {} /\ broken = {} /\ fresh = "no"
  BY DEF RoutingInit
<1>3. NoRow \in Row /\ ~NoRow.there
  BY RowsOfNoChannel
<1>4. NewRow(b) \in Row /\ NewRow(b).there /\ NewRow(b).routes \subseteq Routes /\ NewRow(b).priority \in Int
  BY RoutingAssumption DEF NewRow, Row, Balances, Enabled
<1>5. channel \in [Channels -> Row]
  BY <1>1, <1>3, <1>4
<1>6. \A c \in OldChannels : channel[c] = NewRow(b)
  BY <1>1, RoutingAssumption
<1>7. ability \subseteq Ability
  <2> SUFFICES ASSUME NEW a \in ability PROVE a \in Ability
    OBVIOUS
  <2>1. PICK c \in OldChannels : a \in NewAbilities(c, NewRow(b))
    BY <1>2, <1>6
  <2>2. PICK row : row = NewRow(b)
    OBVIOUS
  <2>3. \E r \in row.routes : a = [route |-> r, ch |-> c, enabled |-> row.status = Enabled, priority |-> row.priority]
    BY <2>1, <2>2 DEF NewAbilities
  <2> QED BY <2>2, <2>3, <1>4, RoutingAssumption DEF Ability
<1>8. RoutingShape
  <2>1. /\ held \in [Slots -> Row] /\ todo \in [Slots -> {<<>>} \cup UNION {Programs(c) : c \in Channels}]
    BY <1>2, <1>3
  <2>2. /\ sweep \in [Sweeps -> [on : BOOLEAN, runs : BOOLEAN, list : SUBSET Listed]]
        /\ \A s \in Sweeps : sweep[s].runs => sweep[s].on
    BY <1>2
  <2>3. /\ sync \in [pc : {"idle", "read"}, rows : SUBSET RowRead, changed : SUBSET Channels]
        /\ cache \subseteq [route : Routes, ch : Channels, priority : Int]
        /\ broken \subseteq Channels /\ panicked \subseteq Channels /\ fresh \in {"no", "reading", "yes"}
    BY <1>2
  <2> QED BY <1>5, <1>7, <2>1, <2>2, <2>3 DEF RoutingShape, TablesShape, ProgramShape, SweepShape, SyncShape, CacheShape
<1>9. OneWriterEach
  <2> SUFFICES ASSUME NEW c \in Channels
               PROVE  Stands(c, todo, held, channel[c], AbilitiesOf(ability, c))
    BY DEF OneWriterEach
  <2>1. \A s \in Slots : ~Writes(todo, s, c)
    BY <1>2 DEF Writes
  <2>2. AbilitiesOf(ability, c) = Asked(c, channel[c], channel[c].status = Enabled)
    <3>1. CASE c \in OldChannels
      BY <3>1, <1>2, <1>4, <1>6 DEF NewAbilities, AbilitiesOf, Asked
    <3>2. CASE c \notin OldChannels
      <4>1. ~channel[c].there
        BY <3>2, <1>1, <1>3
      <4>2. AbilitiesOf(ability, c) = {}
        BY <3>2, <1>2 DEF NewAbilities, AbilitiesOf
      <4> QED BY <4>1, <4>2 DEF Asked
    <3> QED BY <3>1, <3>2
  <2> QED BY <2>1, <2>2, Zenon DEF Stands
<1>10. ReadRowsStand /\ CacheIsFresh /\ PanicsOnlyOverChangedChannels
  BY <1>2 DEF ReadRowsStand, CacheIsFresh, PanicsOnlyOverChangedChannels
<1> QED BY <1>8, <1>9, <1>10 DEF RoutingInv

-----------------------------------------------------------------------------
(* Who writes a channel, and what stands for it meanwhile.                    *)

LEMMA MidwayDependsOnTerms ==
  ASSUME NEW c, NEW l, NEW h, NEW x, NEW y, NEW S, SameRow(x, y), Midway(c, l, h, x, S)
  PROVE  Midway(c, l, h, y, S)
<1>1. \A on : Asked(c, x, on) = Asked(c, y, on)
  BY DEF SameRow, SameTerms, Asked
<1>2. SameTerms(h, x) => SameTerms(h, y)
  BY DEF SameRow, SameTerms
<1>3. x.there = y.there /\ x.status = y.status
  BY DEF SameRow, SameTerms
<1> QED BY <1>1, <1>2, <1>3, Zenon DEF Midway

\* What the statement a handler is at says about the channel it writes.
LEMMA MidwayAt ==
  ASSUME NEW c, NEW l, NEW h, NEW row, NEW S, NEW head, head = Head(l), Midway(c, l, h, row, S)
  PROVE  /\ head.op = "create" => S = {} /\ ~row.there /\ h.there
         /\ head.op = "add" => S = {} /\ row.there /\ SameTerms(h, row)
         /\ head.op = "first" => row.there
         /\ head.op = "drop" => \/ l = UpdateAbilities(c) /\ row.there /\ SameTerms(h, row)
                                \/ l = Drop(c) /\ ~row.there
         /\ head.op = "abilityStatus" => S = Asked(c, row, row.status = Enabled)
         /\ head.op = "channelStatus" => S = Asked(c, row, head.arg = Enabled)
<1>1. CASE l = BatchInsertChannels(c) /\ S = {} /\ ~row.there /\ h.there
  <2>1. head = Stmt("create", c, 0)
    BY <1>1, ProgramSteps, Zenon
  <2>2. head.op = "create"
    BY <2>1 DEF Stmt
  <2> QED BY <1>1, <2>2
<1>2. CASE l = Add(c) /\ S = {} /\ row.there /\ SameTerms(h, row)
  <2>1. head = Stmt("add", c, 0)
    BY <1>2, ProgramSteps, Zenon
  <2>2. head.op = "add"
    BY <2>1 DEF Stmt
  <2> QED BY <1>2, <2>2
<1>3. CASE l = Update(c)
  <2>1. head = Stmt("update", c, 0)
    BY <1>3, ProgramSteps, Zenon
  <2>2. head.op = "update"
    BY <2>1 DEF Stmt
  <2> QED BY <1>3, <2>2
<1>4. CASE l = Rebuild(c) /\ row.there
  <2>1. head = Stmt("first", c, 0)
    BY <1>4, ProgramSteps, Zenon
  <2>2. head.op = "first"
    BY <2>1 DEF Stmt
  <2> QED BY <1>4, <2>2
<1>5. CASE l = UpdateAbilities(c) /\ row.there /\ SameTerms(h, row)
  <2>1. head = Stmt("drop", c, 0)
    BY <1>5, ProgramSteps, Zenon
  <2>2. head.op = "drop"
    BY <2>1 DEF Stmt
  <2> QED BY <1>5, <2>2
<1>6. CASE l = Delete(c)
  <2>1. head = Stmt("delete", c, 0)
    BY <1>6, ProgramSteps, Zenon
  <2>2. head.op = "delete"
    BY <2>1 DEF Stmt
  <2> QED BY <1>6, <2>2
<1>7. CASE l = Drop(c) /\ ~row.there
  <2>1. head = Stmt("drop", c, 0)
    BY <1>7, ProgramSteps, Zenon
  <2>2. head.op = "drop"
    BY <2>1 DEF Stmt
  <2> QED BY <1>7, <2>2
<1>8. ASSUME NEW status \in Statuses, l = UpdateChannelStatusById(c, status), S = Asked(c, row, row.status = Enabled)
      PROVE  head.op = "abilityStatus" /\ head.arg = status
  <2>1. head = Stmt("abilityStatus", c, status)
    BY <1>8, ProgramSteps, Zenon
  <2> QED BY <2>1 DEF Stmt
<1>9. ASSUME NEW status \in Statuses, l = SetStatus(c, status), S = Asked(c, row, status = Enabled)
      PROVE  head.op = "channelStatus" /\ head.arg = status
  <2>1. head = Stmt("channelStatus", c, status)
    BY <1>9, ProgramSteps, Zenon
  <2> QED BY <2>1 DEF Stmt
<1> QED BY <1>1, <1>2, <1>3, <1>4, <1>5, <1>6, <1>7, <1>8, <1>9 DEF Midway

\* A step of a handler of another channel.
LEMMA OthersStand ==
  ASSUME NEW td, NEW td2, NEW hd, NEW hd2, NEW row, NEW row2, NEW S, NEW c, NEW d, NEW s \in Slots, NEW l,
         NEW X, c # d, td \in [Slots -> X], td2 = [td EXCEPT ![s] = l],
         l # <<>> => Head(l).ch = d, td[s] # <<>> => Head(td[s]).ch = d,
         \A t \in Slots \ {s} : hd2[t] = hd[t], SameRow(row, row2), Stands(c, td, hd, row, S)
  PROVE  Stands(c, td2, hd2, row2, S)
<1>1. /\ ~Writes(td2, s, c) /\ ~Writes(td, s, c)
      /\ \A t \in Slots \ {s} : td2[t] = td[t]
  BY DEF Writes
<1>2. \A t \in Slots : Writes(td2, t, c) <=> Writes(td, t, c)
  BY <1>1 DEF Writes
<1>3. ASSUME NEW t \in Slots, Writes(td2, t, c) PROVE Midway(c, td2[t], hd2[t], row2, S)
  <2>1. t # s /\ Writes(td, t, c) /\ td2[t] = td[t] /\ hd2[t] = hd[t]
    BY <1>1, <1>2, <1>3
  <2>2. Midway(c, td[t], hd[t], row, S)
    BY <2>1 DEF Stands
  <2>3. Midway(c, td[t], hd[t], row2, S)
    BY <2>2, MidwayDependsOnTerms, Zenon
  <2> QED BY <2>1, <2>3
<1>4. ASSUME \A t \in Slots : ~Writes(td2, t, c) PROVE S = Asked(c, row2, row2.status = Enabled)
  <2>1. S = Asked(c, row, row.status = Enabled)
    BY <1>2, <1>4 DEF Stands
  <2> QED BY <2>1 DEF Asked, SameRow, SameTerms
<1>5. \A t, u \in Slots : Writes(td2, t, c) /\ Writes(td2, u, c) => t = u
  BY <1>2 DEF Stands
<1> QED BY <1>3, <1>4, <1>5, Zenon DEF Stands

\* The handler's own channel: nobody else writes it, and it is midway or done.
LEMMA OneStands ==
  ASSUME NEW td, NEW td2, NEW hd, NEW row, NEW S, NEW c, NEW s \in Slots, NEW l,
         NEW X, td \in [Slots -> X], td2 = [td EXCEPT ![s] = l], l # <<>> => Head(l).ch = c,
         \A t \in Slots \ {s} : ~Writes(td, t, c),
         l # <<>> => Midway(c, l, hd[s], row, S),
         l = <<>> => S = Asked(c, row, row.status = Enabled)
  PROVE  Stands(c, td2, hd, row, S)
<1>1. td2[s] = l /\ \A t \in Slots \ {s} : td2[t] = td[t]
  OBVIOUS
<1>2. \A t \in Slots : Writes(td2, t, c) <=> t = s /\ l # <<>>
  BY <1>1 DEF Writes
<1> HIDE DEF Midway
<1>3. \A t \in Slots : Writes(td2, t, c) => Midway(c, td2[t], hd[t], row, S)
  BY <1>1, <1>2
<1>4. (\A t \in Slots : ~Writes(td2, t, c)) => S = Asked(c, row, row.status = Enabled)
  BY <1>2
<1> QED BY <1>2, <1>3, <1>4 DEF Stands

\* A step of handler s on channel d, after which it has l left to run.
StepOn(s, d, l) ==
  /\ todo' = [todo EXCEPT ![s] = l] /\ \A t \in Slots \ {s} : held'[t] = held[t]
  /\ \A c \in Channels \ {d} : /\ SameRow(channel[c], channel'[c])
                               /\ AbilitiesOf(ability', c) = AbilitiesOf(ability, c)
  /\ broken \subseteq broken'

\* What it leaves.
Leaves(s, d, l) ==
  d \notin broken' =>
    /\ \A t \in Slots \ {s} : ~Writes(todo, t, d)
    /\ l # <<>> => Midway(d, l, held'[s], channel'[d], AbilitiesOf(ability', d))
    /\ l = <<>> => AbilitiesOf(ability', d) = Asked(d, channel'[d], channel'[d].status = Enabled)

LEMMA StepKeepsOneWriter ==
  ASSUME OneWriterEach, ProgramShape, NEW s \in Slots, NEW d \in Channels, NEW l,
         l # <<>> => l \in Programs(d), Free(s) \/ Writes(todo, s, d), StepOn(s, d, l), Leaves(s, d, l)
  PROVE  OneWriterEach'
<1>1. l # <<>> => Head(l).ch = d
  <2> SUFFICES ASSUME l # <<>> PROVE Head(l).ch = d
    OBVIOUS
  <2>1. Says(d, l, Head(l), Tail(l))
    BY ProgramFacts, Zenon
  <2> QED BY <2>1 DEF Says
<1>2. todo[s] # <<>> => Head(todo[s]).ch = d
  BY DEF Free, Writes
<1>3. PICK X : todo \in [Slots -> X]
  BY DEF ProgramShape
<1> SUFFICES ASSUME NEW c \in Channels \ broken'
             PROVE  Stands(c, todo', held', channel'[c], AbilitiesOf(ability', c))
  BY DEF OneWriterEach
<1>4. todo' = [todo EXCEPT ![s] = l] /\ \A t \in Slots \ {s} : held'[t] = held[t]
  BY DEF StepOn
<1>5. CASE c # d
  <2>1. Stands(c, todo, held, channel[c], AbilitiesOf(ability, c))
    BY DEF OneWriterEach, StepOn
  <2>2. SameRow(channel[c], channel'[c]) /\ AbilitiesOf(ability', c) = AbilitiesOf(ability, c)
    BY <1>5 DEF StepOn
  <2>3. Stands(c, todo', held', channel'[c], AbilitiesOf(ability, c))
    <3>1. PICK td2, hd2, row, row2, S :
            td2 = todo' /\ hd2 = held' /\ row = channel[c] /\ row2 = channel'[c] /\ S = AbilitiesOf(ability, c)
      OBVIOUS
    <3>2. /\ td2 = [todo EXCEPT ![s] = l] /\ \A t \in Slots \ {s} : hd2[t] = held[t]
          /\ SameRow(row, row2) /\ Stands(c, todo, held, row, S)
      BY <1>4, <2>1, <2>2, <3>1
    <3>3. Stands(c, td2, hd2, row2, S)
      BY <1>1, <1>2, <1>3, <1>5, <3>2, OthersStand
    <3> QED BY <3>1, <3>3
  <2> QED BY <2>2, <2>3
<1>6. CASE c = d
  <2>1. /\ \A t \in Slots \ {s} : ~Writes(todo, t, c)
        /\ l # <<>> => Midway(c, l, held'[s], channel'[c], AbilitiesOf(ability', c))
        /\ l = <<>> => AbilitiesOf(ability', c) = Asked(c, channel'[c], channel'[c].status = Enabled)
    BY <1>6, Zenon DEF Leaves
  <2> QED BY <1>1, <1>3, <1>4, <1>6, <2>1, OneStands, Zenon
<1> QED BY <1>5, <1>6

\* A step of no handler.
LEMMA NoHandlerKeepsOneWriter ==
  ASSUME OneWriterEach, UNCHANGED <<todo, held>>, broken \subseteq broken',
         \A c \in Channels \ broken' : /\ SameRow(channel[c], channel'[c])
                                      /\ AbilitiesOf(ability', c) = AbilitiesOf(ability, c)
  PROVE  OneWriterEach'
<1> SUFFICES ASSUME NEW c \in Channels \ broken'
             PROVE  Stands(c, todo', held', channel'[c], AbilitiesOf(ability', c))
  BY DEF OneWriterEach
<1>1. PICK row, S : row = channel'[c] /\ S = AbilitiesOf(ability', c)
  OBVIOUS
<1>2. Stands(c, todo, held, channel[c], S) /\ SameRow(channel[c], row)
  BY <1>1 DEF OneWriterEach
<1>3. \A s \in Slots : Writes(todo, s, c) => Midway(c, todo[s], held[s], row, S)
  BY <1>2, MidwayDependsOnTerms, Zenon DEF Stands
<1>4. (\A s \in Slots : ~Writes(todo, s, c)) => S = Asked(c, row, row.status = Enabled)
  BY <1>2 DEF Stands, Asked, SameRow, SameTerms
<1>5. Stands(c, todo, held, row, S)
  BY <1>2, <1>3, <1>4, Zenon DEF Stands
<1> QED BY <1>1, <1>5

\* What a handler that is about to run a statement knows of its channel.
LEMMA Runs ==
  ASSUME OneWriterEach, ProgramShape, NEW s \in Slots, todo[s] # <<>>
  PROVE  /\ ChOf(s) \in Channels /\ todo[s] \in Programs(ChOf(s)) /\ Writes(todo, s, ChOf(s))
         /\ Says(ChOf(s), todo[s], Head(todo[s]), Tail(todo[s]))
         /\ ChOf(s) \notin broken =>
              /\ \A t \in Slots \ {s} : ~Writes(todo, t, ChOf(s))
              /\ Midway(ChOf(s), todo[s], held[s], channel[ChOf(s)], AbilitiesOf(ability, ChOf(s)))
<1>1. /\ ChOf(s) \in Channels /\ todo[s] \in Programs(ChOf(s)) /\ About(s, ChOf(s))
      /\ Says(ChOf(s), todo[s], Head(todo[s]), Tail(todo[s]))
  BY ProgramOf, Zenon DEF Free
<1>2. PICK c \in Channels : c = ChOf(s)
  BY <1>1
<1>3. Writes(todo, s, c)
  BY <1>1, <1>2, Zenon DEF About, Writes
<1>4. c \notin broken =>
        /\ \A t \in Slots \ {s} : ~Writes(todo, t, c)
        /\ Midway(c, todo[s], held[s], channel[c], AbilitiesOf(ability, c))
  BY <1>3 DEF OneWriterEach, Stands
<1> QED BY <1>1, <1>2, <1>3, <1>4, Zenon

-----------------------------------------------------------------------------
(* The rows InitChannelCache has read and the table it builds.                *)

LEMMA TouchKeepsMemory ==
  ASSUME ReadRowsStand, SyncShape, NEW c \in Channels, Touch(c), broken \subseteq broken',
         \A d \in Channels \ {c} : channel'[d] = channel[d]
  PROVE  ReadRowsStand' /\ CacheIsFresh' /\ SyncShape' /\ fresh' = "no"
<1>1. /\ fresh' = "no" /\ sync'.pc = sync.pc /\ sync'.rows = sync.rows
      /\ sync.pc = "read" => sync'.changed = sync.changed \cup {c}
      /\ SyncShape'
  BY DEF Touch, SyncShape
<1>2. CacheIsFresh'
  BY <1>1 DEF CacheIsFresh
<1>3. \A x \in sync.rows : x.ch \in Channels
  BY DEF SyncShape, RowRead
<1>4. ReadRowsStand'
  BY <1>1, <1>3 DEF ReadRowsStand
<1> QED BY <1>1, <1>2, <1>4

LEMMA RestKeepsMemory ==
  ASSUME ReadRowsStand, CacheIsFresh, SyncShape, UNCHANGED <<sync, cache, fresh>>, broken \subseteq broken',
         \A d \in Channels : SameRow(channel[d], channel'[d])
  PROVE  ReadRowsStand' /\ CacheIsFresh' /\ SyncShape'
<1>1. \A x \in sync.rows : x.ch \in Channels
  BY DEF SyncShape, RowRead
<1>2. \A d \in Channels : /\ channel[d].there = channel'[d].there /\ channel[d].routes = channel'[d].routes
                          /\ channel[d].status = channel'[d].status
                          /\ channel[d].priority = channel'[d].priority
  BY DEF SameRow, SameTerms
<1>3. ReadRowsStand'
  BY <1>1, <1>2 DEF ReadRowsStand
<1>4. EnabledRows(channel') = EnabledRows(channel)
  BY <1>2 DEF EnabledRows
<1>5. CacheIsFresh'
  BY <1>4 DEF CacheIsFresh
<1> QED BY <1>3, <1>5 DEF SyncShape

LEMMA ProgramsGoOn ==
  ASSUME ProgramShape, NEW s \in Slots, NEW c \in Channels, NEW l \in {<<>>} \cup Programs(c),
         todo' = [todo EXCEPT ![s] = l], held' \in [Slots -> Row]
  PROVE  ProgramShape'
BY DEF ProgramShape

-----------------------------------------------------------------------------
(* The statements.                                                            *)

\* A statement that leaves the rows of other channels alone.
LEMMA StatementKeeps ==
  ASSUME RoutingInv, panicked = {}, NEW s \in Slots, todo[s] # <<>>, Rest(s), Touch(ChOf(s)),
         UNCHANGED <<sweep, cache, panicked>>, TablesShape', held' \in [Slots -> Row],
         StepOn(s, ChOf(s), Tail(todo[s])), Leaves(s, ChOf(s), Tail(todo[s])),
         broken' \subseteq Channels, \A d \in Channels \ {ChOf(s)} : channel'[d] = channel[d]
  PROVE  RoutingInv'
<1>1. PICK c \in Channels : c = ChOf(s)
  BY Runs DEF RoutingInv, RoutingShape
<1>2. PICK l : l = Tail(todo[s])
  OBVIOUS
<1>3. Says(c, todo[s], Head(todo[s]), l) /\ Writes(todo, s, c)
  BY <1>1, <1>2, Runs DEF RoutingInv, RoutingShape
<1>4. l \in {<<>>} \cup Programs(c)
  BY <1>3 DEF Says
<1>5. todo' = [todo EXCEPT ![s] = l]
  BY <1>2 DEF Rest
<1>6. ProgramShape'
  BY <1>4, <1>5, ProgramsGoOn DEF RoutingInv, RoutingShape
<1>7. OneWriterEach'
  <2>1. StepOn(s, c, l) /\ Leaves(s, c, l)
    BY <1>1, <1>2
  <2>2. l # <<>> => l \in Programs(c)
    BY <1>4
  <2> QED BY <1>3, <2>1, <2>2, StepKeepsOneWriter, Zenon DEF RoutingInv, RoutingShape
<1>8. ReadRowsStand' /\ CacheIsFresh' /\ SyncShape' /\ fresh' = "no"
  <2>1. Touch(c) /\ broken \subseteq broken' /\ \A d \in Channels \ {c} : channel'[d] = channel[d]
    BY <1>1 DEF StepOn
  <2> QED BY <2>1, TouchKeepsMemory, Zenon DEF RoutingInv, RoutingShape
<1>9. SweepShape' /\ CacheShape'
  BY <1>8 DEF RoutingInv, RoutingShape, SweepShape, CacheShape
<1>10. PanicsOnlyOverChangedChannels'
  BY DEF PanicsOnlyOverChangedChannels
<1> QED BY <1>6, <1>7, <1>8, <1>9, <1>10, Zenon DEF RoutingInv, RoutingShape

LEMMA CreateKeeps ==
  ASSUME RoutingInv, panicked = {}, NEW s \in Slots, WriteRow(s), Next1(s, "create")
  PROVE  RoutingInv'
<1> DEFINE c == ChOf(s)
           l == Tail(todo[s])
<1>1. todo[s] # <<>> /\ Head(todo[s]).op = "create"
  BY DEF Next1
<1>2. /\ channel' = [channel EXCEPT ![c] = held[s]] /\ broken' = broken /\ Rest(s) /\ Touch(c)
      /\ UNCHANGED <<ability, held, sweep, cache, panicked>>
  BY <1>1 DEF WriteRow, Next1
<1>3. /\ c \in Channels /\ l = Add(c)
      /\ c \notin broken => /\ \A t \in Slots \ {s} : ~Writes(todo, t, c)
                            /\ Midway(c, todo[s], held[s], channel[c], AbilitiesOf(ability, c))
  BY <1>1, Runs DEF RoutingInv, RoutingShape, Says
<1> HIDE DEF c, l
<1>4. held[s] \in Row /\ channel \in [Channels -> Row] /\ broken \subseteq Channels
  BY DEF RoutingInv, RoutingShape, TablesShape, ProgramShape
<1>5. TablesShape' /\ held' \in [Slots -> Row]
  BY <1>2, <1>3, <1>4 DEF RoutingInv, RoutingShape, TablesShape, ProgramShape
<1>6. /\ channel'[c] = held[s] /\ \A d \in Channels \ {c} : channel'[d] = channel[d]
  BY <1>2, <1>3, <1>4
<1>7. StepOn(s, c, l)
  BY <1>2, <1>6 DEF StepOn, Rest, l, SameRow, SameTerms
<1>8. Leaves(s, c, l)
  <2> SUFFICES ASSUME c \notin broken
               PROVE  /\ \A t \in Slots \ {s} : ~Writes(todo, t, c)
                      /\ Midway(c, l, held[s], held[s], AbilitiesOf(ability, c)) /\ l # <<>>
    BY <1>2, <1>6 DEF Leaves
  <2>1. AbilitiesOf(ability, c) = {} /\ held[s].there
    BY <1>1, <1>3, MidwayAt DEF c
  <2>2. l # <<>>
    BY <1>3 DEF Add
  <2>3. SameTerms(held[s], held[s])
    BY DEF SameTerms
  <2> QED BY <1>3, <2>1, <2>2, <2>3, Zenon DEF Midway
<1> QED BY <1>1, <1>2, <1>4, <1>5, <1>6, <1>7, <1>8, StatementKeeps, Zenon DEF c, l

LEMMA UpdateKeeps ==
  ASSUME RoutingInv, panicked = {}, NEW s \in Slots, WriteRow(s), Next1(s, "update")
  PROVE  RoutingInv'
<1> DEFINE c == ChOf(s)
           l == Tail(todo[s])
           old == channel[c]
           new == held[s]
<1>1. todo[s] # <<>> /\ Head(todo[s]).op = "update"
  BY DEF Next1
<1>2. /\ channel' = IF ~old.there THEN channel ELSE
             [channel EXCEPT ![c].status = IF new.status = 0 THEN @ ELSE new.status,
                             ![c].routes = IF new.routes = {} THEN @ ELSE new.routes,
                             ![c].priority = IF new.priority = 0 THEN @ ELSE new.priority]
      /\ broken' = IF old.there THEN broken ELSE broken \cup {c}
      /\ Rest(s) /\ Touch(c) /\ UNCHANGED <<ability, held, sweep, cache, panicked>>
  BY <1>1 DEF WriteRow, Next1
<1>3. /\ c \in Channels /\ l = Rebuild(c)
      /\ c \notin broken => \A t \in Slots \ {s} : ~Writes(todo, t, c)
  BY <1>1, Runs DEF RoutingInv, RoutingShape, Says
<1> HIDE DEF c, l
<1>4. held[s] \in Row /\ channel \in [Channels -> Row] /\ broken \subseteq Channels /\ old \in Row
  BY <1>3 DEF RoutingInv, RoutingShape, TablesShape, ProgramShape
<1>5. /\ channel' \in [Channels -> Row] /\ channel'[c].there = old.there
      /\ \A d \in Channels \ {c} : channel'[d] = channel[d]
  <2>1. CASE ~old.there
    BY <2>1, <1>2, <1>4
  <2>2. CASE old.there
    <3>1. PICK x : /\ x = [old EXCEPT !.status = IF new.status = 0 THEN @ ELSE new.status,
                                      !.routes = IF new.routes = {} THEN @ ELSE new.routes,
                                      !.priority = IF new.priority = 0 THEN @ ELSE new.priority]
      OBVIOUS
    <3>2. x \in Row /\ x.there = old.there
      BY <3>1, <1>4 DEF Row
    <3>3. channel' = [channel EXCEPT ![c] = x]
      BY <2>2, <1>2, <1>3, <1>4, <3>1
    <3> QED BY <3>2, <3>3, <1>3, <1>4
  <2> QED BY <2>1, <2>2
<1>6. TablesShape' /\ held' \in [Slots -> Row] /\ broken' \subseteq Channels
  BY <1>2, <1>3, <1>4, <1>5 DEF RoutingInv, RoutingShape, TablesShape, ProgramShape
<1>7. StepOn(s, c, l)
  BY <1>2, <1>5 DEF StepOn, Rest, l, SameRow, SameTerms
<1>8. Leaves(s, c, l)
  <2> SUFFICES ASSUME c \notin broken'
               PROVE  /\ \A t \in Slots \ {s} : ~Writes(todo, t, c)
                      /\ Midway(c, l, held'[s], channel'[c], AbilitiesOf(ability', c)) /\ l # <<>>
    BY DEF Leaves
  <2>1. channel'[c].there /\ c \notin broken
    BY <1>2, <1>5
  <2>2. l # <<>>
    BY <1>3 DEF Rebuild
  <2> QED BY <1>3, <2>1, <2>2, Zenon DEF Midway
<1> QED BY <1>1, <1>2, <1>5, <1>6, <1>7, <1>8, StatementKeeps, Zenon DEF c, l

LEMMA DeleteKeeps ==
  ASSUME RoutingInv, panicked = {}, NEW s \in Slots, WriteRow(s), Next1(s, "delete")
  PROVE  RoutingInv'
<1> DEFINE c == ChOf(s)
           l == Tail(todo[s])
<1>1. todo[s] # <<>> /\ Head(todo[s]).op = "delete"
  BY DEF Next1
<1>2. /\ channel' = [channel EXCEPT ![c] = Gone] /\ broken' = broken /\ Rest(s) /\ Touch(c)
      /\ UNCHANGED <<ability, held, sweep, cache, panicked>>
  BY <1>1 DEF WriteRow, Next1
<1>3. /\ c \in Channels /\ l = Drop(c)
      /\ c \notin broken => \A t \in Slots \ {s} : ~Writes(todo, t, c)
  BY <1>1, Runs DEF RoutingInv, RoutingShape, Says
<1> HIDE DEF c, l
<1>4. Gone \in Row /\ ~Gone.there /\ channel \in [Channels -> Row] /\ broken \subseteq Channels
  <2>1. Gone \in Row /\ ~Gone.there
    BY RowsOfNoChannel
  <2> QED BY <2>1 DEF RoutingInv, RoutingShape, TablesShape
<1>5. TablesShape' /\ held' \in [Slots -> Row]
  BY <1>2, <1>3, <1>4 DEF RoutingInv, RoutingShape, TablesShape, ProgramShape
<1>6. /\ channel'[c] = Gone /\ \A d \in Channels \ {c} : channel'[d] = channel[d]
  BY <1>2, <1>3, <1>4
<1>7. StepOn(s, c, l)
  BY <1>2, <1>6 DEF StepOn, Rest, l, SameRow, SameTerms
<1>8. Leaves(s, c, l)
  <2>1. l # <<>>
    BY <1>3 DEF Drop
  <2>2. Midway(c, l, held'[s], channel'[c], AbilitiesOf(ability', c))
    BY <1>3, <1>4, <1>6, Zenon DEF Midway
  <2> QED BY <1>2, <1>3, <2>1, <2>2 DEF Leaves
<1> QED BY <1>1, <1>2, <1>4, <1>5, <1>6, <1>7, <1>8, StatementKeeps, Zenon DEF c, l

LEMMA ChannelStatusKeeps ==
  ASSUME RoutingInv, panicked = {}, NEW s \in Slots, WriteRow(s), Next1(s, "channelStatus")
  PROVE  RoutingInv'
<1> DEFINE c == ChOf(s)
           l == Tail(todo[s])
           status == Head(todo[s]).arg
<1>1. todo[s] # <<>> /\ Head(todo[s]).op = "channelStatus"
  BY DEF Next1
<1>2. /\ channel' = IF channel[c].there THEN [channel EXCEPT ![c].status = status] ELSE channel
      /\ broken' = broken /\ Rest(s) /\ Touch(c) /\ UNCHANGED <<ability, held, sweep, cache, panicked>>
  BY <1>1 DEF WriteRow, Next1
<1>3. /\ c \in Channels /\ l = <<>> /\ status \in Statuses
      /\ c \notin broken => /\ \A t \in Slots \ {s} : ~Writes(todo, t, c)
                            /\ Midway(c, todo[s], held[s], channel[c], AbilitiesOf(ability, c))
  BY <1>1, Runs DEF RoutingInv, RoutingShape, Says
<1>4. c \notin broken => AbilitiesOf(ability, c) = Asked(c, channel[c], status = Enabled)
  BY <1>1, <1>3, MidwayAt
<1> HIDE DEF c, l, status
<1>5. channel \in [Channels -> Row] /\ broken \subseteq Channels /\ status \in 0 .. 3
  BY <1>3 DEF RoutingInv, RoutingShape, TablesShape, Statuses, Enabled, AutoDisabled
<1>6. PICK x : x = IF channel[c].there THEN [channel[c] EXCEPT !.status = status] ELSE channel[c]
  OBVIOUS
<1>7. /\ x \in Row /\ x.there = channel[c].there /\ x.routes = channel[c].routes
      /\ x.priority = channel[c].priority /\ (x.there => x.status = status)
  BY <1>3, <1>5, <1>6 DEF Row
<1>8. channel' = [channel EXCEPT ![c] = x]
  BY <1>2, <1>3, <1>5, <1>6
<1>9. TablesShape' /\ held' \in [Slots -> Row]
  BY <1>2, <1>3, <1>5, <1>7, <1>8 DEF RoutingInv, RoutingShape, TablesShape, ProgramShape
<1>10. /\ channel'[c] = x /\ \A d \in Channels \ {c} : channel'[d] = channel[d]
  BY <1>3, <1>5, <1>8
<1>11. StepOn(s, c, l)
  BY <1>2, <1>10 DEF StepOn, Rest, l, SameRow, SameTerms
<1>12. Leaves(s, c, l)
  <2> SUFFICES ASSUME c \notin broken
               PROVE  /\ \A t \in Slots \ {s} : ~Writes(todo, t, c)
                      /\ AbilitiesOf(ability, c) = Asked(c, x, x.status = Enabled)
    BY <1>2, <1>3, <1>10 DEF Leaves
  <2>1. Asked(c, channel[c], status = Enabled) = Asked(c, x, x.status = Enabled)
    <3>1. CASE x.there
      <4>1. x.status = status
        BY <3>1, <1>7
      <4>2. PICK on, row : on = (status = Enabled) /\ row = channel[c]
        OBVIOUS
      <4>3. Asked(c, row, on) = Asked(c, x, on)
        BY <1>7, <4>2 DEF Asked
      <4> QED BY <4>1, <4>2, <4>3
    <3>2. CASE ~x.there
      BY <3>2, <1>7 DEF Asked
    <3> QED BY <3>1, <3>2
  <2> QED BY <1>3, <1>4, <2>1
<1> QED BY <1>1, <1>2, <1>5, <1>9, <1>10, <1>11, <1>12, StatementKeeps, Zenon DEF c, l

LEMMA WriteRowKeeps ==
  ASSUME RoutingInv, panicked = {}, NEW s \in Slots, WriteRow(s)
  PROVE  RoutingInv'
<1>1. Next1(s, "create") \/ Next1(s, "update") \/ Next1(s, "delete") \/ Next1(s, "channelStatus")
  BY DEF WriteRow
<1> QED BY <1>1, CreateKeeps, UpdateKeeps, DeleteKeeps, ChannelStatusKeeps

LEMMA DeleteAbilitiesKeeps ==
  ASSUME RoutingInv, panicked = {}, NEW s \in Slots, DeleteAbilities(s)
  PROVE  RoutingInv'
<1> DEFINE c == ChOf(s)
           l == Tail(todo[s])
<1>1. todo[s] # <<>> /\ Head(todo[s]).op = "drop"
  BY DEF DeleteAbilities, Next1
<1>2. /\ ability' = {a \in ability : a.ch # c} /\ Rest(s) /\ Touch(c)
      /\ UNCHANGED <<channel, held, sweep, cache, panicked, broken>>
  BY DEF DeleteAbilities
<1>3. /\ c \in Channels
      /\ (l = Add(c) /\ todo[s] = UpdateAbilities(c)) \/ (l = <<>> /\ todo[s] = Drop(c))
      /\ c \notin broken => /\ \A t \in Slots \ {s} : ~Writes(todo, t, c)
                            /\ Midway(c, todo[s], held[s], channel[c], AbilitiesOf(ability, c))
  BY <1>1, Runs DEF RoutingInv, RoutingShape, Says
<1>4. c \notin broken => \/ (l = Add(c) /\ channel[c].there /\ SameTerms(held[s], channel[c]))
                        \/ (l = <<>> /\ ~channel[c].there)
  <2>1. UpdateAbilities(c) # Drop(c)
    BY DEF UpdateAbilities, Drop
  <2> QED BY <1>1, <1>3, <2>1, MidwayAt
<1> HIDE DEF c, l
<1>5. TablesShape' /\ held' \in [Slots -> Row] /\ broken' \subseteq Channels
  BY <1>2 DEF RoutingInv, RoutingShape, TablesShape, ProgramShape
<1>6. AbilitiesOf(ability', c) = {} /\ \A d \in Channels \ {c} : AbilitiesOf(ability', d) = AbilitiesOf(ability, d)
  BY <1>2 DEF AbilitiesOf
<1>7. StepOn(s, c, l)
  BY <1>2, <1>6 DEF StepOn, Rest, l, SameRow, SameTerms
<1>8. Leaves(s, c, l)
  <2> SUFFICES ASSUME c \notin broken
               PROVE  /\ \A t \in Slots \ {s} : ~Writes(todo, t, c)
                      /\ l # <<>> => Midway(c, l, held[s], channel[c], {})
                      /\ l = <<>> => {} = Asked(c, channel[c], channel[c].status = Enabled)
    BY <1>2, <1>6 DEF Leaves
  <2>1. CASE l = Add(c) /\ channel[c].there /\ SameTerms(held[s], channel[c])
    <3>1. l # <<>>
      BY <2>1 DEF Add
    <3> QED BY <1>3, <2>1, <3>1, Zenon DEF Midway
  <2>2. CASE l = <<>> /\ ~channel[c].there
    BY <1>3, <2>2 DEF Asked
  <2> QED BY <1>4, <2>1, <2>2
<1> QED BY <1>1, <1>2, <1>5, <1>7, <1>8, StatementKeeps, Zenon DEF c, l

LEMMA AddAbilitiesKeeps ==
  ASSUME RoutingInv, panicked = {}, NEW s \in Slots, AddAbilities(s)
  PROVE  RoutingInv'
<1> DEFINE c == ChOf(s)
           l == Tail(todo[s])
           new == NewAbilities(c, held[s])
           clash == \E a \in ability, b \in new : a.route = b.route /\ a.ch = b.ch
<1>1. todo[s] # <<>> /\ Head(todo[s]).op = "add"
  BY DEF AddAbilities, Next1
<1>2. /\ ability' = IF clash THEN ability ELSE ability \cup new
      /\ Rest(s) /\ Touch(c) /\ UNCHANGED <<channel, held, sweep, cache, panicked, broken>>
  BY DEF AddAbilities
<1>3. /\ c \in Channels /\ l = <<>>
      /\ c \notin broken => /\ \A t \in Slots \ {s} : ~Writes(todo, t, c)
                            /\ Midway(c, todo[s], held[s], channel[c], AbilitiesOf(ability, c))
  BY <1>1, Runs DEF RoutingInv, RoutingShape, Says
<1>4. c \notin broken => /\ AbilitiesOf(ability, c) = {} /\ channel[c].there
                        /\ SameTerms(held[s], channel[c])
  BY <1>1, <1>3, MidwayAt
<1> HIDE DEF c, l
<1>5. held[s] \in Row /\ ability \subseteq Ability
  BY DEF RoutingInv, RoutingShape, TablesShape, ProgramShape
<1>6. new \subseteq Ability /\ \A b \in new : b.ch = c
  <2> SUFFICES ASSUME NEW b \in new PROVE b \in Ability /\ b.ch = c
    OBVIOUS
  <2>1. PICK row : row = held[s]
    OBVIOUS
  <2>2. \E r \in row.routes : b = [route |-> r, ch |-> c, enabled |-> row.status = Enabled, priority |-> row.priority]
    BY <2>1 DEF NewAbilities
  <2> QED BY <1>3, <1>5, <2>1, <2>2 DEF Ability, Row
<1>7. TablesShape' /\ held' \in [Slots -> Row] /\ broken' \subseteq Channels
  <2>1. ability' \subseteq Ability
    BY <1>2, <1>5, <1>6
  <2> QED BY <1>2, <2>1 DEF RoutingInv, RoutingShape, TablesShape, ProgramShape
<1>8. \A d \in Channels \ {c} : AbilitiesOf(ability', d) = AbilitiesOf(ability, d)
  <2> HIDE DEF new
  <2>1. ability \subseteq ability' /\ ability' \subseteq ability \cup new
    BY <1>2
  <2> QED BY <1>6, <2>1 DEF AbilitiesOf
<1>9. StepOn(s, c, l)
  BY <1>2, <1>8 DEF StepOn, Rest, l, SameRow, SameTerms
<1>10. Leaves(s, c, l)
  <2> SUFFICES ASSUME c \notin broken
               PROVE  /\ \A t \in Slots \ {s} : ~Writes(todo, t, c)
                      /\ AbilitiesOf(ability', c) = Asked(c, channel[c], channel[c].status = Enabled)
    BY <1>2, <1>3 DEF Leaves
  <2>1. new = Asked(c, channel[c], channel[c].status = Enabled)
    BY <1>4 DEF NewAbilities, Asked, SameTerms
  <2>2. AbilitiesOf(ability', c) = new
    <3> HIDE DEF new
    <3>1. \A a \in ability : a.ch # c
      BY <1>4 DEF AbilitiesOf
    <3>2. ability' = ability \cup new
      BY <1>2, <1>6, <3>1
    <3> QED BY <1>6, <3>1, <3>2 DEF AbilitiesOf
  <2> QED BY <1>3, <2>1, <2>2
<1> QED BY <1>1, <1>2, <1>7, <1>9, <1>10, StatementKeeps, Zenon DEF c, l

LEMMA UpdateAbilityStatusKeeps ==
  ASSUME RoutingInv, panicked = {}, NEW s \in Slots, UpdateAbilityStatus(s)
  PROVE  RoutingInv'
<1> DEFINE c == ChOf(s)
           l == Tail(todo[s])
           status == Head(todo[s]).arg
<1>1. todo[s] # <<>> /\ Head(todo[s]).op = "abilityStatus"
  BY DEF UpdateAbilityStatus, Next1
<1>2. /\ ability' = {IF a.ch = c THEN [a EXCEPT !.enabled = status = Enabled] ELSE a : a \in ability}
      /\ Rest(s) /\ Touch(c) /\ UNCHANGED <<channel, held, sweep, cache, panicked, broken>>
  BY DEF UpdateAbilityStatus
<1>3. /\ c \in Channels /\ l = SetStatus(c, status) /\ status \in Statuses
      /\ c \notin broken => /\ \A t \in Slots \ {s} : ~Writes(todo, t, c)
                            /\ Midway(c, todo[s], held[s], channel[c], AbilitiesOf(ability, c))
  BY <1>1, Runs DEF RoutingInv, RoutingShape, Says
<1>4. c \notin broken => AbilitiesOf(ability, c) = Asked(c, channel[c], channel[c].status = Enabled)
  BY <1>1, <1>3, MidwayAt
<1> HIDE DEF c, l, status
<1>5. channel[c] \in Row /\ ability \subseteq Ability
  BY <1>3 DEF RoutingInv, RoutingShape, TablesShape
<1>6. PICK on \in BOOLEAN : on = (status = Enabled)
  OBVIOUS
<1>7. \A a \in Ability : /\ [a EXCEPT !.enabled = on] \in Ability
                         /\ [a EXCEPT !.enabled = on] =
                              [route |-> a.route, ch |-> a.ch, enabled |-> on, priority |-> a.priority]
  BY DEF Ability
<1> DEFINE Marked(a) == IF a.ch = c THEN [a EXCEPT !.enabled = on] ELSE a
<1>8. ability' = {Marked(a) : a \in ability}
  BY <1>2, <1>6, Zenon
<1>8a. \A a \in Ability :
        /\ Marked(a) \in Ability /\ Marked(a).ch = a.ch
        /\ a.ch # c => Marked(a) = a
        /\ a.ch = c => Marked(a) = [route |-> a.route, ch |-> c, enabled |-> on, priority |-> a.priority]
  BY <1>7 DEF Ability
<1> HIDE DEF Marked
<1>9. TablesShape' /\ held' \in [Slots -> Row] /\ broken' \subseteq Channels
  <2>1. ability' \subseteq Ability
    BY <1>5, <1>8, <1>8a
  <2> QED BY <1>2, <2>1 DEF RoutingInv, RoutingShape, TablesShape, ProgramShape
<1>10. \A d \in Channels \ {c} : AbilitiesOf(ability', d) = AbilitiesOf(ability, d)
  BY <1>5, <1>8, <1>8a DEF AbilitiesOf
<1>11. StepOn(s, c, l)
  BY <1>2, <1>10 DEF StepOn, Rest, l, SameRow, SameTerms
<1>12. Leaves(s, c, l)
  <2> SUFFICES ASSUME c \notin broken
               PROVE  /\ \A t \in Slots \ {s} : ~Writes(todo, t, c)
                      /\ Midway(c, l, held[s], channel[c], AbilitiesOf(ability', c)) /\ l # <<>>
    BY <1>2 DEF Leaves
  <2>1. l # <<>>
    BY <1>3 DEF SetStatus
  <2>2. AbilitiesOf(ability', c) =
          {[route |-> a.route, ch |-> c, enabled |-> on, priority |-> a.priority] : a \in AbilitiesOf(ability, c)}
    BY <1>5, <1>8, <1>8a DEF AbilitiesOf
  <2>3. PICK row : row = channel[c]
    OBVIOUS
  <2>4. PICK had : had = (row.status = Enabled)
    OBVIOUS
  <2>5. AbilitiesOf(ability, c) = Asked(c, row, had)
    BY <1>4, <2>3, <2>4
  <2>6. AbilitiesOf(ability', c) = Asked(c, row, on)
    <3>1. PICK R, S, T : R = {r \in row.routes : row.there} /\ S = AbilitiesOf(ability, c) /\ T = AbilitiesOf(ability', c)
      OBVIOUS
    <3>2. S = {[route |-> r, ch |-> c, enabled |-> had, priority |-> row.priority] : r \in R}
      BY <2>5, <3>1 DEF Asked
    <3>3. T = {[route |-> a.route, ch |-> c, enabled |-> on, priority |-> a.priority] : a \in S}
      BY <2>2, <3>1
    <3>4. T = {[route |-> r, ch |-> c, enabled |-> on, priority |-> row.priority] : r \in R}
      <4> DEFINE Was(r) == [route |-> r, ch |-> c, enabled |-> had, priority |-> row.priority]
                 Is(r) == [route |-> r, ch |-> c, enabled |-> on, priority |-> row.priority]
                 On(a) == [route |-> a.route, ch |-> c, enabled |-> on, priority |-> a.priority]
      <4>1. \A r : On(Was(r)) = Is(r)
        OBVIOUS
      <4> HIDE DEF Was, Is, On
      <4>2. S = {Was(r) : r \in R} /\ T = {On(a) : a \in S}
        BY <3>2, <3>3, Zenon DEF Was, On
      <4>3. T = {Is(r) : r \in R}
        BY <4>1, <4>2
      <4> QED BY <4>3, Zenon DEF Is
    <3> QED BY <3>1, <3>4 DEF Asked
  <2> QED BY <1>3, <1>6, <2>1, <2>3, <2>6 DEF Midway
<1> QED BY <1>1, <1>2, <1>9, <1>11, <1>12, StatementKeeps, Zenon DEF c, l

\* A step of handler s that writes no row and no ability.
LEMMA QuietStepKeeps ==
  ASSUME RoutingInv, panicked = {}, NEW s \in Slots, NEW d \in Channels, NEW l \in {<<>>} \cup Programs(d),
         Free(s) \/ Writes(todo, s, d), StepOn(s, d, l), Leaves(s, d, l),
         UNCHANGED <<sync, cache, panicked, fresh>>, TablesShape', SweepShape', held' \in [Slots -> Row],
         broken' \subseteq Channels, SameRow(channel[d], channel'[d])
  PROVE  RoutingInv'
<1>1. ProgramShape'
  BY ProgramsGoOn DEF StepOn, RoutingInv, RoutingShape
<1>2. OneWriterEach'
  <2>1. l # <<>> => l \in Programs(d)
    OBVIOUS
  <2> QED BY <2>1, StepKeepsOneWriter, Zenon DEF RoutingInv, RoutingShape
<1>3. ReadRowsStand' /\ CacheIsFresh' /\ SyncShape'
  <2>1. broken \subseteq broken' /\ \A c \in Channels : SameRow(channel[c], channel'[c])
    BY DEF StepOn
  <2> QED BY <2>1, RestKeepsMemory, Zenon DEF RoutingInv, RoutingShape
<1>4. CacheShape' /\ PanicsOnlyOverChangedChannels'
  BY DEF RoutingInv, RoutingShape, CacheShape, PanicsOnlyOverChangedChannels
<1> QED BY <1>1, <1>2, <1>3, <1>4, Zenon DEF RoutingInv, RoutingShape

LEMMA RowsAreTheirOwn == \A row : SameRow(row, row)
BY DEF SameRow, SameTerms

LEMMA ReadBackKeeps ==
  ASSUME RoutingInv, panicked = {}, NEW s \in Slots, ReadBack(s)
  PROVE  RoutingInv'
<1> DEFINE c == ChOf(s)
           l == Tail(todo[s])
<1>1. todo[s] # <<>> /\ Head(todo[s]).op = "first"
  BY DEF ReadBack, Next1
<1>2. /\ held' = IF channel[c].there THEN [held EXCEPT ![s] = channel[c]] ELSE held
      /\ Rest(s) /\ UNCHANGED <<channel, ability, sweep, sync, cache, panicked, broken, fresh>>
  BY DEF ReadBack
<1>3. /\ c \in Channels /\ l = UpdateAbilities(c) /\ Writes(todo, s, c) /\ l \in {<<>>} \cup Programs(c)
      /\ c \notin broken => /\ \A t \in Slots \ {s} : ~Writes(todo, t, c)
                            /\ Midway(c, todo[s], held[s], channel[c], AbilitiesOf(ability, c))
  BY <1>1, Runs DEF RoutingInv, RoutingShape, Says
<1>4. c \notin broken => channel[c].there
  BY <1>1, <1>3, MidwayAt
<1> HIDE DEF c, l
<1>5. channel[c] \in Row /\ held \in [Slots -> Row]
  BY <1>3 DEF RoutingInv, RoutingShape, TablesShape, ProgramShape
<1>6. TablesShape' /\ SweepShape' /\ held' \in [Slots -> Row] /\ broken' \subseteq Channels
  BY <1>2, <1>5 DEF RoutingInv, RoutingShape, TablesShape, SweepShape
<1>7. StepOn(s, c, l)
  <2>1. \A t \in Slots \ {s} : held'[t] = held[t]
    BY <1>2, <1>5
  <2> QED BY <1>2, <2>1, RowsAreTheirOwn DEF StepOn, Rest, l
<1>8. Leaves(s, c, l)
  <2> SUFFICES ASSUME c \notin broken
               PROVE  /\ \A t \in Slots \ {s} : ~Writes(todo, t, c)
                      /\ Midway(c, l, held'[s], channel[c], AbilitiesOf(ability, c)) /\ l # <<>>
    BY <1>2 DEF Leaves
  <2>1. held'[s] = channel[c]
    BY <1>2, <1>4, <1>5
  <2>2. SameTerms(held'[s], channel[c])
    BY <2>1 DEF SameTerms
  <2>3. l # <<>>
    BY <1>3 DEF UpdateAbilities
  <2> QED BY <1>3, <1>4, <2>2, <2>3, Zenon DEF Midway
<1>9. SameRow(channel[c], channel'[c])
  BY <1>2, RowsAreTheirOwn
<1> QED BY <1>2, <1>3, <1>6, <1>7, <1>8, <1>9, QuietStepKeeps, Zenon

LEMMA StatementFailsKeeps ==
  ASSUME RoutingInv, panicked = {}, NEW s \in Slots, StatementFails(s)
  PROVE  RoutingInv'
<1>1. PICK c : c = ChOf(s)
  OBVIOUS
<1>2. PICK l : l = IF Head(todo[s]).op \in {"abilityStatus", "channelStatus", "first"} THEN Tail(todo[s]) ELSE <<>>
  OBVIOUS
<1>3. /\ todo[s] # <<>> /\ todo' = [todo EXCEPT ![s] = l] /\ broken' = broken \cup {c}
      /\ UNCHANGED <<channel, ability, held, sweep, sync, cache, panicked, fresh>>
  BY <1>1, <1>2 DEF StatementFails
<1>4. c \in Channels /\ l \in {<<>>} \cup Programs(c) /\ Writes(todo, s, c)
  BY <1>1, <1>2, <1>3, Runs DEF RoutingInv, RoutingShape, Says
<1>5. TablesShape' /\ SweepShape' /\ held' \in [Slots -> Row] /\ broken' \subseteq Channels
  BY <1>3, <1>4 DEF RoutingInv, RoutingShape, TablesShape, SweepShape, ProgramShape
<1>6. StepOn(s, c, l) /\ Leaves(s, c, l)
  BY <1>3, RowsAreTheirOwn DEF StepOn, Leaves
<1>7. SameRow(channel[c], channel'[c])
  BY <1>3, RowsAreTheirOwn
<1> QED BY <1>3, <1>4, <1>5, <1>6, <1>7, QuietStepKeeps, Zenon

-----------------------------------------------------------------------------
(* Handlers and goroutines that start.                                        *)

LEMMA StartKeeps ==
  ASSUME RoutingInv, panicked = {}, NEW s \in Slots, NEW d \in Channels, NEW row \in Row,
         NEW stmts \in Programs(d), Start(s, d, row, stmts),
         UNCHANGED <<ability, sync, cache, panicked, fresh>>, TablesShape', SweepShape',
         \A c \in Channels : SameRow(channel[c], channel'[c]),
         AbilitiesOf(ability, d) = Asked(d, channel[d], channel[d].status = Enabled) =>
           Midway(d, stmts, row, channel[d], AbilitiesOf(ability, d))
  PROVE  RoutingInv'
<1>1. /\ Free(s) /\ todo' = [todo EXCEPT ![s] = stmts] /\ held' = [held EXCEPT ![s] = row]
      /\ broken' = IF \E t \in Slots \ {s} : Writes(todo, t, d) THEN broken \cup {d} ELSE broken
  BY DEF Start, About, Writes
<1>2. held' \in [Slots -> Row] /\ held'[s] = row /\ \A t \in Slots \ {s} : held'[t] = held[t]
  BY <1>1 DEF RoutingInv, RoutingShape, ProgramShape
<1>3. broken \subseteq broken' /\ broken' \subseteq Channels
  BY <1>1 DEF RoutingInv, RoutingShape
<1>4. StepOn(s, d, stmts)
  BY <1>1, <1>2, <1>3 DEF StepOn
<1>5. Leaves(s, d, stmts)
  <2> SUFFICES ASSUME d \notin broken'
               PROVE  /\ \A t \in Slots \ {s} : ~Writes(todo, t, d)
                      /\ Midway(d, stmts, row, channel'[d], AbilitiesOf(ability, d)) /\ stmts # <<>>
    BY <1>2 DEF Leaves
  <2>1. stmts # <<>>
    <3>1. Says(d, stmts, Head(stmts), Tail(stmts))
      BY ProgramFacts, Zenon
    <3> QED BY <3>1 DEF Says
  <2>2. d \notin broken /\ \A t \in Slots : ~Writes(todo, t, d)
    BY <1>1, <1>3 DEF Free, Writes
  <2>3. AbilitiesOf(ability, d) = Asked(d, channel[d], channel[d].status = Enabled)
    BY <2>2 DEF RoutingInv, OneWriterEach, Stands
  <2>4. Midway(d, stmts, row, channel[d], AbilitiesOf(ability, d))
    BY <2>3
  <2>5. Midway(d, stmts, row, channel'[d], AbilitiesOf(ability, d))
    BY <2>4, MidwayDependsOnTerms, Zenon
  <2> QED BY <2>1, <2>2, <2>5
<1>6. stmts \in {<<>>} \cup Programs(d) /\ SameRow(channel[d], channel'[d])
  OBVIOUS
<1> QED BY <1>1, <1>2, <1>3, <1>4, <1>5, <1>6, QuietStepKeeps, Zenon

LEMMA ProgramsOfMethods ==
  ASSUME NEW c
  PROVE  /\ BatchInsertChannels(c) \in Programs(c) /\ Update(c) \in Programs(c) /\ Delete(c) \in Programs(c)
         /\ UpdateChannelStatusById(c, AutoDisabled) \in Programs(c)
         /\ UpdateChannelStatusById(c, Enabled) \in Programs(c)
BY DEF Programs, Statuses

\* A request or goroutine on one channel.
LEMMA BeginKeeps ==
  ASSUME RoutingInv, panicked = {}, NEW s, NEW d \in Channels, NEW row \in Row,
         NEW stmts \in Programs(d), Begin(s, d, row, stmts),
         AbilitiesOf(ability, d) = Asked(d, channel[d], channel[d].status = Enabled) =>
           Midway(d, stmts, row, channel[d], AbilitiesOf(ability, d))
  PROVE  RoutingInv'
<1>1. /\ s \in Slots /\ Start(s, d, row, stmts)
      /\ UNCHANGED <<channel, ability, sweep, sync, cache, panicked, fresh>>
  BY DEF Begin, Slots
<1>2. TablesShape' /\ SweepShape'
  BY <1>1 DEF RoutingInv, RoutingShape, TablesShape, SweepShape
<1>3. \A c \in Channels : SameRow(channel[c], channel'[c])
  BY <1>1, RowsAreTheirOwn
<1> QED BY <1>1, <1>2, <1>3, StartKeeps, Zenon

LEMMA AddChannelKeeps ==
  ASSUME RoutingInv, panicked = {}, NEW s, NEW c \in Channels, NEW body \in Bodies, AddChannel(s, c, body)
  PROVE  RoutingInv'
<1>1. /\ ~channel[c].born /\ Begin(s, c, NewRow(body), BatchInsertChannels(c))
  BY DEF AddChannel
<1>2. NewRow(body) \in Row /\ NewRow(body).there
  BY RoutingAssumption DEF NewRow, Row, Balances, Enabled
<1>3. ~channel[c].there
  BY <1>1 DEF RoutingInv, RoutingShape, TablesShape, Row
<1>4. ASSUME AbilitiesOf(ability, c) = Asked(c, channel[c], channel[c].status = Enabled)
      PROVE  Midway(c, BatchInsertChannels(c), NewRow(body), channel[c], AbilitiesOf(ability, c))
  <2>1. AbilitiesOf(ability, c) = {}
    BY <1>3, <1>4 DEF Asked
  <2> QED BY <1>2, <1>3, <2>1, Zenon DEF Midway
<1> QED BY <1>1, <1>2, <1>4, ProgramsOfMethods, BeginKeeps, Zenon

LEMMA UpdateChannelKeeps ==
  ASSUME RoutingInv, panicked = {}, NEW s, NEW c \in Channels, NEW body \in Bodies, UpdateChannel(s, c, body)
  PROVE  RoutingInv'
<1>1. PICK row : row = [NoRow EXCEPT !.status = body.status, !.routes = body.routes, !.priority = body.priority]
  OBVIOUS
<1>2. Begin(s, c, row, Update(c))
  BY <1>1 DEF UpdateChannel
<1>3. row \in Row
  <2>1. PICK none : none = NoRow
    OBVIOUS
  <2>2. row = [none EXCEPT !.status = body.status, !.routes = body.routes, !.priority = body.priority]
    BY <1>1, <2>1
  <2>3. none \in Row /\ ~none.there
    BY <2>1, RowsOfNoChannel
  <2> QED BY <2>2, <2>3, RoutingAssumption DEF Row
<1>4. Midway(c, Update(c), row, channel[c], AbilitiesOf(ability, c))
  BY Zenon DEF Midway
<1> QED BY <1>2, <1>3, <1>4, ProgramsOfMethods, BeginKeeps, Zenon

LEMMA DeleteChannelKeeps ==
  ASSUME RoutingInv, panicked = {}, NEW s, NEW c \in Channels, DeleteChannel(s, c)
  PROVE  RoutingInv'
<1>1. Begin(s, c, NoRow, Delete(c))
  BY DEF DeleteChannel
<1>2. Midway(c, Delete(c), NoRow, channel[c], AbilitiesOf(ability, c))
  BY Zenon DEF Midway
<1> QED BY <1>1, <1>2, RowsOfNoChannel, ProgramsOfMethods, BeginKeeps, Zenon

\* Switching a channel on or off starts with its abilities.
LEMMA SwitchIsMidway ==
  ASSUME NEW c, NEW h, NEW row, NEW S, NEW status \in Statuses, S = Asked(c, row, row.status = Enabled)
  PROVE  Midway(c, UpdateChannelStatusById(c, status), h, row, S)
BY Zenon DEF Midway

LEMMA DisableChannelKeeps ==
  ASSUME RoutingInv, panicked = {}, NEW s, NEW c \in Channels, DisableChannel(s, c) \/ MetricDisableChannel(s, c)
  PROVE  RoutingInv'
<1>1. Begin(s, c, NoRow, UpdateChannelStatusById(c, AutoDisabled))
  BY DEF DisableChannel, MetricDisableChannel
<1>2. AutoDisabled \in Statuses
  BY DEF Statuses
<1> QED BY <1>1, <1>2, RowsOfNoChannel, ProgramsOfMethods, SwitchIsMidway, BeginKeeps, Zenon

\* A step of a sweep that starts nothing, and the balance of a channel.
LEMMA SweepsKeep ==
  ASSUME RoutingInv, panicked = {}, UNCHANGED <<ability, todo, held, sync, cache, panicked, broken, fresh>>,
         SweepShape', channel' \in [Channels -> Row], \A d \in Channels : SameRow(channel[d], channel'[d])
  PROVE  RoutingInv'
<1>1. OneWriterEach'
  BY NoHandlerKeepsOneWriter DEF RoutingInv
<1>2. ReadRowsStand' /\ CacheIsFresh' /\ SyncShape'
  BY RestKeepsMemory DEF RoutingInv, RoutingShape
<1>3. TablesShape' /\ ProgramShape' /\ CacheShape' /\ broken' \subseteq Channels
  BY DEF RoutingInv, RoutingShape, TablesShape, ProgramShape, CacheShape
<1>4. PanicsOnlyOverChangedChannels'
  BY DEF PanicsOnlyOverChangedChannels
<1> QED BY <1>1, <1>2, <1>3, <1>4, Zenon DEF RoutingInv, RoutingShape

\* The test sweep goes on to its next channel.
LEMMA TestOneKeeps ==
  ASSUME RoutingInv, panicked = {}, NEW x \in sweep["tester"].list, TestOne(x)
  PROVE  RoutingInv'
<1>1. PICK s, c, list : s = "tester" /\ c = x.ch /\ list = sweep[s].list \ {x}
  OBVIOUS
<1>2. s \in Sweeps /\ s \in Slots
  BY <1>1 DEF Sweeps, Slots
<1>3. /\ sweep' = [sweep EXCEPT ![s].list = list]
      /\ UNCHANGED <<channel, ability, sync, cache, panicked, fresh>>
      /\ \/ Start(s, c, NoRow, UpdateChannelStatusById(c, AutoDisabled))
         \/ Start(s, c, NoRow, UpdateChannelStatusById(c, Enabled))
         \/ UNCHANGED <<todo, held, broken>>
  BY <1>1 DEF TestOne, EnableChannel
<1>4. SweepShape' /\ c \in Channels
  <2>1. list \subseteq Listed /\ x \in Listed
    BY <1>1, <1>2 DEF RoutingInv, RoutingShape, SweepShape
  <2> QED BY <1>1, <1>2, <1>3, <2>1 DEF RoutingInv, RoutingShape, SweepShape, Listed
<1>5. TablesShape' /\ \A d \in Channels : SameRow(channel[d], channel'[d])
  BY <1>3, RowsAreTheirOwn DEF RoutingInv, RoutingShape, TablesShape
<1>6. Enabled \in Statuses /\ AutoDisabled \in Statuses
  BY DEF Statuses
<1>7. CASE Start(s, c, NoRow, UpdateChannelStatusById(c, AutoDisabled))
  BY <1>2, <1>3, <1>4, <1>5, <1>6, <1>7, RowsOfNoChannel, ProgramsOfMethods, SwitchIsMidway, StartKeeps, Zenon
<1>8. CASE Start(s, c, NoRow, UpdateChannelStatusById(c, Enabled))
  BY <1>2, <1>3, <1>4, <1>5, <1>6, <1>8, RowsOfNoChannel, ProgramsOfMethods, SwitchIsMidway, StartKeeps, Zenon
<1>9. CASE UNCHANGED <<todo, held, broken>>
  <2>1. channel' \in [Channels -> Row]
    BY <1>5 DEF TablesShape
  <2> QED BY <1>3, <1>4, <1>5, <1>9, <2>1, SweepsKeep
<1> QED BY <1>3, <1>7, <1>8, <1>9

LEMMA BalanceKeepsRows ==
  ASSUME RoutingInv, NEW c \in Channels, NEW a \in Replies, NEW b \in updateChannelBalance(TypeOf[c], a),
         UpdateBalance(c, b)
  PROVE  channel' \in [Channels -> Row] /\ \A d \in Channels : SameRow(channel[d], channel'[d])
<1>1. b \in Balances
  BY DEF Balances
<1>2. channel \in [Channels -> Row]
  BY DEF RoutingInv, RoutingShape, TablesShape
<1>3. CASE channel[c].there
  <2>1. PICK x : x = [channel[c] EXCEPT !.balance = b]
    OBVIOUS
  <2>2. x \in Row /\ SameRow(channel[c], x)
    BY <1>1, <1>2, <2>1 DEF Row, SameRow, SameTerms
  <2>3. channel' = [channel EXCEPT ![c] = x]
    BY <1>2, <1>3, <2>1 DEF UpdateBalance
  <2> QED BY <1>2, <2>2, <2>3, RowsAreTheirOwn
<1>4. CASE ~channel[c].there
  BY <1>2, <1>4, RowsAreTheirOwn DEF UpdateBalance
<1> QED BY <1>3, <1>4

LEMMA UpdateChannelBalanceKeeps ==
  ASSUME RoutingInv, panicked = {}, NEW c \in Channels, NEW a \in Replies, UpdateChannelBalance(c, a)
  PROVE  RoutingInv'
<1>1. PICK b \in updateChannelBalance(TypeOf[c], a) : UpdateBalance(c, b)
  BY DEF UpdateChannelBalance
<1>2. UNCHANGED <<ability, todo, held, sweep, sync, cache, panicked, broken, fresh>>
  BY DEF UpdateChannelBalance
<1>3. SweepShape'
  BY <1>2 DEF RoutingInv, RoutingShape, SweepShape
<1> QED BY <1>1, <1>2, <1>3, BalanceKeepsRows, SweepsKeep

LEMMA updateAllChannelsBalanceKeeps ==
  ASSUME RoutingInv, panicked = {}, NEW x \in sweep["balancer"].list, NEW a \in Replies,
         updateAllChannelsBalance(x, a)
  PROVE  RoutingInv'
<1>1. PICK s, c, list : s = "balancer" /\ c = x.ch /\ list = sweep[s].list \ {x}
  OBVIOUS
<1>2. s \in Sweeps /\ s \in Slots
  BY <1>1 DEF Sweeps, Slots
<1>3. /\ sweep' = [sweep EXCEPT ![s].list = list]
      /\ UNCHANGED <<ability, sync, cache, panicked, fresh>>
      /\ \/ UNCHANGED <<channel, todo, held, broken>>
         \/ \E b \in updateChannelBalance(TypeOf[c], a) :
              /\ UpdateBalance(c, b)
              /\ \/ Start(s, c, NoRow, UpdateChannelStatusById(c, AutoDisabled))
                 \/ UNCHANGED <<todo, held, broken>>
  <2>1. sweep' = [sweep EXCEPT ![s].list = list] /\ UNCHANGED <<ability, sync, cache, panicked, fresh>>
    BY <1>1, <1>2 DEF updateAllChannelsBalance
  <2>2. \/ UNCHANGED <<channel, todo, held, broken>>
        \/ \E b \in updateChannelBalance(TypeOf[c], a) :
             /\ UpdateBalance(c, b)
             /\ \/ Start(s, c, NoRow, UpdateChannelStatusById(c, AutoDisabled))
                \/ UNCHANGED <<todo, held, broken>>
    BY <1>1 DEF updateAllChannelsBalance
  <2> QED BY <2>1, <2>2
<1>4. SweepShape' /\ c \in Channels
  <2>1. list \subseteq Listed /\ x \in Listed
    BY <1>1, <1>2 DEF RoutingInv, RoutingShape, SweepShape
  <2> QED BY <1>1, <1>2, <1>3, <2>1 DEF RoutingInv, RoutingShape, SweepShape, Listed
<1>5. AutoDisabled \in Statuses
  BY DEF Statuses
<1>6. CASE UNCHANGED <<channel, todo, held, broken>>
  <2>1. channel' \in [Channels -> Row] /\ \A d \in Channels : SameRow(channel[d], channel'[d])
    BY <1>6, RowsAreTheirOwn DEF RoutingInv, RoutingShape, TablesShape
  <2> QED BY <1>3, <1>4, <1>6, <2>1, SweepsKeep
<1>7. ASSUME NEW b \in updateChannelBalance(TypeOf[c], a), UpdateBalance(c, b),
             \/ Start(s, c, NoRow, UpdateChannelStatusById(c, AutoDisabled))
             \/ UNCHANGED <<todo, held, broken>>
      PROVE  RoutingInv'
  <2>1. channel' \in [Channels -> Row] /\ \A d \in Channels : SameRow(channel[d], channel'[d])
    BY <1>4, <1>7, BalanceKeepsRows
  <2>2. TablesShape'
    BY <1>3, <2>1 DEF RoutingInv, RoutingShape, TablesShape
  <2>3. CASE Start(s, c, NoRow, UpdateChannelStatusById(c, AutoDisabled))
    BY <1>2, <1>3, <1>4, <1>5, <2>1, <2>2, <2>3, RowsOfNoChannel, ProgramsOfMethods, SwitchIsMidway,
       StartKeeps, Zenon
  <2>4. CASE UNCHANGED <<todo, held, broken>>
    BY <1>3, <1>4, <2>1, <2>4, SweepsKeep
  <2> QED BY <1>7, <2>3, <2>4
<1> QED BY <1>3, <1>6, <1>7

LEMMA RoundsKeep ==
  ASSUME RoutingInv, panicked = {},
         TestChannels \/ UpdateAllChannels \/ \E s \in Sweeps : SweepEnds(s)
  PROVE  RoutingInv'
<1>1. UNCHANGED <<channel, ability, todo, held, sync, cache, panicked, broken, fresh>>
  BY DEF TestChannels, UpdateAllChannels, SweepEnds
<1>2. channel' \in [Channels -> Row] /\ \A d \in Channels : SameRow(channel[d], channel'[d])
  BY <1>1, RowsAreTheirOwn DEF RoutingInv, RoutingShape, TablesShape
<1>3. sweep \in [Sweeps -> [on : BOOLEAN, runs : BOOLEAN, list : SUBSET Listed]] /\ SweepShape
  BY DEF RoutingInv, RoutingShape, SweepShape
<1>4. PICK yes, no : yes = TRUE /\ no = FALSE /\ yes \in BOOLEAN /\ no \in BOOLEAN
  OBVIOUS
<1>5. "tester" \in Sweeps /\ "balancer" \in Sweeps
  BY DEF Sweeps
<1>6. ASSUME NEW s \in Sweeps, NEW L \in SUBSET Listed, sweep' = [sweep EXCEPT ![s] = [on |-> yes, runs |-> yes, list |-> L]]
      PROVE  SweepShape'
  BY <1>3, <1>4, <1>6 DEF SweepShape
<1>7. ASSUME TestChannels PROVE SweepShape'
  <2>1. PICK s : s = "tester" /\ s \in Sweeps
    BY <1>5
  <2>2. CASE sweep' = [sweep EXCEPT !["tester"] =
             Round({[ch |-> c, on |-> channel[c].status = Enabled] : c \in {d \in Channels : channel[d].there}})]
    <3>1. PICK L : L = {[ch |-> c, on |-> channel[c].status = Enabled] : c \in {d \in Channels : channel[d].there}}
      OBVIOUS
    <3>2. L \subseteq Listed
      <4> SUFFICES ASSUME NEW z \in L PROVE z \in Listed
        OBVIOUS
      <4>1. PICK c \in Channels : z = [ch |-> c, on |-> channel[c].status = Enabled]
        BY <3>1
      <4>2. PICK on \in BOOLEAN : on = (channel[c].status = Enabled)
        OBVIOUS
      <4>3. z = [ch |-> c, on |-> on]
        BY <4>1, <4>2
      <4> QED BY <4>3 DEF Listed
    <3>3. sweep' = [sweep EXCEPT ![s] = [on |-> yes, runs |-> yes, list |-> L]]
      BY <1>4, <2>1, <2>2, <3>1 DEF Round
    <3> QED BY <1>6, <2>1, <3>2, <3>3
  <2>3. CASE sweep' = [sweep EXCEPT !["tester"].on = TRUE]
    <3>1. sweep' = [sweep EXCEPT ![s].on = yes]
      BY <1>4, <2>1, <2>3, Zenon
    <3> QED BY <1>3, <1>4, <2>1, <3>1 DEF SweepShape
  <2> QED BY <1>7, <2>2, <2>3 DEF TestChannels
<1>8. ASSUME UpdateAllChannels PROVE SweepShape'
  <2>1. PICK s : s = "balancer" /\ s \in Sweeps
    BY <1>5
  <2>2. PICK L : L = {[ch |-> c, on |-> yes] : c \in {d \in Channels :
                channel[d].there /\ channel[d].status = Enabled /\ TypeOf[d] \in {"OpenAI", "Custom"}}}
    OBVIOUS
  <2>3. L \subseteq Listed
    <3> SUFFICES ASSUME NEW z \in L PROVE z \in Listed
      OBVIOUS
    <3>1. PICK c \in Channels : z = [ch |-> c, on |-> yes]
      BY <2>2
    <3> QED BY <1>4, <3>1 DEF Listed
  <2>4. sweep' = [sweep EXCEPT ![s] = [on |-> yes, runs |-> yes, list |-> L]]
    BY <1>4, <1>8, <2>1, <2>2, Zenon DEF UpdateAllChannels, Round
  <2> QED BY <1>6, <2>1, <2>3, <2>4
<1>9. ASSUME NEW s \in Sweeps, SweepEnds(s) PROVE SweepShape'
  <2>1. sweep' = [sweep EXCEPT ![s] = [on |-> no, runs |-> no, list |-> {}]]
    BY <1>4, <1>9, Zenon DEF SweepEnds
  <2> QED BY <1>3, <1>4, <2>1 DEF SweepShape
<1> QED BY <1>1, <1>2, <1>7, <1>8, <1>9, SweepsKeep

LEMMA DeleteDisabledChannelKeeps ==
  ASSUME RoutingInv, panicked = {}, DeleteDisabledChannel
  PROVE  RoutingInv'
<1>1. PICK off \in SUBSET Channels :
        /\ channel' = [c \in Channels |-> IF c \in off THEN Gone ELSE channel[c]]
        /\ broken' = broken \cup off /\ fresh' = "no"
        /\ sync' = IF sync.pc = "idle" THEN sync ELSE [sync EXCEPT !.changed = @ \cup off]
  BY DEF DeleteDisabledChannel
<1>2. UNCHANGED <<ability, todo, held, sweep, cache, panicked>>
  BY DEF DeleteDisabledChannel
<1>3. TablesShape' /\ broken' \subseteq Channels
  BY <1>1, <1>2, RowsOfNoChannel DEF RoutingInv, RoutingShape, TablesShape
<1>4. \A c \in Channels \ off : channel'[c] = channel[c]
  BY <1>1
<1>5. OneWriterEach'
  <2>1. \A c \in Channels \ broken' : /\ SameRow(channel[c], channel'[c])
                                     /\ AbilitiesOf(ability', c) = AbilitiesOf(ability, c)
    BY <1>1, <1>2, <1>4, RowsAreTheirOwn
  <2>2. broken \subseteq broken'
    BY <1>1
  <2> QED BY <1>2, <2>1, <2>2, NoHandlerKeepsOneWriter DEF RoutingInv
<1>6. /\ sync'.pc = sync.pc /\ sync'.rows = sync.rows /\ SyncShape'
      /\ sync.pc = "read" => sync'.changed = sync.changed \cup off
  BY <1>1 DEF RoutingInv, RoutingShape, SyncShape
<1>7. ReadRowsStand'
  <2>1. \A x \in sync.rows : x.ch \in Channels
    BY DEF RoutingInv, RoutingShape, SyncShape, RowRead
  <2> QED BY <1>1, <1>4, <1>6, <2>1 DEF RoutingInv, ReadRowsStand
<1>8. CacheIsFresh' /\ CacheShape' /\ ProgramShape' /\ SweepShape'
  BY <1>1, <1>2 DEF CacheIsFresh, RoutingInv, RoutingShape, CacheShape, ProgramShape, SweepShape
<1>9. PanicsOnlyOverChangedChannels'
  BY <1>2 DEF PanicsOnlyOverChangedChannels
<1> QED BY <1>3, <1>5, <1>6, <1>7, <1>8, <1>9, Zenon DEF RoutingInv, RoutingShape

-----------------------------------------------------------------------------
(* The routing table.                                                         *)

LEMMA ReadChannelsKeeps ==
  ASSUME RoutingInv, panicked = {}, ReadChannels
  PROVE  RoutingInv'
<1>1. /\ fresh' = "reading" /\ sync' = [pc |-> "read", changed |-> Busy, rows |-> EnabledRows(channel)]
      /\ UNCHANGED <<channel, ability, todo, held, sweep, cache, panicked, broken>>
  BY DEF ReadChannels, EnabledRows
<1>2. channel \in [Channels -> Row]
  BY DEF RoutingInv, RoutingShape, TablesShape
<1>3. \A x \in EnabledRows(channel) :
        x \in RowRead /\ channel[x.ch].there /\ channel[x.ch].routes = x.routes
  <2> SUFFICES ASSUME NEW x \in EnabledRows(channel)
               PROVE  x \in RowRead /\ channel[x.ch].there /\ channel[x.ch].routes = x.routes
    OBVIOUS
  <2>1. PICK c \in Channels : /\ channel[c].there
                             /\ x = [ch |-> c, routes |-> channel[c].routes, priority |-> channel[c].priority]
    BY DEF EnabledRows
  <2> QED BY <1>2, <2>1 DEF RowRead, Row
<1>4. Busy \subseteq Channels
  BY DEF Busy
<1>5. SyncShape'
  BY <1>1, <1>3, <1>4 DEF SyncShape
<1>6. ReadRowsStand' /\ CacheIsFresh'
  BY <1>1, <1>3 DEF ReadRowsStand, CacheIsFresh
<1>7. OneWriterEach'
  BY <1>1, RowsAreTheirOwn, NoHandlerKeepsOneWriter DEF RoutingInv
<1>8. TablesShape' /\ CacheShape' /\ ProgramShape' /\ SweepShape' /\ broken' \subseteq Channels
  BY <1>1 DEF RoutingInv, RoutingShape, TablesShape, CacheShape, ProgramShape, SweepShape
<1>9. PanicsOnlyOverChangedChannels'
  BY <1>1 DEF PanicsOnlyOverChangedChannels
<1> QED BY <1>5, <1>6, <1>7, <1>8, <1>9, Zenon DEF RoutingInv, RoutingShape

\* A row nobody wrote since it was read, of a channel nobody is writing, has its
\* abilities, and so its groups.
LEMMA RowsOfKnownGroups ==
  ASSUME RoutingInv, sync.pc = "read", NEW c \in WithoutGroup(sync.rows)
  PROVE  c \in Channels /\ c \in broken \cup sync.changed \cup Busy
<1>1. PICK x \in sync.rows : c = x.ch /\ \E r \in x.routes : \A a \in ability : GroupOf[a.route] # GroupOf[r]
  BY DEF WithoutGroup
<1>2. PICK r \in x.routes : \A a \in ability : GroupOf[a.route] # GroupOf[r]
  BY <1>1
<1>3. c \in Channels
  BY <1>1 DEF RoutingInv, RoutingShape, SyncShape, RowRead
<1> SUFFICES ASSUME c \notin broken \cup sync.changed \cup Busy PROVE FALSE
  BY <1>3
<1>4. channel[c].there /\ r \in channel[c].routes
  BY <1>1, <1>2 DEF RoutingInv, ReadRowsStand
<1>5. \A s \in Slots : ~Writes(todo, s, c)
  BY <1>3 DEF Busy, About, Writes
<1>6. AbilitiesOf(ability, c) = Asked(c, channel[c], channel[c].status = Enabled)
  BY <1>3, <1>5 DEF RoutingInv, OneWriterEach, Stands
<1>7. \E a \in ability : a.route = r
  <2>1. PICK row, on : row = channel[c] /\ on = (channel[c].status = Enabled)
    OBVIOUS
  <2>2. [route |-> r, ch |-> c, enabled |-> on, priority |-> row.priority] \in Asked(c, row, on)
    BY <1>4, <2>1 DEF Asked
  <2>3. [route |-> r, ch |-> c, enabled |-> on, priority |-> row.priority] \in ability
    BY <1>6, <2>1, <2>2 DEF AbilitiesOf
  <2> QED BY <2>3
<1> QED BY <1>2, <1>7

LEMMA InitChannelCacheKeeps ==
  ASSUME RoutingInv, panicked = {}, InitChannelCache
  PROVE  RoutingInv'
<1>1. /\ sync.pc = "read" /\ panicked' = WithoutGroup(sync.rows)
      /\ UNCHANGED <<channel, ability, todo, held, sweep, broken>>
  BY DEF InitChannelCache
<1>2. Busy \subseteq Channels
  BY DEF Busy
<1>3. panicked' \subseteq Channels /\ panicked' \subseteq broken \cup sync.changed \cup Busy
  BY <1>1, RowsOfKnownGroups
<1>4. OneWriterEach'
  BY <1>1, RowsAreTheirOwn, NoHandlerKeepsOneWriter DEF RoutingInv
<1>5. TablesShape' /\ ProgramShape' /\ SweepShape' /\ broken' \subseteq Channels
  BY <1>1 DEF RoutingInv, RoutingShape, TablesShape, ProgramShape, SweepShape
<1>6. CASE panicked' # {}
  <2>1. cache' = cache /\ sync' = [sync EXCEPT !.changed = @ \cup Busy] /\ fresh' = fresh
    BY <1>6 DEF InitChannelCache
  <2>2. /\ sync'.pc = sync.pc /\ sync'.rows = sync.rows /\ sync'.changed = sync.changed \cup Busy
        /\ SyncShape'
    BY <1>2, <2>1 DEF RoutingInv, RoutingShape, SyncShape
  <2>3. ReadRowsStand' /\ CacheIsFresh'
    BY <1>1, <2>1, <2>2 DEF RoutingInv, ReadRowsStand, CacheIsFresh
  <2>4. CacheShape' /\ PanicsOnlyOverChangedChannels'
    BY <1>1, <1>3, <2>1, <2>2 DEF RoutingInv, RoutingShape, CacheShape, PanicsOnlyOverChangedChannels
  <2> QED BY <1>4, <1>5, <2>2, <2>3, <2>4, Zenon DEF RoutingInv, RoutingShape
<1>7. CASE panicked' = {}
  <2>1. /\ cache' = CacheOf(sync.rows) /\ sync' = [pc |-> "idle", rows |-> {}, changed |-> {}]
        /\ fresh' = IF fresh = "reading" THEN "yes" ELSE "no"
    BY <1>7 DEF InitChannelCache, CacheOf
  <2>2. SyncShape' /\ ReadRowsStand'
    BY <2>1 DEF SyncShape, ReadRowsStand
  <2>3. CacheIsFresh'
    BY <1>1, <2>1 DEF RoutingInv, CacheIsFresh
  <2>4. cache' \subseteq [route : Routes, ch : Channels, priority : Int]
    <3>1. sync.rows \subseteq RowRead
      BY DEF RoutingInv, RoutingShape, SyncShape
    <3> QED BY <2>1, <3>1 DEF CacheOf, RowRead
  <2>5. CacheShape' /\ PanicsOnlyOverChangedChannels'
    BY <1>7, <2>1, <2>4 DEF CacheShape, PanicsOnlyOverChangedChannels
  <2> QED BY <1>4, <1>5, <2>2, <2>3, <2>5, Zenon DEF RoutingInv, RoutingShape
<1> QED BY <1>6, <1>7

-----------------------------------------------------------------------------
(* The theorems.                                                              *)

LEMMA RoutingStep == RoutingInv /\ [RoutingNext]_routingVars => RoutingInv'
<1> SUFFICES ASSUME RoutingInv, [RoutingNext]_routingVars PROVE RoutingInv'
  OBVIOUS
<1>1. CASE UNCHANGED routingVars
  <2>1. UNCHANGED <<channel, ability, todo, held, sweep, sync, cache, panicked, broken, fresh>>
    BY <1>1 DEF routingVars
  <2> QED BY <2>1 DEF RoutingInv, RoutingShape, TablesShape, ProgramShape, SweepShape, SyncShape, CacheShape,
        OneWriterEach, ReadRowsStand, CacheIsFresh, PanicsOnlyOverChangedChannels
<1>2. CASE RoutingNext
  <2>1. panicked = {}
    BY <1>2 DEF RoutingNext
  <2>2. \A s \in Handlers, c \in Channels, b \in Bodies :
          AddChannel(s, c, b) \/ UpdateChannel(s, c, b) => RoutingInv'
    BY <2>1, AddChannelKeeps, UpdateChannelKeeps
  <2>3. \A s \in Handlers, c \in Channels :
          DeleteChannel(s, c) \/ DisableChannel(s, c) \/ MetricDisableChannel(s, c) => RoutingInv'
    BY <2>1, DeleteChannelKeeps, DisableChannelKeeps
  <2>4. \A s \in Slots :
          WriteRow(s) \/ ReadBack(s) \/ DeleteAbilities(s) \/ AddAbilities(s) \/ UpdateAbilityStatus(s)
            \/ StatementFails(s) => RoutingInv'
    BY <2>1, WriteRowKeeps, ReadBackKeeps, DeleteAbilitiesKeeps, AddAbilitiesKeeps, UpdateAbilityStatusKeeps,
       StatementFailsKeeps
  <2>5. \A x \in sweep["tester"].list : TestOne(x) => RoutingInv'
    BY <2>1, TestOneKeeps
  <2>6. \A x \in sweep["balancer"].list, a \in Replies : updateAllChannelsBalance(x, a) => RoutingInv'
    BY <2>1, updateAllChannelsBalanceKeeps
  <2>7. \A c \in Channels, a \in Replies : UpdateChannelBalance(c, a) => RoutingInv'
    BY <2>1, UpdateChannelBalanceKeeps
  <2>8. DeleteDisabledChannel \/ ReadChannels \/ InitChannelCache => RoutingInv'
    BY <2>1, DeleteDisabledChannelKeeps, ReadChannelsKeeps, InitChannelCacheKeeps
  <2>9. TestChannels \/ UpdateAllChannels \/ (\E s \in Sweeps : SweepEnds(s)) => RoutingInv'
    BY <2>1, RoundsKeep
  <2> QED BY <1>2, <2>2, <2>3, <2>4, <2>5, <2>6, <2>7, <2>8, <2>9, Zenon DEF RoutingNext
<1> QED BY <1>1, <1>2

LEMMA RoutingShapeIsTyped == RoutingShape => RoutingTypeOK
<1> SUFFICES ASSUME RoutingShape PROVE RoutingTypeOK
  OBVIOUS
<1>1. \A c \in Channels : channel[c].status \in 0 .. 3 /\ channel[c].routes \subseteq Routes
  BY DEF RoutingShape, TablesShape, Row
<1>2. \A a \in ability : a.route \in Routes /\ a.ch \in Channels /\ a.enabled \in BOOLEAN
  BY DEF RoutingShape, TablesShape, Ability
<1>3. \A x \in cache : x.route \in Routes /\ x.ch \in Channels
  BY DEF RoutingShape, CacheShape
<1>4. /\ \A s \in Sweeps : sweep[s].runs => sweep[s].on
      /\ broken \subseteq Channels /\ panicked \subseteq Channels /\ fresh \in {"no", "reading", "yes"}
  BY DEF RoutingShape, SweepShape, CacheShape
<1> QED BY <1>1, <1>2, <1>3, <1>4 DEF RoutingTypeOK

\* A channel nobody writes, and whose tables are not known to disagree.
LEMMA QuietChannels ==
  ASSUME RoutingInv, NEW c \in Channels \ broken, c \notin Busy
  PROVE  AbilitiesOf(ability, c) = Asked(c, channel[c], channel[c].status = Enabled)
<1>1. \A s \in Slots : ~Writes(todo, s, c)
  BY DEF Busy, About, Writes
<1> QED BY <1>1 DEF RoutingInv, OneWriterEach, Stands

\* The most preferred entries of a table that has, for each channel of a set,
\* entries of its priority.
ChannelsOf(S) == {x.ch : x \in S}
Foremost(C, p) == {c \in C : \A d \in C : p[d] <= p[c]}

LEMMA TopOfChannels ==
  ASSUME NEW S, NEW C, NEW p, \A x \in S : x.ch \in C /\ x.priority = p[x.ch], \A c \in C : \E x \in S : x.ch = c
  PROVE  ChannelsOf(Top(S)) = Foremost(C, p)
<1>1. ASSUME NEW x \in Top(S) PROVE x.ch \in C /\ \A d \in C : p[d] <= p[x.ch]
  BY <1>1 DEF Top
<1>2. ASSUME NEW c \in C, \A d \in C : p[d] <= p[c] PROVE \E x \in Top(S) : x.ch = c
  BY <1>2 DEF Top
<1> QED BY <1>1, <1>2 DEF ChannelsOf, Foremost

LEMMA FreshCacheIsTheTables == RoutingInv => CachedChoiceIsTheTables
<1> SUFFICES ASSUME RoutingInv, fresh = "yes", broken = {}, Busy = {}, NEW r \in Routes
             PROVE  /\ \A c \in Distribute(r, {}) :
                         channel[c].there /\ channel[c].status = Enabled /\ r \in channel[c].routes
                    /\ CacheGetRandomSatisfiedChannel(r, TRUE) \subseteq GetRandomSatisfiedChannel(r, TRUE)
                    /\ (\E x \in cache : x.route = r /\ x.priority > 0)
                         => CacheGetRandomSatisfiedChannel(r, FALSE) = GetRandomSatisfiedChannel(r, FALSE)
  BY DEF CachedChoiceIsTheTables
<1> DEFINE S == {x \in cache : x.route = r}
           on == {a \in ability : a.route = r /\ a.enabled}
           C == {c \in Channels : channel[c].there /\ channel[c].status = Enabled /\ r \in channel[c].routes}
<1>1. PICK p : p = [c \in Channels |-> channel[c].priority]
  OBVIOUS
<1>2. \A x \in S : x.ch \in C /\ x.priority = p[x.ch]
  <2> SUFFICES ASSUME NEW x \in cache, x.route = r PROVE x.ch \in C /\ x.priority = p[x.ch]
    OBVIOUS
  <2>1. cache = CacheOf(EnabledRows(channel))
    BY DEF RoutingInv, CacheIsFresh
  <2>2. PICK y \in EnabledRows(channel) : \E q \in y.routes : x = [route |-> q, ch |-> y.ch, priority |-> y.priority]
    BY <2>1 DEF CacheOf
  <2>3. PICK c \in Channels : /\ channel[c].there /\ channel[c].status = Enabled
                             /\ y = [ch |-> c, routes |-> channel[c].routes, priority |-> channel[c].priority]
    BY DEF EnabledRows
  <2> QED BY <1>1, <2>2, <2>3
<1>3. \A c \in C : \E x \in S : x.ch = c
  <2> SUFFICES ASSUME NEW c \in C PROVE \E x \in cache : x.route = r /\ x.ch = c
    OBVIOUS
  <2>1. PICK y : y = [ch |-> c, routes |-> channel[c].routes, priority |-> channel[c].priority]
    OBVIOUS
  <2>2. y \in EnabledRows(channel) /\ r \in y.routes /\ y.ch = c
    BY <2>1 DEF EnabledRows
  <2>3. [route |-> r, ch |-> y.ch, priority |-> y.priority] \in CacheOf(EnabledRows(channel))
    BY <2>2 DEF CacheOf
  <2> QED BY <2>2, <2>3 DEF RoutingInv, CacheIsFresh
<1>4. \A a \in on : a.ch \in C /\ a.priority = p[a.ch]
  <2> SUFFICES ASSUME NEW a \in ability, a.route = r, a.enabled PROVE a.ch \in C /\ a.priority = p[a.ch]
    OBVIOUS
  <2>1. PICK c \in Channels : c = a.ch
    BY DEF RoutingInv, RoutingShape, TablesShape, Ability
  <2>2. PICK row, en : row = channel[c] /\ en = (channel[c].status = Enabled)
    OBVIOUS
  <2>3. a \in Asked(c, row, en)
    BY <2>1, <2>2, QuietChannels DEF AbilitiesOf
  <2>4. PICK q \in row.routes : row.there /\ a = [route |-> q, ch |-> c, enabled |-> en, priority |-> row.priority]
    BY <2>3 DEF Asked
  <2>5. q = r /\ en /\ a.ch = c /\ a.priority = row.priority
    BY <2>4
  <2> QED BY <1>1, <2>1, <2>2, <2>4, <2>5
<1>5. \A c \in C : \E a \in on : a.ch = c
  <2> SUFFICES ASSUME NEW c \in C PROVE \E a \in ability : a.route = r /\ a.enabled /\ a.ch = c
    OBVIOUS
  <2>1. PICK row, en : row = channel[c] /\ en = (channel[c].status = Enabled)
    OBVIOUS
  <2>2. [route |-> r, ch |-> c, enabled |-> en, priority |-> row.priority] \in Asked(c, row, en)
    BY <2>1 DEF Asked
  <2>3. [route |-> r, ch |-> c, enabled |-> en, priority |-> row.priority] \in ability
    BY <2>1, <2>2, QuietChannels DEF AbilitiesOf
  <2> QED BY <2>1, <2>3
<1> HIDE DEF S, on, C
<1>6. ChannelsOf(Top(S)) = Foremost(C, p) /\ ChannelsOf(Top(on)) = Foremost(C, p)
  <2>1. ChannelsOf(Top(S)) = Foremost(C, p)
    BY <1>2, <1>3, TopOfChannels
  <2>2. ChannelsOf(Top(on)) = Foremost(C, p)
    BY <1>4, <1>5, TopOfChannels
  <2> QED BY <2>1, <2>2
<1>7. FirstChoice(S) \subseteq S
  BY DEF FirstChoice, Top
<1>8. CacheGetRandomSatisfiedChannel(r, FALSE) = {x.ch : x \in FirstChoice(S)}
  BY DEF CacheGetRandomSatisfiedChannel, S
<1>9. \A c \in CacheGetRandomSatisfiedChannel(r, TRUE) : c \in C
  BY <1>2, <1>7 DEF CacheGetRandomSatisfiedChannel, S
<1>10. /\ GetRandomSatisfiedChannel(r, TRUE) = {a.ch : a \in on}
       /\ GetRandomSatisfiedChannel(r, FALSE) = {a.ch : a \in Top(on)}
  BY DEF GetRandomSatisfiedChannel, on
<1>11. \A c \in Distribute(r, {}) : channel[c].there /\ channel[c].status = Enabled /\ r \in channel[c].routes
  BY <1>2, <1>7, <1>8 DEF Distribute, C
<1>12. CacheGetRandomSatisfiedChannel(r, TRUE) \subseteq GetRandomSatisfiedChannel(r, TRUE)
  BY <1>5, <1>9, <1>10
<1>13. ASSUME \E x \in cache : x.route = r /\ x.priority > 0
       PROVE  CacheGetRandomSatisfiedChannel(r, FALSE) = GetRandomSatisfiedChannel(r, FALSE)
  <2>1. FirstChoice(S) = Top(S)
    BY <1>13 DEF FirstChoice, S
  <2> QED BY <1>6, <1>8, <1>10, <2>1 DEF ChannelsOf
<1> QED BY <1>11, <1>12, <1>13

LEMMA RoutingAlways == RoutingSpec => []RoutingInv
<1>1. RoutingInit => RoutingInv
  BY RoutingStart
<1>2. RoutingInv /\ [RoutingNext]_routingVars => RoutingInv'
  BY RoutingStep
<1> QED BY <1>1, <1>2, PTL DEF RoutingSpec

\* Every variable of the channels keeps its type.
THEOREM ChannelsAreTyped == RoutingSpec => []RoutingTypeOK
<1>1. RoutingInv => RoutingTypeOK
  BY RoutingShapeIsTyped DEF RoutingInv
<1> QED BY <1>1, RoutingAlways, PTL

\* However the handlers and sweeps interleave, a channel nobody is writing has
\* exactly the abilities its row asks for, unless two writers overlapped on it, a
\* statement failed or its row was gone.
THEOREM AbilitiesAlwaysFollow == RoutingSpec => []AbilitiesFollowChannels
<1>1. RoutingInv => AbilitiesFollowChannels
  <2> SUFFICES ASSUME RoutingInv PROVE AbilitiesFollowChannels
    OBVIOUS
  <2>1. \A c \in Channels \ broken : c \in Busy \/
          AbilitiesOf(ability, c) = Asked(c, channel[c], channel[c].status = Enabled)
    BY QuietChannels
  <2> QED BY <2>1 DEF AbilitiesFollowChannels, AbilitiesOf, Asked
<1> QED BY <1>1, RoutingAlways, PTL

\* Building the routing table ends the process only over a channel that was
\* written while it was built or whose two tables disagreed.
THEOREM OnlyChangedChannelsPanic == RoutingSpec => []PanicsOnlyOverChangedChannels
<1>1. RoutingInv => PanicsOnlyOverChangedChannels
  BY DEF RoutingInv
<1> QED BY <1>1, RoutingAlways, PTL

\* A routing table younger than the last write routes as the database would.
THEOREM FreshChoiceIsTheTables == RoutingSpec => []CachedChoiceIsTheTables
BY FreshCacheIsTheTables, RoutingAlways, PTL

-----------------------------------------------------------------------------
(* The success rate.  A goroutine that is alone in a channel's window is a   *)
(* known number of accesses away from what the outcomes consumed so far ask  *)
(* for.                                                                      *)

\* What a goroutine me of kind k, alone in window w, has found there so far, if
\* s are the outcomes the window is to hold.
Lag(k, me, w, s) ==
  /\ me.pc \in {"trim", "cut"} => s = Recent(Append(w, k)) /\ Len(w) <= MetricQueueSize + 1
  /\ me.pc = "cut" => Long(w)
  /\ me.pc \in {"trimmed", "append"} => s = Append(me.window, k)
  /\ me.pc = "read" => s = Append(w, k)
  /\ me.pc \in {"count", "rate", "judge", "reset"} => w = s
  /\ me.pc = "rate" => me.window = w
  /\ me.pc \in {"judge", "reset"} => me.rate = Rate(Successes(w), Len(w))
  /\ me.pc = "reset" => Len(w) >= MetricQueueSize /\ me.rate < MetricSuccessRateThreshold

MetricPcs == {"receive", "trim", "cut", "trimmed", "read", "append", "count", "rate", "judge", "reset"}

\* What consumeFail may have computed.
Rates == {100} \cup {Rate(Successes(w), n) : w \in Seq(Kinds), n \in Nat}
Goroutine == [pc : MetricPcs, ch : MetricChannels \cup {0}, window : Seq(Kinds), rate : Rates]
Verdict == [given : BOOLEAN, seen : Seq(Kinds), torn : BOOLEAN]

OutcomesShape ==
  outcomes \in 0 .. MaxOutcomes /\ emitted \in [MetricChannels -> [Kinds -> 0 .. outcomes]]
WindowsShape ==
  /\ store \in [MetricChannels -> Seq(Kinds)] /\ seen \in [MetricChannels -> Seq(Kinds)]
  /\ \A c \in MetricChannels : Len(seen[c]) <= MetricQueueSize + 1
ConsumersShape ==
  /\ consumer \in [Kinds -> Goroutine]
  /\ \A k \in Kinds :
       /\ InMap(k) => consumer[k].ch \in MetricChannels
       /\ consumer[k].pc \in {"count", "rate", "judge", "reset"} => k = Failure
ResultsShape ==
  /\ torn \subseteq MetricChannels /\ aborted \in {"no", "sliceBounds", "concurrentMapAccess"}
  /\ verdict \in [MetricChannels -> Verdict]
MetricShape == OutcomesShape /\ WindowsShape /\ ConsumersShape /\ ResultsShape

In(k, c) == InMap(k) /\ consumer[k].ch = c

MeetingsAreTorn == \A c \in MetricChannels : In(Success, c) /\ In(Failure, c) => c \in torn

LoneConsumer == \A c \in MetricChannels \ torn : \A k \in Kinds : In(k, c) => Lag(k, consumer[k], store[c], seen[c])

MetricInv ==
  MetricShape /\ MeetingsAreTorn /\ LoneConsumer /\ WindowIsRecent /\ DisabledOnEvidence

\* The oldest outcome goes exactly when the window is longer than its size.
LEMMA RecentOutcomes ==
  ASSUME NEW w \in Seq(Kinds), NEW x \in Kinds
  PROVE  /\ Recent(Append(w, x)) \in Seq(Kinds)
         /\ Len(Recent(Append(w, x))) <= MetricQueueSize + 1
         /\ Len(w) <= MetricQueueSize => Recent(Append(w, x)) = Append(w, x)
         /\ Len(w) = MetricQueueSize + 1 => Recent(Append(w, x)) = Append(Tail(w), x)
<1> DEFINE N == MetricQueueSize
           v == Append(w, x)
           m == IF Len(v) > N + 1 THEN Len(v) - N ELSE 1
<1>1. /\ N \in Nat /\ v \in Seq(Kinds) /\ Len(v) = Len(w) + 1 /\ Len(w) \in Nat /\ m \in Int
      /\ \A i \in 1 .. Len(w) : v[i] = w[i]
      /\ v[Len(w) + 1] = x /\ \A i \in 1 .. Len(v) : v[i] \in Kinds
  BY MetricAssumption
<1>2. Recent(v) = SubSeq(v, m, Len(v))
  BY DEF Recent
<1>3. \A i \in m .. Len(v) : v[i] \in Kinds
  BY <1>1
<1>4. /\ Recent(v) \in Seq(Kinds)
      /\ Len(Recent(v)) = IF m <= Len(v) THEN Len(v) - m + 1 ELSE 0
      /\ \A i \in 1 .. Len(v) - m + 1 : Recent(v)[i] = v[m + i - 1]
  <2> HIDE DEF m, v
  <2>1. Len(v) \in Int
    BY <1>1
  <2> QED BY <1>1, <1>2, <1>3, <2>1, SubSeqProperties
<1>5. Len(Recent(v)) <= N + 1
  <2>1. CASE Len(v) > N + 1
    <3>1. m = Len(v) - N
      BY <2>1
    <3> HIDE DEF v, m
    <3> QED BY <1>1, <1>4, <3>1
  <2>2. CASE ~(Len(v) > N + 1)
    <3>1. m = 1
      BY <2>2
    <3> HIDE DEF v, m
    <3> QED BY <1>1, <1>4, <3>1, <2>2
  <2> QED BY <2>1, <2>2
<1>6. ASSUME Len(w) <= N PROVE Recent(v) = v
  <2>1. m = 1
    BY <1>1, <1>6
  <2> HIDE DEF m, v
  <2> QED BY <1>1, <1>2, <2>1, SubSeqFull
<1>7. ASSUME Len(w) = N + 1 PROVE Recent(v) = Append(Tail(w), x)
  <2>1. m = 2 /\ w # <<>>
    BY <1>1, <1>7
  <2>2. /\ Tail(w) \in Seq(Kinds) /\ Len(Tail(w)) = Len(w) - 1
        /\ \A i \in 1 .. Len(Tail(w)) : Tail(w)[i] = w[i + 1]
    BY <2>1, HeadTailProperties
  <2>3. /\ Append(Tail(w), x) \in Seq(Kinds) /\ Len(Append(Tail(w), x)) = Len(w)
        /\ \A i \in 1 .. Len(w) - 1 : Append(Tail(w), x)[i] = w[i + 1]
        /\ Append(Tail(w), x)[Len(w)] = x
    BY <2>2, <1>1
  <2>4. Len(Recent(v)) = Len(w) /\ \A i \in 1 .. Len(w) : Recent(v)[i] = v[i + 1]
    BY <2>1, <1>1, <1>4
  <2>5. \A i \in 1 .. Len(w) : Recent(v)[i] = Append(Tail(w), x)[i]
    <3> SUFFICES ASSUME NEW i \in 1 .. Len(w) PROVE Recent(v)[i] = Append(Tail(w), x)[i]
      OBVIOUS
    <3>1. CASE i = Len(w)
      BY <3>1, <2>3, <2>4, <1>1
    <3>2. CASE i \in 1 .. Len(w) - 1
      BY <3>2, <2>3, <2>4, <1>1
    <3> QED BY <3>1, <3>2, <1>1
  <2> HIDE DEF v
  <2> QED BY <2>3, <2>4, <2>5, <1>4, SeqEqual
<1> QED BY <1>4, <1>5, <1>6, <1>7

LEMMA MetricStart == MetricInit => MetricInv
<1> SUFFICES ASSUME MetricInit PROVE MetricInv
  OBVIOUS
<1>1. AtRest \in Goroutine /\ AtRest.pc = "receive"
  BY EmptySeq DEF AtRest, Goroutine, Rates, MetricPcs
<1>2. NoVerdict \in Verdict /\ NoVerdict.given = FALSE
  BY EmptySeq DEF NoVerdict, Verdict
<1>3. \A k \in Kinds : consumer[k] = AtRest
  BY DEF MetricInit
<1>4. \A k \in Kinds : ~InMap(k)
  BY <1>1, <1>3 DEF InMap
<1>5. OutcomesShape
  BY MetricAssumption DEF MetricInit, OutcomesShape
<1>6. WindowsShape
  BY MetricAssumption, EmptySeq DEF MetricInit, WindowsShape
<1>7. ConsumersShape
  BY <1>1, <1>3, <1>4 DEF MetricInit, ConsumersShape
<1>8. ResultsShape
  BY <1>2 DEF MetricInit, ResultsShape
<1>9. MeetingsAreTorn /\ LoneConsumer
  BY <1>4 DEF MeetingsAreTorn, LoneConsumer, In, Kinds
<1>10. WindowIsRecent
  BY DEF MetricInit, WindowIsRecent
<1>11. DisabledOnEvidence
  BY <1>2 DEF MetricInit, DisabledOnEvidence
<1> QED BY <1>5, <1>6, <1>7, <1>8, <1>9, <1>10, <1>11 DEF MetricInv, MetricShape

\* There are two goroutines.
LEMMA TwoGoroutines ==
  ASSUME NEW k \in Kinds
  PROVE  /\ Other(k) \in Kinds /\ Other(k) # k
         /\ \A j \in Kinds : j = k \/ j = Other(k)
BY DEF Kinds, Other, Success, Failure

LEMMA EmitKeeps ==
  ASSUME MetricInv, NEW c \in MetricChannels, NEW k \in Kinds, Emit(c, k)
  PROVE  MetricInv'
<1>1. /\ outcomes \in 0 .. MaxOutcomes /\ MaxOutcomes \in Nat
      /\ emitted \in [MetricChannels -> [Kinds -> 0 .. outcomes]]
  BY MetricAssumption DEF MetricInv, MetricShape, OutcomesShape
<1>2. /\ outcomes < MaxOutcomes /\ outcomes' = outcomes + 1
      /\ emitted' = [emitted EXCEPT ![c][k] = @ + 1]
      /\ UNCHANGED <<store, consumer, aborted, seen, torn, verdict>>
  BY DEF Emit
<1>3. \A d \in MetricChannels, j \in Kinds :
        emitted[d][j] \in 0 .. outcomes' /\ emitted[d][j] + 1 \in 0 .. outcomes'
  BY <1>1, <1>2
<1>4. OutcomesShape'
  BY <1>1, <1>2, <1>3 DEF OutcomesShape
<1>5. WindowsShape' /\ ConsumersShape' /\ ResultsShape'
  BY <1>2 DEF MetricInv, MetricShape, WindowsShape, ConsumersShape, ResultsShape, InMap
<1>6. MeetingsAreTorn'
  BY <1>2 DEF MetricInv, MeetingsAreTorn, In, InMap
<1>7. LoneConsumer'
  BY <1>2 DEF MetricInv, LoneConsumer, In, InMap
<1>8. WindowIsRecent'
  BY <1>2 DEF MetricInv, WindowIsRecent, InMap
<1>9. DisabledOnEvidence'
  BY <1>2 DEF MetricInv, DisabledOnEvidence
<1> QED BY <1>4, <1>5, <1>6, <1>7, <1>8, <1>9 DEF MetricInv, MetricShape

\* Without a meeting there is one goroutine in a window.
LEMMA AloneInWindow ==
  ASSUME MetricInv, NEW k \in Kinds, NEW c \in MetricChannels, c \notin torn, In(k, c)
  PROVE  ~In(Other(k), c)
BY TwoGoroutines DEF MetricInv, MeetingsAreTorn, Kinds

\* An access of goroutine k to the window of its channel c that leaves it new,
\* and the window nw.
Access(k, c, new, nw) ==
  /\ InMap(k) /\ c = consumer[k].ch /\ new \in Goroutine /\ nw \in Seq(Kinds)
  /\ consumer' = [consumer EXCEPT ![k] = new] /\ store' = [store EXCEPT ![c] = nw]
  /\ new.pc # "receive" => new.ch = c
  /\ new.pc \in {"count", "rate", "judge", "reset"} => k = Failure
  /\ UNCHANGED <<emitted, aborted, seen, torn, verdict, outcomes>>
  /\ c \notin torn => /\ new.pc = "receive" => nw = seen[c]
                      /\ new.pc # "receive" => Lag(k, new, nw, seen[c])

LEMMA AccessKeeps ==
  ASSUME MetricInv, NEW k \in Kinds, NEW c, NEW new, NEW nw, Access(k, c, new, nw)
  PROVE  MetricInv'
<1> USE DEF Access
<1>1. /\ c \in MetricChannels /\ consumer \in [Kinds -> Goroutine]
      /\ store \in [MetricChannels -> Seq(Kinds)]
  BY DEF MetricInv, MetricShape, ConsumersShape, WindowsShape
<1>2. /\ consumer'[k] = new /\ store'[c] = nw
      /\ \A j \in Kinds : j # k => consumer'[j] = consumer[j]
      /\ \A d \in MetricChannels : d # c => store'[d] = store[d]
      /\ In(k, c)
  BY <1>1 DEF In
<1>3. \A j \in Kinds : j # k => InMap(j)' = InMap(j) /\ \A d : In(j, d)' = In(j, d)
  BY <1>2 DEF InMap, In
<1>4. InMap(k)' => new.pc # "receive"
  BY <1>2 DEF InMap
<1>5. \A d : In(k, d)' => d = c
  BY <1>2, <1>4 DEF In
<1>6. OutcomesShape' /\ WindowsShape' /\ ResultsShape'
  BY <1>1 DEF MetricInv, MetricShape, OutcomesShape, WindowsShape, ResultsShape
<1>7. ConsumersShape'
  <2>1. consumer' \in [Kinds -> Goroutine]
    BY <1>1
  <2>2. ASSUME NEW j \in Kinds
        PROVE  /\ InMap(j)' => consumer'[j].ch \in MetricChannels
               /\ consumer'[j].pc \in {"count", "rate", "judge", "reset"} => j = Failure
    <3>1. CASE j = k
      BY <3>1, <1>1, <1>2, <1>4
    <3>2. CASE j # k
      BY <3>2, <1>2, <1>3 DEF MetricInv, MetricShape, ConsumersShape
    <3> QED BY <3>1, <3>2
  <2> QED BY <2>1, <2>2 DEF ConsumersShape
<1>8. MeetingsAreTorn'
  <2> SUFFICES ASSUME NEW d \in MetricChannels, In(Success, d)', In(Failure, d)'
               PROVE  d \in torn
    BY DEF MeetingsAreTorn
  <2>1. Success \in Kinds /\ Failure \in Kinds
    BY DEF Kinds
  <2>2. In(Success, d) /\ In(Failure, d)
    BY <1>2, <1>3, <1>5, <2>1
  <2> QED BY <2>2 DEF MetricInv, MeetingsAreTorn
<1>9. LoneConsumer'
  <2> SUFFICES ASSUME NEW d \in MetricChannels, d \notin torn, NEW j \in Kinds, In(j, d)'
               PROVE  Lag(j, consumer'[j], store'[d], seen[d])
    BY DEF LoneConsumer
  <2>1. CASE j = k
    BY <2>1, <1>2, <1>4, <1>5 DEF In
  <2>2. CASE j # k
    <3>1. In(j, d) /\ consumer'[j] = consumer[j]
      BY <2>2, <1>2, <1>3
    <3>2. d # c
      BY <3>1, <2>2, <1>2, TwoGoroutines DEF MetricInv, MeetingsAreTorn, Kinds
    <3> QED BY <3>1, <3>2, <1>2 DEF MetricInv, LoneConsumer
  <2> QED BY <2>1, <2>2
<1>10. WindowIsRecent'
  <2> SUFFICES ASSUME NEW d \in MetricChannels, d \notin torn, \A j \in Kinds : ~In(j, d)'
               PROVE  store'[d] = seen[d]
    BY DEF WindowIsRecent, In
  <2>1. CASE d = c
    BY <2>1, <1>2 DEF In, InMap
  <2>2. CASE d # c
    <3>1. \A j \in Kinds : ~In(j, d)
      BY <2>2, <1>2, <1>3 DEF In
    <3> QED BY <2>2, <3>1, <1>2 DEF MetricInv, WindowIsRecent, In
  <2> QED BY <2>1, <2>2
<1>11. DisabledOnEvidence'
  BY DEF MetricInv, DisabledOnEvidence
<1> QED BY <1>6, <1>7, <1>8, <1>9, <1>10, <1>11 DEF MetricInv, MetricShape

\* What a goroutine about to access the map knows.
LEMMA AccessFacts ==
  ASSUME MetricInv, NEW k \in Kinds, InMap(k), NEW c, c = consumer[k].ch
  PROVE  /\ c \in MetricChannels /\ store[c] \in Seq(Kinds) /\ Len(store[c]) \in Nat
         /\ consumer[k] \in Goroutine /\ consumer \in [Kinds -> Goroutine]
         /\ store = [store EXCEPT ![c] = store[c]]
         /\ consumer[k].pc \in {"count", "rate", "judge", "reset"} => k = Failure
         /\ c \notin torn => Lag(k, consumer[k], store[c], seen[c])
<1>1. /\ c \in MetricChannels /\ store \in [MetricChannels -> Seq(Kinds)]
      /\ consumer \in [Kinds -> Goroutine]
      /\ consumer[k].pc \in {"count", "rate", "judge", "reset"} => k = Failure
  BY DEF MetricInv, MetricShape, ConsumersShape, WindowsShape
<1>2. c \notin torn => Lag(k, consumer[k], store[c], seen[c])
  BY <1>1 DEF MetricInv, LoneConsumer, In
<1> QED BY <1>1, <1>2

LEMMA CheckKeeps ==
  ASSUME MetricInv, NEW k \in Kinds, Check(k)
  PROVE  MetricInv'
<1>1. PICK c : c = consumer[k].ch
  OBVIOUS
<1>2. consumer[k].pc = "trim" /\ InMap(k)
  BY DEF Check, InMap
<1>3. /\ c \in MetricChannels /\ store[c] \in Seq(Kinds) /\ Len(store[c]) \in Nat
      /\ consumer[k] \in Goroutine /\ consumer \in [Kinds -> Goroutine]
      /\ store = [store EXCEPT ![c] = store[c]]
      /\ c \notin torn => Lag(k, consumer[k], store[c], seen[c])
  BY <1>1, <1>2, AccessFacts
<1>4. PICK pc : /\ pc = (IF Long(store[c]) THEN "cut" ELSE "read")
                /\ consumer' = [consumer EXCEPT ![k].pc = pc]
  BY <1>1 DEF Check, Goto
<1>5. PICK new : new = [consumer[k] EXCEPT !.pc = pc]
  OBVIOUS
<1>6. /\ consumer' = [consumer EXCEPT ![k] = new] /\ new \in Goroutine
      /\ new.pc = pc /\ new.ch = c /\ pc \in {"cut", "read"}
  BY <1>1, <1>3, <1>4, <1>5 DEF Goroutine, MetricPcs
<1>7. ASSUME c \notin torn PROVE Lag(k, new, store[c], seen[c])
  <2>1. seen[c] = Recent(Append(store[c], k)) /\ Len(store[c]) <= MetricQueueSize + 1
    BY <1>2, <1>3, <1>7 DEF Lag
  <2>2. Len(store[c]) <= MetricQueueSize => Recent(Append(store[c], k)) = Append(store[c], k)
    BY <1>3, RecentOutcomes
  <2>3. CASE Long(store[c])
    BY <2>1, <2>3, <1>4, <1>6 DEF Lag
  <2>4. CASE ~Long(store[c])
    <3>1. Len(store[c]) <= MetricQueueSize /\ new.pc = "read"
      BY <2>4, <1>3, <1>4, <1>6, MetricAssumption DEF Long
    <3> QED BY <3>1, <2>1, <2>2 DEF Lag
  <2> QED BY <2>3, <2>4
<1>8. UNCHANGED <<store, emitted, aborted, seen, torn, verdict, outcomes>>
  BY DEF Check
<1> QED BY <1>1, <1>2, <1>3, <1>6, <1>7, <1>8, AccessKeeps DEF Access

LEMMA CutKeeps ==
  ASSUME MetricInv, NEW k \in Kinds, Cut(k)
  PROVE  MetricInv'
<1>1. PICK c : c = consumer[k].ch
  OBVIOUS
<1>2. consumer[k].pc = "cut" /\ InMap(k)
  BY DEF Cut, InMap
<1>3. /\ c \in MetricChannels /\ store[c] \in Seq(Kinds) /\ Len(store[c]) \in Nat
      /\ consumer[k] \in Goroutine /\ consumer \in [Kinds -> Goroutine]
      /\ store = [store EXCEPT ![c] = store[c]]
      /\ c \notin torn => Lag(k, consumer[k], store[c], seen[c])
  BY <1>1, <1>2, AccessFacts
<1>4. UNCHANGED <<store, emitted, seen, torn, verdict, outcomes>>
  BY DEF Cut
<1>5. CASE store[c] = <<>>
  <2>1. aborted' = "sliceBounds" /\ consumer' = consumer
    BY <1>1, <1>5 DEF Cut
  <2>2. OutcomesShape' /\ WindowsShape' /\ ConsumersShape' /\ ResultsShape'
    BY <1>4, <2>1
    DEF MetricInv, MetricShape, OutcomesShape, WindowsShape, ConsumersShape, ResultsShape, InMap
  <2>3. MeetingsAreTorn' /\ LoneConsumer' /\ WindowIsRecent' /\ DisabledOnEvidence'
    BY <1>4, <2>1
    DEF MetricInv, MeetingsAreTorn, LoneConsumer, WindowIsRecent, DisabledOnEvidence, In, InMap
  <2> QED BY <2>2, <2>3 DEF MetricInv, MetricShape
<1>6. CASE store[c] # <<>>
  <2>1. /\ consumer' = [consumer EXCEPT ![k].pc = "trimmed", ![k].window = Tail(store[c])]
        /\ aborted' = aborted
    BY <1>1, <1>6 DEF Cut
  <2>2. Tail(store[c]) \in Seq(Kinds)
    BY <1>3, <1>6, HeadTailProperties
  <2>3. PICK new : new = [consumer[k] EXCEPT !.pc = "trimmed", !.window = Tail(store[c])]
    OBVIOUS
  <2>4. /\ consumer' = [consumer EXCEPT ![k] = new] /\ new \in Goroutine
        /\ new.pc = "trimmed" /\ new.ch = c /\ new.window = Tail(store[c])
    BY <1>1, <1>3, <2>1, <2>2, <2>3 DEF Goroutine, MetricPcs
  <2>5. ASSUME c \notin torn PROVE Lag(k, new, store[c], seen[c])
    <3>1. /\ seen[c] = Recent(Append(store[c], k)) /\ Len(store[c]) <= MetricQueueSize + 1
          /\ Long(store[c])
      BY <1>2, <1>3, <2>5 DEF Lag
    <3>2. Len(store[c]) = MetricQueueSize + 1
      BY <3>1, <1>3, MetricAssumption DEF Long
    <3>3. seen[c] = Append(Tail(store[c]), k)
      BY <3>1, <3>2, <1>3, RecentOutcomes
    <3> QED BY <3>3, <2>4 DEF Lag
  <2>6. UNCHANGED <<emitted, aborted, seen, torn, verdict, outcomes>> /\ store' = store
    BY <1>4, <2>1
  <2> QED BY <1>1, <1>2, <1>3, <2>4, <2>5, <2>6, AccessKeeps DEF Access
<1> QED BY <1>5, <1>6

LEMMA StoreTrimmedKeeps ==
  ASSUME MetricInv, NEW k \in Kinds, StoreTrimmed(k)
  PROVE  MetricInv'
<1>1. PICK c : c = consumer[k].ch
  OBVIOUS
<1>2. consumer[k].pc = "trimmed" /\ InMap(k)
  BY DEF StoreTrimmed, InMap
<1>3. /\ c \in MetricChannels /\ consumer[k] \in Goroutine /\ consumer \in [Kinds -> Goroutine]
      /\ c \notin torn => Lag(k, consumer[k], store[c], seen[c])
  BY <1>1, <1>2, AccessFacts
<1>4. PICK nw \in Seq(Kinds) : nw = consumer[k].window
  BY <1>3 DEF Goroutine
<1>5. PICK new : new = [consumer[k] EXCEPT !.pc = "read"]
  OBVIOUS
<1>6. /\ consumer' = [consumer EXCEPT ![k] = new] /\ new \in Goroutine
      /\ new.pc = "read" /\ new.ch = c
  BY <1>1, <1>3, <1>5 DEF Goroutine, MetricPcs, StoreTrimmed, Goto
<1>7. c \notin torn => Lag(k, new, nw, seen[c])
  BY <1>2, <1>3, <1>4, <1>6 DEF Lag
<1>8. /\ store' = [store EXCEPT ![c] = nw]
      /\ UNCHANGED <<emitted, aborted, seen, torn, verdict, outcomes>>
  BY <1>1, <1>4 DEF StoreTrimmed
<1> QED BY <1>1, <1>2, <1>3, <1>6, <1>7, <1>8, AccessKeeps DEF Access

LEMMA ReadWindowKeeps ==
  ASSUME MetricInv, NEW k \in Kinds, ReadWindow(k)
  PROVE  MetricInv'
<1>1. PICK c : c = consumer[k].ch
  OBVIOUS
<1>2. consumer[k].pc = "read" /\ InMap(k)
  BY DEF ReadWindow, InMap
<1>3. /\ c \in MetricChannels /\ store[c] \in Seq(Kinds)
      /\ consumer[k] \in Goroutine /\ consumer \in [Kinds -> Goroutine]
      /\ store = [store EXCEPT ![c] = store[c]]
      /\ c \notin torn => Lag(k, consumer[k], store[c], seen[c])
  BY <1>1, <1>2, AccessFacts
<1>5. PICK new : new = [consumer[k] EXCEPT !.pc = "append", !.window = store[c]]
  OBVIOUS
<1>6. /\ consumer' = [consumer EXCEPT ![k] = new] /\ new \in Goroutine
      /\ new.pc = "append" /\ new.ch = c /\ new.window = store[c]
  BY <1>1, <1>3, <1>5 DEF Goroutine, MetricPcs, ReadWindow
<1>7. c \notin torn => Lag(k, new, store[c], seen[c])
  BY <1>2, <1>3, <1>6 DEF Lag
<1>8. UNCHANGED <<store, emitted, aborted, seen, torn, verdict, outcomes>>
  BY DEF ReadWindow
<1> QED BY <1>1, <1>2, <1>3, <1>6, <1>7, <1>8, AccessKeeps DEF Access

LEMMA AppendOutcomeKeeps ==
  ASSUME MetricInv, NEW k \in Kinds, AppendOutcome(k)
  PROVE  MetricInv'
<1>1. PICK c : c = consumer[k].ch
  OBVIOUS
<1>2. consumer[k].pc = "append" /\ InMap(k)
  BY DEF AppendOutcome, InMap
<1>3. /\ c \in MetricChannels /\ consumer[k] \in Goroutine /\ consumer \in [Kinds -> Goroutine]
      /\ c \notin torn => Lag(k, consumer[k], store[c], seen[c])
  BY <1>1, <1>2, AccessFacts
<1>4. PICK x \in Kinds : /\ x = k \/ (Meets(k, c) /\ consumer[Other(k)].pc \in {"append", "count"})
                         /\ store' = [store EXCEPT ![c] = Append(consumer[k].window, x)]
  BY <1>1 DEF AppendOutcome
<1>5. c \notin torn => x = k
  BY <1>1, <1>2, <1>3, <1>4, AloneInWindow DEF Meets, In
<1>61. consumer[k].window \in Seq(Kinds)
  BY <1>3 DEF Goroutine
<1>62. Append(consumer[k].window, x) \in Seq(Kinds)
  <2>1. PICK w \in Seq(Kinds) : w = consumer[k].window
    BY <1>61
  <2> QED BY <2>1
<1>6. PICK nw \in Seq(Kinds) : nw = Append(consumer[k].window, x)
  BY <1>62
<1>7. c \notin torn => nw = seen[c]
  BY <1>2, <1>3, <1>5, <1>6 DEF Lag
<1>8. /\ store' = [store EXCEPT ![c] = nw]
      /\ UNCHANGED <<emitted, aborted, seen, torn, verdict, outcomes>>
  BY <1>1, <1>4, <1>6 DEF AppendOutcome
<1>9. CASE k = Success
  <2>1. consumer' = [consumer EXCEPT ![k] = AtRest]
    BY <1>9 DEF AppendOutcome
  <2>2. AtRest \in Goroutine /\ AtRest.pc = "receive"
    BY EmptySeq DEF AtRest, Goroutine, Rates, MetricPcs
  <2> QED BY <1>1, <1>2, <1>7, <1>8, <2>1, <2>2, AccessKeeps DEF Access
<1>10. CASE k # Success
  <2>1. k = Failure
    BY <1>10 DEF Kinds
  <2>2. PICK new : new = [consumer[k] EXCEPT !.pc = "count"]
    OBVIOUS
  <2>3. /\ consumer' = [consumer EXCEPT ![k] = new] /\ new \in Goroutine
        /\ new.pc = "count" /\ new.ch = c
    BY <1>1, <1>3, <1>10, <2>2 DEF Goroutine, MetricPcs, AppendOutcome, Goto
  <2>4. c \notin torn => Lag(k, new, nw, seen[c])
    BY <1>7, <2>3 DEF Lag
  <2> QED BY <1>1, <1>2, <1>8, <2>1, <2>3, <2>4, AccessKeeps DEF Access
<1> QED BY <1>9, <1>10

LEMMA CountKeeps ==
  ASSUME MetricInv, Count
  PROVE  MetricInv'
<1>0. PICK k \in Kinds : k = Failure
  BY DEF Kinds
<1>1. PICK c : c = consumer[k].ch
  OBVIOUS
<1>2. consumer[k].pc = "count" /\ InMap(k)
  BY <1>0 DEF Count, InMap
<1>3. /\ c \in MetricChannels /\ store[c] \in Seq(Kinds)
      /\ consumer[k] \in Goroutine /\ consumer \in [Kinds -> Goroutine]
      /\ store = [store EXCEPT ![c] = store[c]]
      /\ c \notin torn => Lag(k, consumer[k], store[c], seen[c])
  BY <1>1, <1>2, AccessFacts
<1>5. PICK new : new = [consumer[k] EXCEPT !.pc = "rate", !.window = store[c]]
  OBVIOUS
<1>6. /\ consumer' = [consumer EXCEPT ![k] = new] /\ new \in Goroutine
      /\ new.pc = "rate" /\ new.ch = c /\ new.window = store[c]
  BY <1>0, <1>1, <1>3, <1>5 DEF Goroutine, MetricPcs, Count
<1>7. c \notin torn => Lag(k, new, store[c], seen[c])
  BY <1>2, <1>3, <1>6 DEF Lag
<1>8. UNCHANGED <<store, emitted, aborted, seen, torn, verdict, outcomes>>
  BY DEF Count
<1> QED BY <1>0, <1>1, <1>2, <1>3, <1>6, <1>7, <1>8, AccessKeeps DEF Access

LEMMA SuccessRateKeeps ==
  ASSUME MetricInv, SuccessRate
  PROVE  MetricInv'
<1>0. PICK k \in Kinds : k = Failure
  BY DEF Kinds
<1>1. PICK c : c = consumer[k].ch
  OBVIOUS
<1>2. consumer[k].pc = "rate" /\ InMap(k)
  BY <1>0 DEF SuccessRate, InMap
<1>3. /\ c \in MetricChannels /\ store[c] \in Seq(Kinds) /\ Len(store[c]) \in Nat
      /\ consumer[k] \in Goroutine /\ consumer \in [Kinds -> Goroutine]
      /\ store = [store EXCEPT ![c] = store[c]]
      /\ c \notin torn => Lag(k, consumer[k], store[c], seen[c])
  BY <1>1, <1>2, AccessFacts
<1>4. PICK rate \in Rates : rate = Rate(Successes(consumer[k].window), Len(store[c]))
  BY <1>3 DEF Rates, Goroutine
<1>5. PICK new : new = [consumer[k] EXCEPT !.pc = "judge", !.rate = rate]
  OBVIOUS
<1>6. /\ consumer' = [consumer EXCEPT ![k] = new] /\ new \in Goroutine
      /\ new.pc = "judge" /\ new.ch = c /\ new.rate = rate
  BY <1>0, <1>1, <1>3, <1>4, <1>5 DEF Goroutine, MetricPcs, SuccessRate
<1>7. c \notin torn => Lag(k, new, store[c], seen[c])
  BY <1>2, <1>3, <1>4, <1>6 DEF Lag
<1>8. UNCHANGED <<store, emitted, aborted, seen, torn, verdict, outcomes>>
  BY DEF SuccessRate
<1> QED BY <1>0, <1>1, <1>2, <1>3, <1>6, <1>7, <1>8, AccessKeeps DEF Access

LEMMA JudgeKeeps ==
  ASSUME MetricInv, Judge
  PROVE  MetricInv'
<1>0. PICK k \in Kinds : k = Failure
  BY DEF Kinds
<1>1. PICK c : c = consumer[k].ch
  OBVIOUS
<1>2. consumer[k].pc = "judge" /\ InMap(k)
  BY <1>0 DEF Judge, InMap
<1>3. /\ c \in MetricChannels /\ store[c] \in Seq(Kinds)
      /\ consumer[k] \in Goroutine /\ consumer \in [Kinds -> Goroutine]
      /\ store = [store EXCEPT ![c] = store[c]]
      /\ c \notin torn => Lag(k, consumer[k], store[c], seen[c])
  BY <1>1, <1>2, AccessFacts
<1>8. UNCHANGED <<store, emitted, aborted, seen, torn, verdict, outcomes>>
  BY DEF Judge
<1>4. CASE TooLow(c)
  <2>1. PICK new : new = [consumer[k] EXCEPT !.pc = "reset"]
    OBVIOUS
  <2>2. /\ consumer' = [consumer EXCEPT ![k] = new] /\ new \in Goroutine
        /\ new.pc = "reset" /\ new.ch = c /\ new.rate = consumer[k].rate
    BY <1>0, <1>1, <1>3, <1>4, <2>1 DEF Goroutine, MetricPcs, Judge, Goto
  <2>3. c \notin torn => Lag(k, new, store[c], seen[c])
    BY <1>0, <1>2, <1>3, <1>4, <2>2 DEF Lag, TooLow
  <2> QED BY <1>0, <1>1, <1>2, <1>3, <1>8, <2>2, <2>3, AccessKeeps DEF Access
<1>5. CASE ~TooLow(c)
  <2>0. PICK new : new = AtRest
    OBVIOUS
  <2>1. consumer' = [consumer EXCEPT ![k] = new]
    BY <1>0, <1>1, <1>5, <2>0 DEF Judge
  <2>2. new \in Goroutine /\ new.pc = "receive"
    BY <2>0, EmptySeq DEF AtRest, Goroutine, Rates, MetricPcs
  <2>3. c \notin torn => store[c] = seen[c]
    BY <1>2, <1>3 DEF Lag
  <2>4. c \notin torn => Lag(k, new, store[c], seen[c])
    BY <2>2 DEF Lag
  <2> QED BY <1>1, <1>2, <1>3, <1>8, <2>1, <2>2, <2>3, <2>4, AccessKeeps DEF Access
<1> QED BY <1>4, <1>5

LEMMA ReceiveKeeps ==
  ASSUME MetricInv, NEW k \in Kinds, NEW c \in MetricChannels, Receive(k, c)
  PROVE  MetricInv'
<1>1. /\ consumer \in [Kinds -> Goroutine] /\ consumer[k].pc = "receive" /\ ~InMap(k)
      /\ seen \in [MetricChannels -> Seq(Kinds)] /\ store \in [MetricChannels -> Seq(Kinds)]
  BY DEF MetricInv, MetricShape, ConsumersShape, WindowsShape, Receive, InMap
<1>2. PICK new : new = [AtRest EXCEPT !.pc = "trim", !.ch = c]
  OBVIOUS
<1>3. new \in Goroutine /\ new.pc = "trim" /\ new.ch = c
  <2>1. new = [pc |-> "trim", ch |-> c, window |-> <<>>, rate |-> 100]
    BY <1>2 DEF AtRest
  <2>2. <<>> \in Seq(Kinds)
    BY EmptySeq
  <2> QED BY <2>1, <2>2 DEF Goroutine, Rates, MetricPcs
<1>4. PICK ns : ns = Recent(Append(seen[c], k))
  OBVIOUS
<1>5. /\ consumer' = [consumer EXCEPT ![k] = new] /\ seen' = [seen EXCEPT ![c] = ns]
      /\ torn' = (IF Meets(k, c) THEN torn \cup {c} ELSE torn)
      /\ emitted[c][k] > 0 /\ emitted' = [emitted EXCEPT ![c][k] = @ - 1]
      /\ UNCHANGED <<store, aborted, verdict, outcomes>>
  BY <1>2, <1>4 DEF Receive
<1>6. ns \in Seq(Kinds) /\ Len(ns) <= MetricQueueSize + 1
  BY <1>1, <1>4, RecentOutcomes
<1>7. /\ consumer'[k] = new /\ \A j \in Kinds : j # k => consumer'[j] = consumer[j]
      /\ seen'[c] = ns /\ \A d \in MetricChannels : d # c => seen'[d] = seen[d]
      /\ torn \subseteq torn'
  BY <1>1, <1>5
<1>8. /\ \A j \in Kinds : j # k => InMap(j)' = InMap(j) /\ \A d : In(j, d)' = In(j, d)
      /\ \A d : In(k, d)' => d = c
      /\ \A d : ~In(k, d)
  BY <1>1, <1>3, <1>7 DEF InMap, In
<1>9. OutcomesShape'
  <2>1. /\ outcomes \in 0 .. MaxOutcomes /\ MaxOutcomes \in Nat
        /\ emitted \in [MetricChannels -> [Kinds -> 0 .. outcomes]]
    BY MetricAssumption DEF MetricInv, MetricShape, OutcomesShape
  <2>2. emitted[c][k] - 1 \in 0 .. outcomes
    BY <2>1, <1>5
  <2> QED BY <2>1, <2>2, <1>5 DEF OutcomesShape
<1>10. WindowsShape'
  <2>1. seen' \in [MetricChannels -> Seq(Kinds)]
    BY <1>1, <1>5, <1>6
  <2>2. \A d \in MetricChannels : Len(seen'[d]) <= MetricQueueSize + 1
    BY <1>6, <1>7 DEF MetricInv, MetricShape, WindowsShape
  <2> QED BY <1>1, <1>5, <2>1, <2>2 DEF WindowsShape
<1>11. ConsumersShape'
  <2>1. consumer' \in [Kinds -> Goroutine]
    BY <1>1, <1>3, <1>5
  <2>2. ASSUME NEW j \in Kinds
        PROVE  /\ InMap(j)' => consumer'[j].ch \in MetricChannels
               /\ consumer'[j].pc \in {"count", "rate", "judge", "reset"} => j = Failure
    <3>1. CASE j = k
      BY <3>1, <1>3, <1>7
    <3>2. CASE j # k
      BY <3>2, <1>7, <1>8 DEF MetricInv, MetricShape, ConsumersShape
    <3> QED BY <3>1, <3>2
  <2> QED BY <2>1, <2>2 DEF ConsumersShape
<1>12. ResultsShape'
  <2>1. torn' \subseteq MetricChannels
    BY <1>5 DEF MetricInv, MetricShape, ResultsShape
  <2> QED BY <2>1, <1>5 DEF MetricInv, MetricShape, ResultsShape
<1>13. MeetingsAreTorn'
  <2> SUFFICES ASSUME NEW d \in MetricChannels, In(Success, d)', In(Failure, d)'
               PROVE  d \in torn'
    BY DEF MeetingsAreTorn
  <2>1. d = c /\ In(Other(k), c)
    BY <1>8, TwoGoroutines DEF MetricInv, MeetingsAreTorn, Kinds, Other
  <2> QED BY <2>1, <1>5 DEF Meets, In
<1>14. LoneConsumer'
  <2> SUFFICES ASSUME NEW d \in MetricChannels, d \notin torn', NEW j \in Kinds, In(j, d)'
               PROVE  Lag(j, consumer'[j], store'[d], seen'[d])
    BY DEF LoneConsumer
  <2>1. d \notin torn
    BY <1>7
  <2>2. CASE j = k
    <3>1. d = c /\ consumer'[j] = new /\ store'[d] = store[c] /\ seen'[d] = ns
      BY <2>2, <1>5, <1>7, <1>8
    <3>2. ~In(Other(k), c)
      BY <3>1, <1>5 DEF Meets, In
    <3>3. store[c] = seen[c]
      BY <3>1, <3>2, <2>1, <1>8, TwoGoroutines DEF MetricInv, WindowIsRecent, In
    <3>4. Len(store[c]) <= MetricQueueSize + 1
      BY <3>3 DEF MetricInv, MetricShape, WindowsShape
    <3> QED BY <3>1, <3>3, <3>4, <2>2, <1>3, <1>4 DEF Lag
  <2>3. CASE j # k
    <3>1. In(j, d) /\ consumer'[j] = consumer[j] /\ Lag(j, consumer[j], store[d], seen[d])
      BY <2>1, <2>3, <1>7, <1>8 DEF MetricInv, LoneConsumer
    <3>2. d # c
      BY <3>1, <2>3, <1>5, TwoGoroutines DEF Meets, In
    <3> QED BY <3>1, <3>2, <1>5, <1>7
  <2> QED BY <2>2, <2>3
<1>15. WindowIsRecent'
  <2> SUFFICES ASSUME NEW d \in MetricChannels, d \notin torn', \A j \in Kinds : ~In(j, d)'
               PROVE  store'[d] = seen'[d]
    BY DEF WindowIsRecent, In
  <2>1. In(k, c)'
    BY <1>3, <1>7 DEF In, InMap
  <2>2. d # c /\ \A j \in Kinds : ~In(j, d)
    BY <2>1, <1>8
  <2> QED BY <2>2, <1>5, <1>7 DEF MetricInv, WindowIsRecent, In
<1>16. DisabledOnEvidence'
  BY <1>5 DEF MetricInv, DisabledOnEvidence
<1> QED BY <1>9, <1>10, <1>11, <1>12, <1>13, <1>14, <1>15, <1>16 DEF MetricInv, MetricShape

\* The order to disable rests on the window it resets.
LEMMA ResetKeeps ==
  ASSUME MetricInv, Reset
  PROVE  MetricInv'
<1>0. PICK k \in Kinds : k = Failure
  BY DEF Kinds
<1>1. PICK c : c = consumer[k].ch
  OBVIOUS
<1>2. consumer[k].pc = "reset" /\ InMap(k)
  BY <1>0 DEF Reset, InMap
<1>3. /\ c \in MetricChannels /\ consumer \in [Kinds -> Goroutine]
      /\ c \notin torn => Lag(k, consumer[k], store[c], seen[c])
      /\ seen \in [MetricChannels -> Seq(Kinds)] /\ store \in [MetricChannels -> Seq(Kinds)]
      /\ verdict \in [MetricChannels -> Verdict] /\ torn \subseteq MetricChannels
  BY <1>1, <1>2, AccessFacts DEF MetricInv, MetricShape, WindowsShape, ResultsShape
<1>4. PICK new : new = AtRest
  OBVIOUS
<1>5. new \in Goroutine /\ new.pc = "receive"
  BY <1>4, EmptySeq DEF AtRest, Goroutine, Rates, MetricPcs
<1>6. PICK v : v = [given |-> TRUE, seen |-> seen[c], torn |-> c \in torn]
  OBVIOUS
<1>7. v \in Verdict /\ v.given /\ v.seen = seen[c] /\ (v.torn <=> c \in torn)
  <2>1. (c \in torn) \in BOOLEAN /\ seen[c] \in Seq(Kinds)
    BY <1>3
  <2>2. /\ v.given = TRUE /\ v.seen = seen[c] /\ v.torn = (c \in torn)
        /\ v = [given |-> TRUE, seen |-> seen[c], torn |-> v.torn]
    BY <1>6
  <2> QED BY <2>1, <2>2 DEF Verdict
<1>8. PICK e \in Seq(Kinds) : e = <<>>
  BY EmptySeq
<1>9. /\ consumer' = [consumer EXCEPT ![k] = new] /\ seen' = [seen EXCEPT ![c] = e]
      /\ store' = [store EXCEPT ![c] = e] /\ verdict' = [verdict EXCEPT ![c] = v]
      /\ torn' = (IF Meets(k, c) THEN torn ELSE torn \ {c})
      /\ UNCHANGED <<emitted, aborted, outcomes>>
  BY <1>0, <1>1, <1>4, <1>6, <1>8 DEF Reset
<1>10. /\ consumer'[k] = new /\ \A j \in Kinds : j # k => consumer'[j] = consumer[j]
       /\ seen'[c] = e /\ \A d \in MetricChannels : d # c => seen'[d] = seen[d]
       /\ store'[c] = e /\ \A d \in MetricChannels : d # c => store'[d] = store[d]
       /\ verdict'[c] = v /\ \A d \in MetricChannels : d # c => verdict'[d] = verdict[d]
       /\ \A d : d # c => (d \in torn' <=> d \in torn)
       /\ torn' \subseteq torn
  BY <1>3, <1>9
<1>11. /\ \A j \in Kinds : j # k => InMap(j)' = InMap(j) /\ \A d : In(j, d)' = In(j, d)
       /\ \A d : ~In(k, d)'
       /\ In(k, c)
  BY <1>1, <1>2, <1>5, <1>10 DEF InMap, In
<1>12. OutcomesShape'
  BY <1>9 DEF MetricInv, MetricShape, OutcomesShape
<1>13. WindowsShape'
  <2>1. seen' \in [MetricChannels -> Seq(Kinds)] /\ store' \in [MetricChannels -> Seq(Kinds)]
    BY <1>3, <1>9
  <2>2. \A d \in MetricChannels : Len(seen'[d]) <= MetricQueueSize + 1
    <3>1. Len(e) <= MetricQueueSize + 1
      BY <1>8, EmptySeq, MetricAssumption
    <3> QED BY <3>1, <1>10 DEF MetricInv, MetricShape, WindowsShape
  <2> QED BY <2>1, <2>2 DEF WindowsShape
<1>14. ConsumersShape'
  <2>1. consumer' \in [Kinds -> Goroutine]
    BY <1>3, <1>5, <1>9
  <2>2. ASSUME NEW j \in Kinds
        PROVE  /\ InMap(j)' => consumer'[j].ch \in MetricChannels
               /\ consumer'[j].pc \in {"count", "rate", "judge", "reset"} => j = Failure
    <3>1. CASE j = k
      BY <3>1, <1>5, <1>10 DEF InMap
    <3>2. CASE j # k
      BY <3>2, <1>10, <1>11 DEF MetricInv, MetricShape, ConsumersShape
    <3> QED BY <3>1, <3>2
  <2> QED BY <2>1, <2>2 DEF ConsumersShape
<1>15. ResultsShape'
  BY <1>3, <1>7, <1>9, <1>10 DEF MetricInv, MetricShape, ResultsShape
<1>16. MeetingsAreTorn'
  BY <1>0, <1>11 DEF MeetingsAreTorn
<1>17. LoneConsumer'
  <2> SUFFICES ASSUME NEW d \in MetricChannels, d \notin torn', NEW j \in Kinds, In(j, d)'
               PROVE  Lag(j, consumer'[j], store'[d], seen'[d])
    BY DEF LoneConsumer
  <2>1. j # k /\ In(j, d) /\ consumer'[j] = consumer[j]
    BY <1>10, <1>11
  <2>2. d # c
    <3> SUFFICES ASSUME d = c PROVE FALSE
      OBVIOUS
    <3>1. Meets(k, c)
      BY <2>1, TwoGoroutines DEF Meets, In
    <3>2. c \in torn
      BY <2>1, <1>0, <1>11, TwoGoroutines DEF MetricInv, MeetingsAreTorn, Kinds
    <3> QED BY <3>1, <3>2, <1>9
  <2> QED BY <2>1, <2>2, <1>10 DEF MetricInv, LoneConsumer
<1>18. WindowIsRecent'
  <2> SUFFICES ASSUME NEW d \in MetricChannels, d \notin torn', \A j \in Kinds : ~In(j, d)'
               PROVE  store'[d] = seen'[d]
    BY DEF WindowIsRecent, In
  <2>1. CASE d = c
    BY <2>1, <1>10
  <2>2. CASE d # c
    <3>1. d \notin torn /\ \A j \in Kinds : ~In(j, d)
      BY <2>2, <1>1, <1>10, <1>11 DEF In
    <3> QED BY <3>1, <2>2, <1>10 DEF MetricInv, WindowIsRecent, In
  <2> QED BY <2>1, <2>2
<1>19. DisabledOnEvidence'
  <2> SUFFICES ASSUME NEW d \in MetricChannels, verdict'[d].given, ~verdict'[d].torn
               PROVE  /\ Len(verdict'[d].seen) >= MetricQueueSize
                      /\ Rate(Successes(verdict'[d].seen), Len(verdict'[d].seen)) < MetricSuccessRateThreshold
    BY DEF DisabledOnEvidence
  <2>1. CASE d = c
    <3>1. c \notin torn /\ verdict'[d].seen = seen[c]
      BY <2>1, <1>7, <1>10
    <3>2. /\ store[c] = seen[c] /\ Len(store[c]) >= MetricQueueSize
          /\ Rate(Successes(store[c]), Len(store[c])) < MetricSuccessRateThreshold
      BY <3>1, <1>2, <1>3 DEF Lag
    <3> QED BY <3>1, <3>2
  <2>2. CASE d # c
    BY <2>2, <1>10 DEF MetricInv, DisabledOnEvidence
  <2> QED BY <2>1, <2>2
<1> QED BY <1>12, <1>13, <1>14, <1>15, <1>16, <1>17, <1>18, <1>19 DEF MetricInv, MetricShape

LEMMA ConcurrentMapAccessKeeps ==
  ASSUME MetricInv, ConcurrentMapAccess
  PROVE  MetricInv'
<1>1. /\ aborted' = "concurrentMapAccess"
      /\ UNCHANGED <<store, emitted, consumer, seen, torn, verdict, outcomes>>
  BY DEF ConcurrentMapAccess
<1>2. OutcomesShape' /\ WindowsShape' /\ ConsumersShape' /\ ResultsShape'
  BY <1>1
  DEF MetricInv, MetricShape, OutcomesShape, WindowsShape, ConsumersShape, ResultsShape, InMap
<1>3. MeetingsAreTorn' /\ LoneConsumer' /\ WindowIsRecent' /\ DisabledOnEvidence'
  BY <1>1
  DEF MetricInv, MeetingsAreTorn, LoneConsumer, WindowIsRecent, DisabledOnEvidence, In, InMap
<1> QED BY <1>2, <1>3 DEF MetricInv, MetricShape

LEMMA MetricStep == MetricInv /\ [MetricNext]_metricVars => MetricInv'
<1> SUFFICES ASSUME MetricInv, [MetricNext]_metricVars PROVE MetricInv'
  OBVIOUS
<1>1. ASSUME NEW c \in MetricChannels, NEW k \in Kinds, Emit(c, k) \/ Receive(k, c)
      PROVE  MetricInv'
  BY <1>1, EmitKeeps, ReceiveKeeps
<1>2. ASSUME NEW k \in Kinds,
             Check(k) \/ Cut(k) \/ StoreTrimmed(k) \/ ReadWindow(k) \/ AppendOutcome(k)
      PROVE  MetricInv'
  BY <1>2, CheckKeeps, CutKeeps, StoreTrimmedKeeps, ReadWindowKeeps, AppendOutcomeKeeps
<1>3. CASE Count \/ SuccessRate \/ Judge \/ Reset \/ ConcurrentMapAccess
  BY <1>3, CountKeeps, SuccessRateKeeps, JudgeKeeps, ResetKeeps, ConcurrentMapAccessKeeps
<1>4. CASE UNCHANGED metricVars
  <2>1. UNCHANGED <<store, emitted, consumer, aborted, seen, torn, verdict, outcomes>>
    BY <1>4 DEF metricVars
  <2>2. OutcomesShape' /\ WindowsShape' /\ ConsumersShape' /\ ResultsShape'
    BY <2>1
    DEF MetricInv, MetricShape, OutcomesShape, WindowsShape, ConsumersShape, ResultsShape, InMap
  <2>3. MeetingsAreTorn' /\ LoneConsumer' /\ WindowIsRecent' /\ DisabledOnEvidence'
    BY <2>1
    DEF MetricInv, MeetingsAreTorn, LoneConsumer, WindowIsRecent, DisabledOnEvidence, In, InMap
  <2> QED BY <2>2, <2>3 DEF MetricInv, MetricShape
<1> QED BY <1>1, <1>2, <1>3, <1>4 DEF MetricNext

LEMMA MetricTypes == MetricInv => MetricTypeOK
<1> SUFFICES ASSUME MetricInv PROVE MetricTypeOK
  OBVIOUS
<1>1. \A c \in MetricChannels, k \in Kinds : emitted[c][k] \in 0 .. MaxOutcomes
  BY MetricAssumption DEF MetricInv, MetricShape, OutcomesShape
<1>2. \A k \in Kinds : consumer[k].pc \in MetricPcs
  BY DEF MetricInv, MetricShape, ConsumersShape, Goroutine
<1> QED BY <1>1, <1>2 DEF MetricTypeOK, MetricInv, MetricShape, ResultsShape, MetricPcs

\* However the accesses of the two goroutines interleave, a window that only one
\* of them was in at a time holds the most recent outcomes consumed, and the
\* order to disable a channel rests on a full window of its own outcomes
\* (monitor/metric.go).
THEOREM ChannelsAreDisabledOnEvidence == MetricSpec => []RateIsMeasured
<1>1. MetricInv => RateIsMeasured
  BY MetricTypes DEF MetricInv, RateIsMeasured
<1> QED BY <1>1, MetricStart, MetricStep, PTL DEF MetricSpec
===============================================================================
