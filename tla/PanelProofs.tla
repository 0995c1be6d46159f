---------------------------- MODULE PanelProofs ----------------------------
(***************************************************************************)
(* The panel beside the bot, for every number of users, admins, updates in *)
(* progress and connections: who may act, who is left to, what is reported *)
(* and what is stored.                                                     *)
(***************************************************************************)
EXTENDS Panel, FiniteSetTheorems, TLAPS

Labels == {"idle", "tracking", "insert", "announce", "blocked", "language", "channel", "filter",
           "handler", "working", "done", "forget", "add", "remove", "gather", "toggle", "switch",
           "save_address", "save_network"}
Tasks == {"menu", "language", "add_start", "add_id", "add_level", "remove", "block_start", "block_id",
          "unblock", "toggle_block", "network", "address", "show_channels", "toggle_channel",
          "ask_channels", "list_channels"}
States == {"none", "admin_id", "level", "block_id", "address", "channels"}
Row == [blocked : BOOLEAN, language : BOOLEAN]
Chats == [state : States, target : Users \cup {None}, network : Networks \cup {None}]
Args == Users \cup {Support, Full} \cup Networks \cup {"names", "clear", "invalid", None}
Memos == Users \cup Networks \cup BOOLEAN \cup {None}
Handled == [pc : Labels, from : Users \cup {None}, task : Tasks \cup {None}, arg : Args, memo : Memos]
Pairs == [address : Networks \cup {None}, network : Networks \cup {None}]

RowTypes ==
    /\ user \in [Users -> Row \cup {None}]
    /\ admin \in [Users -> 0..3]
    /\ announced \in [Users -> Nat]
    /\ channels \in [on : BOOLEAN, listed : BOOLEAN]
    /\ chat \in [Users -> Chats]
    /\ settlement \in Pairs

Types == RowTypes /\ update \in [Updates -> Handled]

\* What an update in progress knows: whose it is, what its button or text
\* says, and what its handler has read.
UpdateOK(h) ==
    LET u == update[h] IN
    /\ u.pc # "idle" =>
         /\ u.from \in Users /\ u.task \in Tasks
         /\ u.task \in {"add_id", "remove", "block_id", "unblock", "toggle_block"} => u.arg \in Users
         /\ u.task = "add_level" => u.arg \in {Support, Full}
         /\ u.task = "network" => u.arg \in Networks
         /\ u.task = "address" => u.arg \in Networks \cup {None}
    /\ u.pc \notin {"idle", "tracking", "insert"} => user[u.from] # None
    /\ u.pc \in {"forget", "add"} => u.task = "add_level" /\ u.memo \in Users \cup {None}
    /\ u.pc = "add" => u.memo # None
    /\ u.pc = "remove" => u.task = "remove"
    /\ u.pc \in {"gather", "toggle"} => u.task = "toggle_block" /\ user[u.arg] # None
    /\ u.pc \in {"gather", "toggle", "switch"} => u.memo \in BOOLEAN
    /\ u.pc \in {"save_address", "save_network"} => u.task = "address" /\ u.memo \in Networks

UpdateInv == \A h \in Updates : UpdateOK(h)

\* Sessions are of updates in progress, and no more than the pool allows.
HeldInv ==
    /\ IsFiniteSet(held) /\ Cardinality(held) <= PoolSize
    /\ \A c \in held : c[1] \in Updates /\ update[c[1]].pc # "idle"

CoreInv == Types /\ UpdateInv

\* A new user is about to be reported by the one update that made the row.
AnnounceInv ==
    /\ \A u \in Users : announced[u] <= 1 /\ (announced[u] = 1 => user[u] # None)
    /\ \A h \in Updates : At(h, "announce") =>
         /\ announced[From(h)] = 0
         /\ \A g \in Updates : At(g, "announce") /\ From(g) = From(h) => g = h

\* Whoever is about to be removed leaves a full admin behind.
RemovalInv ==
    "removals" \notin raced =>
      /\ \E u \in Users : HasLevel(u, Full)
      /\ \A h \in Updates : At(h, "remove") =>
           /\ \E u \in Users : (u # update[h].arg /\ admin[u] = Full) \/ u \in Bootstrap
           /\ \A g \in Updates : At(g, "remove") => g = h

\* Who changes the address, from when the update arrives.
Settling(h) == ~At(h, "idle") /\ update[h].task \in {"network", "address"}

\* The network that is saved last is the one the address was meant for.
SettlementInv ==
    "saves" \notin raced =>
      /\ \A g, h \in Updates : Settling(g) /\ Settling(h) => g = h
      /\ \A h \in Updates : Settling(h) /\ update[h].task = "address" =>
           /\ update[h].pc \in {"tracking", "insert", "announce", "blocked", "language", "channel", "filter", "handler"}
                => chat[From(h)].network \in {None, update[h].arg}
           /\ update[h].pc \in {"save_address", "save_network"} => update[h].memo = update[h].arg
           /\ At(h, "save_network") => settlement.address = update[h].arg
      /\ (\A h \in Updates : ~At(h, "save_network")) => settlement.address = settlement.network

\* What has been true of a sender by the time the update has come this far.
AuthorityInv ==
    \A h \in Updates : ~At(h, "idle") =>
      /\ was[h] \in [free : BOOLEAN, level : BOOLEAN]
      /\ update[h].pc \notin {"tracking", "insert", "announce", "blocked"} => was[h].free
      /\ update[h].pc \notin {"tracking", "insert", "announce", "blocked", "language", "channel", "filter"}
           => was[h].level

-----------------------------------------------------------------------------
(* What the steps of a handler are made of *)

Others(h) == \A g \in Updates \ {h} : update'[g] = update[g]

\* A handler goes on: what the update is stays.
Moves(h, label, memo) ==
    /\ update' \in [Updates -> Handled] /\ Others(h)
    /\ update'[h].pc = label /\ update'[h].from = update[h].from
    /\ update'[h].task = update[h].task /\ update'[h].arg = update[h].arg
    /\ update'[h].memo = memo

Over(h) == update' \in [Updates -> Handled] /\ Others(h) /\ update'[h].pc = "idle"

LEMMA GotoMoves ==
  ASSUME Types, NEW h \in Updates, NEW label \in Labels, Goto(h, label)
  PROVE  Moves(h, label, update[h].memo)
BY DEF Types, Goto, Moves, Others, Handled

LEMMA ReadMoves ==
  ASSUME Types, NEW h \in Updates, NEW label \in Labels, NEW memo \in Memos,
         update' = [update EXCEPT ![h].pc = label, ![h].memo = memo]
  PROVE  Moves(h, label, memo)
BY DEF Types, Moves, Others, Handled

LEMMA EndsOver ==
  ASSUME Types, NEW h \in Updates, Ends(h)
  PROVE  Over(h)
<1>1. NoUpdate \in Handled
  BY DEF NoUpdate, Handled, Labels, Args, Memos
<1>2. NoUpdate.pc = "idle"
  BY DEF NoUpdate
<1> QED
  BY <1>1, <1>2 DEF Types, Ends, Over, Others

\* No row of a user is ever taken back.
Stay == \A u \in Users : user[u] # None => user'[u] # None

LEMMA OneStep ==
  ASSUME CoreInv, NEW h \in Updates, Others(h), Stay, update' \in [Updates -> Handled], RowTypes', UpdateOK(h)'
  PROVE  CoreInv'
<1> SUFFICES ASSUME NEW g \in Updates, g # h PROVE UpdateOK(g)'
  BY DEF CoreInv, Types, UpdateInv
<1>1. UpdateOK(g) /\ update'[g] = update[g]
  BY DEF CoreInv, UpdateInv, Others
<1>2. /\ user'[update[g].from] # None \/ update[g].pc \in {"idle", "tracking", "insert"}
      /\ update[g].pc \in {"gather", "toggle"} => user'[update[g].arg] # None
  BY <1>1 DEF UpdateOK, Stay
<1> QED
  BY <1>1, <1>2 DEF UpdateOK

LEMMA OverCore ==
  ASSUME CoreInv, NEW h \in Updates, Over(h), RowTypes', Stay
  PROVE  CoreInv'
<1>1. UpdateOK(h)'
  BY DEF Over, UpdateOK
<1> QED
  BY <1>1, OneStep DEF Over

LEMMA MoveCore ==
  ASSUME CoreInv, NEW h \in Updates, ~At(h, "idle"), RowTypes', Stay,
         NEW label \in Labels, NEW memo, Moves(h, label, memo),
         label \notin {"idle", "tracking", "insert"} => user'[From(h)] # None,
         label \in {"forget", "add"} => update[h].task = "add_level" /\ memo \in Users \cup {None},
         label = "add" => memo # None,
         label = "remove" => update[h].task = "remove",
         label \in {"gather", "toggle"} => update[h].task = "toggle_block" /\ user'[update[h].arg] # None,
         label \in {"gather", "toggle", "switch"} => memo \in BOOLEAN,
         label \in {"save_address", "save_network"} => update[h].task = "address" /\ memo \in Networks
  PROVE  CoreInv'
<1>1. UpdateOK(h)
  BY DEF CoreInv, UpdateInv
<1>2. UpdateOK(h)'
  BY <1>1 DEF UpdateOK, Moves, At, From
<1> QED
  BY <1>2, OneStep DEF Moves

\* A step that writes no row.
LEMMA RowsStay ==
  ASSUME RowTypes, UNCHANGED <<Rows, settlement>>
  PROVE  RowTypes' /\ Stay
BY DEF RowTypes, Rows, Stay

\* Most steps only take a handler from one place to the next.
Plain == Labels \ {"idle", "tracking", "forget", "add", "remove", "gather", "toggle", "switch",
                   "save_address", "save_network"}

LEMMA PlainCore ==
  ASSUME CoreInv, NEW h \in Updates, ~At(h, "idle"), RowTypes', Stay,
         NEW label \in Plain, Goto(h, label), label # "insert" => user'[From(h)] # None
  PROVE  CoreInv'
BY GotoMoves, MoveCore DEF Plain, CoreInv

-----------------------------------------------------------------------------
(* Every step keeps the types, and what an update knows *)

LEMMA RowFacts ==
  ASSUME CoreInv, NEW h \in Updates, ~At(h, "idle")
  PROVE  /\ Types /\ RowTypes /\ UpdateOK(h) /\ From(h) \in Users /\ update[h] \in Handled
         /\ update[h].pc \notin {"tracking", "insert"} => user[From(h)] # None
BY DEF CoreInv, Types, UpdateInv, UpdateOK, At, From

LEMMA NewRow ==
  ASSUME RowTypes, NEW u \in Users, NEW row \in Row, user' = [user EXCEPT ![u] = row],
         UNCHANGED <<admin, announced, channels, chat, settlement>>
  PROVE  RowTypes' /\ Stay /\ user'[u] # None
<1>1. row # None
  BY UpdatesAssumption DEF Row
<1> QED
  BY <1>1 DEF RowTypes, Stay

LEMMA NewChat ==
  ASSUME RowTypes, chat' \in [Users -> Chats],
         UNCHANGED <<user, admin, announced, channels, settlement>>
  PROVE  RowTypes' /\ Stay
BY DEF RowTypes, Stay

LEMMA MiddlewaresCore ==
  ASSUME CoreInv, NEW h \in Updates, Middlewares(h), UNCHANGED settlement
  PROVE  CoreInv'
<1>1. ASSUME Ends(h), UNCHANGED Rows PROVE CoreInv'
  BY <1>1, EndsOver, OverCore, RowsStay DEF CoreInv, Types
<1>2. ASSUME ~At(h, "idle"), UNCHANGED Rows, NEW label \in Plain, Goto(h, label),
             label # "insert" => user[From(h)] # None
      PROVE  CoreInv'
  BY <1>2, PlainCore, RowsStay DEF CoreInv, Types, Rows
<1>3. CASE \/ InsertRefused(h) \/ Blocked(h) \/ AskLanguage(h) \/ AskToJoin(h) \/ NoPermission(h)
           \/ Finish(h) \/ PoolTimeout(h)
  BY <1>1, <1>3 DEF InsertRefused, Blocked, AskLanguage, AskToJoin, NoPermission, Finish, PoolTimeout
<1>4. CASE KnownUser(h) \/ FirstSeen(h)
  BY <1>2, <1>4 DEF KnownUser, FirstSeen, At, Plain, Labels
<1>5. CASE \/ PassBlock(h) \/ PassLanguage(h) \/ Exempt(h) \/ Member(h) \/ Permit(h)
  <2>1. PICK label \in {"language", "channel", "filter", "handler"} :
          /\ Goto(h, label) /\ UNCHANGED Rows
          /\ update[h].pc \in {"blocked", "language", "channel", "filter"}
    BY <1>5 DEF PassBlock, PassLanguage, Exempt, Member, Permit, At
  <2>2. ~At(h, "idle") /\ user[From(h)] # None
    BY <2>1, RowFacts DEF At
  <2> QED
    BY <1>2, <2>1, <2>2 DEF Plain, Labels
<1>6. CASE InsertUser(h)
  <2>1. At(h, "insert") /\ ~At(h, "idle") /\ Goto(h, "announce")
    BY <1>6 DEF InsertUser, At
  <2>2. RowTypes' /\ Stay /\ user'[From(h)] # None
    BY <1>6, <2>1, RowFacts, NewRow DEF InsertUser, Row
  <2> QED
    BY <2>1, <2>2, PlainCore DEF Plain, Labels
<1>7. CASE Announce(h)
  <2>1. ~At(h, "idle") /\ Goto(h, "blocked") /\ user[From(h)] # None
    BY <1>7, RowFacts DEF Announce, At
  <2>2. RowTypes' /\ Stay /\ user' = user
    BY <1>7, <2>1, RowFacts DEF Announce, RowTypes, Stay
  <2> QED
    BY <2>1, <2>2, PlainCore DEF Plain, Labels
<1> QED
  BY <1>3, <1>4, <1>5, <1>6, <1>7 DEF Middlewares

LEMMA IdleChat == Idle \in Chats
BY DEF Idle, Chats, States

\* Screens, and conversations that begin.
LEMMA ScreensCore ==
  ASSUME CoreInv, NEW h \in Updates,
         \/ OpenScreen(h) \/ ShowScreen(h) \/ ChooseLanguage(h) \/ Ask(h) \/ ReceiveId(h)
         \/ ShowChannels(h) \/ AskChannels(h) \/ ReceiveChannels(h)
  PROVE  CoreInv'
<1>0. update[h].pc \in {"handler", "working"}
  BY DEF OpenScreen, ShowScreen, ChooseLanguage, Ask, ReceiveId, ShowChannels, AskChannels, ReceiveChannels,
     Runs, At
<1>1. /\ ~At(h, "idle") /\ RowTypes /\ UpdateOK(h) /\ From(h) \in Users /\ user[From(h)] # None
      /\ chat \in [Users -> Chats] /\ user[From(h)] \in Row
  BY <1>0, RowFacts DEF At, RowTypes
<1>2. ASSUME NEW label \in {"working", "done"}, Goto(h, label), RowTypes', Stay PROVE CoreInv'
  <2>1. user'[From(h)] # None
    BY <1>1, <1>2 DEF Stay
  <2> QED
    BY <1>1, <1>2, <2>1, PlainCore DEF Plain, Labels
<1>3. CASE OpenScreen(h) \/ ShowScreen(h)
  BY <1>1, <1>2, <1>3, RowsStay DEF OpenScreen, ShowScreen
<1>4. CASE ChooseLanguage(h)
  <2>1. /\ [user[From(h)] EXCEPT !.language = TRUE] \in Row
        /\ user' = [user EXCEPT ![From(h)] = [user[From(h)] EXCEPT !.language = TRUE]]
    BY <1>1, <1>4 DEF ChooseLanguage, Row
  <2>2. RowTypes' /\ Stay
    BY <1>1, <1>4, <2>1, NewRow DEF ChooseLanguage
  <2> QED
    BY <1>2, <1>4, <2>2 DEF ChooseLanguage
<1>5. CASE Ask(h)
  <2>1. update[h].task = "network" => update[h].arg \in Networks
    BY <1>0, <1>1 DEF UpdateOK
  <2>2. chat' \in [Users -> Chats]
    BY <1>1, <1>5, <2>1 DEF Ask, Chats, States
  <2> QED
    BY <1>1, <1>2, <1>5, <2>2, NewChat DEF Ask
<1>6. CASE ReceiveId(h)
  <2>1. update[h].arg \in Users
    BY <1>0, <1>1, <1>6 DEF UpdateOK, ReceiveId, Runs, At
  <2>2. chat' \in [Users -> Chats]
    BY <1>1, <1>6, <2>1 DEF ReceiveId, Chats, States
  <2> QED
    BY <1>1, <1>2, <1>6, <2>2, NewChat DEF ReceiveId
<1>7. CASE ShowChannels(h) \/ AskChannels(h)
  <2>1. chat' \in [Users -> Chats]
    BY <1>1, <1>7, IdleChat DEF ShowChannels, AskChannels, Chats, States
  <2> QED
    BY <1>1, <1>2, <1>7, <2>1, NewChat DEF ShowChannels, AskChannels
<1>8. CASE ReceiveChannels(h)
  <2>1. chat' \in [Users -> Chats]
    BY <1>1, <1>8, IdleChat DEF ReceiveChannels
  <2>2. channels' \in [on : BOOLEAN, listed : BOOLEAN]
    BY <1>1, <1>8 DEF ReceiveChannels, RowTypes
  <2>3. RowTypes' /\ Stay
    BY <1>1, <1>8, <2>1, <2>2 DEF ReceiveChannels, RowTypes, Stay
  <2> QED
    BY <1>2, <1>8, <2>3 DEF ReceiveChannels
<1> QED
  BY <1>3, <1>4, <1>5, <1>6, <1>7, <1>8

\* Admins are added and removed.
LEMMA AdminsCore ==
  ASSUME CoreInv, NEW h \in Updates,
         \/ ReceiveLevel(h) \/ Forget(h) \/ AddAdmin(h) \/ AddRefused(h)
         \/ RefuseRemoval(h) \/ CheckRemoval(h) \/ RemoveAdmin(h)
  PROVE  CoreInv'
<1>0. update[h].pc \in {"handler", "forget", "add", "remove"}
  BY DEF ReceiveLevel, Forget, AddAdmin, AddRefused, RefuseRemoval, CheckRemoval, RemoveAdmin, Runs, At
<1>1. /\ ~At(h, "idle") /\ Types /\ RowTypes /\ UpdateOK(h) /\ From(h) \in Users /\ user[From(h)] # None
      /\ chat \in [Users -> Chats] /\ admin \in [Users -> 0..3]
  BY <1>0, RowFacts DEF At, RowTypes
<1>2. CASE ReceiveLevel(h)
  <2>1. /\ update[h].task = "add_level" /\ chat[From(h)].target \in Users \cup {None}
        /\ update' = [update EXCEPT ![h].pc = "forget", ![h].memo = chat[From(h)].target]
    BY <1>1, <1>2 DEF ReceiveLevel, Runs, Chats
  <2>2. Moves(h, "forget", chat[From(h)].target)
    BY <1>1, <2>1, ReadMoves DEF Labels, Memos
  <2>3. RowTypes' /\ Stay /\ user' = user
    BY <1>1, <1>2, RowsStay DEF ReceiveLevel, Rows
  <2> QED
    BY <1>1, <2>1, <2>2, <2>3, MoveCore DEF Labels
<1>3. CASE Forget(h)
  <2>1. RowTypes' /\ Stay /\ user' = user
    BY <1>1, <1>3, IdleChat, NewChat DEF Forget
  <2>2. CASE update[h].memo = None
    BY <1>1, <1>3, <2>1, <2>2, PlainCore DEF Forget, Plain, Labels
  <2>3. CASE update[h].memo # None
    <3>1. Moves(h, "add", update[h].memo)
      BY <1>1, <1>3, <2>3, GotoMoves DEF Forget, Labels
    <3>2. update[h].task = "add_level" /\ update[h].memo \in Users \cup {None}
      BY <1>1, <1>3 DEF Forget, At, UpdateOK
    <3> QED
      BY <1>1, <2>1, <2>3, <3>1, <3>2, MoveCore DEF Labels
  <2> QED
    BY <2>2, <2>3
<1>4. CASE AddAdmin(h) \/ RemoveAdmin(h)
  <2>1. admin' \in [Users -> 0..3]
    BY <1>1, <1>4 DEF AddAdmin, RemoveAdmin, At, UpdateOK, Support, Full
  <2>2. RowTypes' /\ Stay /\ user' = user
    BY <1>1, <1>4, <2>1 DEF AddAdmin, RemoveAdmin, RowTypes, Stay
  <2> QED
    BY <1>1, <1>4, <2>2, PlainCore DEF AddAdmin, RemoveAdmin, Plain, Labels
<1>5. CASE AddRefused(h)
  BY <1>1, <1>5, EndsOver, OverCore, RowsStay DEF AddRefused
<1>6. CASE RefuseRemoval(h)
  <2>1. RowTypes' /\ Stay
    BY <1>1, <1>6, IdleChat, NewChat DEF RefuseRemoval
  <2> QED
    BY <1>1, <1>6, <2>1, EndsOver, OverCore DEF RefuseRemoval
<1>7. CASE CheckRemoval(h)
  <2>1. RowTypes' /\ Stay /\ user' = user
    BY <1>1, <1>7, IdleChat, NewChat DEF CheckRemoval
  <2>2. Moves(h, "remove", update[h].memo) /\ update[h].task = "remove"
    BY <1>1, <1>7, GotoMoves DEF CheckRemoval, Runs, Labels
  <2> QED
    BY <1>1, <2>1, <2>2, MoveCore DEF Labels
<1> QED
  BY <1>2, <1>3, <1>4, <1>5, <1>6, <1>7

\* Users are blocked and unblocked.
LEMMA BlocksCore ==
  ASSUME CoreInv, NEW h \in Updates,
         BlockId(h) \/ Unblock(h) \/ Gather(h) \/ Gathered(h) \/ ToggleBlock(h) \/ NotAUser(h)
  PROVE  CoreInv'
<1>0. update[h].pc \in {"handler", "gather", "toggle"}
  BY DEF BlockId, Unblock, Gather, Gathered, ToggleBlock, NotAUser, Runs, At
<1>1. /\ ~At(h, "idle") /\ Types /\ RowTypes /\ UpdateOK(h) /\ From(h) \in Users /\ user[From(h)] # None
      /\ chat \in [Users -> Chats] /\ user \in [Users -> Row \cup {None}]
  BY <1>0, RowFacts DEF At, RowTypes
<1>a. update[h].arg \in Users /\ (user[update[h].arg] # None => user[update[h].arg] \in Row)
  BY <1>1 DEF UpdateOK, BlockId, Unblock, Gather, Gathered, ToggleBlock, NotAUser, Runs, At
<1>2. ASSUME Goto(h, "done"), RowTypes', Stay PROVE CoreInv'
  <2>1. user'[From(h)] # None
    BY <1>1, <1>2 DEF Stay
  <2> QED
    BY <1>1, <1>2, <2>1, PlainCore DEF Plain, Labels
<1>3. ASSUME NEW blocked \in BOOLEAN, user[update[h].arg] # None,
             user' = [user EXCEPT ![update[h].arg].blocked = blocked], chat' \in [Users -> Chats],
             UNCHANGED <<admin, announced, channels, settlement>>
      PROVE  RowTypes' /\ Stay
  <2>1. /\ [user[update[h].arg] EXCEPT !.blocked = blocked] \in Row
        /\ user' = [user EXCEPT ![update[h].arg] = [user[update[h].arg] EXCEPT !.blocked = blocked]]
    BY <1>1, <1>a, <1>3 DEF Row
  <2>2. [user[update[h].arg] EXCEPT !.blocked = blocked] # None
    BY <2>1, UpdatesAssumption DEF Row
  <2> QED
    BY <1>1, <1>a, <1>3, <2>1, <2>2 DEF RowTypes, Stay
<1>4. CASE BlockId(h)
  <2>1. Goto(h, "done") /\ UNCHANGED <<admin, announced, channels, settlement>>
    BY <1>4 DEF BlockId
  <2>2. CASE user[update[h].arg] = None
    BY <1>1, <1>2, <1>4, <2>1, <2>2 DEF BlockId, RowTypes, Stay
  <2>3. CASE user[update[h].arg] # None
    BY <1>1, <1>2, <1>3, <1>4, <2>1, <2>3, IdleChat DEF BlockId
  <2> QED
    BY <2>2, <2>3
<1>5. CASE Unblock(h)
  <2>1. Goto(h, "done") /\ UNCHANGED <<admin, announced, channels, settlement>> /\ chat' \in [Users -> Chats]
    BY <1>1, <1>5, IdleChat DEF Unblock
  <2>2. CASE user[update[h].arg] = None
    BY <1>1, <1>2, <1>5, <2>1, <2>2 DEF Unblock, RowTypes, Stay
  <2>3. CASE user[update[h].arg] # None
    BY <1>1, <1>2, <1>3, <1>5, <2>1, <2>3 DEF Unblock
  <2> QED
    BY <2>2, <2>3
<1>6. CASE Gather(h)
  <2>1. /\ update[h].task = "toggle_block" /\ user[update[h].arg] # None
        /\ update' = [update EXCEPT ![h].pc = "gather", ![h].memo = user[update[h].arg].blocked]
        /\ user[update[h].arg].blocked \in BOOLEAN
    BY <1>a, <1>6 DEF Gather, Runs, Row
  <2>2. Moves(h, "gather", user[update[h].arg].blocked)
    BY <1>1, <2>1, ReadMoves DEF Labels, Memos
  <2>3. RowTypes' /\ Stay /\ user' = user
    BY <1>1, <1>6, IdleChat, NewChat DEF Gather
  <2> QED
    BY <1>1, <2>1, <2>2, <2>3, MoveCore DEF Labels
<1>7. CASE Gathered(h)
  <2>1. /\ update[h].task = "toggle_block" /\ user[update[h].arg] # None /\ update[h].memo \in BOOLEAN
    BY <1>1, <1>7 DEF Gathered, At, UpdateOK
  <2>2. Moves(h, "toggle", update[h].memo)
    BY <1>1, <1>7, GotoMoves DEF Gathered, Labels
  <2>3. RowTypes' /\ Stay /\ user' = user
    BY <1>1, <1>7, RowsStay DEF Gathered, Rows
  <2> QED
    BY <1>1, <2>1, <2>2, <2>3, MoveCore DEF Labels
<1>8. CASE ToggleBlock(h)
  <2>1. user[update[h].arg] # None
    BY <1>1, <1>8 DEF ToggleBlock, At, UpdateOK
  <2> QED
    BY <1>1, <1>2, <1>3, <1>8, <2>1 DEF ToggleBlock
<1>9. CASE NotAUser(h)
  BY <1>1, <1>9, EndsOver, OverCore, RowsStay DEF NotAUser
<1> QED
  BY <1>4, <1>5, <1>6, <1>7, <1>8, <1>9

\* The channels' switch, and the settlement address.
LEMMA SettingsCore ==
  ASSUME CoreInv, NEW h \in Updates,
         ReadChannels(h) \/ SwitchChannels(h) \/ ReceiveAddress(h) \/ SaveAddress(h) \/ SaveNetwork(h)
  PROVE  CoreInv'
<1>0. update[h].pc \in {"handler", "switch", "save_address", "save_network"}
  BY DEF ReadChannels, SwitchChannels, ReceiveAddress, SaveAddress, SaveNetwork, Runs, At
<1>1. /\ ~At(h, "idle") /\ Types /\ RowTypes /\ UpdateOK(h) /\ From(h) \in Users /\ user[From(h)] # None
      /\ chat \in [Users -> Chats] /\ channels \in [on : BOOLEAN, listed : BOOLEAN]
      /\ settlement \in Pairs
  BY <1>0, RowFacts DEF At, RowTypes
<1>2. CASE ReadChannels(h)
  <2>1. Moves(h, "switch", channels.on) /\ channels.on \in BOOLEAN
    BY <1>1, <1>2, ReadMoves DEF ReadChannels, Labels, Memos
  <2>2. RowTypes' /\ Stay /\ user' = user
    BY <1>1, <1>2, RowsStay DEF ReadChannels, Rows
  <2> QED
    BY <1>1, <2>1, <2>2, MoveCore DEF Labels
<1>3. CASE SwitchChannels(h)
  <2>1. channels' \in [on : BOOLEAN, listed : BOOLEAN]
    BY <1>1, <1>3 DEF SwitchChannels
  <2>2. RowTypes' /\ Stay /\ user' = user
    BY <1>1, <1>3, <2>1 DEF SwitchChannels, RowTypes, Stay
  <2> QED
    BY <1>1, <1>3, <2>2, PlainCore DEF SwitchChannels, Plain, Labels
<1>4. CASE ReceiveAddress(h)
  <2>1. chat[From(h)].network \in Networks \cup {None} /\ update[h].task = "address"
    BY <1>1, <1>4 DEF Chats, ReceiveAddress, Runs
  <2>2. RowTypes' /\ Stay /\ user' = user
    BY <1>1, <1>4, IdleChat, NewChat DEF ReceiveAddress
  <2>3. PICK label \in {"done", "save_address"} :
          /\ update' = [update EXCEPT ![h].pc = label, ![h].memo = chat[From(h)].network]
          /\ label = "save_address" => chat[From(h)].network # None
    <3>1. update' = [update EXCEPT ![h].memo = chat[From(h)].network,
                                   ![h].pc = IF chat[From(h)].network = None THEN "done" ELSE "save_address"]
      BY <1>4 DEF ReceiveAddress
    <3>2. \A label : [update EXCEPT ![h].memo = chat[From(h)].network, ![h].pc = label]
                   = [update EXCEPT ![h].pc = label, ![h].memo = chat[From(h)].network]
      BY <1>1 DEF Types, Handled
    <3> QED
      BY <3>1, <3>2
  <2>4. Moves(h, label, chat[From(h)].network)
    BY <1>1, <2>1, <2>3, ReadMoves DEF Labels, Memos
  <2> QED
    BY <1>1, <2>1, <2>2, <2>3, <2>4, MoveCore DEF Labels
<1>5. CASE SaveAddress(h)
  <2>1. update[h].task = "address" /\ update[h].arg \in Networks \cup {None} /\ update[h].memo \in Networks
    BY <1>1, <1>5 DEF SaveAddress, At, UpdateOK
  <2>2. settlement' \in Pairs /\ UNCHANGED Rows
    BY <1>1, <1>5, <2>1 DEF SaveAddress, Pairs
  <2>3. RowTypes' /\ Stay /\ user' = user
    BY <1>1, <2>2 DEF RowTypes, Rows, Stay
  <2>4. Moves(h, "save_network", update[h].memo)
    BY <1>1, <1>5, GotoMoves DEF SaveAddress, Labels
  <2> QED
    BY <1>1, <2>1, <2>3, <2>4, MoveCore DEF Labels
<1>6. CASE SaveNetwork(h)
  <2>1. settlement' \in Pairs /\ chat' \in [Users -> Chats]
    BY <1>1, <1>6, IdleChat DEF SaveNetwork, At, UpdateOK, Pairs
  <2>2. RowTypes' /\ Stay /\ user' = user
    BY <1>1, <1>6, <2>1 DEF SaveNetwork, RowTypes, Stay
  <2> QED
    BY <1>1, <1>6, <2>2, PlainCore DEF SaveNetwork, Plain, Labels
<1> QED
  BY <1>2, <1>3, <1>4, <1>5, <1>6

LEMMA Said ==
  ASSUME NEW u \in Users, NEW task \in DOMAIN Required, NEW arg \in Says(u, task),
         chat[u] \in Chats
  PROVE  /\ task \in Tasks /\ arg \in Args
         /\ task \in {"add_id", "remove", "block_id", "unblock", "toggle_block"} => arg \in Users
         /\ task = "add_level" => arg \in {Support, Full}
         /\ task = "network" => arg \in Networks
         /\ task = "address" => arg = chat[u].network /\ arg \in Networks \cup {None}
<1>1. task \in Tasks
  BY DEF Required, Tasks
<1>2. CASE task \in {"add_id", "remove", "block_id", "unblock", "toggle_block"}
  BY <1>1, <1>2 DEF Says, Args
<1>3. CASE task \in {"add_level", "network", "address"}
  BY <1>1, <1>3 DEF Says, Args, Chats
<1>4. CASE task \in {"menu", "language", "add_start", "block_start", "show_channels", "toggle_channel",
                     "ask_channels", "list_channels"}
  BY <1>1, <1>4 DEF Says, Args
<1> QED
  BY <1>1, <1>2, <1>3, <1>4 DEF Tasks

LEMMA ArriveCore ==
  ASSUME CoreInv, NEW h \in Updates, NEW u \in Users, NEW task \in DOMAIN Required, Update(h, u, task)
  PROVE  CoreInv'
<1>1. PICK arg \in Says(u, task) : Arrive(h, u, task, arg)
  BY DEF Update
<1>2. /\ task \in Tasks /\ arg \in Args
      /\ task \in {"add_id", "remove", "block_id", "unblock", "toggle_block"} => arg \in Users
      /\ task = "add_level" => arg \in {Support, Full}
      /\ task = "network" => arg \in Networks
      /\ task = "address" => arg \in Networks \cup {None}
  BY <1>1, Said DEF CoreInv, Types, RowTypes
<1>3. [pc |-> "tracking", from |-> u, task |-> task, arg |-> arg, memo |-> None] \in Handled
  BY <1>2 DEF Handled, Labels, Memos
<1>4. /\ update' = [update EXCEPT ![h] = [pc |-> "tracking", from |-> u, task |-> task,
                                          arg |-> arg, memo |-> None]]
      /\ UNCHANGED <<Rows, settlement>>
  BY <1>1 DEF Arrive, Update
<1>5. /\ update' \in [Updates -> Handled] /\ Others(h)
      /\ update'[h] = [pc |-> "tracking", from |-> u, task |-> task, arg |-> arg, memo |-> None]
  BY <1>3, <1>4 DEF CoreInv, Types, Others
<1>6. UpdateOK(h)'
  BY <1>2, <1>5 DEF UpdateOK
<1> QED
  BY <1>4, <1>5, <1>6, OneStep, RowsStay DEF CoreInv, Types

LEMMA CoreInitial == Init => CoreInv
<1> SUFFICES ASSUME Init PROVE CoreInv
  OBVIOUS
<1>1. user \in [Users -> Row \cup {None}]
  BY DEF Init, CoreInit, Row
<1>2. /\ admin \in [Users -> 0..3] /\ announced \in [Users -> Nat]
      /\ chat \in [Users -> Chats] /\ settlement \in Pairs
  BY UpdatesAssumption, IdleChat DEF Init, CoreInit, Pairs
<1>3. channels \in [on : BOOLEAN, listed : BOOLEAN]
  BY DEF Init, CoreInit
<1>4. NoUpdate \in Handled /\ NoUpdate.pc = "idle"
  BY DEF NoUpdate, Handled, Labels, Args, Memos
<1>5. update \in [Updates -> Handled] /\ \A h \in Updates : update[h].pc = "idle"
  BY <1>4 DEF Init, CoreInit
<1>6. UpdateInv
  BY <1>5 DEF UpdateInv, UpdateOK
<1> QED
  BY <1>1, <1>2, <1>3, <1>5, <1>6 DEF CoreInv, Types, RowTypes

LEMMA CoreStep == CoreInv /\ [Next]_vars => CoreInv'
<1> SUFFICES ASSUME CoreInv, [Next]_vars PROVE CoreInv'
  OBVIOUS
<1>1. ASSUME NEW h \in Updates, Steps(h) PROVE CoreInv'
  <2>1. CASE Handler(h)
    BY <2>1, ScreensCore, AdminsCore, BlocksCore, SettingsCore DEF Handler
  <2> QED
    BY <1>1, <2>1, MiddlewaresCore DEF Steps
<1>2. CASE Restart
  <2>1. NoUpdate \in Handled /\ NoUpdate.pc = "idle"
    BY DEF NoUpdate, Handled, Labels, Args, Memos
  <2>2. update' \in [Updates -> Handled] /\ \A h \in Updates : update'[h].pc = "idle"
    BY <1>2, <2>1 DEF Restart
  <2>3. UpdateInv'
    BY <2>2 DEF UpdateInv, UpdateOK
  <2> QED
    BY <1>2, <2>2, <2>3, RowsStay DEF Restart, CoreInv, Types
<1>3. CASE UNCHANGED vars
  BY <1>3 DEF vars, coreVars, CoreInv, Types, RowTypes, UpdateInv, UpdateOK
<1> QED
  BY <1>1, <1>2, <1>3, ArriveCore DEF Next

-----------------------------------------------------------------------------
(* Connections *)

LEMMA FewerHeld ==
  ASSUME HeldInv, NEW S, S \subseteq held
  PROVE  IsFiniteSet(S) /\ Cardinality(S) <= PoolSize
<1>1. Cardinality(S) <= Cardinality(held) /\ Cardinality(held) <= PoolSize
  BY FS_Subset DEF HeldInv
<1>2. IsFiniteSet(S) /\ Cardinality(S) \in Nat /\ Cardinality(held) \in Nat /\ PoolSize \in Nat
  BY FS_Subset, FS_CardinalityType, UpdatesAssumption DEF HeldInv
<1> QED
  BY <1>1, <1>2

LEMMA OneMoreHeld ==
  ASSUME HeldInv, Connection, NEW c
  PROVE  IsFiniteSet(held \cup {c}) /\ Cardinality(held \cup {c}) <= PoolSize
<1>1. IsFiniteSet(held) /\ Cardinality(held) \in Nat /\ PoolSize \in Nat
  BY FS_CardinalityType, UpdatesAssumption DEF HeldInv
<1>2. /\ IsFiniteSet(held \cup {c})
      /\ Cardinality(held \cup {c}) = IF c \in held THEN Cardinality(held) ELSE Cardinality(held) + 1
  BY <1>1, FS_AddElement, Zenon
<1> QED
  BY <1>1, <1>2 DEF Connection

\* What a step of a handler does with sessions.
LEMMA SessionStep ==
  ASSUME CoreInv, NEW h \in Updates, Steps(h)
  PROVE  \/ Ends(h)
         \/ /\ Others(h) /\ ~At(h, "idle")' /\ ~At(h, "idle")
            /\ \/ held' \subseteq held
               \/ Connection /\ \E s : Hold(h, s)
<1>0. Types
  BY DEF CoreInv
<1>1. CASE Middlewares(h) /\ UNCHANGED settlement
  <2>1. CASE \/ InsertRefused(h) \/ Blocked(h) \/ AskLanguage(h) \/ AskToJoin(h) \/ NoPermission(h)
             \/ Finish(h) \/ PoolTimeout(h)
    BY <2>1 DEF InsertRefused, Blocked, AskLanguage, AskToJoin, NoPermission, Finish, PoolTimeout
  <2>2. CASE KnownUser(h) \/ FirstSeen(h) \/ InsertUser(h) \/ Announce(h)
    BY <1>0, <2>2 DEF KnownUser, FirstSeen, InsertUser, Announce, Types, Handled, Others, At, Goto, Release
  <2>3. CASE PassBlock(h) \/ PassLanguage(h) \/ Exempt(h) \/ Member(h) \/ Permit(h)
    BY <1>0, <2>3 DEF PassBlock, PassLanguage, Exempt, Member, Permit, Types, Handled, Others, At, Goto
  <2> QED
    BY <1>1, <2>1, <2>2, <2>3 DEF Middlewares
<1>2. CASE Handler(h)
  <2>1. CASE AddRefused(h) \/ RefuseRemoval(h) \/ NotAUser(h)
    BY <2>1 DEF AddRefused, RefuseRemoval, NotAUser
  <2>2. CASE OpenScreen(h) \/ ShowScreen(h) \/ ChooseLanguage(h) \/ Ask(h) \/ ReceiveId(h)
    BY <1>0, <2>2 DEF OpenScreen, ShowScreen, ChooseLanguage, Ask, ReceiveId, Types, Handled, Others,
       At, Goto, Release, Runs
  <2>3. CASE ReceiveLevel(h) \/ Forget(h) \/ AddAdmin(h) \/ CheckRemoval(h) \/ RemoveAdmin(h)
    BY <1>0, <2>3 DEF ReceiveLevel, Forget, AddAdmin, CheckRemoval, RemoveAdmin, Types, Handled, Others,
       At, Goto, Release, Runs, Rows
  <2>4. CASE BlockId(h) \/ Unblock(h) \/ Gather(h) \/ Gathered(h) \/ ToggleBlock(h)
    BY <1>0, <2>4 DEF BlockId, Unblock, Gather, Gathered, ToggleBlock, Types, Handled, Others,
       At, Goto, Release, Runs
  <2>5. CASE ShowChannels(h) \/ AskChannels(h) \/ ReceiveChannels(h) \/ ReadChannels(h) \/ SwitchChannels(h)
    BY <1>0, <2>5 DEF ShowChannels, AskChannels, ReceiveChannels, ReadChannels, SwitchChannels, Types,
       Handled, Others, At, Goto, Release, Runs
  <2>6. CASE ReceiveAddress(h) \/ SaveAddress(h) \/ SaveNetwork(h)
    BY <1>0, <2>6 DEF ReceiveAddress, SaveAddress, SaveNetwork, Types, Handled, Others, At, Goto, Runs
  <2> QED
    BY <1>2, <2>1, <2>2, <2>3, <2>4, <2>5, <2>6 DEF Handler
<1> QED
  BY <1>1, <1>2 DEF Steps

LEMMA HeldStep == CoreInv /\ HeldInv /\ [Next]_vars => HeldInv'
<1> SUFFICES ASSUME CoreInv, HeldInv, [Next]_vars PROVE HeldInv'
  OBVIOUS
<1>0. update \in [Updates -> Handled]
  BY DEF CoreInv, Types
<1>1. ASSUME NEW h \in Updates, Ends(h) PROVE HeldInv'
  <2>1. held' \subseteq held /\ \A c \in held' : c[1] # h
    BY <1>1 DEF Ends
  <2>2. \A g \in Updates : g # h => update'[g] = update[g]
    BY <1>0, <1>1 DEF Ends
  <2> QED
    BY <2>1, <2>2, FewerHeld DEF HeldInv
<1>2. ASSUME NEW h \in Updates, Others(h), ~At(h, "idle")' PROVE held' \subseteq held => HeldInv'
  BY <1>2, FewerHeld DEF HeldInv, Others, At
<1>3. ASSUME NEW h \in Updates, Steps(h) PROVE HeldInv'
  <2>1. CASE Others(h) /\ ~At(h, "idle")' /\ Connection /\ \E s : Hold(h, s)
    <3>1. PICK c : c[1] = h /\ held' = held \cup {c}
      BY <2>1 DEF Hold
    <3>2. IsFiniteSet(held') /\ Cardinality(held') <= PoolSize
      BY <2>1, <3>1, OneMoreHeld
    <3> QED
      BY <2>1, <3>1, <3>2 DEF HeldInv, Others, At
  <2> QED
    BY <1>1, <1>2, <1>3, <2>1, SessionStep
<1>4. ASSUME NEW h \in Updates, NEW u \in Users, NEW task \in DOMAIN Required, Update(h, u, task)
      PROVE  HeldInv'
  <2>1. PICK arg \in Says(u, task) : Arrive(h, u, task, arg)
    BY <1>4 DEF Update
  <2>2. Others(h) /\ ~At(h, "idle")' /\ held' = held
    BY <1>0, <2>1 DEF Arrive, Others, At
  <2> QED
    BY <1>2, <2>2
<1>5. CASE Restart
  BY <1>5, FewerHeld DEF Restart, HeldInv
<1>6. CASE UNCHANGED vars
  BY <1>6 DEF vars, coreVars, HeldInv
<1> QED
  BY <1>3, <1>4, <1>5, <1>6 DEF Next

\* The rows and conversations have their types, and no more connections are in
\* use than the pool has, none of them by an update that has ended.
THEOREM TypeCorrect == Spec => []TypeOK
<1>1. Init => HeldInv
  <2>1. IsFiniteSet({}) /\ Cardinality({}) = 0
    BY FS_EmptySet
  <2> QED
    BY <2>1, UpdatesAssumption DEF Init, CoreInit, HeldInv
<1>2. ASSUME CoreInv, HeldInv PROVE TypeOK
  <2>1. \A u \in Users : chat[u].target \in Users \cup {None} /\ chat[u].network \in Networks \cup {None}
    BY <1>2 DEF CoreInv, Types, RowTypes, Chats
  <2> QED
    BY <1>2, <2>1 DEF CoreInv, Types, RowTypes, HeldInv, TypeOK, Row, Pairs
<1> QED
  BY <1>1, <1>2, CoreInitial, CoreStep, HeldStep, PTL DEF Spec

-----------------------------------------------------------------------------
(* A new user is reported once *)

\* Where users and reports change, and who comes to report.
LEMMA ReportSteps ==
  ASSUME CoreInv, NEW h \in Updates, Steps(h)
  PROVE  \/ InsertUser(h)
         \/ Announce(h)
         \/ announced' = announced /\ Stay /\ Others(h) /\ ~At(h, "announce")'
<1>0. Types
  BY DEF CoreInv
<1>1. ASSUME UNCHANGED Rows, Ends(h)
      PROVE  announced' = announced /\ Stay /\ Others(h) /\ ~At(h, "announce")'
  BY <1>0, <1>1, EndsOver DEF Rows, Stay, Over, At
<1>2. CASE Middlewares(h) /\ UNCHANGED settlement
  <2>1. CASE \/ InsertRefused(h) \/ Blocked(h) \/ AskLanguage(h) \/ AskToJoin(h) \/ NoPermission(h)
             \/ Finish(h) \/ PoolTimeout(h)
    BY <1>1, <2>1 DEF InsertRefused, Blocked, AskLanguage, AskToJoin, NoPermission, Finish, PoolTimeout
  <2>2. CASE \/ KnownUser(h) \/ FirstSeen(h) \/ PassBlock(h) \/ PassLanguage(h) \/ Exempt(h)
             \/ Member(h) \/ Permit(h)
    BY <1>0, <2>2 DEF KnownUser, FirstSeen, PassBlock, PassLanguage, Exempt, Member, Permit, Types, Handled,
       Others, At, Goto, Rows, Stay
  <2> QED
    BY <1>2, <2>1, <2>2 DEF Middlewares
<1>3. CASE Handler(h)
  <2>0. ~At(h, "announce")' /\ Others(h)
    <3>1. CASE OpenScreen(h) \/ ShowScreen(h) \/ ChooseLanguage(h) \/ Ask(h) \/ ReceiveId(h)
      BY <1>0, <3>1 DEF OpenScreen, ShowScreen, ChooseLanguage, Ask, ReceiveId, Types, Handled, Others, At, Goto
    <3>2. CASE ReceiveLevel(h) \/ Forget(h) \/ AddAdmin(h) \/ CheckRemoval(h) \/ RemoveAdmin(h)
      BY <1>0, <3>2 DEF ReceiveLevel, Forget, AddAdmin, CheckRemoval, RemoveAdmin, Types, Handled, Others, At, Goto
    <3>3. CASE BlockId(h) \/ Unblock(h) \/ Gather(h) \/ Gathered(h) \/ ToggleBlock(h)
      BY <1>0, <3>3 DEF BlockId, Unblock, Gather, Gathered, ToggleBlock, Types, Handled, Others, At, Goto
    <3>4. CASE ShowChannels(h) \/ AskChannels(h) \/ ReceiveChannels(h) \/ ReadChannels(h) \/ SwitchChannels(h)
      BY <1>0, <3>4 DEF ShowChannels, AskChannels, ReceiveChannels, ReadChannels, SwitchChannels, Types,
         Handled, Others, At, Goto
    <3>5. CASE ReceiveAddress(h) \/ SaveAddress(h) \/ SaveNetwork(h)
      BY <1>0, <3>5 DEF ReceiveAddress, SaveAddress, SaveNetwork, Types, Handled, Others, At, Goto
    <3>6. CASE AddRefused(h) \/ RefuseRemoval(h) \/ NotAUser(h)
      BY <1>0, <3>6, EndsOver DEF AddRefused, RefuseRemoval, NotAUser, Over, At
    <3> QED
      BY <1>3, <3>1, <3>2, <3>3, <3>4, <3>5, <3>6 DEF Handler
  <2>1. announced' = announced
    BY <1>3 DEF Handler, OpenScreen, ShowScreen, ChooseLanguage, Ask, ReceiveId, ReceiveLevel, Forget, AddAdmin,
       AddRefused, RefuseRemoval, CheckRemoval, RemoveAdmin, BlockId, Unblock, Gather, Gathered, ToggleBlock,
       NotAUser, ShowChannels, AskChannels, ReceiveChannels, ReadChannels, SwitchChannels, ReceiveAddress,
       SaveAddress, SaveNetwork, Rows
  <2>2. Stay
    <3>1. CASE ChooseLanguage(h) \/ BlockId(h) \/ Unblock(h) \/ ToggleBlock(h)
      <4>1. \A u \in Users, row \in Row : row # None
        BY UpdatesAssumption DEF Row
      <4>2. \A u \in Users : user[u] # None /\ user'[u] # user[u] => user'[u] \in Row
        <5>1. user \in [Users -> Row \cup {None}]
          BY <1>0 DEF Types, RowTypes
        <5> QED
          <6>1. ASSUME NEW id, NEW value \in BOOLEAN,
                       \/ user' = [user EXCEPT ![id].blocked = value]
                       \/ user' = [user EXCEPT ![id].language = value],
                       NEW u \in Users, user[u] # None, user'[u] # user[u]
                PROVE  user'[u] \in Row
            <7>1. user[u] \in Row /\ u = id
              BY <5>1, <6>1
            <7>2. user'[u] \in {[user[u] EXCEPT !.blocked = value], [user[u] EXCEPT !.language = value]}
              BY <5>1, <6>1, <7>1
            <7> QED
              BY <7>1, <7>2 DEF Row
          <6>2. user' = user \/ \E id : \E value \in BOOLEAN :
                              \/ user' = [user EXCEPT ![id].blocked = value]
                              \/ user' = [user EXCEPT ![id].language = value]
            BY <3>1 DEF ChooseLanguage, BlockId, Unblock, ToggleBlock
          <6> QED
            BY <6>1, <6>2
      <4> QED
        BY <4>1, <4>2 DEF Stay
    <3>2. CASE user' = user
      BY <3>2 DEF Stay
    <3> QED
      BY <1>3, <3>1, <3>2 DEF Handler, OpenScreen, ShowScreen, Ask, ReceiveId, ReceiveLevel, Forget, AddAdmin,
         AddRefused, RefuseRemoval, CheckRemoval, RemoveAdmin, Gather, Gathered,
         NotAUser, ShowChannels, AskChannels, ReceiveChannels, ReadChannels, SwitchChannels, ReceiveAddress,
         SaveAddress, SaveNetwork, Rows
  <2> QED
    BY <2>0, <2>1, <2>2
<1> QED
  BY <1>2, <1>3 DEF Steps

LEMMA AnnounceStep == CoreInv /\ AnnounceInv /\ [Next]_vars => AnnounceInv'
<1> SUFFICES ASSUME CoreInv, AnnounceInv, [Next]_vars PROVE AnnounceInv'
  OBVIOUS
<1>0. /\ update \in [Updates -> Handled] /\ announced \in [Users -> Nat]
      /\ user \in [Users -> Row \cup {None}]
  BY DEF CoreInv, Types, RowTypes
<1>1. ASSUME NEW h \in Updates, announced' = announced, Stay, Others(h), ~At(h, "announce")'
      PROVE  AnnounceInv'
  <2>1. \A u \in Users : announced'[u] <= 1 /\ (announced'[u] = 1 => user'[u] # None)
    BY <1>1 DEF AnnounceInv, Stay
  <2>2. \A g \in Updates : At(g, "announce")' => g # h /\ At(g, "announce") /\ From(g)' = From(g)
    BY <1>1 DEF Others, At, From
  <2> QED
    BY <1>1, <2>1, <2>2 DEF AnnounceInv
<1>2. ASSUME NEW h \in Updates, InsertUser(h) PROVE AnnounceInv'
  <2>1. /\ At(h, "insert") /\ Goto(h, "announce") /\ user[From(h)] = None /\ announced' = announced
        /\ From(h) \in Users
    BY <1>2, RowFacts DEF InsertUser, At
  <2>2. /\ user' = [user EXCEPT ![From(h)] = [blocked |-> FALSE, language |-> FALSE]]
        /\ [blocked |-> FALSE, language |-> FALSE] # None
    <3>1. [blocked |-> FALSE, language |-> FALSE] \in Row
      BY DEF Row
    <3> QED
      BY <1>2, <3>1, UpdatesAssumption DEF InsertUser, Row
  <2>3. announced[From(h)] = 0
    BY <1>0, <2>1 DEF AnnounceInv
  <2>4. \A g \in Updates : At(g, "announce") => From(g) # From(h)
    BY <2>1, RowFacts DEF At
  <2>5. \A g \in Updates : /\ From(g)' = From(g)
                           /\ At(g, "announce")' => g = h \/ At(g, "announce")
    BY <1>0, <2>1 DEF Goto, At, From, Handled
  <2>6. \A u \in Users : announced'[u] <= 1 /\ (announced'[u] = 1 => user'[u] # None)
    BY <1>0, <2>1, <2>2, <2>3 DEF AnnounceInv
  <2> QED
    BY <2>1, <2>3, <2>4, <2>5, <2>6 DEF AnnounceInv
<1>3. ASSUME NEW h \in Updates, Announce(h) PROVE AnnounceInv'
  <2>1. /\ At(h, "announce") /\ Goto(h, "blocked") /\ user' = user /\ From(h) \in Users
        /\ announced' = [announced EXCEPT ![From(h)] = @ + 1] /\ user[From(h)] # None
    BY <1>3, RowFacts DEF Announce, At
  <2>2. /\ announced'[From(h)] = 1
        /\ \A u \in Users : u # From(h) => announced'[u] = announced[u]
    BY <1>0, <2>1 DEF AnnounceInv
  <2>3. \A g \in Updates : /\ From(g)' = From(g)
                           /\ At(g, "announce")' => At(g, "announce") /\ From(g) # From(h) /\ From(g) \in Users
    <3>1. \A g \in Updates : /\ From(g)' = From(g)
                             /\ At(g, "announce")' => At(g, "announce") /\ g # h
      BY <1>0, <2>1 DEF Goto, At, From, Handled
    <3>2. \A g \in Updates : At(g, "announce") => From(g) \in Users
      BY RowFacts DEF At
    <3>3. \A g \in Updates : At(g, "announce") /\ From(g) = From(h) => g = h
      BY <2>1 DEF AnnounceInv
    <3> QED
      BY <3>1, <3>2, <3>3
  <2> QED
    BY <2>1, <2>2, <2>3 DEF AnnounceInv
<1>4. ASSUME NEW h \in Updates, Steps(h) PROVE AnnounceInv'
  BY <1>1, <1>2, <1>3, <1>4, ReportSteps
<1>5. ASSUME NEW h \in Updates, NEW u \in Users, NEW task \in DOMAIN Required, Update(h, u, task)
      PROVE  AnnounceInv'
  <2>1. PICK arg \in Says(u, task) : Arrive(h, u, task, arg)
    BY <1>5 DEF Update
  <2>2. UNCHANGED Rows /\ Others(h) /\ ~At(h, "announce")'
    BY <1>0, <2>1 DEF Arrive, Others, At
  <2> QED
    BY <1>1, <2>2 DEF Rows, Stay
<1>6. CASE Restart
  <2>1. \A h \in Updates : ~At(h, "announce")'
    BY <1>6 DEF Restart, NoUpdate, At
  <2>2. UNCHANGED Rows
    BY <1>6 DEF Restart
  <2> QED
    BY <2>1, <2>2 DEF Rows, AnnounceInv
<1>7. CASE UNCHANGED vars
  BY <1>7 DEF vars, coreVars, AnnounceInv, At, From
<1> QED
  BY <1>4, <1>5, <1>6, <1>7 DEF Next

\* However many first updates of a user are in progress, on whatever keyboards,
\* the user is reported once, by the one of them that made the row.
THEOREM NewUserOnceAlways == Spec => []NewUserOnce
<1>1. Init => AnnounceInv
  BY DEF Init, CoreInit, NoUpdate, AnnounceInv, At
<1>2. AnnounceInv => NewUserOnce
  BY DEF AnnounceInv, NewUserOnce
<1> QED
  BY <1>1, <1>2, CoreInitial, CoreStep, AnnounceStep, PTL DEF Spec

-----------------------------------------------------------------------------
(* Who may act *)

Early == {"tracking", "insert", "announce", "blocked"}
Middle == {"language", "channel", "filter"}

\* The block and the permission are the only ways from one stage to the next.
SameStage(h) ==
    /\ update[h].pc \in Early <=> update'[h].pc \in Early
    /\ update[h].pc \in Middle <=> update'[h].pc \in Middle

LEMMA StageSteps ==
  ASSUME CoreInv, NEW h \in Updates, Steps(h)
  PROVE  /\ Others(h)
         /\ \/ At(h, "idle")'
            \/ /\ ~At(h, "idle")
               /\ PassBlock(h) \/ Permit(h) \/ SameStage(h)
<1>0. Types
  BY DEF CoreInv
<1>1. ASSUME Ends(h) PROVE Others(h) /\ At(h, "idle")'
  BY <1>0, <1>1, EndsOver DEF Over, At
<1>2. CASE Middlewares(h) /\ UNCHANGED settlement
  <2>1. CASE \/ InsertRefused(h) \/ Blocked(h) \/ AskLanguage(h) \/ AskToJoin(h) \/ NoPermission(h)
             \/ Finish(h) \/ PoolTimeout(h)
    BY <1>1, <2>1 DEF InsertRefused, Blocked, AskLanguage, AskToJoin, NoPermission, Finish, PoolTimeout
  <2>2. CASE \/ KnownUser(h) \/ FirstSeen(h) \/ InsertUser(h) \/ Announce(h) \/ PassLanguage(h) \/ Exempt(h)
             \/ Member(h)
    BY <1>0, <2>2 DEF KnownUser, FirstSeen, InsertUser, Announce, PassLanguage, Exempt, Member, Types, Handled,
       Others, At, Goto, SameStage, Early, Middle
  <2>3. CASE PassBlock(h) \/ Permit(h)
    BY <1>0, <2>3 DEF PassBlock, Permit, Types, Handled, Others, At, Goto
  <2> QED
    BY <1>2, <2>1, <2>2, <2>3 DEF Middlewares
<1>3. CASE Handler(h)
  <2>1. CASE OpenScreen(h) \/ ShowScreen(h) \/ ChooseLanguage(h) \/ Ask(h) \/ ReceiveId(h)
    BY <1>0, <2>1 DEF OpenScreen, ShowScreen, ChooseLanguage, Ask, ReceiveId, Runs, Types, Handled,
       Others, At, Goto, SameStage, Early, Middle
  <2>2. CASE ReceiveLevel(h) \/ Forget(h) \/ AddAdmin(h) \/ CheckRemoval(h) \/ RemoveAdmin(h)
    BY <1>0, <2>2 DEF ReceiveLevel, Forget, AddAdmin, CheckRemoval, RemoveAdmin, Runs, Types, Handled,
       Others, At, Goto, SameStage, Early, Middle
  <2>3. CASE BlockId(h) \/ Unblock(h) \/ Gather(h) \/ Gathered(h) \/ ToggleBlock(h)
    BY <1>0, <2>3 DEF BlockId, Unblock, Gather, Gathered, ToggleBlock, Runs, Types, Handled,
       Others, At, Goto, SameStage, Early, Middle
  <2>4. CASE ShowChannels(h) \/ AskChannels(h) \/ ReceiveChannels(h) \/ ReadChannels(h) \/ SwitchChannels(h)
    BY <1>0, <2>4 DEF ShowChannels, AskChannels, ReceiveChannels, ReadChannels, SwitchChannels, Runs, Types,
       Handled, Others, At, Goto, SameStage, Early, Middle
  <2>5. CASE ReceiveAddress(h) \/ SaveAddress(h) \/ SaveNetwork(h)
    BY <1>0, <2>5 DEF ReceiveAddress, SaveAddress, SaveNetwork, Runs, Types, Handled,
       Others, At, Goto, SameStage, Early, Middle
  <2>6. CASE AddRefused(h) \/ RefuseRemoval(h) \/ NotAUser(h)
    BY <1>1, <2>6 DEF AddRefused, RefuseRemoval, NotAUser
  <2> QED
    BY <1>3, <2>1, <2>2, <2>3, <2>4, <2>5, <2>6 DEF Handler
<1> QED
  BY <1>2, <1>3 DEF Steps

\* What has been true of a sender stays on record, until the update ends.
LEMMA WatchedStays ==
  ASSUME AuthorityInv, Watching, NEW h \in Updates, ~At(h, "idle"), ~At(h, "idle")'
  PROVE  /\ was'[h] \in [free : BOOLEAN, level : BOOLEAN]
         /\ was[h].free => was'[h].free
         /\ was[h].level => was'[h].level
         /\ update'[h].pc # "done" /\ Now(h)'.free => was'[h].free
         /\ update'[h].pc # "done" /\ Now(h)'.level => was'[h].level
<1>1. was[h] \in [free : BOOLEAN, level : BOOLEAN]
  BY DEF AuthorityInv
<1>2. was'[h] = IF update'[h].pc = "done" THEN was[h]
                ELSE [free |-> was[h].free \/ Now(h)'.free, level |-> was[h].level \/ Now(h)'.level]
  BY DEF Watching, At
<1>3. CASE update'[h].pc = "done"
  BY <1>1, <1>2, <1>3
<1>4. CASE update'[h].pc # "done"
  <2>1. PICK free \in BOOLEAN, level \in BOOLEAN :
          /\ was'[h] = [free |-> free, level |-> level]
          /\ was[h].free \/ Now(h)'.free => free
          /\ was[h].level \/ Now(h)'.level => level
    <3>1. /\ (was[h].free \/ Now(h)'.free) \in BOOLEAN
          /\ (was[h].level \/ Now(h)'.level) \in BOOLEAN
      OBVIOUS
    <3> QED
      BY <1>2, <1>4, <3>1, Zenon
  <2> QED
    BY <2>1, <1>4
<1> QED
  BY <1>3, <1>4

LEMMA AuthorityStep == CoreInv /\ AuthorityInv /\ [Next]_vars => AuthorityInv'
<1> SUFFICES ASSUME CoreInv, AuthorityInv, [Next]_vars PROVE AuthorityInv'
  OBVIOUS
<1>0. update \in [Updates -> Handled] /\ admin \in [Users -> 0..3]
  BY DEF CoreInv, Types, RowTypes
<1> DEFINE Recorded(h) ==
      /\ was[h] \in [free : BOOLEAN, level : BOOLEAN]
      /\ update[h].pc \notin Early => was[h].free
      /\ update[h].pc \notin Early \cup Middle => was[h].level
<1>1. ASSUME NEW h \in Updates, ~At(h, "idle") PROVE Recorded(h)
  BY <1>1 DEF AuthorityInv, Early, Middle
<1>2. ASSUME \A h \in Updates : ~At(h, "idle")' => Recorded(h)' PROVE AuthorityInv'
  BY <1>2 DEF AuthorityInv, Early, Middle
<1>3. ASSUME NEW h \in Updates, Watching, update'[h] = update[h], ~At(h, "idle")' PROVE Recorded(h)'
  <2>1. ~At(h, "idle")
    BY <1>3 DEF At
  <2> QED
    BY <1>1, <1>3, <2>1, WatchedStays
<1>4. ASSUME NEW h \in Updates, Steps(h), Watching PROVE AuthorityInv'
  <2>1. Others(h)
    BY <1>4, StageSteps
  <2>2. ASSUME ~At(h, "idle")' PROVE Recorded(h)'
    <3>1. ~At(h, "idle") /\ (PassBlock(h) \/ Permit(h) \/ SameStage(h))
      BY <1>4, <2>2, StageSteps
    <3>2. CASE SameStage(h)
      BY <1>1, <1>4, <2>2, <3>1, <3>2, WatchedStays DEF SameStage
    <3>3. CASE PassBlock(h)
      <4>1. /\ update'[h].pc = "language" /\ update'[h].from = update[h].from
            /\ UNCHANGED <<user, admin>>
            /\ HasLevel(From(h), Support) \/ ~IsBlocked(From(h))
        BY <1>0, <3>3 DEF PassBlock, Goto, Handled, Rows
      <4>2. Now(h)'.free
        BY <4>1 DEF Now, HasLevel, IsBlocked, From
      <4> QED
        BY <1>4, <2>2, <3>1, <4>1, <4>2, WatchedStays DEF Early, Middle
    <3>4. CASE Permit(h)
      <4>1. /\ At(h, "filter") /\ update'[h].pc = "handler" /\ update'[h].from = update[h].from
            /\ update'[h].task = update[h].task /\ UNCHANGED <<user, admin>>
            /\ Required[update[h].task] = 0 \/ HasLevel(From(h), Required[update[h].task])
        BY <1>0, <3>4 DEF Permit, Goto, Handled, Rows
      <4>2. From(h) \in Users
        BY <3>1, RowFacts
      <4>3. HasLevel(From(h), 0)
        BY <1>0, <4>2 DEF HasLevel
      <4>4. Now(h)'.level
        BY <4>1, <4>3 DEF Now, HasLevel, From
      <4> QED
        BY <1>1, <1>4, <2>2, <3>1, <4>1, <4>4, WatchedStays DEF Early, Middle, At
    <3> QED
      BY <3>1, <3>2, <3>3, <3>4
  <2> QED
    BY <1>2, <1>3, <1>4, <2>1, <2>2 DEF Others
<1>5. ASSUME NEW h \in Updates, NEW u \in Users, NEW task \in DOMAIN Required, Update(h, u, task), Watching
      PROVE  AuthorityInv'
  <2>1. PICK arg \in Says(u, task) : Arrive(h, u, task, arg)
    BY <1>5 DEF Update
  <2>2. Others(h) /\ At(h, "idle") /\ update'[h].pc = "tracking"
    BY <1>0, <2>1 DEF Arrive, Others, At
  <2>3. was'[h] = Now(h)'
    BY <1>5, <2>2 DEF Watching
  <2>4. Now(h)' \in [free : BOOLEAN, level : BOOLEAN]
    BY DEF Now, HasLevel
  <2>5. Recorded(h)'
    BY <2>2, <2>3, <2>4 DEF Early, Middle
  <2> QED
    BY <1>2, <1>3, <1>5, <2>2, <2>5 DEF Others
<1>6. CASE Restart
  BY <1>2, <1>6 DEF Restart, NoUpdate, At
<1>7. CASE UNCHANGED vars
  BY <1>7 DEF vars, coreVars, AuthorityInv, At
<1> QED
  BY <1>4, <1>5, <1>6, <1>7 DEF Next

\* Whatever was taken away while an update waited, and however old its button:
\* what it brings about is done for somebody who had the level for it, and was
\* not blocked, at some moment since it arrived.
THEOREM ActsWithAuthorityAlways == Spec => []ActsWithAuthority
<1>1. Init => AuthorityInv
  BY DEF Init, CoreInit, NoUpdate, AuthorityInv, At
<1>2. AuthorityInv => ActsWithAuthority
  BY DEF AuthorityInv, ActsWithAuthority, At
<1> QED
  BY <1>1, <1>2, CoreInitial, CoreStep, AuthorityStep, PTL DEF Spec

-----------------------------------------------------------------------------
(* There is a full admin *)

LEMMA AtMostOne ==
  ASSUME NEW S, IsFiniteSet(S), ~(Cardinality(S) > 1), NEW x \in S, NEW y \in S
  PROVE  x = y
<1> SUFFICES ASSUME x # y PROVE FALSE
  OBVIOUS
<1>1. IsFiniteSet({x}) /\ Cardinality({x}) = 1
  BY FS_Singleton
<1>2. Cardinality({x} \cup {y}) = Cardinality({x}) + 1
  <2>1. y \notin {x}
    OBVIOUS
  <2> QED
    BY <1>1, <2>1, FS_AddElement, Zenon
<1>3. {x} \cup {y} \subseteq S
  OBVIOUS
<1>4. Cardinality({x} \cup {y}) <= Cardinality(S)
  BY <1>3, FS_Subset
<1>5. Cardinality(S) \in Nat
  BY FS_CardinalityType
<1> QED
  BY <1>1, <1>2, <1>4, <1>5

\* Two who are removing at once are on record.
LEMMA RemovalsMeet ==
  ASSUME Watching, "removals" \notin raced'
  PROVE  /\ "removals" \notin raced
         /\ \A g, h \in Updates : At(g, "remove")' /\ At(h, "remove")' => g = h
<1> DEFINE removing == {h \in Updates : update'[h].pc = "remove"}
<1>1. raced \subseteq raced' /\ ~(Cardinality(removing) > 1)
  BY DEF Watching
<1>2. IsFiniteSet(removing)
  BY UpdatesAssumption, FS_Subset
<1>3. \A g, h \in removing : g = h
  BY <1>1, <1>2, AtMostOne
<1> QED
  BY <1>1, <1>3 DEF At

\* Where admins change, and who comes to remove one.
LEMMA AdminSteps ==
  ASSUME CoreInv, NEW h \in Updates, Steps(h)
  PROVE  \/ AddAdmin(h) \/ CheckRemoval(h) \/ RemoveAdmin(h)
         \/ admin' = admin /\ Others(h) /\ ~At(h, "remove")'
<1>0. Types
  BY DEF CoreInv
<1>1. ASSUME admin' = admin, Ends(h)
      PROVE  admin' = admin /\ Others(h) /\ ~At(h, "remove")'
  BY <1>0, <1>1, EndsOver DEF Over, At
<1>2. CASE Middlewares(h) /\ UNCHANGED settlement
  <2>1. CASE \/ InsertRefused(h) \/ Blocked(h) \/ AskLanguage(h) \/ AskToJoin(h) \/ NoPermission(h)
             \/ Finish(h) \/ PoolTimeout(h)
    BY <1>1, <2>1 DEF InsertRefused, Blocked, AskLanguage, AskToJoin, NoPermission, Finish, PoolTimeout, Rows
  <2>2. CASE \/ KnownUser(h) \/ FirstSeen(h) \/ InsertUser(h) \/ Announce(h) \/ PassBlock(h) \/ PassLanguage(h)
             \/ Exempt(h) \/ Member(h) \/ Permit(h)
    BY <1>0, <2>2 DEF KnownUser, FirstSeen, InsertUser, Announce, PassBlock, PassLanguage, Exempt, Member,
       Permit, Types, Handled, Others, At, Goto, Rows
  <2> QED
    BY <1>2, <2>1, <2>2 DEF Middlewares
<1>3. CASE Handler(h)
  <2>1. CASE OpenScreen(h) \/ ShowScreen(h) \/ ChooseLanguage(h) \/ Ask(h) \/ ReceiveId(h)
    BY <1>0, <2>1 DEF OpenScreen, ShowScreen, ChooseLanguage, Ask, ReceiveId, Types, Handled,
       Others, At, Goto, Rows
  <2>2. CASE ReceiveLevel(h) \/ Forget(h)
    BY <1>0, <2>2 DEF ReceiveLevel, Forget, Types, Handled, Others, At, Goto, Rows
  <2>3. CASE BlockId(h) \/ Unblock(h) \/ Gather(h) \/ Gathered(h) \/ ToggleBlock(h)
    BY <1>0, <2>3 DEF BlockId, Unblock, Gather, Gathered, ToggleBlock, Types, Handled,
       Others, At, Goto, Rows
  <2>4. CASE ShowChannels(h) \/ AskChannels(h) \/ ReceiveChannels(h) \/ ReadChannels(h) \/ SwitchChannels(h)
    BY <1>0, <2>4 DEF ShowChannels, AskChannels, ReceiveChannels, ReadChannels, SwitchChannels, Types,
       Handled, Others, At, Goto, Rows
  <2>5. CASE ReceiveAddress(h) \/ SaveAddress(h) \/ SaveNetwork(h)
    BY <1>0, <2>5 DEF ReceiveAddress, SaveAddress, SaveNetwork, Types, Handled, Others, At, Goto, Rows
  <2>6. CASE AddRefused(h) \/ RefuseRemoval(h) \/ NotAUser(h)
    BY <1>1, <2>6 DEF AddRefused, RefuseRemoval, NotAUser, Rows
  <2> QED
    BY <1>3, <2>1, <2>2, <2>3, <2>4, <2>5, <2>6 DEF Handler
<1> QED
  BY <1>2, <1>3 DEF Steps

\* Somebody else than the one who is to be removed.
Remains(h) == \E u \in Users : (u # update[h].arg /\ admin[u] = Full) \/ u \in Bootstrap

LEMMA RemovalStep == CoreInv /\ RemovalInv /\ [Next]_vars => RemovalInv'
<1> SUFFICES ASSUME CoreInv, RemovalInv, [Next]_vars, "removals" \notin raced'
             PROVE  /\ \E u \in Users : HasLevel(u, Full)'
                    /\ \A h \in Updates : At(h, "remove")' =>
                         /\ Remains(h)'
                         /\ \A g \in Updates : At(g, "remove")' => g = h
  BY DEF RemovalInv, Remains
<1>0. update \in [Updates -> Handled] /\ admin \in [Users -> 0..3]
  BY DEF CoreInv, Types, RowTypes
<1>1. CASE Next
  <2>0. /\ Watching
        /\ \A g, h \in Updates : At(g, "remove")' /\ At(h, "remove")' => g = h
        /\ \E u \in Users : HasLevel(u, Full)
        /\ \A h \in Updates : At(h, "remove") => Remains(h)
        /\ \A g, h \in Updates : At(g, "remove") /\ At(h, "remove") => g = h
    BY <1>1, RemovalsMeet DEF Next, RemovalInv, Remains
  <2> SUFFICES /\ \E u \in Users : HasLevel(u, Full)'
               /\ \A h \in Updates : At(h, "remove")' => Remains(h)'
    BY <2>0
  <2>1. ASSUME NEW h \in Updates, admin' = admin, Others(h), ~At(h, "remove")'
        PROVE  /\ \E u \in Users : HasLevel(u, Full)'
               /\ \A g \in Updates : At(g, "remove")' => Remains(g)'
    BY <2>0, <2>1 DEF Others, At, HasLevel, Remains
  <2>2. ASSUME NEW h \in Updates, AddAdmin(h)
        PROVE  /\ \E u \in Users : HasLevel(u, Full)'
               /\ \A g \in Updates : At(g, "remove")' => Remains(g)'
    <3>1. /\ At(h, "add") /\ admin[update[h].memo] = 0 /\ Goto(h, "done")
          /\ admin' = [admin EXCEPT ![update[h].memo] = update[h].arg]
      BY <2>2 DEF AddAdmin
    <3>2. \A u \in Users : admin[u] >= Full => admin'[u] = admin[u]
      BY <1>0, <3>1 DEF Full
    <3>3. \A g \in Updates : At(g, "remove")' => At(g, "remove") /\ update'[g].arg = update[g].arg
      BY <1>0, <3>1 DEF Goto, At, Handled
    <3> QED
      BY <1>0, <2>0, <3>2, <3>3 DEF HasLevel, Remains, Full
  <2>3. ASSUME NEW h \in Updates, CheckRemoval(h)
        PROVE  /\ \E u \in Users : HasLevel(u, Full)'
               /\ \A g \in Updates : At(g, "remove")' => Remains(g)'
    <3>1. /\ ~(admin[update[h].arg] = Full /\ IsLastFullAdmin(update[h].arg))
          /\ Goto(h, "remove") /\ admin' = admin
      BY <2>3 DEF CheckRemoval
    <3>2. Remains(h)
      <4>1. CASE admin[update[h].arg] = Full
        <5>1. Bootstrap # {} \/ \E u \in Users \ {update[h].arg} : ~(admin[u] < Full)
          BY <3>1, <4>1 DEF IsLastFullAdmin
        <5>2. \A u \in Users : ~(admin[u] < Full) => admin[u] = Full
          BY <1>0 DEF Full
        <5> QED
          BY <5>1, <5>2, UpdatesAssumption DEF Remains
      <4>2. CASE admin[update[h].arg] # Full
        BY <1>0, <2>0, <4>2 DEF HasLevel, Remains, Full
      <4> QED
        BY <4>1, <4>2
    <3>3. \A g \in Updates : /\ update'[g].arg = update[g].arg
                             /\ At(g, "remove")' => g = h \/ At(g, "remove")
      BY <1>0, <3>1 DEF Goto, At, Handled
    <3> QED
      BY <2>0, <3>1, <3>2, <3>3 DEF HasLevel, Remains
  <2>4. ASSUME NEW h \in Updates, RemoveAdmin(h)
        PROVE  /\ \E u \in Users : HasLevel(u, Full)'
               /\ \A g \in Updates : At(g, "remove")' => Remains(g)'
    <3>1. /\ At(h, "remove") /\ Goto(h, "done")
          /\ admin' = [admin EXCEPT ![update[h].arg] = 0]
      BY <2>4 DEF RemoveAdmin
    <3>2. PICK u \in Users : (u # update[h].arg /\ admin[u] = Full) \/ u \in Bootstrap
      BY <2>0, <3>1 DEF Remains
    <3>3. HasLevel(u, Full)'
      BY <1>0, <3>1, <3>2 DEF HasLevel, Full
    <3>4. \A g \in Updates : ~At(g, "remove")'
      BY <1>0, <2>0, <3>1 DEF Goto, At, Handled
    <3> QED
      BY <3>3, <3>4
  <2>5. ASSUME NEW h \in Updates, NEW u \in Users, NEW task \in DOMAIN Required, Update(h, u, task)
        PROVE  admin' = admin /\ Others(h) /\ ~At(h, "remove")'
    <3>1. PICK arg \in Says(u, task) : Arrive(h, u, task, arg)
      BY <2>5 DEF Update
    <3> QED
      BY <1>0, <3>1 DEF Arrive, Others, At, Rows
  <2>6. CASE Restart
    <3>1. admin' = admin /\ \A h \in Updates : ~At(h, "remove")'
      BY <2>6 DEF Restart, NoUpdate, At, Rows
    <3> QED
      BY <2>0, <3>1 DEF HasLevel
  <2> QED
    BY <1>1, <2>1, <2>2, <2>3, <2>4, <2>5, <2>6, AdminSteps DEF Next
<1>2. CASE UNCHANGED vars
  BY <1>2 DEF vars, coreVars, RemovalInv, Remains, HasLevel, At
<1> QED
  BY <1>1, <1>2

\* If the panel has a full admin at first it has one ever after, unless two
\* removals meet between the count and the delete: the check of the last full
\* admin does what it is for when it is not overtaken.
THEOREM SomeoneIsFullAlways ==
  ASSUME Bootstrap # {} \/ \E u \in Users : FirstAdmins[u] = Full
  PROVE  Spec => []SomeoneIsFull
<1>1. Init => RemovalInv
  <2> SUFFICES ASSUME Init PROVE RemovalInv
    OBVIOUS
  <2>1. \E u \in Users : HasLevel(u, Full)
    BY UpdatesAssumption DEF Init, CoreInit, HasLevel, Full
  <2> QED
    BY <2>1 DEF Init, CoreInit, NoUpdate, RemovalInv, At
<1>2. RemovalInv => SomeoneIsFull
  BY DEF RemovalInv, SomeoneIsFull
<1> QED
  BY <1>1, <1>2, CoreInitial, CoreStep, RemovalStep, PTL DEF Spec

-----------------------------------------------------------------------------
(* The address is on its network *)

Before == Early \cup Middle \cup {"handler"}
Saving == {"save_address", "save_network"}

\* A step that has nothing to do with the settlement address: at most it ends
\* the conversation the network was chosen in.
Aside(h) ==
    /\ Others(h) /\ settlement' = settlement
    /\ \A u \in Users : chat'[u].network \in {None, chat[u].network}
    /\ \/ At(h, "idle")'
       \/ /\ ~At(h, "idle")
          /\ update'[h].task = update[h].task /\ update'[h].arg = update[h].arg
          /\ update'[h].from = update[h].from
          /\ update[h].pc \notin Saving /\ update'[h].pc \notin Saving
          /\ update'[h].pc \in Before => update[h].pc \in Before

LEMMA SettleSteps ==
  ASSUME CoreInv, NEW h \in Updates, Steps(h)
  PROVE  \/ Ask(h) /\ update[h].task = "network"
         \/ ReceiveAddress(h) \/ SaveAddress(h) \/ SaveNetwork(h)
         \/ Aside(h)
<1>0. Types /\ chat \in [Users -> Chats]
  BY DEF CoreInv, Types, RowTypes
<1>1. Idle.network = None /\ \A u \in Users : chat[u].network \in {None, chat[u].network}
  BY DEF Idle
<1>2. ASSUME Ends(h), settlement' = settlement,
             chat' = chat \/ (From(h) \in Users /\ chat' = [chat EXCEPT ![From(h)] = Idle])
      PROVE  Aside(h)
  <2>1. Others(h) /\ At(h, "idle")'
    BY <1>0, <1>2, EndsOver DEF Over, At
  <2>2. \A u \in Users : chat'[u].network \in {None, chat[u].network}
    BY <1>0, <1>1, <1>2
  <2> QED
    BY <1>2, <2>1, <2>2 DEF Aside
<1>3. ASSUME ~At(h, "idle") PROVE From(h) \in Users
  BY <1>3, RowFacts
<1>4. CASE Middlewares(h) /\ UNCHANGED settlement
  <2>1. CASE \/ InsertRefused(h) \/ Blocked(h) \/ AskLanguage(h) \/ AskToJoin(h) \/ NoPermission(h)
             \/ Finish(h) \/ PoolTimeout(h)
    BY <1>2, <1>4, <2>1 DEF InsertRefused, Blocked, AskLanguage, AskToJoin, NoPermission, Finish, PoolTimeout, Rows
  <2>2. CASE \/ KnownUser(h) \/ FirstSeen(h) \/ InsertUser(h) \/ Announce(h) \/ PassBlock(h) \/ PassLanguage(h)
             \/ Exempt(h) \/ Member(h) \/ Permit(h)
    BY <1>0, <1>4, <2>2 DEF KnownUser, FirstSeen, InsertUser, Announce, PassBlock, PassLanguage, Exempt, Member,
       Permit, Types, Handled, Others, At, Goto, Rows, Aside, Before, Saving, Early, Middle
  <2> QED
    BY <1>4, <2>1, <2>2 DEF Middlewares
<1>5. CASE Handler(h)
  <2>1. CASE OpenScreen(h) \/ ShowScreen(h) \/ ChooseLanguage(h) \/ Gathered(h) \/ ToggleBlock(h)
             \/ ReceiveLevel(h) \/ AddAdmin(h) \/ RemoveAdmin(h) \/ ReadChannels(h) \/ SwitchChannels(h)
    <3>1. chat' = chat /\ settlement' = settlement
      BY <2>1 DEF OpenScreen, ShowScreen, ChooseLanguage, Gathered, ToggleBlock, ReceiveLevel, AddAdmin, RemoveAdmin,
         ReadChannels, SwitchChannels, Rows
    <3>2. CASE OpenScreen(h) \/ ShowScreen(h) \/ ChooseLanguage(h) \/ Gathered(h) \/ ToggleBlock(h)
      BY <1>0, <3>1, <3>2 DEF OpenScreen, ShowScreen, ChooseLanguage, Gathered, ToggleBlock,
         Runs, Types, Handled, Others, At, Goto, Aside, Before, Saving, Early, Middle
    <3>3. CASE ReceiveLevel(h) \/ AddAdmin(h) \/ RemoveAdmin(h) \/ ReadChannels(h) \/ SwitchChannels(h)
      BY <1>0, <3>1, <3>3 DEF ReceiveLevel, AddAdmin, RemoveAdmin, ReadChannels, SwitchChannels,
         Runs, Types, Handled, Others, At, Goto, Aside, Before, Saving, Early, Middle
    <3> QED
      BY <2>1, <3>2, <3>3
  <2>2. CASE Forget(h) \/ CheckRemoval(h) \/ BlockId(h) \/ Unblock(h) \/ Gather(h) \/ ShowChannels(h)
             \/ ReceiveChannels(h)
    <3>1. /\ ~At(h, "idle") /\ settlement' = settlement
          /\ chat' = chat \/ chat' = [chat EXCEPT ![From(h)] = Idle]
      BY <2>2 DEF Forget, CheckRemoval, BlockId, Unblock, Gather, ShowChannels, ReceiveChannels, Runs, At
    <3>2. \A u \in Users : chat'[u].network \in {None, chat[u].network}
      BY <1>0, <1>1, <1>3, <3>1
    <3>3. CASE Forget(h) \/ CheckRemoval(h) \/ BlockId(h) \/ Unblock(h)
      BY <1>0, <3>1, <3>2, <3>3 DEF Forget, CheckRemoval, BlockId, Unblock,
         Runs, Types, Handled, Others, At, Goto, Aside, Before, Saving, Early, Middle
    <3>4. CASE Gather(h) \/ ShowChannels(h) \/ ReceiveChannels(h)
      BY <1>0, <3>1, <3>2, <3>4 DEF Gather, ShowChannels, ReceiveChannels,
         Runs, Types, Handled, Others, At, Goto, Aside, Before, Saving, Early, Middle
    <3> QED
      BY <2>2, <3>3, <3>4
  <2>3. CASE \/ Ask(h) /\ update[h].task # "network"
             \/ ReceiveId(h) \/ AskChannels(h)
    <3>1. /\ At(h, "handler") /\ ~At(h, "idle") /\ Goto(h, "done") /\ settlement' = settlement
      BY <2>3 DEF Ask, ReceiveId, AskChannels, Runs, At
    <3>2. \A u \in Users : chat'[u].network \in {None, chat[u].network}
      BY <1>0, <1>3, <2>3, <3>1 DEF Ask, ReceiveId, AskChannels, Chats
    <3> QED
      BY <1>0, <3>1, <3>2 DEF Types, Handled, Others, At, Goto, Aside, Before, Saving, Early, Middle
  <2>4. CASE AddRefused(h) \/ RefuseRemoval(h) \/ NotAUser(h)
    <3>1. ~At(h, "idle")
      BY <2>4 DEF AddRefused, RefuseRemoval, NotAUser, Runs, At
    <3> QED
      BY <1>2, <1>3, <2>4, <3>1 DEF AddRefused, RefuseRemoval, NotAUser, Rows
  <2> QED
    BY <1>5, <2>1, <2>2, <2>3, <2>4 DEF Handler
<1> QED
  BY <1>4, <1>5 DEF Steps

\* Two changes that meet, and a save that is given up, are on record.
LEMMA ChangesMeet ==
  ASSUME Watching, "saves" \notin raced'
  PROVE  /\ "saves" \notin raced
         /\ \A g, h \in Updates : Settling(g)' /\ Settling(h)' => g = h
         /\ \A h \in Updates : At(h, "save_network") => ~At(h, "idle")'
<1> DEFINE settling == {h \in Updates : update'[h].pc # "idle" /\ update'[h].task \in {"network", "address"}}
           given_up == {h \in Updates : At(h, "save_network") /\ update'[h].pc = "idle"}
<1>1. raced \subseteq raced' /\ ~(Cardinality(settling) > 1) /\ given_up = {}
  BY DEF Watching
<1>2. IsFiniteSet(settling)
  BY UpdatesAssumption, FS_Subset
<1>3. \A g, h \in settling : g = h
  BY <1>1, <1>2, AtMostOne
<1> QED
  BY <1>1, <1>3 DEF At, Settling

\* What holds of the one change in progress.
ChangeOK(h) ==
    Settling(h) /\ update[h].task = "address" =>
      /\ update[h].pc \in Before => chat[From(h)].network \in {None, update[h].arg}
      /\ update[h].pc \in Saving => update[h].memo = update[h].arg
      /\ At(h, "save_network") => settlement.address = update[h].arg

LEMMA SettlementStep == CoreInv /\ SettlementInv /\ [Next]_vars => SettlementInv'
<1> SUFFICES ASSUME CoreInv, SettlementInv, [Next]_vars, "saves" \notin raced'
             PROVE  /\ \A g, h \in Updates : Settling(g)' /\ Settling(h)' => g = h
                    /\ \A h \in Updates : ChangeOK(h)'
                    /\ (\A h \in Updates : ~At(h, "save_network")') => settlement'.address = settlement'.network
  BY DEF SettlementInv, ChangeOK, Before, Saving, Early, Middle
<1>0. /\ update \in [Updates -> Handled] /\ chat \in [Users -> Chats] /\ settlement \in Pairs
      /\ \A h \in Updates : UpdateOK(h) /\ (~At(h, "idle") => From(h) \in Users)
  BY RowFacts DEF CoreInv, Types, RowTypes, UpdateInv
<1>1. CASE Next
  <2>0. /\ "saves" \notin raced /\ Watching
        /\ \A g, h \in Updates : Settling(g)' /\ Settling(h)' => g = h
        /\ \A h \in Updates : At(h, "save_network") => ~At(h, "idle")'
        /\ \A h \in Updates : ChangeOK(h)
        /\ (\A h \in Updates : ~At(h, "save_network")) => settlement.address = settlement.network
    BY <1>1, ChangesMeet DEF Next, SettlementInv, ChangeOK, Before, Saving, Early, Middle
  <2> SUFFICES /\ \A h \in Updates : Settling(h)' => ChangeOK(h)'
               /\ (\A h \in Updates : ~At(h, "save_network")') => settlement'.address = settlement'.network
    BY <2>0 DEF ChangeOK
  \* A change that is not the step's own.
  <2>1. ASSUME NEW g \in Updates, update'[g] = update[g], settlement' = settlement,
               \A u \in Users : chat'[u].network \in {None, chat[u].network}
        PROVE  Settling(g)' => ChangeOK(g)'
    <3>1. Settling(g)' => Settling(g)
      BY <2>1 DEF Settling, At
    <3>2. Settling(g) => From(g) \in Users
      BY <1>0 DEF Settling
    <3> QED
      BY <2>0, <2>1, <3>1, <3>2 DEF ChangeOK, Settling, At, From
  <2>2. ASSUME NEW h \in Updates, Others(h), Settling(h)', ChangeOK(h)'
        PROVE  \A g \in Updates : Settling(g)' => ChangeOK(g)'
    BY <2>0, <2>2
  <2>3. ASSUME NEW h \in Updates, Aside(h)
        PROVE  /\ \A g \in Updates : Settling(g)' => ChangeOK(g)'
               /\ (\A g \in Updates : ~At(g, "save_network")') => settlement'.address = settlement'.network
    <3>1. Settling(h)' => ChangeOK(h)'
      <4>1. CASE At(h, "idle")'
        BY <4>1 DEF Settling
      <4>2. CASE ~At(h, "idle")'
        BY <1>0, <2>0, <2>3, <4>2 DEF Aside, ChangeOK, Settling, At, From, Saving
      <4> QED
        BY <4>1, <4>2
    <3>2. (\A g \in Updates : ~At(g, "save_network")') => \A g \in Updates : ~At(g, "save_network")
      BY <2>0, <2>3 DEF Aside, Others, At, Saving
    <3> QED
      BY <2>0, <2>1, <2>3, <3>1, <3>2 DEF Aside, Others
  <2>4. ASSUME NEW h \in Updates, Ask(h), update[h].task = "network"
        PROVE  /\ \A g \in Updates : Settling(g)' => ChangeOK(g)'
               /\ (\A g \in Updates : ~At(g, "save_network")') => settlement'.address = settlement'.network
    <3>1. /\ At(h, "handler") /\ Goto(h, "done") /\ settlement' = settlement
      BY <2>4 DEF Ask
    <3>2. /\ Others(h) /\ Settling(h)' /\ update'[h].task = "network"
      BY <1>0, <2>4, <3>1 DEF Goto, Others, Settling, At, Handled
    <3>3. (\A g \in Updates : ~At(g, "save_network")') => \A g \in Updates : ~At(g, "save_network")
      BY <3>1, <3>2 DEF Others, At
    <3> QED
      BY <2>0, <2>2, <3>1, <3>2, <3>3 DEF ChangeOK
  <2>5. ASSUME NEW h \in Updates, ReceiveAddress(h)
        PROVE  /\ \A g \in Updates : Settling(g)' => ChangeOK(g)'
               /\ (\A g \in Updates : ~At(g, "save_network")') => settlement'.address = settlement'.network
    <3>1. /\ At(h, "handler") /\ update[h].task = "address" /\ settlement' = settlement
          /\ Others(h) /\ update'[h].task = update[h].task /\ update'[h].arg = update[h].arg
          /\ update'[h].memo = chat[From(h)].network
          /\ update'[h].pc = IF chat[From(h)].network = None THEN "done" ELSE "save_address"
      BY <1>0, <2>5 DEF ReceiveAddress, Runs, At, Others, Handled
    <3>2. Settling(h) /\ Settling(h)'
      BY <3>1 DEF Settling, At
    <3>3. chat[From(h)].network \in {None, update[h].arg}
      BY <2>0, <3>1, <3>2 DEF ChangeOK, Before, At
    <3>4. ChangeOK(h)'
      BY <3>1, <3>3 DEF ChangeOK, At, Before, Saving, Early, Middle
    <3>5. (\A g \in Updates : ~At(g, "save_network")') => \A g \in Updates : ~At(g, "save_network")
      BY <3>1 DEF Others, At
    <3> QED
      BY <2>0, <2>2, <3>1, <3>2, <3>4, <3>5
  <2>6. ASSUME NEW h \in Updates, SaveAddress(h)
        PROVE  /\ \A g \in Updates : Settling(g)' => ChangeOK(g)'
               /\ (\A g \in Updates : ~At(g, "save_network")') => settlement'.address = settlement'.network
    <3>1. /\ At(h, "save_address") /\ update[h].task = "address"
          /\ settlement' = [settlement EXCEPT !.address = update[h].arg]
          /\ Others(h) /\ update'[h].task = update[h].task /\ update'[h].arg = update[h].arg
          /\ update'[h].memo = update[h].memo /\ update'[h].pc = "save_network"
      BY <1>0, <2>6 DEF SaveAddress, UpdateOK, At, Goto, Others, Handled
    <3>2. Settling(h) /\ Settling(h)' /\ At(h, "save_network")'
      BY <3>1 DEF Settling, At
    <3>3. update[h].memo = update[h].arg
      BY <2>0, <3>1, <3>2 DEF ChangeOK, Saving, At
    <3>4. settlement'.address = update[h].arg
      BY <1>0, <3>1 DEF Pairs
    <3>5. ChangeOK(h)'
      BY <3>1, <3>3, <3>4 DEF ChangeOK, At, Before, Saving, Early, Middle
    <3> QED
      BY <2>2, <3>1, <3>2, <3>5
  <2>7. ASSUME NEW h \in Updates, SaveNetwork(h)
        PROVE  /\ \A g \in Updates : Settling(g)' => ChangeOK(g)'
               /\ (\A g \in Updates : ~At(g, "save_network")') => settlement'.address = settlement'.network
    <3>1. /\ At(h, "save_network") /\ update[h].task = "address"
          /\ settlement' = [settlement EXCEPT !.network = update[h].memo]
          /\ Others(h) /\ update'[h].task = update[h].task /\ update'[h].pc = "done"
      BY <1>0, <2>7 DEF SaveNetwork, UpdateOK, At, Goto, Others, Handled
    <3>2. Settling(h) /\ Settling(h)'
      BY <3>1 DEF Settling, At
    <3>3. update[h].memo = update[h].arg /\ settlement.address = update[h].arg
      BY <2>0, <3>1, <3>2 DEF ChangeOK, Saving, At
    <3>4. settlement'.address = settlement'.network
      BY <1>0, <3>1, <3>3 DEF Pairs
    <3>5. ChangeOK(h)'
      BY <3>1 DEF ChangeOK, At, Before, Saving, Early, Middle
    <3> QED
      BY <2>2, <3>1, <3>2, <3>4, <3>5
  <2>8. ASSUME NEW h \in Updates, NEW u \in Users, NEW task \in DOMAIN Required, Update(h, u, task)
        PROVE  /\ \A g \in Updates : Settling(g)' => ChangeOK(g)'
               /\ (\A g \in Updates : ~At(g, "save_network")') => settlement'.address = settlement'.network
    <3>1. PICK arg \in Says(u, task) : Arrive(h, u, task, arg)
      BY <2>8 DEF Update
    <3>2. /\ Others(h) /\ settlement' = settlement /\ chat' = chat /\ At(h, "idle")
          /\ update'[h] = [pc |-> "tracking", from |-> u, task |-> task, arg |-> arg, memo |-> None]
      BY <1>0, <2>8, <3>1 DEF Update, Arrive, Others, Rows
    <3>3. task = "address" => arg = chat[u].network
      BY <1>0, Said
    <3>4. ChangeOK(h)'
      BY <3>2, <3>3 DEF ChangeOK, At, From, Saving
    <3>5. \A g \in Updates : Settling(g)' => ChangeOK(g)'
      BY <2>1, <3>2, <3>4 DEF Others
    <3>6. (\A g \in Updates : ~At(g, "save_network")') => \A g \in Updates : ~At(g, "save_network")
      BY <3>2 DEF Others, At
    <3> QED
      BY <2>0, <3>2, <3>5, <3>6
  <2>9. CASE Restart
    <3>1. settlement' = settlement /\ \A h \in Updates : At(h, "idle")'
      BY <2>9 DEF Restart, NoUpdate, At
    <3> QED
      BY <2>0, <3>1 DEF Settling
  <2> QED
    BY <1>1, <2>3, <2>4, <2>5, <2>6, <2>7, <2>8, <2>9, SettleSteps DEF Next
<1>2. CASE UNCHANGED vars
  BY <1>2 DEF vars, coreVars, SettlementInv, Settling, ChangeOK, At, From, Before, Saving, Early, Middle
<1> QED
  BY <1>1, <1>2

\* The address that money is sent to is on the network that is stored with it,
\* although the two are commits of their own and the network was chosen in an
\* update before: unless two changes meet, or one is given up half way.
THEOREM SettlementPairAlways == Spec => []SettlementPair
<1>1. Init => SettlementInv
  BY DEF Init, CoreInit, NoUpdate, SettlementInv, Settling, At
<1>2. SettlementInv => SettlementPair
  BY DEF SettlementInv, SettlementPair
<1> QED
  BY <1>1, <1>2, CoreInitial, CoreStep, SettlementStep, PTL DEF Spec
=============================================================================
