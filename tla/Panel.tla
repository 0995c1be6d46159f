------------------------------- MODULE Panel -------------------------------
(***************************************************************************)
(* What full and support admins do in the panel beside each other, while   *)
(* customers use the bot: adding and removing admins, blocking users, and  *)
(* the settlement settings (app/bot/handlers/admin_admins.py,              *)
(* admin_block.py, user_admin.py, admin_settings.py).  Every button and    *)
(* text is an update that passes the middlewares of Updates first.         *)
(***************************************************************************)
EXTENDS Updates

CONSTANTS
    Staff,      \* who has, or has had, the panel on the screen
    Budgets     \* bounds: how many updates of each kind a behaviour has

VARIABLES
    settlement, \* the two settings of the settlement address
    was,        \* history: what was true of a sender since the update arrived
    raced,      \* history: two removals, or two changes of the address, have met
    budget

vars == <<coreVars, settlement, was, raced, budget>>

Kind ==
    [menu |-> "menu", language |-> "menu",
     add_start |-> "add", add_id |-> "add", add_level |-> "add", remove |-> "remove",
     block_start |-> "block", block_id |-> "block", unblock |-> "block", toggle_block |-> "block",
     network |-> "settle", address |-> "settle",
     show_channels |-> "channel", toggle_channel |-> "channel",
     ask_channels |-> "channel", list_channels |-> "channel"]

Init ==
    /\ CoreInit
    /\ settlement = [address |-> None, network |-> None]
    /\ was = [h \in Updates |-> None]
    /\ raced = {}
    /\ budget \in Budgets

-----------------------------------------------------------------------------
(* Handlers *)

Runs(h, task) == At(h, "handler") /\ update[h].task = task

\* A customer's screen, with a session that may stay open across a call of
\* IBSng; texts that mean nothing end here as well.
OpenScreen(h) ==
    /\ Runs(h, "menu") /\ Connection
    /\ Goto(h, "working")
    /\ Hold(h, "own")
    /\ UNCHANGED <<Rows, settlement>>

ShowScreen(h) ==
    /\ At(h, "working")
    /\ Goto(h, "done")
    /\ Release(h, "own")
    /\ UNCHANGED <<Rows, settlement>>

ChooseLanguage(h) ==
    /\ Runs(h, "language") /\ Connection
    /\ user' = [user EXCEPT ![From(h)].language = TRUE]
    /\ Goto(h, "done")
    /\ UNCHANGED <<admin, announced, channels, chat, held, settlement>>

\* Buttons that ask for a text, or for the network an address is on.
Ask(h) ==
    /\ At(h, "handler")
    /\ \/ /\ update[h].task = "add_start"
          /\ chat' = [chat EXCEPT ![From(h)].state = "admin_id"]
       \/ /\ update[h].task = "block_start"
          /\ chat' = [chat EXCEPT ![From(h)].state = "block_id"]
       \/ /\ update[h].task = "network"
          /\ chat' = [chat EXCEPT ![From(h)].state = "address", ![From(h)].network = update[h].arg]
    /\ Goto(h, "done")
    /\ UNCHANGED <<user, admin, announced, channels, held, settlement>>

\* Only an id that is no admin's yet leads to the choice of a level.
ReceiveId(h) ==
    LET id == update[h].arg IN
    /\ Runs(h, "add_id") /\ Connection
    /\ chat' = IF id \in Bootstrap \/ admin[id] # 0 THEN chat
               ELSE [chat EXCEPT ![From(h)].state = "level", ![From(h)].target = id]
    /\ Goto(h, "done")
    /\ UNCHANGED <<user, admin, announced, channels, held, settlement>>

\* state.get_data(), then state.clear(): a second tap may read before the
\* first one clears.
ReceiveLevel(h) ==
    /\ Runs(h, "add_level")
    /\ update' = [update EXCEPT ![h].pc = "forget", ![h].memo = chat[From(h)].target]
    /\ UNCHANGED <<Rows, held, settlement>>

Forget(h) ==
    /\ At(h, "forget")
    /\ chat' = [chat EXCEPT ![From(h)] = Idle]
    /\ Goto(h, IF update[h].memo = None THEN "done" ELSE "add")
    /\ UNCHANGED <<user, admin, announced, channels, held, settlement>>

AddAdmin(h) ==
    /\ At(h, "add") /\ Connection
    /\ admin[update[h].memo] = 0
    /\ admin' = [admin EXCEPT ![update[h].memo] = update[h].arg]
    /\ Goto(h, "done")
    /\ UNCHANGED <<user, announced, channels, chat, held, settlement>>

\* The unique telegram_id refuses the row; nobody is told.
AddRefused(h) ==
    /\ At(h, "add") /\ Connection
    /\ admin[update[h].memo] # 0
    /\ Ends(h)
    /\ UNCHANGED <<Rows, settlement>>

\* A mutant: the admin to be removed is counted among those who remain.
IsLastFullAdminOrNone(id) ==
    /\ Bootstrap = {}
    /\ \A other \in Users : admin[other] < Full

IsLastFullAdmin(id) ==
    /\ Bootstrap = {}
    /\ \A other \in Users \ {id} : admin[other] < Full

RefuseRemoval(h) ==
    /\ Runs(h, "remove") /\ Connection
    /\ admin[update[h].arg] = Full /\ IsLastFullAdmin(update[h].arg)
    /\ chat' = [chat EXCEPT ![From(h)] = Idle]
    /\ Ends(h)
    /\ UNCHANGED <<user, admin, announced, channels, settlement>>

CheckRemoval(h) ==
    /\ Runs(h, "remove") /\ Connection
    /\ ~(admin[update[h].arg] = Full /\ IsLastFullAdmin(update[h].arg))
    /\ chat' = [chat EXCEPT ![From(h)] = Idle]
    /\ Goto(h, "remove")
    /\ Hold(h, "own")
    /\ UNCHANGED <<user, admin, announced, channels, settlement>>

RemoveAdmin(h) ==
    /\ At(h, "remove")
    /\ admin' = [admin EXCEPT ![update[h].arg] = 0]
    /\ Goto(h, "done")
    /\ Release(h, "own")
    /\ UNCHANGED <<user, announced, channels, chat, settlement>>

\* Only somebody the bot has seen can be blocked; the conversation ends with it.
BlockId(h) ==
    LET id == update[h].arg IN
    /\ Runs(h, "block_id") /\ Connection
    /\ IF user[id] = None THEN UNCHANGED <<user, chat>>
       ELSE /\ user' = [user EXCEPT ![id].blocked = TRUE]
            /\ chat' = [chat EXCEPT ![From(h)] = Idle]
    /\ Goto(h, "done")
    /\ UNCHANGED <<admin, announced, channels, held, settlement>>

Unblock(h) ==
    LET id == update[h].arg IN
    /\ Runs(h, "unblock") /\ Connection
    /\ user' = IF user[id] = None THEN user ELSE [user EXCEPT ![id].blocked = FALSE]
    /\ chat' = [chat EXCEPT ![From(h)] = Idle]
    /\ Goto(h, "done")
    /\ UNCHANGED <<admin, announced, channels, held, settlement>>

\* The button on a customer's page: the page is gathered, live status of every
\* service included, and the opposite of what it says is written.
Gather(h) ==
    /\ Runs(h, "toggle_block") /\ Connection
    /\ user[update[h].arg] # None
    /\ update' = [update EXCEPT ![h].pc = "gather", ![h].memo = user[update[h].arg].blocked]
    /\ chat' = [chat EXCEPT ![From(h)] = Idle]
    /\ Hold(h, "own")
    /\ UNCHANGED <<user, admin, announced, channels, settlement>>

Gathered(h) ==
    /\ At(h, "gather")
    /\ Goto(h, "toggle")
    /\ Release(h, "own")
    /\ UNCHANGED <<Rows, settlement>>

ToggleBlock(h) ==
    /\ At(h, "toggle") /\ Connection
    /\ user' = [user EXCEPT ![update[h].arg].blocked = ~update[h].memo]
    /\ Goto(h, "done")
    /\ UNCHANGED <<admin, announced, channels, chat, held, settlement>>

NotAUser(h) ==
    /\ Runs(h, "toggle_block") /\ Connection
    /\ user[update[h].arg] = None
    /\ Ends(h)
    /\ UNCHANGED <<Rows, settlement>>

\* The mandatory channels' screen ends whatever was asked for.
ShowChannels(h) ==
    /\ Runs(h, "show_channels") /\ Connection
    /\ chat' = [chat EXCEPT ![From(h)] = Idle]
    /\ Goto(h, "done")
    /\ UNCHANGED <<user, admin, announced, channels, held, settlement>>

AskChannels(h) ==
    /\ Runs(h, "ask_channels")
    /\ chat' = [chat EXCEPT ![From(h)].state = "channels"]
    /\ Goto(h, "done")
    /\ UNCHANGED <<user, admin, announced, channels, held, settlement>>

\* A list of usernames or "clear"; anything else is refused and asked for again.
ReceiveChannels(h) ==
    /\ Runs(h, "list_channels")
    /\ \/ /\ update[h].arg = "invalid"
          /\ UNCHANGED <<channels, chat>>
       \/ /\ update[h].arg \in {"names", "clear"} /\ Connection
          /\ channels' = [channels EXCEPT !.listed = update[h].arg = "names"]
          /\ chat' = [chat EXCEPT ![From(h)] = Idle]
    /\ Goto(h, "done")
    /\ UNCHANGED <<user, admin, announced, held, settlement>>

\* The switch of the mandatory channels writes the opposite of what it read.
ReadChannels(h) ==
    /\ Runs(h, "toggle_channel") /\ Connection
    /\ update' = [update EXCEPT ![h].pc = "switch", ![h].memo = channels.on]
    /\ Hold(h, "own")
    /\ UNCHANGED <<Rows, settlement>>

SwitchChannels(h) ==
    /\ At(h, "switch")
    /\ channels' = [channels EXCEPT !.on = ~update[h].memo]
    /\ Goto(h, "done")
    /\ Release(h, "own")
    /\ UNCHANGED <<user, admin, announced, chat, settlement>>

\* The network comes from the conversation, the address from the text, which
\* is here the network the admin meant; each is a commit of its own.
ReceiveAddress(h) ==
    /\ Runs(h, "address")
    /\ update' = [update EXCEPT ![h].memo = chat[From(h)].network,
                                ![h].pc = IF chat[From(h)].network = None THEN "done"
                                          ELSE "save_address"]
    /\ chat' = IF chat[From(h)].network = None THEN [chat EXCEPT ![From(h)] = Idle] ELSE chat
    /\ UNCHANGED <<user, admin, announced, channels, held, settlement>>

SaveAddress(h) ==
    /\ At(h, "save_address") /\ Connection
    /\ settlement' = [settlement EXCEPT !.address = update[h].arg]
    /\ Goto(h, "save_network")
    /\ UNCHANGED <<Rows, held>>

\* A mutant: the network is taken from what is stored.
KeepNetwork(h) ==
    /\ At(h, "save_network") /\ Connection
    /\ settlement' = [settlement EXCEPT !.network = IF @ = None THEN update[h].memo ELSE @]
    /\ chat' = [chat EXCEPT ![From(h)] = Idle]
    /\ Goto(h, "done")
    /\ UNCHANGED <<user, admin, announced, channels, held>>

SaveNetwork(h) ==
    /\ At(h, "save_network") /\ Connection
    /\ settlement' = [settlement EXCEPT !.network = update[h].memo]
    /\ chat' = [chat EXCEPT ![From(h)] = Idle]
    /\ Goto(h, "done")
    /\ UNCHANGED <<user, admin, announced, channels, held>>

Handler(h) ==
    \/ OpenScreen(h) \/ ShowScreen(h) \/ ChooseLanguage(h) \/ Ask(h)
    \/ ReceiveId(h) \/ ReceiveLevel(h) \/ Forget(h) \/ AddAdmin(h) \/ AddRefused(h)
    \/ RefuseRemoval(h) \/ CheckRemoval(h) \/ RemoveAdmin(h)
    \/ BlockId(h) \/ Unblock(h) \/ Gather(h) \/ Gathered(h) \/ ToggleBlock(h) \/ NotAUser(h)
    \/ ShowChannels(h) \/ AskChannels(h) \/ ReceiveChannels(h) \/ ReadChannels(h) \/ SwitchChannels(h)
    \/ ReceiveAddress(h) \/ SaveAddress(h) \/ SaveNetwork(h)

Steps(h) == (Middlewares(h) /\ UNCHANGED settlement) \/ Handler(h)

-----------------------------------------------------------------------------
(* Updates that arrive, restarts, history and bounds *)

\* What a button or text can say.  An admin types an address on the network
\* last asked for.
Says(u, task) ==
    CASE task \in {"add_id", "remove", "block_id", "unblock", "toggle_block"} -> Users
      [] task = "add_level" -> {Support, Full}
      [] task = "network" -> Networks
      [] task = "address" -> {chat[u].network}
      [] task = "list_channels" -> {"names", "clear", "invalid"}
      [] OTHER -> {None}

Update(h, u, task) ==
    /\ Required[task] > 0 => u \in Staff
    /\ budget[Kind[task]] > 0
    /\ budget' = [budget EXCEPT ![Kind[task]] = @ - 1]
    /\ \E arg \in Says(u, task) : Arrive(h, u, task, arg)
    /\ UNCHANGED settlement

\* drop_pending_updates: what was being handled is gone, conversations are not.
Restart ==
    /\ budget.restart > 0
    /\ budget' = [budget EXCEPT !.restart = @ - 1]
    /\ update' = [h \in Updates |-> NoUpdate]
    /\ held' = {}
    /\ UNCHANGED <<Rows, settlement>>

Now(h) == [free |-> ~IsBlocked(From(h)) \/ HasLevel(From(h), Support),
           level |-> HasLevel(From(h), Required[update[h].task])]

Watching ==
    /\ was' = [h \in Updates |->
                 IF update'[h].pc = "idle" THEN None
                 ELSE IF At(h, "idle") THEN Now(h)'
                 ELSE IF update'[h].pc = "done" THEN was[h]
                 ELSE [free |-> was[h].free \/ Now(h)'.free,
                       level |-> was[h].level \/ Now(h)'.level]]
    /\ LET removing == {h \in Updates : update'[h].pc = "remove"}
           settling == {h \in Updates : /\ update'[h].pc # "idle"
                                        /\ update'[h].task \in {"network", "address"}}
           given_up == {h \in Updates : At(h, "save_network") /\ update'[h].pc = "idle"}
       IN raced' = raced
            \cup (IF Cardinality(removing) > 1 THEN {"removals"} ELSE {})
            \cup (IF Cardinality(settling) > 1 \/ given_up # {} THEN {"saves"} ELSE {})

Next ==
    /\ \/ \E h \in Updates, u \in Users, task \in DOMAIN Required : Update(h, u, task)
       \/ \E h \in Updates : Steps(h) /\ UNCHANGED budget
       \/ Restart
    /\ Watching

\* Every handler goes on: Telegram and IBSng are called with timeouts, and no
\* step waits for another handler but for a connection.
Spec == /\ Init /\ [][Next]_vars
        /\ \A h \in Updates : WF_vars(Steps(h) /\ UNCHANGED budget /\ Watching)

-----------------------------------------------------------------------------
(* Properties *)

\* The rows, the conversations and the sessions have the types of their
\* columns, and no session outlives its update.
TypeOK ==
    /\ user \in [Users -> [blocked : BOOLEAN, language : BOOLEAN] \cup {None}]
    /\ admin \in [Users -> 0..3]
    /\ channels \in [on : BOOLEAN, listed : BOOLEAN]
    /\ \A u \in Users : chat[u].target \in Users \cup {None} /\ chat[u].network \in Networks \cup {None}
    /\ Cardinality(held) <= PoolSize
    /\ \A c \in held : update[c[1]].pc # "idle"
    /\ settlement \in [address : Networks \cup {None}, network : Networks \cup {None}]

\* What an update brings about is done for somebody who since it arrived had,
\* at some moment, the level it takes, and was at some moment not blocked (or
\* an admin, whom a block does not stop): however old the keyboard, whatever
\* state the conversation was left in, and whoever was removed or blocked
\* before the update arrived.
ActsWithAuthority ==
    \A h \in Updates :
      At(h, "done") => /\ was[h].free
                       /\ was[h].level

\* There is always a full admin to run the panel, unless two removals met
\* between the count of full admins and the delete.
SomeoneIsFull ==
    "removals" \notin raced => \E u \in Users : HasLevel(u, Full)

\* "New user" is reported once at most, and only for a user who has a row.
NewUserOnce ==
    \A u \in Users : /\ announced[u] <= 1
                     /\ announced[u] = 1 => user[u] # None

\* The stored address is on the stored network when no save is under way:
\* unless two changes of it met, or a save was given up between its
\* two commits by a restart or an empty pool.
SettlementPair ==
    raced \cap {"saves"} = {} /\ (\A h \in Updates : ~At(h, "save_network"))
      => settlement.address = settlement.network

\* Every update comes to an end, also when each of those in progress holds
\* connections and waits for one more.
Answered == \A h \in Updates : []<>At(h, "idle")
=============================================================================
