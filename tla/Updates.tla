------------------------------ MODULE Updates ------------------------------
(***************************************************************************)
(* An update of a private chat on its way through the outer middlewares    *)
(* (app/main.py, app/bot/middlewares), up to its handler: first contact,   *)
(* the block, the language, the mandatory channels, the permission.        *)
(*                                                                         *)
(* Every update is a task of its own.  Each check opens a session, and two *)
(* of them keep theirs, with its connection, while everything behind them  *)
(* runs; who finds the pool empty for five seconds gives up.  The state of *)
(* the sender's conversation, which decides what handles a text, is read   *)
(* before the first of these middlewares.                                  *)
(***************************************************************************)
EXTENDS Integers, FiniteSets

CONSTANTS
    Users,       \* telegram ids
    Bootstrap,   \* ADMIN_IDS
    FirstAdmins, \* admin_users at first
    Known,       \* who has used the bot before
    Updates,     \* updates handled at once
    PoolSize,    \* connections of the pool, pool_size + max_overflow
    Networks,
    None

ASSUME UpdatesAssumption ==
    /\ Bootstrap \subseteq Users /\ Known \subseteq Users
    /\ FirstAdmins \in [Users -> 0..3]
    /\ IsFiniteSet(Updates) /\ PoolSize \in Nat
    /\ None \notin Users \cup Networks \cup [blocked : BOOLEAN, language : BOOLEAN]

VARIABLES
    user,       \* bot_users: a row, or None
    admin,      \* admin_users: a level, or 0
    announced,  \* how often NEW_USER was posted for a user
    channels,   \* the mandatory channels: switched on, and any listed
    chat,       \* what the bot expects next of a user: state and data
    update,     \* the handlers in progress
    held        \* connections in use: of which update, in which session

coreVars == <<user, admin, announced, channels, chat, update, held>>

\* LEVELS
Support == 1
Full == 3

Idle == [state |-> "none", target |-> None, network |-> None]

NoUpdate == [pc |-> "idle", from |-> None, task |-> None, arg |-> None, memo |-> None]

\* The level a handler asks for: on its router, or in its first lines.
Required ==
    [menu |-> 0, language |-> 0,
     add_start |-> Full, add_id |-> Full, add_level |-> Full, remove |-> Full,
     block_start |-> Support, block_id |-> Support, unblock |-> Support, toggle_block |-> Support,
     network |-> Full, address |-> Full,
     show_channels |-> Full, toggle_channel |-> Full, ask_channels |-> Full, list_channels |-> Full]

\* The state a conversation must be in for a text, or a button, to mean this.
Expected(task) ==
    CASE task = "add_id" -> "admin_id"
      [] task = "add_level" -> "level"
      [] task = "block_id" -> "block_id"
      [] task = "address" -> "address"
      [] task = "list_channels" -> "channels"
      [] OTHER -> "any"

HasLevel(u, level) == u \in Bootstrap \/ admin[u] >= level

IsBlocked(u) == user[u] # None /\ user[u].blocked

CoreInit ==
    /\ user = [u \in Users |-> IF u \in Known THEN [blocked |-> FALSE, language |-> TRUE] ELSE None]
    /\ admin = FirstAdmins
    /\ announced = [u \in Users |-> 0]
    /\ channels = [on |-> FALSE, listed |-> TRUE]
    /\ chat = [u \in Users |-> Idle]
    /\ update = [h \in Updates |-> NoUpdate]
    /\ held = {}

-----------------------------------------------------------------------------
(* Steps of a handler *)

At(h, pc) == update[h].pc = pc
From(h) == update[h].from
Goto(h, pc) == update' = [update EXCEPT ![h].pc = pc]

\* A connection is taken by a session's first statement and returned when the
\* session commits or closes.
Connection == Cardinality(held) < PoolSize
Hold(h, session) == held' = held \cup {<<h, session>>}
Release(h, session) == held' = held \ {<<h, session>>}

\* A mutant: a session is opened without being closed by what ends the handler.
EndsOpen(h) ==
    /\ update' = [update EXCEPT ![h] = NoUpdate]
    /\ held' = held

\* The handler returns, or an exception leaves it: every session is closed.
Ends(h) ==
    /\ update' = [update EXCEPT ![h] = NoUpdate]
    /\ held' = {c \in held : c[1] # h}

Rows == <<user, admin, announced, channels, chat>>

\* Updates from groups are dropped at once and are not modelled.
Arrive(h, u, task, arg) ==
    /\ At(h, "idle")
    /\ Expected(task) \in {"any", chat[u].state}
    /\ update' = [update EXCEPT ![h] = [pc |-> "tracking", from |-> u, task |-> task,
                                        arg |-> arg, memo |-> None]]
    /\ UNCHANGED <<Rows, held>>

\* UserTrackingMiddleware: record_seen
KnownUser(h) ==
    /\ At(h, "tracking") /\ Connection
    /\ user[From(h)] # None
    /\ Goto(h, "blocked")
    /\ UNCHANGED <<Rows, held>>

FirstSeen(h) ==
    /\ At(h, "tracking") /\ Connection
    /\ user[From(h)] = None
    /\ Goto(h, "insert")
    /\ Hold(h, "tracking")
    /\ UNCHANGED Rows

\* A mutant: whoever found no row reports a new user, also if the row is there now.
InsertAnyway(h) ==
    /\ At(h, "insert")
    /\ user' = [user EXCEPT ![From(h)] = [blocked |-> FALSE, language |-> FALSE]]
    /\ Goto(h, "announce")
    /\ Release(h, "tracking")
    /\ UNCHANGED <<admin, announced, channels, chat>>

InsertUser(h) ==
    /\ At(h, "insert")
    /\ user[From(h)] = None
    /\ user' = [user EXCEPT ![From(h)] = [blocked |-> FALSE, language |-> FALSE]]
    /\ Goto(h, "announce")
    /\ Release(h, "tracking")
    /\ UNCHANGED <<admin, announced, channels, chat>>

\* Another update of the same user was first: telegram_id is unique, and the
\* exception ends this update.
InsertRefused(h) ==
    /\ At(h, "insert")
    /\ user[From(h)] # None
    /\ Ends(h)
    /\ UNCHANGED Rows

\* log_event(NEW_USER), which looks up its topic in a session of its own.
Announce(h) ==
    /\ At(h, "announce") /\ Connection
    /\ announced' = [announced EXCEPT ![From(h)] = @ + 1]
    /\ Goto(h, "blocked")
    /\ UNCHANGED <<user, admin, channels, chat, held>>

\* A mutant: the block is only looked up for those without any service.
PassAnyway(h) ==
    /\ At(h, "blocked") /\ Connection
    /\ Goto(h, "language")
    /\ Hold(h, "blocked")
    /\ UNCHANGED Rows

\* BlockedUserMiddleware; its session stays open behind it.
PassBlock(h) ==
    /\ At(h, "blocked") /\ Connection
    /\ HasLevel(From(h), Support) \/ ~IsBlocked(From(h))
    /\ Goto(h, "language")
    /\ Hold(h, "blocked")
    /\ UNCHANGED Rows

Blocked(h) ==
    /\ At(h, "blocked") /\ Connection
    /\ ~HasLevel(From(h), Support) /\ IsBlocked(From(h))
    /\ Ends(h)
    /\ UNCHANGED Rows

\* LanguageMiddleware: only the chooser's own button gets past it unset.
PassLanguage(h) ==
    /\ At(h, "language")
    /\ \/ update[h].task = "language"
       \/ Connection /\ user[From(h)].language
    /\ Goto(h, "channel")
    /\ UNCHANGED <<Rows, held>>

AskLanguage(h) ==
    /\ At(h, "language") /\ Connection
    /\ update[h].task # "language" /\ ~user[From(h)].language
    /\ Ends(h)
    /\ UNCHANGED Rows

ChannelsRequired == channels.on /\ channels.listed

\* MandatoryChannelMiddleware, for those it does not ask: its session, too,
\* stays open behind it.
Exempt(h) ==
    /\ At(h, "channel") /\ Connection
    /\ ~ChannelsRequired \/ HasLevel(From(h), Support)
    /\ Goto(h, "filter")
    /\ Hold(h, "channel")
    /\ UNCHANGED Rows

\* Telegram is asked when the session is closed; if it fails, or the user is
\* a member of every channel, the update goes on.
Member(h) ==
    /\ At(h, "channel") /\ Connection
    /\ ChannelsRequired /\ ~HasLevel(From(h), Support)
    /\ Goto(h, "filter")
    /\ UNCHANGED <<Rows, held>>

AskToJoin(h) ==
    /\ At(h, "channel") /\ Connection
    /\ ChannelsRequired /\ ~HasLevel(From(h), Support)
    /\ Ends(h)
    /\ UNCHANGED Rows

\* A mutant: the router of these handlers has lost its filter.
PermitAnyone(h) ==
    /\ At(h, "filter")
    /\ Connection
    /\ Goto(h, "handler")
    /\ UNCHANGED <<Rows, held>>

\* IsFullAdmin, or the handler's own first lines.
Permit(h) ==
    /\ At(h, "filter")
    /\ \/ Required[update[h].task] = 0
       \/ Connection /\ HasLevel(From(h), Required[update[h].task])
    /\ Goto(h, "handler")
    /\ UNCHANGED <<Rows, held>>

NoPermission(h) ==
    /\ At(h, "filter") /\ Connection
    /\ Required[update[h].task] > 0 /\ ~HasLevel(From(h), Required[update[h].task])
    /\ Ends(h)
    /\ UNCHANGED Rows

\* The handler has done its work and answers.
Finish(h) == At(h, "done") /\ Ends(h) /\ UNCHANGED Rows

\* Where a handler's next statement is the first of a session.
Waiting(h) ==
    \/ update[h].pc \in {"tracking", "announce", "blocked", "channel", "add", "toggle",
                         "save_address", "save_network"}
    \/ At(h, "language") /\ update[h].task # "language"
    \/ At(h, "filter") /\ Required[update[h].task] > 0
    \/ At(h, "handler") /\ update[h].task \in {"menu", "language", "add_id", "remove", "block_id",
                                               "unblock", "toggle_block", "toggle_channel",
                                               "show_channels"}
    \/ At(h, "handler") /\ update[h].task = "list_channels" /\ update[h].arg # "invalid"

\* A mutant: no pool_timeout.
WaitOn(h) == FALSE /\ UNCHANGED coreVars

\* handle_pool_timeout gets to run when the sessions are closed; if the language
\* cannot be looked up either it answers in English.
PoolTimeout(h) ==
    /\ Waiting(h) /\ ~Connection
    /\ Ends(h)
    /\ UNCHANGED Rows

Middlewares(h) ==
    \/ KnownUser(h) \/ FirstSeen(h) \/ InsertUser(h) \/ InsertRefused(h) \/ Announce(h)
    \/ PassBlock(h) \/ Blocked(h) \/ PassLanguage(h) \/ AskLanguage(h)
    \/ Exempt(h) \/ Member(h) \/ AskToJoin(h) \/ Permit(h) \/ NoPermission(h)
    \/ Finish(h) \/ PoolTimeout(h)
=============================================================================
