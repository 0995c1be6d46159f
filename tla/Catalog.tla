------------------------------ MODULE Catalog ------------------------------
(***************************************************************************)
(* The plans on sale, and the screens on which full admins change a plan's *)
(* price or take it on and off sale (app/services/catalog.py, the Manage   *)
(* Plans part of app/bot/handlers/admin_settings.py).                      *)
(*                                                                         *)
(* An admin's conversation with the bot is in Redis, shared by all of that *)
(* admin's taps; each tap is a task of its own.  A handler that writes     *)
(* what it computed from an earlier read leaves the write in doing.        *)
(***************************************************************************)
EXTENDS Integers, FiniteSets

CONSTANTS
    Plans,        \* rows of plans; none is ever added or removed
    Trials,       \* those of the category trial
    FirstPlans,   \* the rows the migrations leave
    Admins,
    Prices,       \* prices an admin may type, in cents
    None

MaxPrice == 100000                 \* _MAX_PLAN_PRICE, $1000

ASSUME CatalogAssumption ==
    /\ Trials \subseteq Plans /\ Prices \subseteq Int
    /\ FirstPlans \in [Plans -> [price : 0..MaxPrice, active : BOOLEAN]]
    /\ \A p \in Plans \ Trials : FirstPlans[p].active => FirstPlans[p].price > 0

VARIABLES
    plan,    \* price_usd in cents and is_active of every row
    chat,    \* what the bot expects next of an admin: state and data
    doing    \* the write an admin's handler has decided on, if any

catalogVars == <<plan, chat, doing>>

OnSale == {p \in Plans : plan[p].active}

\* What Buy and Renew list, and what they accept: see _is_buyable.
Listed == OnSale \ Trials
Sellable(p) == p \notin Trials

Idle == [state |-> "none", plan |-> None, code |-> None, percent |-> 0,
         limit |-> None, picked |-> {}]

CatalogInit ==
    /\ plan = FirstPlans
    /\ chat = [a \in Admins |-> Idle]
    /\ doing = [a \in Admins |-> None]

-----------------------------------------------------------------------------
(* Manage Plans *)

\* Any screen that calls state.clear(): lists, details, status screens, cancel.
LeaveChat(a) ==
    /\ chat[a] # Idle
    /\ chat' = [chat EXCEPT ![a] = Idle]
    /\ UNCHANGED <<plan, doing>>

AskPrice(a, p) ==
    /\ chat' = [chat EXCEPT ![a].state = "price", ![a].plan = p]
    /\ UNCHANGED <<plan, doing>>

\* A mutant: the price is only kept from being negative.
ValidPriceFromZero(cents) == cents >= 0 /\ cents < MaxPrice

\* A price that is not a positive number under $1000 after rounding to cents
\* is refused, and the admin asked again.
ValidPrice(cents) == cents > 0 /\ cents < MaxPrice

TypePrice(a, cents) ==
    /\ chat[a].state = "price"
    /\ ValidPrice(cents)
    /\ plan' = [plan EXCEPT ![chat[a].plan].price = cents]
    /\ chat' = [chat EXCEPT ![a] = Idle]
    /\ UNCHANGED doing

\* The price floor: nothing but a trial goes on sale for $0.00.
MayToggle(p) == plan[p].active \/ p \in Trials \/ plan[p].price > 0

TogglePlan(a, p) ==
    /\ doing[a] = None
    /\ MayToggle(p)
    /\ doing' = [doing EXCEPT ![a] = [write |-> "plan", row |-> p, to |-> ~plan[p].active]]
    /\ chat' = [chat EXCEPT ![a] = Idle]
    /\ UNCHANGED plan

WritePlan(a) ==
    /\ doing[a] # None
    /\ doing[a].write = "plan"
    /\ plan' = [plan EXCEPT ![doing[a].row].active = doing[a].to]
    /\ doing' = [doing EXCEPT ![a] = None]
    /\ UNCHANGED chat

ManagePlans(a) ==
    \/ LeaveChat(a)
    \/ \E p \in Plans : AskPrice(a, p) \/ TogglePlan(a, p)
    \/ \E cents \in Prices : TypePrice(a, cents)
    \/ WritePlan(a)
=============================================================================
