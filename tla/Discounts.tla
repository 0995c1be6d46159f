----------------------------- MODULE Discounts -----------------------------
(***************************************************************************)
(* Discount codes: the rows, how a price is quoted with them, and the      *)
(* wizard on which sales admins create, edit, switch and delete them       *)
(* (app/services/discounts.py, app/bot/handlers/admin_discounts.py).       *)
(*                                                                         *)
(* A code is identified by its text, which is unique and never edited.     *)
(***************************************************************************)
EXTENDS Catalog

CONSTANTS
    Codes,       \* texts of codes
    FirstCodes,  \* the rows there are at first: a function on some of Codes
    Percents,    \* what an admin may type, in thousandths of a percent
    Limits,      \* usage limits an admin may type
    All,         \* plan_ids IS NULL: the code applies to every plan
    Deleted      \* an id whose row is gone

VARIABLE discount    \* Codes -> row, or None

discountVars == <<catalogVars, discount>>

\* percent is Numeric(5, 2), here in hundredths of a percent: all of the price.
Whole == 10000

Rows == [percent : 0..Whole, limit : Nat \cup {None}, used : Nat,
         scope : (SUBSET Plans) \cup {All}, active : BOOLEAN, public : BOOLEAN]

ASSUME CodeAssumption ==
    /\ FirstCodes \in [Codes -> Rows \cup {None}]
    /\ None \notin Codes \cup Nat \cup Rows /\ Deleted \notin Codes \cup {None}
    /\ Percents \subseteq Int /\ Limits \subseteq Nat

DiscountsInit == CatalogInit /\ discount = FirstCodes

Existing == {c \in Codes : discount[c] # None}

-----------------------------------------------------------------------------
(* Quoting *)

\* percent off, to the nearest cent, half a cent up.
DiscountPrice(original, percent) == (original * (Whole - percent) + Whole \div 2) \div Whole

WithinLimit(row) == row.limit = None \/ row.used < row.limit

AppliesTo(row, p) == row.scope = All \/ p \in row.scope

Usable(c, p) ==
    /\ c \in Existing
    /\ discount[c].active /\ discount[c].public
    /\ WithinLimit(discount[c])
    /\ AppliesTo(discount[c], p)

\* A mutant: the first code found, not the best.
FirstAutoDiscount(p) ==
    LET usable == {c \in Codes : Usable(c, p)}
    IN  IF usable = {} THEN {None} ELSE usable

\* find_best_auto_discount: of several best ones the oldest, here any.
BestAutoDiscount(p) ==
    LET usable == {c \in Codes : Usable(c, p)}
    IN  IF usable = {} THEN {None}
        ELSE {c \in usable : \A d \in usable : discount[d].percent <= discount[c].percent}

\* increment_discount_usage reads the counter and writes what it read plus
\* one: a use that was counted in between is overwritten.
CountUse(c, read) == [discount EXCEPT ![c].used = read + 1]

-----------------------------------------------------------------------------
(* The wizard *)

\* A new code starts without an id; what was picked in an abandoned
\* conversation is still in the data.
NewCode(a) ==
    /\ chat' = [chat EXCEPT ![a].state = "name", ![a].code = None]
    /\ UNCHANGED <<plan, doing, discount>>

\* Editing skips the name and pre-selects the plans of the row.
EditCode(a, c) ==
    /\ c \in Existing
    /\ chat' = [chat EXCEPT ![a].state = "percent", ![a].code = <<"edit", c>>,
                            ![a].picked = IF discount[c].scope = All THEN OnSale
                                          ELSE discount[c].scope]
    /\ UNCHANGED <<plan, doing, discount>>

TypeName(a, c) ==
    /\ chat[a].state = "name"
    /\ c \notin Existing
    /\ chat' = [chat EXCEPT ![a].state = "percent", ![a].code = <<"new", c>>]
    /\ UNCHANGED <<plan, doing, discount>>

\* A mutant: more off than there is to pay.
AnyPercent(percent) == percent > 0

\* Greater than 0 and up to 100.
ValidPercent(percent) == percent > 0 /\ percent <= 100000

\* What the column keeps of it: 0.004 is greater than 0 and stored as 0.00.
StoredPercent(percent) == (percent + 5) \div 10

TypePercent(a, percent) ==
    /\ chat[a].state = "percent"
    /\ ValidPercent(percent)
    /\ chat' = [chat EXCEPT ![a].state = "usage_limit", ![a].percent = percent]
    /\ UNCHANGED <<plan, doing, discount>>

\* A positive number, or the button Unlimited.
TypeLimit(a, limit) ==
    /\ chat[a].state = "usage_limit"
    /\ limit # None => limit > 0
    /\ chat' = [chat EXCEPT ![a].state = "plans", ![a].limit = limit]
    /\ UNCHANGED <<plan, doing, discount>>

\* The handler computes the new selection from the data it read, and stores
\* it when Redis answers.
TogglePick(a, p) ==
    /\ chat[a].state = "plans" /\ doing[a] = None
    /\ p \in OnSale
    /\ doing' = [doing EXCEPT ![a] =
           [write |-> "picked",
            to |-> IF p \in chat[a].picked THEN chat[a].picked \ {p}
                   ELSE chat[a].picked \cup {p}]]
    /\ UNCHANGED <<plan, chat, discount>>

\* Select All / Deselect All compares lengths.
ToggleAll(a) ==
    /\ chat[a].state = "plans" /\ doing[a] = None
    /\ doing' = [doing EXCEPT ![a] =
           [write |-> "picked",
            to |-> IF Cardinality(chat[a].picked) = Cardinality(OnSale) THEN {} ELSE OnSale]]
    /\ UNCHANGED <<plan, chat, discount>>

StorePicked(a) ==
    /\ doing[a] # None
    /\ doing[a].write = "picked"
    /\ chat' = [chat EXCEPT ![a].picked = doing[a].to]
    /\ doing' = [doing EXCEPT ![a] = None]
    /\ UNCHANGED <<plan, discount>>

PlansDone(a) ==
    /\ chat[a].state = "plans"
    /\ chat[a].picked # {}
    /\ chat' = [chat EXCEPT ![a].state = "visibility"]
    /\ UNCHANGED <<plan, doing, discount>>

\* As many plans as there are on sale stand for every plan - and so does no
\* plan at all, which _plan_ids_str stores as NULL.
ChosenScope(picked) ==
    IF picked = {} \/ Cardinality(picked) = Cardinality(OnSale) THEN All ELSE picked

CreateCode(a, public) ==
    /\ chat[a].state = "visibility" /\ doing[a] = None
    /\ chat[a].code[1] = "new" /\ chat[a].code[2] \notin Existing
    /\ discount' = [discount EXCEPT ![chat[a].code[2]] =
           [percent |-> StoredPercent(chat[a].percent), limit |-> chat[a].limit, used |-> 0,
            scope |-> ChosenScope(chat[a].picked), active |-> TRUE, public |-> public]]
    /\ doing' = [doing EXCEPT ![a] = [write |-> "clear"]]
    /\ UNCHANGED <<plan, chat>>

\* The name was taken since it was typed, by another admin or by a second tap
\* on this very button: the insert fails, and the conversation stays.
NameTaken(a) ==
    /\ chat[a].state = "visibility"
    /\ chat[a].code[1] = "new" /\ chat[a].code[2] \in Existing
    /\ UNCHANGED discountVars

UpdateCode(a, public) ==
    /\ chat[a].state = "visibility" /\ doing[a] = None
    /\ chat[a].code[1] = "edit"
    /\ LET c == chat[a].code[2] IN
       discount' = IF c \notin Existing THEN discount
                   ELSE [discount EXCEPT ![c] =
                            [@ EXCEPT !.percent = StoredPercent(chat[a].percent),
                                      !.limit = chat[a].limit, !.scope = ChosenScope(chat[a].picked), !.public = public]]
    /\ doing' = [doing EXCEPT ![a] = [write |-> "clear"]]
    /\ UNCHANGED <<plan, chat>>

\* state.clear() follows the commit.
CloseWizard(a) ==
    /\ doing[a] # None
    /\ doing[a].write = "clear"
    /\ chat' = [chat EXCEPT ![a] = Idle]
    /\ doing' = [doing EXCEPT ![a] = None]
    /\ UNCHANGED <<plan, discount>>

-----------------------------------------------------------------------------
(* Switching and deleting a code *)

ToggleCode(a, c) ==
    /\ doing[a] = None /\ c \in Existing
    /\ doing' = [doing EXCEPT ![a] = [write |-> "code", row |-> c, to |-> ~discount[c].active]]
    /\ UNCHANGED <<plan, chat, discount>>

WriteCode(a) ==
    /\ doing[a] # None
    /\ doing[a].write = "code"
    /\ discount' = IF doing[a].row \notin Existing THEN discount
                   ELSE [discount EXCEPT ![doing[a].row].active = doing[a].to]
    /\ doing' = [doing EXCEPT ![a] = None]
    /\ UNCHANGED <<plan, chat>>

\* The text may be used again later, for a row with another id: whoever still
\* holds the id of this one holds it no longer.
DeleteCode(c) ==
    /\ c \in Existing
    /\ discount' = [discount EXCEPT ![c] = None]
    /\ chat' = [a \in Admins |-> IF chat[a].code = <<"edit", c>>
                                 THEN [chat[a] EXCEPT !.code = <<"edit", Deleted>>] ELSE chat[a]]
    /\ doing' = [a \in Admins |-> IF doing[a] # None /\ doing[a].write = "code"
                                  THEN [doing[a] EXCEPT !.row = IF @ = c THEN Deleted ELSE @]
                                  ELSE doing[a]]
    /\ UNCHANGED plan

ManageCodes(a) ==
    \/ NewCode(a) \/ ToggleAll(a) \/ StorePicked(a) \/ PlansDone(a) \/ NameTaken(a)
    \/ CloseWizard(a) \/ WriteCode(a)
    \/ \E c \in Codes : EditCode(a, c) \/ TypeName(a, c) \/ ToggleCode(a, c) \/ DeleteCode(c)
    \/ \E percent \in Percents : TypePercent(a, percent)
    \/ \E limit \in Limits \cup {None} : TypeLimit(a, limit)
    \/ \E p \in Plans : TogglePick(a, p)
    \/ \E public \in BOOLEAN : CreateCode(a, public) \/ UpdateCode(a, public)
=============================================================================
