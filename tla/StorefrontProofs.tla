------------------------- MODULE StorefrontProofs -------------------------
(***************************************************************************)
(* The storefront for every number of plans, codes, admins, taps and       *)
(* orders: nothing goes for free, an order is created only by a tap that   *)
(* found sales open, what is charged is an offer of that moment, and a     *)
(* code's limit is kept.                                                   *)
(***************************************************************************)
EXTENDS Storefront, FiniteSetTheorems, TLAPS

PlanRows == [price : 0..MaxPrice, active : BOOLEAN]

States == {"none", "price", "name", "percent", "usage_limit", "plans", "visibility"}
PlanIds == Plans \cup {None}
CodeIds == {None} \cup ({"new", "edit"} \X (Codes \cup {Deleted}))
Typed == {percent \in Nat : percent <= 100000}
Uses == Nat \cup {None}
Picks == SUBSET Plans
Chats == [state : States, plan : PlanIds, code : CodeIds, percent : Typed, limit : Uses, picked : Picks]

PlanWrites == [write : {"plan"}, row : Plans, to : BOOLEAN]
PickWrites == [write : {"picked"}, to : SUBSET Plans]
CodeWrites == [write : {"code"}, row : Codes \cup {Deleted}, to : BOOLEAN]
Doings == {None} \cup PlanWrites \cup PickWrites \cup CodeWrites \cup [write : {"clear"}]

\* Rows, and what an admin's conversation and half-done handler hold.
PlanTypes == plan \in [Plans -> PlanRows]
CodeTypes == discount \in [Codes -> Rows \cup {None}]
ChatTypes ==
    /\ chat \in [Admins -> Chats]
    /\ \A a \in Admins : chat[a].state = "price" => chat[a].plan \in Plans
DoingTypes == doing \in [Admins -> Doings]

\* What is on sale, and what an admin is about to put on sale, has a price;
\* so has what a customer has ever been shown, and it is no trial.
PriceInv ==
    /\ \A p \in Plans \ Trials : plan[p].active => plan[p].price > 0
    /\ \A a \in Admins :
         doing[a] # None /\ doing[a].write = "plan" =>
           (doing[a].to => doing[a].row \in Trials \/ plan[doing[a].row].price > 0)
    /\ listed \subseteq Plans \ Trials
    /\ \A p \in listed : plan[p].price > 0

GoodsInv == PlanTypes /\ CodeTypes /\ ChatTypes /\ DoingTypes /\ PriceInv

\* A tap is for a plan that was shown; from its quote on it has a price.
TapInv ==
    /\ buttons \subseteq listed /\ sales \in BOOLEAN /\ mine \in BOOLEAN
    /\ tap \in [Taps -> TapTypes]
    /\ \A h \in Taps :
         /\ tap[h].pc # "idle" => tap[h].plan \in listed
         /\ tap[h].pc \in {"quote", "insert", "invoice"} => tap[h].price > 0
         /\ tap[h].pc = "invoice" => tap[h].order \in Orders /\ order[tap[h].order] # None

OrderInv ==
    /\ order \in [Orders -> OrderTypes \cup {None}]
    /\ \A o \in Orders : order[o] # None => order[o].original > 0 /\ order[o].plan \in listed

\* The row of a code that an order has, or is about to have, is there.
LinkInv ==
    /\ \A o \in Orders : order[o] # None /\ order[o].code # None => discount[order[o].code] # None
    /\ \A h \in Taps : tap[h].pc = "insert" /\ tap[h].code \in Codes => discount[tap[h].code] # None

CoreInv == GoodsInv /\ TapInv /\ OrderInv /\ LinkInv

\* An activation holds the code of its order, or knows that it is gone.
ServiceOK(v, rows) ==
    /\ v.order \in Orders /\ rows[v.order] # None
    /\ rows[v.order].code = IF v.code \in Codes THEN v.code ELSE None
    /\ v.pc \in {"count", "write"} => v.code # None

ServeInv ==
    /\ serving \in [Confirmers -> Services] /\ provisioned \subseteq Orders
    /\ uses \in [Codes -> Nat]
    /\ \A s \in Confirmers : serving[s].pc # "idle" => ServiceOK(serving[s], order)

\* What a customer does.
Shopping ==
    \/ Customer
    \/ \E h \in Taps, purpose \in {"purchase", "renew"}, p \in Plans : Confirm(h, purpose, p)

\* What the history of a tap holds by the time it has come this far.
Seen == [sales : BOOLEAN, mine : BOOLEAN, prices : SUBSET Nat,
         offers : SUBSET [code : Codes \cup {None}, percent : 0..Whole]]

Charge(price, offer) == IF offer.code = None THEN price ELSE DiscountPrice(price, offer.percent)

SeenOK(h) ==
    /\ seen[h] \in Seen
    /\ tap[h].pc # "gate" => seen[h].sales
    /\ tap[h].pc \notin {"gate", "owner"} /\ tap[h].purpose = "renew" => seen[h].mine
    /\ tap[h].pc \in {"quote", "insert"} => tap[h].price \in seen[h].prices
    /\ tap[h].pc = "insert" =>
         \E offer \in seen[h].offers : tap[h].amount = Charge(tap[h].price, offer)
    /\ tap[h].pc = "invoice" =>
         \E price \in seen[h].prices, offer \in seen[h].offers :
           /\ order[tap[h].order].original = price
           /\ order[tap[h].order].amount = Charge(price, offer)

SeenInv == \A h \in Taps : tap[h].pc # "idle" => SeenOK(h)

-----------------------------------------------------------------------------
(* Prices with a discount *)

\* The exact price, in hundredths of a percent of a cent.
Exact(original, percent) == original * (Whole - percent)

LEMMA ExactPrice ==
  ASSUME NEW original \in Nat, NEW percent \in 0..Whole
  PROVE  Exact(original, percent) \in Nat /\ Exact(original, percent) <= original * Whole
<1>1. Whole \in Nat
  BY DEF Whole
<1>2. percent \in Nat /\ Whole - percent \in Nat
  BY <1>1
<1>3. original * (Whole - percent) = original * Whole - original * percent
  BY <1>1, <1>2, SMT
<1>4. original * percent \in Nat /\ original * (Whole - percent) \in Nat
  BY <1>2, SMT
<1> QED
  BY <1>1, <1>3, <1>4 DEF Exact

LEMMA ToTheCent ==
  ASSUME NEW exact \in Nat, NEW original \in Nat, NEW charged,
         exact <= original * Whole, charged = (exact + Whole \div 2) \div Whole
  PROVE  /\ charged \in Nat /\ charged <= original
         /\ 2 * (Whole * charged - exact) <= Whole /\ 2 * (exact - Whole * charged) <= Whole
BY DEF Whole

\* The discounted price is the exact one to the nearest cent, and never above
\* the price: discount_price.
THEOREM DiscountIsExact ==
  ASSUME NEW original \in Nat, NEW percent \in 0..Whole
  PROVE  LET charged == DiscountPrice(original, percent)
             exact == Exact(original, percent)
         IN  /\ charged \in Nat /\ charged <= original
             /\ 2 * (Whole * charged - exact) <= Whole /\ 2 * (exact - Whole * charged) <= Whole
<1> DEFINE charged == DiscountPrice(original, percent)
           exact == Exact(original, percent)
<1>1. exact \in Nat /\ exact <= original * Whole /\ charged = (exact + Whole \div 2) \div Whole
  BY ExactPrice DEF DiscountPrice, Exact
<1> HIDE DEF charged, exact
<1>2. /\ charged \in Nat /\ charged <= original
      /\ 2 * (Whole * charged - exact) <= Whole /\ 2 * (exact - Whole * charged) <= Whole
  BY <1>1, ToTheCent
<1> QED
  BY <1>2 DEF charged, exact

LEMMA BetterPercent ==
  ASSUME NEW original \in Nat, NEW less \in 0..Whole, NEW more \in 0..Whole, less <= more
  PROVE  DiscountPrice(original, more) <= DiscountPrice(original, less)
<1> DEFINE low == Exact(original, more)
           high == Exact(original, less)
<1>1. /\ low \in Nat /\ high \in Nat
      /\ DiscountPrice(original, more) = (low + Whole \div 2) \div Whole
      /\ DiscountPrice(original, less) = (high + Whole \div 2) \div Whole
  BY ExactPrice DEF DiscountPrice, Exact
<1>2. low <= high
  <2>1. Whole \in Nat
    BY DEF Whole
  <2>2. high - low = original * (more - less)
    BY <2>1, SMT DEF Exact
  <2>3. more - less \in Nat
    BY <2>1
  <2>4. original * (more - less) \in Nat
    BY <2>3, SMT
  <2> QED
    BY <1>1, <2>2, <2>4
<1> HIDE DEF low, high
<1> QED
  BY <1>1, <1>2 DEF Whole

-----------------------------------------------------------------------------
(* The admins' screens *)

LEMMA IdleChat == Idle \in Chats /\ Idle.state # "price"
BY CodeAssumption DEF Idle, Chats, States, PlanIds, CodeIds, Typed, Uses, Picks

LEMMA ChatState ==
  ASSUME NEW f \in [Admins -> Chats], NEW a \in Admins, NEW value \in States
  PROVE  [f EXCEPT ![a].state = value] \in [Admins -> Chats]
BY DEF Chats

LEMMA ChatPlan ==
  ASSUME NEW f \in [Admins -> Chats], NEW a \in Admins, NEW value \in PlanIds
  PROVE  [f EXCEPT ![a].plan = value] \in [Admins -> Chats]
BY DEF Chats

LEMMA ChatCode ==
  ASSUME NEW f \in [Admins -> Chats], NEW a \in Admins, NEW value \in CodeIds
  PROVE  [f EXCEPT ![a].code = value] \in [Admins -> Chats]
BY DEF Chats

LEMMA ChatPercent ==
  ASSUME NEW f \in [Admins -> Chats], NEW a \in Admins, NEW value \in Typed
  PROVE  [f EXCEPT ![a].percent = value] \in [Admins -> Chats]
BY DEF Chats

LEMMA ChatLimit ==
  ASSUME NEW f \in [Admins -> Chats], NEW a \in Admins, NEW value \in Uses
  PROVE  [f EXCEPT ![a].limit = value] \in [Admins -> Chats]
BY DEF Chats

LEMMA ChatPicked ==
  ASSUME NEW f \in [Admins -> Chats], NEW a \in Admins, NEW value \in Picks
  PROVE  [f EXCEPT ![a].picked = value] \in [Admins -> Chats]
BY DEF Chats

\* Manage Plans: a plan is never on sale, nor about to be, without a price.
LEMMA PlansGoods ==
  ASSUME GoodsInv, NEW a \in Admins, ManagePlans(a), UNCHANGED <<discount, listed>>
  PROVE  GoodsInv' /\ \A p \in Plans : plan[p].price > 0 => plan'[p].price > 0
<1>0. plan \in [Plans -> PlanRows] /\ chat \in [Admins -> Chats] /\ doing \in [Admins -> Doings]
  BY DEF GoodsInv, PlanTypes, ChatTypes, DoingTypes
<1>1. CASE LeaveChat(a) \/ \E p \in Plans : AskPrice(a, p)
  <2>1. ChatTypes'
    <3>1. CASE LeaveChat(a)
      BY <1>0, <3>1, IdleChat DEF LeaveChat, GoodsInv, ChatTypes
    <3>2. ASSUME NEW p \in Plans, AskPrice(a, p) PROVE ChatTypes'
      <4>1. "price" \in States /\ p \in PlanIds
        BY DEF States, PlanIds
      <4>2. chat' \in [Admins -> Chats]
        BY <1>0, <3>2, <4>1, ChatState, ChatPlan DEF AskPrice
      <4>3. chat'[a].plan = p /\ \A b \in Admins \ {a} : chat'[b] = chat[b]
        BY <1>0, <3>2 DEF AskPrice, Chats
      <4> QED
        BY <4>2, <4>3 DEF GoodsInv, ChatTypes
    <3> QED
      BY <1>1, <3>1, <3>2
  <2> QED
    BY <1>1, <2>1 DEF LeaveChat, AskPrice, GoodsInv, PlanTypes, CodeTypes, DoingTypes, PriceInv
<1>2. ASSUME NEW p \in Plans, TogglePlan(a, p) PROVE GoodsInv' /\ plan' = plan
  <2>1. /\ doing' = [doing EXCEPT ![a] = [write |-> "plan", row |-> p, to |-> ~plan[p].active]]
        /\ MayToggle(p) /\ plan' = plan /\ chat' = [chat EXCEPT ![a] = Idle]
    BY <1>2 DEF TogglePlan
  <2>2. [write |-> "plan", row |-> p, to |-> ~plan[p].active] \in PlanWrites
    BY <1>0 DEF PlanWrites, PlanRows
  <2>3. DoingTypes'
    BY <1>0, <2>1, <2>2 DEF DoingTypes, Doings
  <2>4. ChatTypes'
    BY <1>0, <2>1, IdleChat DEF GoodsInv, ChatTypes
  <2>5. ~plan[p].active => p \in Trials \/ plan[p].price > 0
    BY <2>1 DEF MayToggle
  <2>6. PriceInv'
    BY <1>0, <2>1, <2>5 DEF GoodsInv, PriceInv
  <2> QED
    BY <2>1, <2>3, <2>4, <2>6 DEF GoodsInv, PlanTypes, CodeTypes
<1>3. ASSUME NEW cents \in Prices, TypePrice(a, cents)
      PROVE  GoodsInv' /\ \A p \in Plans : plan[p].price > 0 => plan'[p].price > 0
  <2>1. /\ chat[a].plan \in Plans /\ cents > 0 /\ cents < MaxPrice
        /\ plan' = [plan EXCEPT ![chat[a].plan].price = cents]
        /\ chat' = [chat EXCEPT ![a] = Idle] /\ doing' = doing
    BY <1>3 DEF TypePrice, ValidPrice, GoodsInv, ChatTypes
  <2>2. cents \in 0..MaxPrice
    <3>1. cents \in Int
      BY CatalogAssumption
    <3>2. MaxPrice \in Int
      BY DEF MaxPrice
    <3> QED
      BY <2>1, <3>1, <3>2
  <2>3. PlanTypes'
    BY <1>0, <2>1, <2>2 DEF PlanTypes, PlanRows
  <2>4. \A p \in Plans : plan'[p].active = plan[p].active /\ (plan[p].price > 0 => plan'[p].price > 0)
    BY <1>0, <2>1 DEF PlanRows
  <2>5. ChatTypes'
    BY <1>0, <2>1, IdleChat DEF GoodsInv, ChatTypes
  <2>6. \A b \in Admins : doing[b] # None /\ doing[b].write = "plan" => doing[b].row \in Plans
    BY <1>0 DEF Doings, PlanWrites, PickWrites, CodeWrites
  <2>7. PriceInv'
    BY <2>1, <2>4, <2>6 DEF GoodsInv, PriceInv
  <2> QED
    BY <2>1, <2>3, <2>4, <2>5, <2>7 DEF GoodsInv, CodeTypes, DoingTypes
<1>4. CASE WritePlan(a)
  <2>1. /\ doing[a] # None /\ doing[a].write = "plan" /\ chat' = chat
        /\ plan' = [plan EXCEPT ![doing[a].row].active = doing[a].to]
        /\ doing' = [doing EXCEPT ![a] = None]
    BY <1>4 DEF WritePlan
  <2>2. doing[a].row \in Plans /\ doing[a].to \in BOOLEAN
    BY <1>0, <2>1 DEF Doings, PlanWrites, PickWrites, CodeWrites
  <2>3. PlanTypes' /\ DoingTypes'
    BY <1>0, <2>1, <2>2 DEF PlanTypes, PlanRows, DoingTypes, Doings
  <2>4. \A p \in Plans : /\ plan'[p].price = plan[p].price
                         /\ plan'[p].active = plan[p].active \/ (p = doing[a].row /\ plan'[p].active = doing[a].to)
    BY <1>0, <2>1, <2>2 DEF PlanRows
  <2>5. doing[a].to => doing[a].row \in Trials \/ plan[doing[a].row].price > 0
    BY <2>1 DEF GoodsInv, PriceInv
  <2>6. \A p \in Plans \ Trials : plan'[p].active => plan'[p].price > 0
    BY <2>2, <2>4, <2>5 DEF GoodsInv, PriceInv
  <2>7. \A b \in Admins : doing'[b] # None => doing'[b] = doing[b]
    BY <1>0, <2>1
  <2>8. \A b \in Admins : doing[b] # None /\ doing[b].write = "plan" => doing[b].row \in Plans
    BY <1>0 DEF Doings, PlanWrites, PickWrites, CodeWrites
  <2>9. PriceInv'
    BY <2>4, <2>6, <2>7, <2>8 DEF GoodsInv, PriceInv
  <2> QED
    BY <2>1, <2>3, <2>4, <2>9 DEF GoodsInv, CodeTypes, ChatTypes
<1>5. (\E p \in Plans : AskPrice(a, p)) \/ LeaveChat(a) => plan' = plan
  BY DEF AskPrice, LeaveChat
<1>6. WritePlan(a) => \A p \in Plans : plan[p].price > 0 => plan'[p].price > 0
  BY <1>0 DEF WritePlan, PlanRows
<1> QED
  BY <1>1, <1>2, <1>3, <1>4, <1>5, <1>6 DEF ManagePlans

LEMMA ChatKept ==
  ASSUME ChatTypes, NEW a \in Admins, chat' \in [Admins -> Chats],
         \A b \in Admins \ {a} : chat'[b] = chat[b],
         \/ chat'[a].state # "price"
         \/ chat'[a].state = chat[a].state /\ chat'[a].plan = chat[a].plan
  PROVE  ChatTypes'
BY DEF ChatTypes

\* A step of an admin that leaves plans alone, and decides on no change of one.
LEMMA GoodsKept ==
  ASSUME GoodsInv, plan' = plan, listed' = listed, ChatTypes', CodeTypes', DoingTypes',
         \A b \in Admins : doing'[b] # None /\ doing'[b].write = "plan" => doing'[b] = doing[b]
  PROVE  GoodsInv'
BY DEF GoodsInv, PlanTypes, PriceInv

\* The wizard's questions.
LEMMA QuestionsGoods ==
  ASSUME GoodsInv, NEW a \in Admins, listed' = listed,
         \/ NewCode(a) \/ PlansDone(a) \/ NameTaken(a)
         \/ \E c \in Codes : EditCode(a, c) \/ TypeName(a, c)
         \/ \E percent \in Percents : TypePercent(a, percent)
         \/ \E limit \in Limits \cup {None} : TypeLimit(a, limit)
  PROVE  GoodsInv' /\ plan' = plan
<1>0. chat \in [Admins -> Chats] /\ discount \in [Codes -> Rows \cup {None}]
  BY DEF GoodsInv, ChatTypes, CodeTypes
<1>1. UNCHANGED <<plan, doing, discount>>
  BY DEF NewCode, PlansDone, NameTaken, EditCode, TypeName, TypePercent, TypeLimit, discountVars, catalogVars
<1>2. ASSUME ChatTypes' PROVE GoodsInv'
  BY <1>1, <1>2, GoodsKept DEF GoodsInv, CodeTypes, DoingTypes
<1>3. {"name", "percent", "usage_limit", "plans", "visibility"} \subseteq States \ {"price"}
  BY DEF States
<1>4. CASE NewCode(a)
  <2>1. None \in CodeIds
    BY DEF CodeIds
  <2>2. chat' \in [Admins -> Chats]
    BY <1>0, <1>3, <1>4, <2>1, ChatState, ChatCode DEF NewCode
  <2>3. chat'[a].state = "name" /\ \A b \in Admins \ {a} : chat'[b] = chat[b]
    BY <1>0, <1>4 DEF NewCode, Chats
  <2> QED
    BY <1>1, <1>2, <2>2, <2>3, ChatKept DEF GoodsInv
<1>5. CASE PlansDone(a)
  <2>1. chat' \in [Admins -> Chats]
    BY <1>0, <1>3, <1>5, ChatState DEF PlansDone
  <2>2. chat'[a].state = "visibility" /\ \A b \in Admins \ {a} : chat'[b] = chat[b]
    BY <1>0, <1>5 DEF PlansDone, Chats
  <2> QED
    BY <1>1, <1>2, <2>1, <2>2, ChatKept DEF GoodsInv
<1>6. CASE NameTaken(a)
  BY <1>1, <1>2, <1>6 DEF NameTaken, discountVars, catalogVars, GoodsInv, ChatTypes
<1>7. ASSUME NEW c \in Codes, EditCode(a, c) PROVE ChatTypes'
  <2>1. PICK picked \in Picks :
          chat' = [chat EXCEPT ![a].state = "percent", ![a].code = <<"edit", c>>, ![a].picked = picked]
    <3>1. discount[c] \in Rows
      BY <1>0, <1>7 DEF EditCode, Existing
    <3>2. discount[c].scope \in Picks \cup {All} /\ OnSale \in Picks
      BY <3>1 DEF Rows, Picks, OnSale
    <3> QED
      BY <1>7, <3>2 DEF EditCode
  <2>2. <<"edit", c>> \in CodeIds
    BY DEF CodeIds
  <2>3. chat' \in [Admins -> Chats]
    BY <1>0, <1>3, <2>1, <2>2, ChatState, ChatCode, ChatPicked
  <2>4. chat'[a].state = "percent" /\ \A b \in Admins \ {a} : chat'[b] = chat[b]
    BY <1>0, <2>1 DEF Chats
  <2> QED
    BY <2>3, <2>4, ChatKept DEF GoodsInv
<1>8. ASSUME NEW c \in Codes, TypeName(a, c) PROVE ChatTypes'
  <2>1. <<"new", c>> \in CodeIds
    BY DEF CodeIds
  <2>2. chat' \in [Admins -> Chats]
    BY <1>0, <1>3, <1>8, <2>1, ChatState, ChatCode DEF TypeName
  <2>3. chat'[a].state = "percent" /\ \A b \in Admins \ {a} : chat'[b] = chat[b]
    BY <1>0, <1>8 DEF TypeName, Chats
  <2> QED
    BY <2>2, <2>3, ChatKept DEF GoodsInv
<1>9. ASSUME NEW percent \in Percents, TypePercent(a, percent) PROVE ChatTypes'
  <2>1. percent \in Typed
    <3>1. percent \in Int
      BY CodeAssumption
    <3> QED
      BY <1>9, <3>1 DEF TypePercent, ValidPercent, Typed
  <2>2. chat' \in [Admins -> Chats]
    BY <1>0, <1>3, <1>9, <2>1, ChatState, ChatPercent DEF TypePercent
  <2>3. chat'[a].state = "usage_limit" /\ \A b \in Admins \ {a} : chat'[b] = chat[b]
    BY <1>0, <1>9 DEF TypePercent, Chats
  <2> QED
    BY <2>2, <2>3, ChatKept DEF GoodsInv
<1>10. ASSUME NEW limit \in Limits \cup {None}, TypeLimit(a, limit) PROVE ChatTypes'
  <2>1. limit \in Uses
    BY CodeAssumption DEF Uses
  <2>2. chat' = [chat EXCEPT ![a].state = "plans", ![a].limit = limit]
    BY <1>10 DEF TypeLimit
  <2>3. chat' \in [Admins -> Chats]
    BY <1>0, <1>3, <2>1, <2>2, ChatState, ChatLimit
  <2>4. chat'[a].state = "plans" /\ \A b \in Admins \ {a} : chat'[b] = chat[b]
    BY <1>0, <2>2 DEF Chats
  <2> QED
    BY <2>3, <2>4, ChatKept DEF GoodsInv
<1> QED
  BY <1>1, <1>2, <1>4, <1>5, <1>6, <1>7, <1>8, <1>9, <1>10

LEMMA Stored ==
  ASSUME NEW percent \in Typed
  PROVE  StoredPercent(percent) \in 0..Whole
<1>1. percent \in Nat /\ percent <= 100000
  BY DEF Typed
<1>2. StoredPercent(percent) \in Nat /\ StoredPercent(percent) <= 10000
  BY <1>1 DEF StoredPercent
<1>3. Whole \in Int /\ StoredPercent(percent) <= Whole
  BY <1>2 DEF Whole
<1> QED
  BY <1>2, <1>3

Scopes == Picks \cup {All}

LEMMA NewRow ==
  ASSUME NEW percent \in 0..Whole, NEW limit \in Uses, NEW used \in Nat, NEW scope \in Scopes,
         NEW active \in BOOLEAN, NEW public \in BOOLEAN
  PROVE  [percent |-> percent, limit |-> limit, used |-> used, scope |-> scope,
          active |-> active, public |-> public] \in Rows
BY DEF Rows, Uses, Scopes, Picks

LEMMA EditedRow ==
  ASSUME NEW row \in Rows, NEW percent \in 0..Whole, NEW limit \in Uses, NEW scope \in Scopes,
         NEW public \in BOOLEAN
  PROVE  [row EXCEPT !.percent = percent, !.limit = limit, !.scope = scope, !.public = public] \in Rows
<1>1. ASSUME NEW r \in Rows PROVE [r EXCEPT !.percent = percent] \in Rows
  BY <1>1 DEF Rows
<1>2. ASSUME NEW r \in Rows PROVE [r EXCEPT !.limit = limit] \in Rows
  BY <1>2 DEF Rows, Uses
<1>3. ASSUME NEW r \in Rows PROVE [r EXCEPT !.scope = scope] \in Rows
  BY <1>3 DEF Rows, Scopes, Picks
<1>4. ASSUME NEW r \in Rows PROVE [r EXCEPT !.public = public] \in Rows
  BY <1>4 DEF Rows
<1> QED
  BY <1>1, <1>2, <1>3, <1>4

\* What an admin's handler is about to do, when it is not about a plan.
LEMMA DoingKept ==
  ASSUME DoingTypes, NEW a \in Admins, NEW next \in {None} \cup PickWrites \cup CodeWrites \cup [write : {"clear"}],
         doing' = [doing EXCEPT ![a] = next]
  PROVE  /\ DoingTypes'
         /\ \A b \in Admins : doing'[b] # None /\ doing'[b].write = "plan" => doing'[b] = doing[b]
<1>1. next \in Doings /\ ~(next # None /\ next.write = "plan")
  BY DEF Doings, PickWrites, CodeWrites
<1> QED
  BY <1>1 DEF DoingTypes

LEMMA PickGoods ==
  ASSUME GoodsInv, NEW a \in Admins, listed' = listed,
         \/ ToggleAll(a) \/ StorePicked(a)
         \/ \E p \in Plans : TogglePick(a, p)
  PROVE  GoodsInv' /\ plan' = plan
<1>0. /\ chat \in [Admins -> Chats] /\ doing \in [Admins -> Doings] /\ DoingTypes
      /\ OnSale \in SUBSET Plans /\ chat[a].picked \in SUBSET Plans
  BY DEF GoodsInv, ChatTypes, DoingTypes, OnSale, Chats, Picks
<1>1. CASE ToggleAll(a) \/ \E p \in Plans : TogglePick(a, p)
  <2>1. PICK to \in SUBSET Plans : doing' = [doing EXCEPT ![a] = [write |-> "picked", to |-> to]]
    <3>1. ASSUME NEW p \in Plans, TogglePick(a, p)
          PROVE  \E to \in SUBSET Plans : doing' = [doing EXCEPT ![a] = [write |-> "picked", to |-> to]]
      <4>1. chat[a].picked \ {p} \in SUBSET Plans /\ chat[a].picked \cup {p} \in SUBSET Plans
        BY <1>0
      <4> QED
        BY <3>1, <4>1 DEF TogglePick
    <3>2. ASSUME ToggleAll(a)
          PROVE  \E to \in SUBSET Plans : doing' = [doing EXCEPT ![a] = [write |-> "picked", to |-> to]]
      <4>1. {} \in SUBSET Plans
        OBVIOUS
      <4> QED
        BY <1>0, <3>2, <4>1 DEF ToggleAll
    <3> QED
      BY <1>1, <3>1, <3>2
  <2>2. [write |-> "picked", to |-> to] \in PickWrites
    BY DEF PickWrites
  <2>3. UNCHANGED <<plan, chat, discount>>
    BY <1>1 DEF ToggleAll, TogglePick
  <2> QED
    BY <1>0, <2>1, <2>2, <2>3, DoingKept, GoodsKept DEF GoodsInv, CodeTypes, ChatTypes
<1>2. CASE StorePicked(a)
  <2>1. /\ doing[a] # None /\ doing[a].write = "picked" /\ UNCHANGED <<plan, discount>>
        /\ chat' = [chat EXCEPT ![a].picked = doing[a].to] /\ doing' = [doing EXCEPT ![a] = None]
    BY <1>2 DEF StorePicked
  <2>2. doing[a].to \in Picks
    BY <1>0, <2>1 DEF Doings, PlanWrites, PickWrites, CodeWrites, Picks
  <2>3. chat' \in [Admins -> Chats]
    BY <1>0, <2>1, <2>2, ChatPicked
  <2>4. /\ chat'[a].state = chat[a].state /\ chat'[a].plan = chat[a].plan
        /\ \A b \in Admins \ {a} : chat'[b] = chat[b]
    BY <1>0, <2>1 DEF Chats
  <2>5. ChatTypes'
    BY <2>3, <2>4, ChatKept DEF GoodsInv
  <2> QED
    BY <1>0, <2>1, <2>5, DoingKept, GoodsKept DEF GoodsInv, CodeTypes
<1> QED
  BY <1>1, <1>2

\* The wizard's end.
LEMMA WizardGoods ==
  ASSUME GoodsInv, NEW a \in Admins, listed' = listed,
         CloseWizard(a) \/ \E public \in BOOLEAN : CreateCode(a, public) \/ UpdateCode(a, public)
  PROVE  GoodsInv' /\ plan' = plan
<1>0. /\ chat \in [Admins -> Chats] /\ DoingTypes /\ discount \in [Codes -> Rows \cup {None}]
      /\ chat[a].percent \in Typed /\ chat[a].limit \in Uses /\ chat[a].picked \in Picks
  BY DEF GoodsInv, ChatTypes, CodeTypes, Chats
<1>1. CASE CloseWizard(a)
  <2>1. /\ chat' = [chat EXCEPT ![a] = Idle] /\ doing' = [doing EXCEPT ![a] = None]
        /\ UNCHANGED <<plan, discount>>
    BY <1>1 DEF CloseWizard
  <2>2. ChatTypes'
    BY <1>0, <2>1, IdleChat DEF GoodsInv, ChatTypes
  <2> QED
    BY <1>0, <2>1, <2>2, DoingKept, GoodsKept DEF GoodsInv, CodeTypes
<1>2. ChosenScope(chat[a].picked) \in Scopes
  BY <1>0 DEF ChosenScope, Scopes
<1>3. ASSUME CodeTypes', UNCHANGED <<plan, chat>>, doing' = [doing EXCEPT ![a] = [write |-> "clear"]]
      PROVE  GoodsInv'
  BY <1>0, <1>3, DoingKept, GoodsKept DEF GoodsInv, ChatTypes
<1>4. ASSUME NEW public \in BOOLEAN, CreateCode(a, public) PROVE GoodsInv' /\ plan' = plan
  <2>1. PICK row \in Rows : discount' = [discount EXCEPT ![chat[a].code[2]] = row]
    BY <1>0, <1>2, <1>4, Stored, NewRow DEF CreateCode
  <2> QED
    BY <1>0, <1>3, <1>4, <2>1 DEF CreateCode, CodeTypes
<1>5. ASSUME NEW public \in BOOLEAN, UpdateCode(a, public) PROVE GoodsInv' /\ plan' = plan
  <2>1. UNCHANGED <<plan, chat>> /\ doing' = [doing EXCEPT ![a] = [write |-> "clear"]]
    BY <1>5 DEF UpdateCode
  <2>2. CASE chat[a].code[2] \notin Existing
    BY <1>0, <1>3, <1>5, <2>1, <2>2 DEF UpdateCode, CodeTypes
  <2>3. CASE chat[a].code[2] \in Existing
    <3> DEFINE c == chat[a].code[2]
               row == [discount[c] EXCEPT !.percent = StoredPercent(chat[a].percent), !.limit = chat[a].limit,
                                          !.scope = ChosenScope(chat[a].picked), !.public = public]
    <3>1. c \in Codes /\ discount[c] \in Rows
      BY <1>0, <2>3 DEF Existing
    <3>2. row \in Rows
      BY <1>0, <1>2, <3>1, Stored, EditedRow
    <3>3. discount' = [discount EXCEPT ![c] = row]
      BY <1>0, <1>5, <2>3, <3>1 DEF UpdateCode
    <3> QED
      BY <1>0, <1>3, <2>1, <3>2, <3>3 DEF CodeTypes
  <2> QED
    BY <2>1, <2>2, <2>3
<1> QED
  BY <1>1, <1>4, <1>5 DEF CloseWizard

\* Switching and deleting a code.
LEMMA SwitchGoods ==
  ASSUME GoodsInv, NEW a \in Admins, listed' = listed,
         WriteCode(a) \/ \E c \in Codes : ToggleCode(a, c) \/ DeleteCode(c)
  PROVE  GoodsInv' /\ plan' = plan
<1>0. /\ chat \in [Admins -> Chats] /\ doing \in [Admins -> Doings] /\ DoingTypes
      /\ discount \in [Codes -> Rows \cup {None}]
  BY DEF GoodsInv, ChatTypes, DoingTypes, CodeTypes
<1>1. ASSUME NEW c \in Codes, NEW active \in BOOLEAN, discount[c] # None
      PROVE  [discount EXCEPT ![c].active = active] \in [Codes -> Rows \cup {None}]
  <2>1. [discount[c] EXCEPT !.active = active] \in Rows
    BY <1>0, <1>1 DEF Rows
  <2> QED
    BY <1>0, <2>1
<1>2. CASE WriteCode(a)
  <2>1. /\ doing[a] # None /\ doing[a].write = "code" /\ UNCHANGED <<plan, chat>>
        /\ doing' = [doing EXCEPT ![a] = None]
        /\ discount' = IF doing[a].row \notin Existing THEN discount
                       ELSE [discount EXCEPT ![doing[a].row].active = doing[a].to]
    BY <1>2 DEF WriteCode
  <2>2. doing[a].to \in BOOLEAN
    BY <1>0, <2>1 DEF Doings, PlanWrites, PickWrites, CodeWrites
  <2>3. CodeTypes'
    BY <1>0, <1>1, <2>1, <2>2 DEF CodeTypes, Existing
  <2> QED
    BY <1>0, <2>1, <2>3, DoingKept, GoodsKept DEF GoodsInv, ChatTypes
<1>3. ASSUME NEW c \in Codes, ToggleCode(a, c) PROVE GoodsInv' /\ plan' = plan
  <2>1. /\ discount[c] # None /\ UNCHANGED <<plan, chat, discount>>
        /\ doing' = [doing EXCEPT ![a] = [write |-> "code", row |-> c, to |-> ~discount[c].active]]
    BY <1>3 DEF ToggleCode, Existing
  <2>2. [write |-> "code", row |-> c, to |-> ~discount[c].active] \in CodeWrites
    BY DEF CodeWrites
  <2> QED
    BY <1>0, <2>1, <2>2, DoingKept, GoodsKept DEF GoodsInv, ChatTypes, CodeTypes
<1>4. ASSUME NEW c \in Codes, DeleteCode(c) PROVE GoodsInv' /\ plan' = plan
  <2>1. plan' = plan /\ CodeTypes'
    BY <1>0, <1>4 DEF DeleteCode, CodeTypes
  <2>2. <<"edit", Deleted>> \in CodeIds
    BY DEF CodeIds
  <2>3. \A b \in Admins : [chat[b] EXCEPT !.code = <<"edit", Deleted>>] \in Chats
    BY <1>0, <2>2 DEF Chats
  <2>4. /\ chat' \in [Admins -> Chats]
        /\ \A b \in Admins : chat'[b].state = chat[b].state /\ chat'[b].plan = chat[b].plan
    BY <1>0, <1>4, <2>3 DEF DeleteCode, Chats
  <2>5. ASSUME NEW b \in Admins
        PROVE  doing'[b] \in Doings /\ (doing'[b] # None /\ doing'[b].write = "plan" => doing'[b] = doing[b])
    <3>1. CASE doing[b] # None /\ doing[b].write = "code"
      <4>1. doing[b] \in CodeWrites
        BY <1>0, <3>1 DEF Doings, PlanWrites, PickWrites, CodeWrites
      <4>2. PICK row \in Codes \cup {Deleted} : doing'[b] = [doing[b] EXCEPT !.row = row]
        BY <1>4, <3>1, <4>1 DEF DeleteCode, CodeWrites
      <4>3. doing'[b] \in CodeWrites /\ doing'[b].write = "code"
        BY <4>1, <4>2 DEF CodeWrites
      <4> QED
        BY <4>3 DEF Doings
    <3>2. CASE ~(doing[b] # None /\ doing[b].write = "code")
      BY <1>0, <1>4, <3>2 DEF DeleteCode
    <3> QED
      BY <3>1, <3>2
  <2>6. DoingTypes'
    BY <1>4, <2>5 DEF DeleteCode, DoingTypes
  <2>7. ChatTypes'
    BY <2>4 DEF GoodsInv, ChatTypes
  <2> QED
    BY <2>1, <2>5, <2>6, <2>7, GoodsKept
<1> QED
  BY <1>2, <1>3, <1>4

LEMMA CodesGoods ==
  ASSUME GoodsInv, NEW a \in Admins, ManageCodes(a), listed' = listed
  PROVE  GoodsInv' /\ plan' = plan
BY QuestionsGoods, PickGoods, WizardGoods, SwitchGoods DEF ManageCodes

-----------------------------------------------------------------------------
(* A tap's steps *)

LEMMA NoTapType == NoTap \in TapTypes /\ NoTap.pc = "idle"
BY DEF NoTap, TapTypes

LEMMA TapPc ==
  ASSUME NEW f \in [Taps -> TapTypes], NEW h \in Taps,
         NEW value \in {"idle", "gate", "owner", "plan", "quote", "insert", "invoice"}
  PROVE  [f EXCEPT ![h].pc = value] \in [Taps -> TapTypes]
BY DEF TapTypes

LEMMA TapCode ==
  ASSUME NEW f \in [Taps -> TapTypes], NEW h \in Taps, NEW value \in Codes \cup {None, Deleted}
  PROVE  [f EXCEPT ![h].code = value] \in [Taps -> TapTypes]
BY DEF TapTypes

LEMMA TapAmount ==
  ASSUME NEW f \in [Taps -> TapTypes], NEW h \in Taps, NEW value \in Nat
  PROVE  [f EXCEPT ![h].amount = value] \in [Taps -> TapTypes]
BY DEF TapTypes

LEMMA TapOrder ==
  ASSUME NEW f \in [Taps -> TapTypes], NEW h \in Taps, NEW value \in Orders
  PROVE  [f EXCEPT ![h].order = value] \in [Taps -> TapTypes]
BY DEF TapTypes

\* A tap takes a step: the others are where they were.
TapStep(h) == tap' \in [Taps -> TapTypes] /\ \A g \in Taps \ {h} : tap'[g] = tap[g]

LEMMA TapFacts ==
  ASSUME CoreInv, NEW h \in Taps
  PROVE  tap \in [Taps -> TapTypes] /\ tap[h] \in TapTypes
BY DEF CoreInv, TapInv

LEMMA EndsStep ==
  ASSUME CoreInv, NEW h \in Taps, Ends(h)
  PROVE  TapStep(h) /\ tap'[h].pc = "idle"
BY TapFacts, NoTapType DEF Ends, TapStep

LEMMA ConfirmStep ==
  ASSUME CoreInv, NEW h \in Taps, NEW purpose \in {"purchase", "renew"}, NEW p \in Plans, Confirm(h, purpose, p)
  PROVE  TapStep(h) /\ tap'[h].pc = "gate" /\ tap'[h].plan = p /\ tap[h].pc = "idle" /\ p \in listed
<1>1. PICK t : t = [NoTap EXCEPT !.pc = "gate", !.purpose = purpose, !.plan = p]
  OBVIOUS
<1>2. t = [pc |-> "gate", purpose |-> purpose, plan |-> p,
           price |-> 0, code |-> None, amount |-> 0, order |-> None]
  BY <1>1 DEF NoTap
<1>3. t \in TapTypes
  BY <1>2 DEF TapTypes
<1>4. tap' = [tap EXCEPT ![h] = t] /\ tap[h].pc = "idle" /\ p \in listed
  BY <1>1 DEF Confirm, CoreInv, TapInv
<1> QED
  BY <1>2, <1>3, <1>4, TapFacts DEF TapStep

LEMMA GateStep ==
  ASSUME CoreInv, NEW h \in Taps, PassGate(h) \/ FindAccount(h)
  PROVE  /\ TapStep(h) /\ tap'[h].plan = tap[h].plan /\ tap'[h].purpose = tap[h].purpose
         /\ \/ /\ PassGate(h) /\ tap[h].pc = "gate" /\ sales
               /\ \/ tap'[h].pc = "owner"
                  \/ tap'[h].pc = "plan" /\ tap[h].purpose # "renew"
            \/ FindAccount(h) /\ tap[h].pc = "owner" /\ mine /\ tap'[h].pc = "plan"
<1>1. tap \in [Taps -> TapTypes]
  BY TapFacts
<1>2. PICK label \in {"owner", "plan"} :
        /\ tap' = [tap EXCEPT ![h].pc = label]
        /\ \/ PassGate(h) /\ tap[h].pc = "gate" /\ sales /\ (label = "owner" \/ tap[h].purpose # "renew")
           \/ FindAccount(h) /\ tap[h].pc = "owner" /\ mine /\ label = "plan"
  BY DEF PassGate, FindAccount
<1>3. tap' \in [Taps -> TapTypes]
  BY <1>1, <1>2, TapPc
<1>4. /\ tap'[h].pc = label /\ tap'[h].plan = tap[h].plan /\ tap'[h].purpose = tap[h].purpose
      /\ \A g \in Taps \ {h} : tap'[g] = tap[g]
  BY <1>1, <1>2 DEF TapTypes
<1> QED
  BY <1>2, <1>3, <1>4 DEF TapStep

LEMMA LoadStep ==
  ASSUME CoreInv, NEW h \in Taps, LoadPlan(h)
  PROVE  /\ TapStep(h) /\ tap[h].pc = "plan"
         /\ \/ tap'[h].pc = "idle"
            \/ /\ tap'[h].pc = "quote" /\ tap'[h].plan = tap[h].plan /\ tap'[h].purpose = tap[h].purpose
               /\ tap'[h].price = plan[tap[h].plan].price
<1>1. tap \in [Taps -> TapTypes] /\ tap[h] \in TapTypes /\ tap[h].pc = "plan"
  BY TapFacts DEF LoadPlan
<1>2. CASE tap' = [tap EXCEPT ![h] = NoTap]
  BY <1>1, <1>2, NoTapType DEF TapStep
<1>3. CASE tap' = [tap EXCEPT ![h] = [@ EXCEPT !.pc = "quote", !.price = plan[tap[h].plan].price]]
  <2>1. plan[tap[h].plan].price \in Nat
    <3>1. tap[h].plan \in Plans
      BY <1>1 DEF CoreInv, GoodsInv, PriceInv, TapInv
    <3>2. MaxPrice \in Int
      BY DEF MaxPrice
    <3> QED
      BY <3>1, <3>2 DEF CoreInv, GoodsInv, PlanTypes, PlanRows
  <2>2. PICK t : t = [tap[h] EXCEPT !.pc = "quote", !.price = plan[tap[h].plan].price]
    OBVIOUS
  <2>3. /\ t.pc = "quote" /\ t.plan = tap[h].plan /\ t.purpose = tap[h].purpose
        /\ t.price = plan[tap[h].plan].price
    BY <1>1, <2>2 DEF TapTypes
  <2>4. t \in TapTypes
    <3>1. ASSUME NEW s \in TapTypes PROVE [s EXCEPT !.pc = "quote"] \in TapTypes
      BY <3>1 DEF TapTypes
    <3>2. ASSUME NEW s \in TapTypes PROVE [s EXCEPT !.price = plan[tap[h].plan].price] \in TapTypes
      BY <2>1, <3>2 DEF TapTypes
    <3> QED
      BY <1>1, <2>2, <3>1, <3>2
  <2>5. tap' = [tap EXCEPT ![h] = t]
    BY <1>1, <1>3, <2>2
  <2> QED
    BY <1>1, <2>3, <2>4, <2>5 DEF TapStep
<1> QED
  BY <1>1, <1>2, <1>3 DEF LoadPlan

LEMMA BestIsOffered ==
  ASSUME CoreInv, NEW p \in Plans, NEW c \in BestAutoDiscount(p), NEW price \in Nat
  PROVE  /\ c \in Codes \cup {None} /\ (c # None => discount[c] # None) /\ Quote(price, c) \in Nat
         /\ \E offer \in Offers(p) : Quote(price, c) = Charge(price, offer)
<1>1. /\ \A d \in Existing : d \in Codes /\ discount[d] \in Rows
      /\ None \notin Codes
  BY CodeAssumption DEF CoreInv, GoodsInv, CodeTypes, Existing
<1>2. \A d \in Existing : discount[d].percent \in 0..Whole
  BY <1>1 DEF Rows
<1>3. plan[p].price \in Nat
  <2>1. MaxPrice \in Int
    BY DEF MaxPrice
  <2> QED
    BY <2>1 DEF CoreInv, GoodsInv, PlanTypes, PlanRows
<1> DEFINE usable == {d \in Codes : Usable(d, p)}
           offered == {d \in Existing :
                         /\ discount[d].active /\ discount[d].public
                         /\ discount[d].limit # None => discount[d].used < discount[d].limit
                         /\ discount[d].scope # All => p \in discount[d].scope}
<1>4. usable = offered /\ usable \subseteq Existing
  BY DEF Usable, Existing, WithinLimit, AppliesTo
<1>5. CASE usable = {}
  <2>1. c = None /\ [code |-> None, percent |-> 0] \in Offers(p)
    BY <1>4, <1>5 DEF BestAutoDiscount, Offers
  <2>2. Quote(price, None) = price /\ Charge(price, [code |-> None, percent |-> 0]) = price
    BY DEF Quote, Charge
  <2> QED
    BY <2>1, <2>2
<1>6. CASE usable # {}
  <2>1. c \in usable /\ \A d \in usable : discount[d].percent <= discount[c].percent
    BY <1>6 DEF BestAutoDiscount
  <2> HIDE DEF usable
  <2>2. c \in Codes /\ c # None /\ discount[c] # None
    BY <1>1, <1>4, <2>1 DEF Existing
  <2>3. \A d \in usable : DiscountPrice(plan[p].price, discount[c].percent)
                            <= DiscountPrice(plan[p].price, discount[d].percent)
    BY <1>2, <1>3, <1>4, <2>1, BetterPercent
  <2>4. \A d \in usable : d # None
    BY <1>1, <1>4
  <2>5. \A d \in usable : Quote(plan[p].price, c) <= Quote(plan[p].price, d)
    BY <2>2, <2>3, <2>4 DEF Quote
  <2>6. [code |-> c, percent |-> discount[c].percent] \in Offers(p)
    BY <1>4, <1>6, <2>1, <2>5 DEF Offers
  <2>7. Quote(price, c) = Charge(price, [code |-> c, percent |-> discount[c].percent])
    BY <2>2 DEF Quote, Charge
  <2>8. DiscountPrice(price, discount[c].percent) \in Nat
    BY <1>2, <1>4, <2>1, DiscountIsExact
  <2> QED
    BY <2>2, <2>6, <2>7, <2>8 DEF Quote
<1> QED
  BY <1>5, <1>6

LEMMA QuoteStep ==
  ASSUME CoreInv, NEW h \in Taps, QuoteAmount(h)
  PROVE  /\ TapStep(h) /\ tap[h].pc = "quote" /\ tap'[h].pc = "insert"
         /\ tap'[h].plan = tap[h].plan /\ tap'[h].purpose = tap[h].purpose
         /\ tap'[h].price = tap[h].price /\ (tap'[h].code \in Codes => discount[tap'[h].code] # None)
         /\ tap'[h].code \in BestAutoDiscount(tap[h].plan)
         /\ \E offer \in Offers(tap[h].plan) : tap'[h].amount = Charge(tap[h].price, offer)
<1>1. tap \in [Taps -> TapTypes] /\ tap[h] \in TapTypes /\ tap[h].pc = "quote"
  BY TapFacts DEF QuoteAmount
<1>2. tap[h].plan \in Plans /\ tap[h].price \in Nat
  BY <1>1 DEF CoreInv, GoodsInv, PriceInv, TapInv, TapTypes
<1>3. PICK c \in BestAutoDiscount(tap[h].plan) :
        tap' = [tap EXCEPT ![h].pc = "insert", ![h].code = c, ![h].amount = Quote(tap[h].price, c)]
  BY DEF QuoteAmount
<1>4. PICK amount : amount = Quote(tap[h].price, c)
  OBVIOUS
<1>5. /\ c \in Codes \cup {None} /\ (c # None => discount[c] # None) /\ amount \in Nat
      /\ \E offer \in Offers(tap[h].plan) : amount = Charge(tap[h].price, offer)
  BY <1>2, <1>3, <1>4, BestIsOffered
<1>6. tap' = [tap EXCEPT ![h].pc = "insert", ![h].code = c, ![h].amount = amount]
  BY <1>3, <1>4
<1>7. tap' \in [Taps -> TapTypes]
  BY <1>1, <1>5, <1>6, TapPc, TapCode, TapAmount
<1>8. /\ tap'[h].pc = "insert" /\ tap'[h].plan = tap[h].plan /\ tap'[h].purpose = tap[h].purpose
      /\ tap'[h].price = tap[h].price /\ tap'[h].code = c /\ tap'[h].amount = amount
      /\ \A g \in Taps \ {h} : tap'[g] = tap[g]
  BY <1>1, <1>6 DEF TapTypes
<1>9. None \notin Codes
  BY CodeAssumption
<1> QED
  BY <1>1, <1>3, <1>5, <1>7, <1>8, <1>9 DEF TapStep

LEMMA InsertStep ==
  ASSUME CoreInv, NEW h \in Taps, NEW o \in Orders, InsertOrder(h, o)
  PROVE  /\ TapStep(h) /\ tap[h].pc = "insert" /\ tap'[h].pc = "invoice" /\ tap'[h].order = o
         /\ tap'[h].plan = tap[h].plan /\ tap'[h].purpose = tap[h].purpose
         /\ tap'[h].price = tap[h].price
         /\ order[o] = None /\ order'[o] \in OrderTypes /\ order'[o] # None
         /\ order'[o].original = tap[h].price /\ order'[o].amount = tap[h].amount
         /\ order'[o].plan = tap[h].plan /\ order'[o].status = "pending"
         /\ (order'[o].code # None => order'[o].code \in Codes /\ discount[order'[o].code] # None)
         /\ order' \in [Orders -> OrderTypes \cup {None}]
         /\ \A q \in Orders \ {o} : order'[q] = order[q]
<1>1. /\ tap \in [Taps -> TapTypes] /\ tap[h] \in TapTypes /\ tap[h].pc = "insert"
      /\ tap[h].code # Deleted /\ order[o] = None
  BY TapFacts DEF InsertOrder
<1>2. tap[h].plan \in Plans /\ order \in [Orders -> OrderTypes \cup {None}]
  BY <1>1 DEF CoreInv, GoodsInv, PriceInv, TapInv, OrderInv
<1>3. PICK row : row = [status |-> "pending", plan |-> tap[h].plan, purpose |-> tap[h].purpose,
                        original |-> tap[h].price, amount |-> tap[h].amount, code |-> tap[h].code]
  OBVIOUS
<1>4. row \in OrderTypes
  BY <1>1, <1>2, <1>3 DEF OrderTypes, TapTypes
<1>5. /\ row # None /\ row.original = tap[h].price /\ row.amount = tap[h].amount
      /\ row.plan = tap[h].plan /\ row.code = tap[h].code /\ row.status = "pending"
  BY <1>3, <1>4, ShopAssumption
<1>6. order' = [order EXCEPT ![o] = row]
  BY <1>3 DEF InsertOrder
<1>7. tap' \in [Taps -> TapTypes]
  BY <1>1, TapPc, TapOrder DEF InsertOrder
<1>8. /\ tap'[h].pc = "invoice" /\ tap'[h].order = o /\ tap'[h].plan = tap[h].plan
      /\ tap'[h].purpose = tap[h].purpose /\ tap'[h].price = tap[h].price
      /\ \A g \in Taps \ {h} : tap'[g] = tap[g]
  BY <1>1 DEF InsertOrder, TapTypes
<1>9. tap[h].code # None => tap[h].code \in Codes /\ discount[tap[h].code] # None
  BY <1>1 DEF TapTypes, CoreInv, LinkInv
<1>10. /\ order'[o] = row /\ order' \in [Orders -> OrderTypes \cup {None}]
       /\ \A q \in Orders \ {o} : order'[q] = order[q]
  BY <1>2, <1>4, <1>6
<1> QED
  BY <1>1, <1>4, <1>5, <1>7, <1>8, <1>9, <1>10 DEF TapStep

-----------------------------------------------------------------------------
(* What holds of rows and taps *)

LEMMA GoodsSame ==
  ASSUME GoodsInv, UNCHANGED discountVars, listed' = listed
  PROVE  GoodsInv'
BY DEF GoodsInv, PlanTypes, CodeTypes, ChatTypes, DoingTypes, PriceInv, discountVars, catalogVars

\* A tap's step, other than its insert, keeps what holds.
LEMMA TapMoves ==
  ASSUME CoreInv, NEW h \in Taps, TapStep(h), tap'[h].pc # "invoice",
         UNCHANGED <<discountVars, sales, mine, listed, buttons, order>>,
         tap'[h].pc # "idle" => tap'[h].plan \in listed,
         tap'[h].pc \in {"quote", "insert"} => tap'[h].price > 0,
         tap'[h].pc = "insert" /\ tap'[h].code \in Codes => discount[tap'[h].code] # None
  PROVE  CoreInv'
<1>1. GoodsInv'
  BY GoodsSame DEF CoreInv
<1>2. TapInv'
  BY DEF CoreInv, TapInv, TapStep
<1>3. OrderInv' /\ LinkInv'
  BY DEF CoreInv, OrderInv, LinkInv, TapStep, discountVars
<1> QED
  BY <1>1, <1>2, <1>3 DEF CoreInv

\* Nobody's tap moves, and no order loses what it was charged for.
LEMMA TapsStay ==
  ASSUME CoreInv, GoodsInv', sales' \in BOOLEAN, mine' \in BOOLEAN,
         listed \subseteq listed', buttons' \subseteq listed',
         tap' \in [Taps -> TapTypes],
         \A h \in Taps : /\ tap'[h].pc = tap[h].pc /\ tap'[h].plan = tap[h].plan
                         /\ tap'[h].price = tap[h].price /\ tap'[h].order = tap[h].order,
         order' \in [Orders -> OrderTypes \cup {None}],
         \A o \in Orders : order[o] # None => /\ order'[o] # None /\ order'[o].plan = order[o].plan
                                              /\ order'[o].original = order[o].original,
         \A o \in Orders : order'[o] # None => order[o] # None,
         LinkInv'
  PROVE  CoreInv'
<1>1. TapInv'
  BY DEF CoreInv, TapInv
<1>2. OrderInv'
  BY DEF CoreInv, OrderInv
<1> QED
  BY <1>1, <1>2 DEF CoreInv

LEMMA CoreFacts ==
  ASSUME CoreInv
  PROVE  /\ sales \in BOOLEAN /\ mine \in BOOLEAN /\ buttons \subseteq listed
         /\ tap \in [Taps -> TapTypes] /\ order \in [Orders -> OrderTypes \cup {None}]
         /\ discount \in [Codes -> Rows \cup {None}] /\ listed \subseteq Plans \ Trials
         /\ \A p \in listed : plan[p].price > 0
         /\ None \notin Codes
BY CodeAssumption DEF CoreInv, TapInv, OrderInv, GoodsInv, CodeTypes, PriceInv

LEMMA CustomerCore ==
  ASSUME CoreInv, Shopping
  PROVE  CoreInv'
<1>0. /\ sales \in BOOLEAN /\ mine \in BOOLEAN /\ buttons \subseteq listed
      /\ tap \in [Taps -> TapTypes] /\ order \in [Orders -> OrderTypes \cup {None}]
      /\ \A h \in Taps : tap[h].pc # "idle" => tap[h].plan \in listed /\ plan[tap[h].plan].price > 0
  BY CoreFacts DEF CoreInv, TapInv
<1>1. CASE Browse
  <2>1. listed' = listed \cup Listed /\ UNCHANGED <<discountVars, sales, mine, buttons, tap, order>>
    BY <1>1 DEF Browse
  <2>2. Listed \subseteq Plans \ Trials /\ \A p \in Listed : plan[p].price > 0
    BY DEF Listed, OnSale, CoreInv, GoodsInv, PriceInv
  <2>3. GoodsInv'
    BY <2>1, <2>2 DEF CoreInv, GoodsInv, PlanTypes, CodeTypes, ChatTypes, DoingTypes, PriceInv,
                      discountVars, catalogVars
  <2>4. LinkInv'
    BY <2>1 DEF CoreInv, LinkInv, discountVars
  <2> QED
    BY <1>0, <2>1, <2>3, <2>4, TapsStay
<1>2. ASSUME NEW p \in Plans, Summary(p) PROVE CoreInv'
  <2>1. /\ p \in listed /\ buttons' = buttons \cup {p}
        /\ UNCHANGED <<discountVars, sales, mine, listed, tap, order>>
    BY <1>2 DEF Summary
  <2>2. GoodsInv' /\ LinkInv'
    BY <2>1, GoodsSame DEF CoreInv, LinkInv, discountVars
  <2> QED
    BY <1>0, <2>1, <2>2, TapsStay
<1>3. ASSUME NEW h \in Taps, Ends(h) PROVE CoreInv'
  BY <1>3, EndsStep, TapMoves DEF Ends
<1>4. ASSUME NEW h \in Taps, NEW purpose \in {"purchase", "renew"}, NEW p \in Plans, Confirm(h, purpose, p)
      PROVE  CoreInv'
  <2>1. UNCHANGED <<discountVars, sales, mine, listed, buttons, order>>
    BY <1>4 DEF Confirm
  <2> QED
    BY <1>4, <2>1, ConfirmStep, TapMoves
<1>5. ASSUME NEW h \in Taps, PassGate(h) \/ FindAccount(h) PROVE CoreInv'
  <2>1. UNCHANGED <<discountVars, sales, mine, listed, buttons, order>>
    BY <1>5 DEF PassGate, FindAccount
  <2>2. TapStep(h) /\ tap'[h].pc \in {"owner", "plan"} /\ tap'[h].plan = tap[h].plan /\ tap[h].pc # "idle"
    BY <1>5, GateStep
  <2> QED
    BY <1>0, <2>1, <2>2, TapMoves
<1>6. ASSUME NEW h \in Taps, LoadPlan(h) PROVE CoreInv'
  <2>1. UNCHANGED <<discountVars, sales, mine, listed, buttons, order>>
    BY <1>6 DEF LoadPlan
  <2> QED
    BY <1>0, <1>6, <2>1, LoadStep, TapMoves
<1>7. ASSUME NEW h \in Taps, QuoteAmount(h) PROVE CoreInv'
  <2>1. UNCHANGED <<discountVars, sales, mine, listed, buttons, order>>
    BY <1>7 DEF QuoteAmount
  <2>2. tap[h].pc = "quote" /\ tap[h].price > 0
    BY <1>7 DEF QuoteAmount, CoreInv, TapInv
  <2>3. /\ TapStep(h) /\ tap'[h].pc = "insert" /\ tap'[h].plan = tap[h].plan
        /\ tap'[h].price = tap[h].price /\ (tap'[h].code \in Codes => discount[tap'[h].code] # None)
    BY <1>7, QuoteStep
  <2> QED
    BY <1>0, <2>1, <2>2, <2>3, TapMoves
<1>8. ASSUME NEW h \in Taps, NEW o \in Orders, InsertOrder(h, o) PROVE CoreInv'
  <2>1. UNCHANGED <<discountVars, sales, mine, listed, buttons>>
    BY <1>8 DEF InsertOrder
  <2>2. /\ TapStep(h) /\ tap[h].pc = "insert" /\ tap'[h].pc = "invoice" /\ tap'[h].order = o
        /\ tap'[h].plan = tap[h].plan /\ tap'[h].price = tap[h].price
        /\ order'[o] # None /\ order'[o].original = tap[h].price
        /\ order'[o].plan = tap[h].plan
        /\ (order'[o].code # None => order'[o].code \in Codes /\ discount[order'[o].code] # None)
        /\ order' \in [Orders -> OrderTypes \cup {None}]
        /\ \A q \in Orders \ {o} : order'[q] = order[q]
    BY <1>8, InsertStep
  <2>3. tap[h].price > 0 /\ tap[h].plan \in listed
    BY <2>2 DEF CoreInv, TapInv
  <2>4. GoodsInv'
    BY <2>1, GoodsSame DEF CoreInv
  <2>5. TapInv'
    BY <2>1, <2>2, <2>3 DEF CoreInv, TapInv, TapStep
  <2>6. OrderInv'
    BY <2>1, <2>2, <2>3 DEF CoreInv, OrderInv
  <2>7. LinkInv'
    BY <2>1, <2>2 DEF CoreInv, LinkInv, TapStep, discountVars
  <2> QED
    BY <2>4, <2>5, <2>6, <2>7 DEF CoreInv
<1> QED
  BY <1>1, <1>2, <1>3, <1>4, <1>5, <1>6, <1>7, <1>8
     DEF Shopping, Customer, Paused, NotOwned, InsertFails, Invoice

\* An order becomes paid: it is one that was inserted, and stays what it is.
LEMMA PaidStep ==
  ASSUME CoreInv, ServeInv, NEW s \in Confirmers, MarkPaid(s)
  PROVE  /\ order' \in [Orders -> OrderTypes \cup {None}]
         /\ \A o \in Orders : order[o] # None =>
              /\ order'[o] # None /\ order'[o].plan = order[o].plan /\ order'[o].code = order[o].code
              /\ order'[o].original = order[o].original /\ order'[o].amount = order[o].amount
              /\ order'[o].status = order[o].status \/ o = serving[s].order
         /\ \A o \in Orders : order'[o] # None => order[o] # None
         /\ serving[s].order \in Orders /\ order[serving[s].order] # None
<1> DEFINE q == serving[s].order
<1>1. q \in Orders /\ order[q] # None
  BY DEF MarkPaid, ServeInv, ServiceOK
<1>2. order' = [order EXCEPT ![q].status = "paid"] /\ order \in [Orders -> OrderTypes \cup {None}]
  BY CoreFacts DEF MarkPaid
<1> HIDE DEF q
<1>3. /\ order'[q] = [order[q] EXCEPT !.status = "paid"] /\ order[q] \in OrderTypes
      /\ \A o \in Orders \ {q} : order'[o] = order[o]
  BY <1>1, <1>2
<1>4. /\ order'[q] \in OrderTypes /\ order'[q].plan = order[q].plan /\ order'[q].code = order[q].code
      /\ order'[q].original = order[q].original /\ order'[q].amount = order[q].amount
  BY <1>3 DEF OrderTypes
<1>5. order'[q] # None
  BY <1>4, ShopAssumption
<1>6. order' \in [Orders -> OrderTypes \cup {None}]
  BY <1>2, <1>3, <1>4
<1> QED
  BY <1>1, <1>3, <1>4, <1>5, <1>6 DEF q

\* A use is counted: the code is there.
LEMMA UseStep ==
  ASSUME CoreInv, ServeInv, NEW s \in Confirmers, WriteUse(s)
  PROVE  /\ serving[s].code \in Codes /\ discount[serving[s].code] # None
         /\ CodeTypes' /\ \A c \in Codes : discount[c] # None => discount'[c] # None
<1> DEFINE c == serving[s].code
<1>1. /\ serving[s] \in Services /\ c # Deleted /\ c # None
      /\ serving[s].order \in Orders /\ order[serving[s].order] # None
      /\ order[serving[s].order].code = IF c \in Codes THEN c ELSE None
  BY DEF WriteUse, ServeInv, ServiceOK
<1>2. c \in Codes /\ serving[s].read \in Nat
  BY <1>1 DEF Services
<1>3. discount[c] # None
  BY <1>1, <1>2 DEF CoreInv, LinkInv
<1>4. /\ discount \in [Codes -> Rows \cup {None}] /\ discount[c] \in Rows
      /\ discount' = [discount EXCEPT ![c].used = serving[s].read + 1]
  BY <1>2, <1>3, CoreFacts DEF WriteUse, CountUse
<1> HIDE DEF c
<1>5. [discount[c] EXCEPT !.used = serving[s].read + 1] \in Rows
  BY <1>2, <1>4 DEF Rows
<1>6. discount' = [discount EXCEPT ![c] = [discount[c] EXCEPT !.used = serving[s].read + 1]]
  BY <1>2, <1>4
<1>7. CodeTypes' /\ \A d \in Codes : discount[d] # None => discount'[d] # None
  BY <1>2, <1>4, <1>5, <1>6, CodeAssumption DEF CodeTypes
<1> QED
  BY <1>2, <1>3, <1>7 DEF c

LEMMA ServingCore ==
  ASSUME CoreInv, ServeInv, NEW s \in Confirmers, WriteUse(s) \/ MarkPaid(s)
  PROVE  CoreInv'
<1>0. /\ sales \in BOOLEAN /\ mine \in BOOLEAN /\ buttons \subseteq listed
      /\ tap \in [Taps -> TapTypes] /\ order \in [Orders -> OrderTypes \cup {None}]
  BY CoreFacts
<1>1. CASE WriteUse(s)
  <2>1. UNCHANGED <<catalogVars, sales, mine, listed, buttons, tap, order>>
    BY <1>1 DEF WriteUse, shopVars
  <2>2. GoodsInv' /\ LinkInv'
    BY <1>1, <2>1, UseStep DEF CoreInv, GoodsInv, PlanTypes, ChatTypes, DoingTypes, PriceInv, LinkInv,
                               OrderInv, OrderTypes, catalogVars
  <2> QED
    BY <1>0, <2>1, <2>2, TapsStay
<1>2. CASE MarkPaid(s)
  <2>1. UNCHANGED <<discountVars, sales, mine, listed, buttons, tap>>
    BY <1>2 DEF MarkPaid
  <2>2. GoodsInv' /\ LinkInv'
    BY <1>2, <2>1, PaidStep, GoodsSame DEF CoreInv, LinkInv, discountVars
  <2> QED
    BY <1>0, <1>2, <2>1, <2>2, PaidStep, TapsStay
<1> QED
  BY <1>1, <1>2

LEMMA ForgetStep ==
  ASSUME CoreInv, GoodsInv', ForgetCode
  PROVE  /\ tap' \in [Taps -> TapTypes] /\ order' \in [Orders -> OrderTypes \cup {None}]
         /\ \A h \in Taps : /\ tap'[h].pc = tap[h].pc /\ tap'[h].plan = tap[h].plan
                            /\ tap'[h].price = tap[h].price /\ tap'[h].order = tap[h].order
                            /\ tap'[h].purpose = tap[h].purpose /\ tap'[h].amount = tap[h].amount
         /\ \A o \in Orders : order[o] # None =>
              /\ order'[o] # None /\ order'[o].plan = order[o].plan
              /\ order'[o].original = order[o].original /\ order'[o].amount = order[o].amount
         /\ \A o \in Orders : order'[o] # None => order[o] # None
         /\ LinkInv'
<1>0. /\ tap \in [Taps -> TapTypes] /\ order \in [Orders -> OrderTypes \cup {None}] /\ None \notin Codes
  BY CoreFacts
<1> DEFINE gone == {c \in Existing : discount'[c] = None}
<1>1. /\ order' = [o \in Orders |-> IF order[o] # None /\ order[o].code \in gone
                                    THEN [order[o] EXCEPT !.code = None] ELSE order[o]]
      /\ tap' = [h \in Taps |-> IF tap[h].code \in gone
                                THEN [tap[h] EXCEPT !.code = IF tap[h].pc = "insert" THEN Deleted ELSE None]
                                ELSE tap[h]]
  BY DEF ForgetCode
<1>2. gone \subseteq Codes /\ \A c \in Codes : discount[c] # None /\ c \notin gone => discount'[c] # None
  BY DEF Existing
<1> HIDE DEF gone
<1>3. ASSUME NEW h \in Taps
      PROVE  /\ tap'[h] \in TapTypes
             /\ tap'[h].pc = tap[h].pc /\ tap'[h].plan = tap[h].plan
             /\ tap'[h].price = tap[h].price /\ tap'[h].order = tap[h].order
             /\ tap'[h].purpose = tap[h].purpose /\ tap'[h].amount = tap[h].amount
             /\ tap'[h].code \in Codes => tap'[h].code = tap[h].code /\ tap[h].code \notin gone
  <2>1. CASE tap[h].code \notin gone
    BY <1>0, <1>1, <2>1
  <2>2. CASE tap[h].code \in gone
    <3>1. PICK code \in {None, Deleted} : tap'[h] = [tap[h] EXCEPT !.code = code]
      BY <1>1, <2>2
    <3>2. code \notin Codes
      BY CodeAssumption
    <3> QED
      BY <1>0, <3>1, <3>2 DEF TapTypes
  <2> QED
    BY <2>1, <2>2
<1>4. ASSUME NEW o \in Orders, order[o] # None
      PROVE  /\ order'[o] \in OrderTypes /\ order'[o].plan = order[o].plan
             /\ order'[o].original = order[o].original /\ order'[o].amount = order[o].amount
             /\ order'[o].code # None => order'[o].code = order[o].code /\ order[o].code \in Codes \ gone
  <2>1. order[o] \in OrderTypes
    BY <1>0, <1>4
  <2>2. CASE order[o].code \notin gone
    BY <1>1, <1>4, <2>1, <2>2 DEF OrderTypes
  <2>3. CASE order[o].code \in gone
    <3>1. order'[o] = [order[o] EXCEPT !.code = None]
      BY <1>1, <1>4, <2>3
    <3> QED
      BY <2>1, <3>1 DEF OrderTypes
  <2> QED
    BY <2>2, <2>3
<1>5. \A o \in Orders : order[o] = None => order'[o] = None
  BY <1>1
<1>6. tap' \in [Taps -> TapTypes]
  BY <1>1, <1>3
<1>7. order' \in [Orders -> OrderTypes \cup {None}]
  BY <1>1, <1>4, <1>5
<1>8. \A o \in Orders : order[o] # None => order'[o] # None
  BY <1>4, ShopAssumption
<1>9. LinkInv'
  BY <1>0, <1>2, <1>3, <1>4, <1>5 DEF CoreInv, LinkInv
<1> QED
  BY <1>3, <1>4, <1>5, <1>6, <1>7, <1>8, <1>9

LEMMA AdminsCore ==
  ASSUME CoreInv, NEW a \in Admins, SalesAdmin(a) \/ FullAdmin(a)
  PROVE  CoreInv'
<1>0. /\ sales \in BOOLEAN /\ mine \in BOOLEAN /\ buttons \subseteq listed
      /\ tap \in [Taps -> TapTypes] /\ order \in [Orders -> OrderTypes \cup {None}]
      /\ GoodsInv
  BY CoreFacts DEF CoreInv
<1>1. CASE SalesAdmin(a)
  <2>1. ManageCodes(a) /\ ForgetCode /\ UNCHANGED <<sales, mine, listed, buttons>>
    BY <1>1 DEF SalesAdmin
  <2>2. GoodsInv'
    BY <1>0, <2>1, CodesGoods
  <2> QED
    BY <1>0, <2>1, <2>2, ForgetStep, TapsStay
<1>2. CASE FullAdmin(a)
  <2>1. ManagePlans(a) /\ UNCHANGED <<discount, sales, mine, listed, buttons, tap, order>>
    BY <1>2 DEF FullAdmin, shopVars
  <2>2. GoodsInv'
    BY <1>0, <2>1, PlansGoods
  <2>3. LinkInv'
    BY <2>1 DEF CoreInv, LinkInv
  <2> QED
    BY <1>0, <2>1, <2>2, <2>3, TapsStay
<1> QED
  BY <1>1, <1>2

LEMMA SwitchesCore ==
  ASSUME CoreInv,
         \/ \E on \in BOOLEAN : SetSales(on)
         \/ Transfer
         \/ UNCHANGED <<discountVars, shopVars>>
  PROVE  CoreInv'
<1>1. /\ sales \in BOOLEAN /\ mine \in BOOLEAN /\ buttons \subseteq listed
      /\ tap \in [Taps -> TapTypes] /\ order \in [Orders -> OrderTypes \cup {None}]
  BY CoreFacts
<1>2. /\ UNCHANGED <<discountVars, listed, buttons, tap, order>>
      /\ sales' \in BOOLEAN /\ mine' \in BOOLEAN
  BY <1>1 DEF SetSales, Transfer, shopVars
<1>3. GoodsInv' /\ LinkInv'
  BY <1>2, GoodsSame DEF CoreInv, LinkInv, discountVars
<1> QED
  BY <1>1, <1>2, <1>3, TapsStay

LEMMA CoreInitial == Init => CoreInv /\ ServeInv
<1> SUFFICES ASSUME Init PROVE CoreInv /\ ServeInv
  OBVIOUS
<1>1. /\ plan = FirstPlans /\ discount = FirstCodes
      /\ chat = [a \in Admins |-> Idle] /\ doing = [a \in Admins |-> None]
      /\ sales = TRUE /\ mine = TRUE /\ listed = {} /\ buttons = {}
      /\ tap = [h \in Taps |-> NoTap] /\ order = [o \in Orders |-> None]
  BY DEF Init, DiscountsInit, CatalogInit
<1>2. PlanTypes /\ \A p \in Plans \ Trials : plan[p].active => plan[p].price > 0
  BY <1>1, CatalogAssumption DEF PlanTypes, PlanRows
<1>3. CodeTypes
  BY <1>1, CodeAssumption DEF CodeTypes
<1>4. ChatTypes
  BY <1>1, IdleChat DEF ChatTypes
<1>5. DoingTypes /\ \A a \in Admins : doing[a] = None
  BY <1>1 DEF DoingTypes, Doings
<1>6. GoodsInv
  BY <1>1, <1>2, <1>3, <1>4, <1>5 DEF GoodsInv, PriceInv
<1>7. \A h \in Taps : tap[h] = NoTap
  BY <1>1
<1>8. TapInv
  BY <1>1, <1>7, NoTapType DEF TapInv
<1>9. OrderInv
  BY <1>1 DEF OrderInv
<1>10. LinkInv
  BY <1>1, <1>7, NoTapType DEF LinkInv
<1>11. NoService \in Services /\ NoService.pc = "idle"
  BY DEF NoService, Services
<1>12. uses \in [Codes -> Nat]
  BY <1>1, <1>3 DEF Init, CodeTypes, Existing, Rows
<1>13. ServeInv
  BY <1>11, <1>12 DEF Init, ServeInv
<1> QED
  BY <1>6, <1>8, <1>9, <1>10, <1>13 DEF CoreInv

\* What an activation holds stays so while orders keep their codes.
LEMMA ServiceKept ==
  ASSUME NEW v, ServiceOK(v, order),
         \A o \in Orders : order[o] # None => order'[o] # None /\ order'[o].code = order[o].code
  PROVE  ServiceOK(v, order')
BY DEF ServiceOK

LEMMA Insertions ==
  ASSUME Shopping
  PROVE  order' = order \/ \E h \in Taps, o \in Orders : InsertOrder(h, o)
BY DEF Shopping, Customer, Browse, Summary, Confirm, PassGate, Paused, FindAccount, NotOwned, LoadPlan,
       QuoteAmount, InsertFails, Invoice, Ends

LEMMA ShoppingServes ==
  ASSUME CoreInv, Shopping, NEW o \in Orders, order[o] # None
  PROVE  order'[o] = order[o]
<1>1. ASSUME NEW h \in Taps, NEW q \in Orders, InsertOrder(h, q) PROVE order'[o] = order[o]
  BY <1>1, InsertStep
<1> QED
  BY <1>1, Insertions

\* A process at the start or the end of an activation, or between its commits.
LEMMA ProcessServes ==
  ASSUME CoreInv, ServeInv, NEW s \in Confirmers,
         \/ \E o \in Orders : Activate(s, o)
         \/ ReadUses(s) \/ WriteUse(s) \/ MarkPaid(s) \/ CutShort(s)
  PROVE  ServeInv'
<1>1. /\ serving \in [Confirmers -> Services] /\ provisioned \subseteq Orders /\ uses \in [Codes -> Nat]
      /\ order \in [Orders -> OrderTypes \cup {None}] /\ None \notin Codes /\ Deleted \notin Codes
      /\ Deleted # None /\ \A q \in Confirmers : serving[q].pc # "idle" => ServiceOK(serving[q], order)
  BY CoreFacts, CodeAssumption DEF ServeInv
<1>2. ASSUME NEW v \in Services, serving' = [serving EXCEPT ![s] = v],
             v.pc # "idle" => ServiceOK(v, order'), provisioned' \subseteq Orders, uses' \in [Codes -> Nat],
             \A o \in Orders : order[o] # None => order'[o] # None /\ order'[o].code = order[o].code
      PROVE  ServeInv'
  <2>1. ASSUME NEW q \in Confirmers, serving'[q].pc # "idle" PROVE ServiceOK(serving'[q], order')
    <3>1. CASE q = s
      BY <1>1, <1>2, <2>1, <3>1 DEF ServiceOK
    <3>2. CASE q # s
      <4>1. serving'[q] = serving[q] /\ ServiceOK(serving[q], order)
        BY <1>1, <1>2, <2>1, <3>2
      <4> QED
        BY <1>2, <4>1, ServiceKept DEF ServiceOK
    <3> QED
      BY <3>1, <3>2
  <2> QED
    BY <1>1, <1>2, <2>1 DEF ServeInv
<1>3. NoService \in Services /\ NoService.pc = "idle"
  BY DEF NoService, Services
<1>4. ASSUME NEW o \in Orders, Activate(s, o) PROVE ServeInv'
  <2> DEFINE v == [pc |-> IF order[o].code = None THEN "settle" ELSE "count",
                   order |-> o, code |-> order[o].code, read |-> 0]
  <2>0. order' = order /\ order[o] # None /\ order[o] \in OrderTypes
    BY <1>1, <1>4 DEF Activate, shopVars
  <2>1. order' = order /\ order[o] # None /\ order[o].code \in Codes \cup {None}
    BY <2>0 DEF OrderTypes
  <2>2. /\ v \in Services /\ v.order = o /\ v.code = order[o].code
        /\ v.pc = IF order[o].code = None THEN "settle" ELSE "count"
    BY <2>1 DEF Services
  <2>3. serving' = [serving EXCEPT ![s] = v] /\ uses' = uses
    BY <1>4 DEF Activate
  <2>5. provisioned' = provisioned \/ provisioned' = provisioned \cup {o}
    BY <1>4 DEF Activate
  <2> HIDE DEF v
  <2>4. ServiceOK(v, order')
    BY <1>1, <2>1, <2>2 DEF ServiceOK
  <2> QED
    BY <1>1, <1>2, <2>1, <2>2, <2>3, <2>4, <2>5
<1>5. CASE ReadUses(s)
  <2>1. /\ order' = order /\ provisioned' = provisioned /\ uses' = uses /\ ServiceOK(serving[s], order)
        /\ serving[s] \in Services /\ serving[s].pc = "count"
    BY <1>1, <1>5 DEF ReadUses, shopVars
  <2>2. CASE serving[s].code = Deleted
    <3>1. serving' = [serving EXCEPT ![s] = [serving[s] EXCEPT !.pc = "settle"]]
      BY <1>5, <2>2 DEF ReadUses
    <3>2. [serving[s] EXCEPT !.pc = "settle"] \in Services
      BY <2>1 DEF Services
    <3>3. ServiceOK([serving[s] EXCEPT !.pc = "settle"], order')
      BY <2>1, <3>2 DEF ServiceOK, Services
    <3> QED
      BY <1>1, <1>2, <2>1, <3>1, <3>2, <3>3
  <2>3. CASE serving[s].code # Deleted
    <3> DEFINE read == discount[serving[s].code].used
    <3>1. serving[s].code \in Codes
      BY <2>1, <2>3 DEF ServiceOK, Services
    <3>2. discount[serving[s].code] \in Rows
      BY <1>1, <2>1, <3>1, CoreFacts DEF ServiceOK, CoreInv, LinkInv
    <3>3. read \in Nat
      BY <3>2 DEF Rows
    <3>4. serving' = [serving EXCEPT ![s] = [serving[s] EXCEPT !.pc = "write", !.read = read]]
      BY <1>5, <2>3 DEF ReadUses
    <3> HIDE DEF read
    <3>5. [serving[s] EXCEPT !.pc = "write", !.read = read] \in Services
      BY <2>1, <3>3 DEF Services
    <3>6. ServiceOK([serving[s] EXCEPT !.pc = "write", !.read = read], order')
      BY <2>1, <3>3, <3>5 DEF ServiceOK, Services
    <3> QED
      BY <1>1, <1>2, <2>1, <3>4, <3>5, <3>6
  <2> QED
    BY <2>2, <2>3
<1>6. CASE WriteUse(s)
  <2>1. /\ order' = order /\ provisioned' = provisioned /\ ServiceOK(serving[s], order)
        /\ serving[s] \in Services /\ serving' = [serving EXCEPT ![s] = [serving[s] EXCEPT !.pc = "settle"]]
    BY <1>1, <1>6 DEF WriteUse, shopVars
  <2>2. uses' \in [Codes -> Nat]
    <3>1. serving[s].code \in Codes /\ uses' = [uses EXCEPT ![serving[s].code] = uses[serving[s].code] + 1]
      BY <1>6, UseStep DEF WriteUse
    <3> QED
      BY <1>1, <3>1
  <2>3. [serving[s] EXCEPT !.pc = "settle"] \in Services
    BY <2>1 DEF Services
  <2>4. ServiceOK([serving[s] EXCEPT !.pc = "settle"], order')
    BY <2>1, <2>3 DEF ServiceOK, Services
  <2> QED
    BY <1>1, <1>2, <2>1, <2>2, <2>3, <2>4
<1>7. CASE MarkPaid(s)
  BY <1>1, <1>2, <1>3, <1>7, PaidStep DEF MarkPaid
<1>8. CASE CutShort(s)
  BY <1>1, <1>2, <1>3, <1>8 DEF CutShort, shopVars
<1> QED
  BY <1>4, <1>5, <1>6, <1>7, <1>8

LEMMA AdminServes ==
  ASSUME CoreInv, CoreInv', ServeInv, NEW a \in Admins, SalesAdmin(a)
  PROVE  ServeInv'
<1> DEFINE gone == {c \in Existing : discount'[c] = None}
<1>0. /\ order \in [Orders -> OrderTypes \cup {None}] /\ None \notin Codes /\ Deleted \notin Codes
      /\ serving \in [Confirmers -> Services] /\ uses \in [Codes -> Nat]
  BY CoreFacts, CodeAssumption DEF ServeInv
<1>1. /\ order' = [o \in Orders |-> IF order[o] # None /\ order[o].code \in gone
                                    THEN [order[o] EXCEPT !.code = None] ELSE order[o]]
      /\ serving' = [s \in Confirmers |-> IF serving[s].code \in gone
                                          THEN [serving[s] EXCEPT !.code = Deleted] ELSE serving[s]]
      /\ uses' = [c \in Codes |-> IF c \in gone THEN 0 ELSE uses[c]]
      /\ provisioned' = provisioned
  BY DEF SalesAdmin, ForgetCode
<1>2. gone \subseteq Codes
  BY DEF Existing
<1> HIDE DEF gone
<1>3. ASSUME NEW s \in Confirmers
      PROVE  serving'[s] \in Services /\ (serving'[s].pc # "idle" => ServiceOK(serving'[s], order'))
  <2>1. CASE serving[s].code \notin gone
    <3>1. serving'[s] = serving[s] /\ serving[s] \in Services
      BY <1>0, <1>1, <2>1
    <3>2. ASSUME serving[s].pc # "idle" PROVE ServiceOK(serving'[s], order')
      <4>1. ServiceOK(serving[s], order)
        BY <3>2 DEF ServeInv
      <4>2. order[serving[s].order].code \notin gone
        BY <1>0, <1>2, <2>1, <4>1 DEF ServiceOK
      <4>3. order'[serving[s].order] = order[serving[s].order]
        BY <1>1, <4>1, <4>2 DEF ServiceOK
      <4> QED
        BY <3>1, <4>1, <4>3 DEF ServiceOK
    <3> QED
      BY <3>1, <3>2
  <2>2. CASE serving[s].code \in gone
    <3>1. serving'[s] = [serving[s] EXCEPT !.code = Deleted] /\ serving[s] \in Services
      BY <1>0, <1>1, <2>2
    <3>2. /\ serving'[s] \in Services /\ serving'[s].code = Deleted
          /\ serving'[s].pc = serving[s].pc /\ serving'[s].order = serving[s].order
      BY <3>1 DEF Services
    <3>3. ASSUME serving[s].pc # "idle" PROVE ServiceOK(serving'[s], order')
      <4>1. ServiceOK(serving[s], order)
        BY <3>3 DEF ServeInv
      <4>2. /\ order[serving[s].order].code \in gone /\ order[serving[s].order] \in OrderTypes
        BY <1>0, <1>2, <2>2, <4>1 DEF ServiceOK
      <4>3. order'[serving[s].order] = [order[serving[s].order] EXCEPT !.code = None]
        BY <1>1, <4>1, <4>2 DEF ServiceOK
      <4>4. order'[serving[s].order] \in OrderTypes /\ order'[serving[s].order].code = None
        BY <4>2, <4>3 DEF OrderTypes
      <4> QED
        BY <1>0, <3>2, <4>1, <4>4, ShopAssumption, CodeAssumption DEF ServiceOK
    <3> QED
      BY <3>2, <3>3
  <2> QED
    BY <2>1, <2>2
<1>4. serving' \in [Confirmers -> Services] /\ uses' \in [Codes -> Nat]
  BY <1>0, <1>1, <1>3
<1> QED
  BY <1>1, <1>3, <1>4 DEF ServeInv

\* The steps there are.
LEMMA NextCases ==
  ASSUME [Next]_vars
  PROVE  \/ Shopping /\ UNCHANGED activationVars
         \/ \E s \in Confirmers, o \in Orders : Activate(s, o)
         \/ \E s \in Confirmers : ReadUses(s) \/ WriteUse(s) \/ MarkPaid(s) \/ CutShort(s)
         \/ ((\E on \in BOOLEAN : SetSales(on)) \/ Transfer) /\ UNCHANGED activationVars
         \/ \E a \in Admins : SalesAdmin(a)
         \/ \E a \in Admins : FullAdmin(a) /\ UNCHANGED activationVars
         \/ UNCHANGED vars
BY DEF Next, Shopping

\* Who writes taps and orders.
LEMMA Writers ==
  ASSUME [Next]_vars
  PROVE  \/ UNCHANGED vars
         \/ /\ Watching
            /\ \/ Shopping /\ UNCHANGED activationVars
               \/ \E s \in Confirmers : MarkPaid(s)
               \/ \E a \in Admins : SalesAdmin(a)
               \/ UNCHANGED <<tap, order>>
<1>1. ASSUME NEW s \in Confirmers, NEW o \in Orders, Activate(s, o) PROVE UNCHANGED <<tap, order>>
  BY <1>1 DEF Activate, shopVars
<1>2. ASSUME NEW s \in Confirmers, ReadUses(s) \/ WriteUse(s) \/ CutShort(s) PROVE UNCHANGED <<tap, order>>
  BY <1>2 DEF ReadUses, WriteUse, CutShort, shopVars
<1>3. ASSUME (\E on \in BOOLEAN : SetSales(on)) \/ Transfer PROVE UNCHANGED <<tap, order>>
  BY <1>3 DEF SetSales, Transfer
<1>4. ASSUME NEW a \in Admins, FullAdmin(a) PROVE UNCHANGED <<tap, order>>
  BY <1>4 DEF FullAdmin, shopVars
<1>5. UNCHANGED vars \/ Watching
  BY DEF Next
<1> QED
  BY <1>1, <1>2, <1>3, <1>4, <1>5, NextCases

LEMMA CoreStep == CoreInv /\ ServeInv /\ [Next]_vars => CoreInv' /\ ServeInv'
<1> SUFFICES ASSUME CoreInv, ServeInv, [Next]_vars PROVE CoreInv' /\ ServeInv'
  OBVIOUS
<1>1. ASSUME UNCHANGED activationVars,
             \A o \in Orders : order[o] # None => order'[o] # None /\ order'[o].code = order[o].code
      PROVE  ServeInv'
  <2>1. serving' = serving /\ provisioned' = provisioned /\ uses' = uses
    BY <1>1 DEF activationVars
  <2>2. ASSUME NEW s \in Confirmers, serving[s].pc # "idle" PROVE ServiceOK(serving'[s], order')
    <3>1. ServiceOK(serving[s], order)
      BY <2>2 DEF ServeInv
    <3> QED
      BY <1>1, <2>1, <3>1 DEF ServiceOK
  <2> QED
    BY <2>1, <2>2 DEF ServeInv
<1>2. CASE Shopping /\ UNCHANGED activationVars
  <2>1. CoreInv' /\ \A o \in Orders : order[o] # None => order'[o] = order[o]
    BY <1>2, CustomerCore, ShoppingServes
  <2> QED
    BY <1>1, <1>2, <2>1
<1>3. ASSUME NEW s \in Confirmers, NEW o \in Orders, Activate(s, o) PROVE CoreInv' /\ ServeInv'
  BY <1>3, SwitchesCore, ProcessServes DEF Activate
<1>4. ASSUME NEW s \in Confirmers, ReadUses(s) \/ WriteUse(s) \/ MarkPaid(s) \/ CutShort(s)
      PROVE  CoreInv' /\ ServeInv'
  <2>1. ServeInv'
    BY <1>4, ProcessServes
  <2>2. CoreInv'
    BY <1>4, ServingCore, SwitchesCore DEF ReadUses, CutShort
  <2> QED
    BY <2>1, <2>2
<1>5. CASE ((\E on \in BOOLEAN : SetSales(on)) \/ Transfer) /\ UNCHANGED activationVars
  BY <1>1, <1>5, SwitchesCore DEF SetSales, Transfer
<1>6. ASSUME NEW a \in Admins, SalesAdmin(a) PROVE CoreInv' /\ ServeInv'
  BY <1>6, AdminsCore, AdminServes
<1>7. ASSUME NEW a \in Admins, FullAdmin(a), UNCHANGED activationVars PROVE CoreInv' /\ ServeInv'
  BY <1>1, <1>7, AdminsCore DEF FullAdmin, shopVars
<1>8. CASE UNCHANGED vars
  BY <1>1, <1>8, SwitchesCore DEF vars, shopVars
<1> QED
  BY <1>2, <1>3, <1>4, <1>5, <1>6, <1>7, <1>8, NextCases

\* Rows have the types of their columns: no price or percentage outside what
\* the screens accept is stored, and no order takes up a deleted code.
THEOREM TypeCorrect == Spec => []TypeOK
<1>1. CoreInv /\ ServeInv => TypeOK
  BY DEF ServeInv, CoreInv, GoodsInv, PlanTypes, PlanRows, CodeTypes, PriceInv, TapInv, OrderInv, TypeOK
<1> QED
  BY <1>1, CoreInitial, CoreStep, PTL DEF Spec

\* An invoice for nothing is due to a discount alone: whatever is ever listed,
\* on however many screens still in the chat, has a price, and is no trial.
THEOREM NothingForFreeAlways == Spec => []NothingForFree
<1>1. CoreInv => NothingForFree
  BY DEF CoreInv, GoodsInv, PriceInv, OrderInv, NothingForFree
<1> QED
  BY <1>1, CoreInitial, CoreStep, PTL DEF Spec

-----------------------------------------------------------------------------
(* What a tap has seen *)

LEMMA NowSeen ==
  ASSUME CoreInv', NEW h \in Taps, tap'[h].pc # "idle"
  PROVE  /\ Now(h)' \in Seen /\ Now(h)'.sales = sales' /\ Now(h)'.mine = mine'
         /\ Now(h)'.prices = {plan'[tap'[h].plan].price} /\ Now(h)'.offers = Offers(tap[h].plan)'
<1>1. tap'[h].plan \in Plans /\ sales' \in BOOLEAN /\ mine' \in BOOLEAN
  BY DEF CoreInv, GoodsInv, PriceInv, TapInv
<1>2. plan'[tap'[h].plan].price \in Nat
  <2>1. MaxPrice \in Int
    BY DEF MaxPrice
  <2> QED
    BY <1>1, <2>1 DEF CoreInv, GoodsInv, PlanTypes, PlanRows
<1>3. Offers(tap[h].plan)' \subseteq [code : Codes \cup {None}, percent : 0..Whole]
  <2>1. \A c \in Existing' : c \in Codes /\ discount'[c].percent \in 0..Whole
    BY DEF Existing, CoreInv, GoodsInv, CodeTypes, Rows
  <2>2. [code |-> None, percent |-> 0] \in [code : Codes \cup {None}, percent : 0..Whole]
    <3>1. Whole \in Nat
      BY DEF Whole
    <3> QED
      BY <3>1
  <2>3. ASSUME NEW offer \in Offers(tap[h].plan)'
        PROVE  offer \in [code : Codes \cup {None}, percent : 0..Whole]
    <3>1. \/ offer = [code |-> None, percent |-> 0]
          \/ \E c \in Existing' : offer = [code |-> c, percent |-> discount'[c].percent]
      BY <2>3 DEF Offers
    <3> QED
      BY <2>1, <2>2, <3>1
  <2> QED
    BY <2>3
<1> DEFINE offers == Offers(tap[h].plan)'
<1>4. Now(h)' = [sales |-> sales', mine |-> mine', prices |-> {plan'[tap'[h].plan].price},
                 offers |-> offers]
  BY DEF Now
<1> HIDE DEF offers
<1>5. Now(h)' \in Seen
  <2>1. offers \in SUBSET [code : Codes \cup {None}, percent : 0..Whole]
    BY <1>3 DEF offers
  <2> QED
    BY <1>1, <1>2, <1>4, <2>1 DEF Seen
<1> QED
  BY <1>4, <1>5 DEF offers

LEMMA EarlierSeen ==
  ASSUME NEW a \in Seen, NEW b \in Seen, NEW c, c = Earlier(a, b)
  PROVE  /\ c \in Seen /\ (a.sales => c.sales) /\ (b.sales => c.sales)
         /\ (a.mine => c.mine) /\ (b.mine => c.mine)
         /\ a.prices \subseteq c.prices /\ b.prices \subseteq c.prices
         /\ a.offers \subseteq c.offers /\ b.offers \subseteq c.offers
<1>1. (a.sales \/ b.sales) \in BOOLEAN /\ (a.mine \/ b.mine) \in BOOLEAN
  OBVIOUS
<1>2. c \in Seen
  BY <1>1 DEF Seen, Earlier
<1>3. /\ a.sales \in BOOLEAN /\ b.sales \in BOOLEAN /\ a.mine \in BOOLEAN /\ b.mine \in BOOLEAN
      /\ c.sales = (a.sales \/ b.sales) /\ c.mine = (a.mine \/ b.mine)
      /\ c.prices = a.prices \cup b.prices /\ c.offers = a.offers \cup b.offers
  BY DEF Seen, Earlier
<1> QED
  BY <1>2, <1>3

\* A tap under way that keeps its purpose and what it has read, at the same
\* place or a later one, keeps what it has seen.
LEMMA SeenKept ==
  ASSUME SeenInv, CoreInv', Watching, NEW h \in Taps, tap[h].pc # "idle",
         /\ tap'[h].pc = tap[h].pc /\ tap'[h].purpose = tap[h].purpose
         /\ tap'[h].price = tap[h].price /\ tap'[h].amount = tap[h].amount,
         tap[h].pc = "invoice" =>
           /\ order'[tap'[h].order].original = order[tap[h].order].original
           /\ order'[tap'[h].order].amount = order[tap[h].order].amount
  PROVE  SeenOK(h)'
<1>1. SeenOK(h)
  BY DEF SeenInv
<1>2. CASE tap[h].pc = "invoice"
  <2>1. seen'[h] = seen[h]
    BY <1>2 DEF Watching
  <2> QED
    BY <1>1, <1>2, <2>1 DEF SeenOK
<1>3. CASE tap[h].pc # "invoice"
  <2>1. seen'[h] = Earlier(seen[h], Now(h)')
    BY <1>3 DEF Watching
  <2>2. Now(h)' \in Seen /\ seen[h] \in Seen
    BY <1>1, NowSeen DEF SeenOK
  <2>3. /\ seen'[h] \in Seen /\ (seen[h].sales => seen'[h].sales) /\ (seen[h].mine => seen'[h].mine)
        /\ seen[h].prices \subseteq seen'[h].prices /\ seen[h].offers \subseteq seen'[h].offers
    <3>1. PICK now : now = Now(h)'
      OBVIOUS
    <3>2. now \in Seen /\ seen'[h] = Earlier(seen[h], now)
      BY <2>1, <2>2, <3>1
    <3> QED
      BY <2>2, <3>2, EarlierSeen
  <2> QED
    BY <1>1, <1>3, <2>3 DEF SeenOK
<1> QED
  BY <1>2, <1>3

\* A tap that has just begun, or that has just moved on.
LEMMA SeenMoves ==
  ASSUME SeenInv, CoreInv', Watching, NEW h \in Taps, tap'[h].pc \notin {"idle", "invoice"}
  PROVE  /\ seen'[h] \in Seen /\ (sales' => seen'[h].sales) /\ (mine' => seen'[h].mine)
         /\ plan'[tap'[h].plan].price \in seen'[h].prices
         /\ Offers(tap[h].plan)' \subseteq seen'[h].offers
         /\ tap[h].pc # "idle" =>
              /\ SeenOK(h) /\ (seen[h].sales => seen'[h].sales) /\ (seen[h].mine => seen'[h].mine)
              /\ seen[h].prices \subseteq seen'[h].prices
<1>1. PICK now : now = Now(h)'
  OBVIOUS
<1>2. /\ now \in Seen /\ now.sales = sales' /\ now.mine = mine'
      /\ now.prices = {plan'[tap'[h].plan].price} /\ now.offers = Offers(tap[h].plan)'
  BY <1>1, NowSeen
<1>3. seen'[h] = IF tap[h].pc = "idle" THEN now ELSE Earlier(seen[h], now)
  BY <1>1 DEF Watching
<1>4. CASE tap[h].pc = "idle"
  BY <1>2, <1>3, <1>4
<1>5. CASE tap[h].pc # "idle"
  <2>1. SeenOK(h) /\ seen[h] \in Seen
    BY <1>5 DEF SeenInv, SeenOK
  <2> QED
    BY <1>2, <1>3, <1>5, <2>1, EarlierSeen
<1> QED
  BY <1>4, <1>5

LEMMA SeenStep ==
  ASSUME CoreInv, CoreInv', ServeInv, SeenInv, [Next]_vars
  PROVE  SeenInv'
<1>0. /\ tap \in [Taps -> TapTypes] /\ tap' \in [Taps -> TapTypes]
      /\ \A h \in Taps : tap[h].pc = "invoice" => tap[h].order \in Orders /\ order[tap[h].order] # None
  BY DEF CoreInv, TapInv
<1>1. CASE UNCHANGED vars
  <2>1. tap' = tap /\ seen' = seen /\ order' = order
    BY <1>1 DEF vars, shopVars
  <2> QED
    BY <2>1 DEF SeenInv, SeenOK
<1>2. ASSUME Watching, NEW h \in Taps, TapStep(h), tap'[h].pc # "idle" => SeenOK(h)',
             \A o \in Orders : order[o] # None => order'[o] = order[o]
      PROVE  SeenInv'
  <2>1. ASSUME NEW g \in Taps \ {h}, tap[g].pc # "idle" PROVE SeenOK(g)'
    <3>1. tap'[g] = tap[g]
      BY <1>2 DEF TapStep
    <3>2. tap[g].pc = "invoice" => order'[tap[g].order] = order[tap[g].order]
      BY <1>0, <1>2
    <3> QED
      BY <1>2, <2>1, <3>1, <3>2, SeenKept
  <2>2. \A g \in Taps \ {h} : tap'[g].pc = tap[g].pc
    BY <1>2 DEF TapStep
  <2> QED
    BY <1>2, <2>1, <2>2 DEF SeenInv
<1>3. ASSUME Watching,
             \A h \in Taps : /\ tap'[h].pc = tap[h].pc /\ tap'[h].purpose = tap[h].purpose
                             /\ tap'[h].price = tap[h].price /\ tap'[h].amount = tap[h].amount
                             /\ tap'[h].order = tap[h].order,
             \A o \in Orders : order[o] # None => /\ order'[o].original = order[o].original
                                                  /\ order'[o].amount = order[o].amount
      PROVE  SeenInv'
  <2>1. ASSUME NEW h \in Taps, tap[h].pc # "idle" PROVE SeenOK(h)'
    BY <1>0, <1>3, <2>1, SeenKept
  <2> QED
    BY <1>3, <2>1 DEF SeenInv
<1>4. CASE Watching /\ Shopping
  <2>1. CASE Browse \/ \E p \in Plans : Summary(p)
    <3>1. tap' = tap /\ order' = order
      BY <2>1 DEF Browse, Summary
    <3> QED
      BY <1>3, <1>4, <3>1
  <2>2. ASSUME NEW h \in Taps, Ends(h) PROVE SeenInv'
    <3>1. TapStep(h) /\ tap'[h].pc = "idle" /\ order' = order
      BY <2>2, EndsStep DEF Ends
    <3> QED
      BY <1>2, <1>4, <3>1
  <2>3. ASSUME NEW h \in Taps, NEW purpose \in {"purchase", "renew"}, NEW p \in Plans, Confirm(h, purpose, p)
        PROVE  SeenInv'
    <3>0. order' = order
      BY <2>3 DEF Confirm
    <3>1. TapStep(h) /\ tap'[h].pc = "gate" /\ order' = order
      BY <2>3, <3>0, ConfirmStep
    <3>2. seen'[h] \in Seen
      BY <1>4, <3>1, SeenMoves
    <3>3. SeenOK(h)'
      BY <3>1, <3>2 DEF SeenOK
    <3> QED
      BY <1>2, <1>4, <3>1, <3>3
  <2>4. ASSUME NEW h \in Taps, PassGate(h) \/ FindAccount(h) PROVE SeenInv'
    <3>1. /\ TapStep(h) /\ tap'[h].purpose = tap[h].purpose
          /\ \/ /\ PassGate(h) /\ tap[h].pc = "gate" /\ sales
                /\ \/ tap'[h].pc = "owner"
                   \/ tap'[h].pc = "plan" /\ tap[h].purpose # "renew"
             \/ FindAccount(h) /\ tap[h].pc = "owner" /\ mine /\ tap'[h].pc = "plan"
      BY <2>4, GateStep
    <3>2. order' = order /\ sales' = sales /\ mine' = mine
      BY <2>4 DEF PassGate, FindAccount
    <3>3. /\ seen'[h] \in Seen /\ (sales => seen'[h].sales) /\ (mine => seen'[h].mine)
          /\ SeenOK(h) /\ (seen[h].sales => seen'[h].sales)
      <4>1. tap'[h].pc \notin {"idle", "invoice"} /\ tap[h].pc # "idle"
        BY <3>1
      <4> QED
        BY <1>4, <3>2, <4>1, SeenMoves
    <3>4. SeenOK(h)'
      BY <3>1, <3>3 DEF SeenOK
    <3> QED
      BY <1>2, <1>4, <3>1, <3>2, <3>4
  <2>5. ASSUME NEW h \in Taps, LoadPlan(h) PROVE SeenInv'
    <3>0. order' = order /\ plan' = plan
      BY <2>5 DEF LoadPlan, discountVars, catalogVars
    <3>1. /\ TapStep(h) /\ tap[h].pc = "plan" /\ order' = order /\ plan' = plan
          /\ \/ tap'[h].pc = "idle"
             \/ /\ tap'[h].pc = "quote" /\ tap'[h].plan = tap[h].plan /\ tap'[h].purpose = tap[h].purpose
                /\ tap'[h].price = plan[tap[h].plan].price
      BY <2>5, <3>0, LoadStep
    <3>2. CASE tap'[h].pc = "idle"
      BY <1>2, <1>4, <3>1, <3>2
    <3>3. CASE tap'[h].pc # "idle"
      <4>1. /\ seen'[h] \in Seen /\ plan'[tap'[h].plan].price \in seen'[h].prices
            /\ SeenOK(h) /\ (seen[h].sales => seen'[h].sales) /\ (seen[h].mine => seen'[h].mine)
        BY <1>4, <3>1, <3>3, SeenMoves
      <4>2. SeenOK(h)'
        BY <3>1, <3>3, <4>1 DEF SeenOK
      <4> QED
        BY <1>2, <1>4, <3>1, <4>2
    <3> QED
      BY <3>2, <3>3
  <2>6. ASSUME NEW h \in Taps, QuoteAmount(h) PROVE SeenInv'
    <3>1. order' = order /\ plan' = plan /\ discount' = discount
      BY <2>6 DEF QuoteAmount, discountVars, catalogVars
    <3>2. /\ TapStep(h) /\ tap[h].pc = "quote" /\ tap'[h].pc = "insert"
          /\ tap'[h].plan = tap[h].plan /\ tap'[h].purpose = tap[h].purpose
          /\ tap'[h].price = tap[h].price
          /\ \E offer \in Offers(tap[h].plan) : tap'[h].amount = Charge(tap[h].price, offer)
      BY <2>6, QuoteStep
    <3>3. Offers(tap[h].plan)' = Offers(tap[h].plan)
      BY <3>1, <3>2 DEF Offers, Existing, Quote, DiscountPrice
    <3>4. /\ seen'[h] \in Seen /\ Offers(tap[h].plan) \subseteq seen'[h].offers
          /\ SeenOK(h) /\ (seen[h].sales => seen'[h].sales) /\ (seen[h].mine => seen'[h].mine)
          /\ seen[h].prices \subseteq seen'[h].prices
      BY <1>4, <3>2, <3>3, SeenMoves
    <3>5. SeenOK(h)'
      BY <3>2, <3>4 DEF SeenOK
    <3> QED
      BY <1>2, <1>4, <3>1, <3>2, <3>5
  <2>7. ASSUME NEW h \in Taps, NEW o \in Orders, InsertOrder(h, o) PROVE SeenInv'
    <3>1. /\ TapStep(h) /\ tap[h].pc = "insert" /\ tap'[h].pc = "invoice" /\ tap'[h].order = o
          /\ tap'[h].purpose = tap[h].purpose /\ order[o] = None
          /\ order'[o].original = tap[h].price /\ order'[o].amount = tap[h].amount
          /\ \A q \in Orders \ {o} : order'[q] = order[q]
      BY <2>7, InsertStep
    <3>2. seen'[h] = seen[h]
      BY <1>4, <3>1 DEF Watching
    <3>3. SeenOK(h)
      BY <3>1 DEF SeenInv
    <3>4. SeenOK(h)'
      BY <3>1, <3>2, <3>3 DEF SeenOK
    <3>5. \A q \in Orders : order[q] # None => order'[q] = order[q]
      BY <3>1
    <3> QED
      BY <1>2, <1>4, <3>1, <3>4, <3>5
  <2> QED
    BY <1>4, <2>1, <2>2, <2>3, <2>4, <2>5, <2>6, <2>7
       DEF Shopping, Customer, Paused, NotOwned, InsertFails, Invoice
<1>5. ASSUME Watching, NEW s \in Confirmers, MarkPaid(s) PROVE SeenInv'
  <2>1. tap' = tap
    BY <1>5 DEF MarkPaid
  <2> QED
    BY <1>3, <1>5, <2>1, PaidStep
<1>6. ASSUME Watching, NEW a \in Admins, SalesAdmin(a) PROVE SeenInv'
  <2>1. GoodsInv' /\ ForgetCode
    BY <1>6 DEF SalesAdmin, CoreInv
  <2> QED
    BY <1>3, <1>6, <2>1, ForgetStep
<1>7. CASE Watching /\ UNCHANGED <<tap, order>>
  BY <1>3, <1>7
<1> QED
  BY <1>1, <1>4, <1>5, <1>6, <1>7, Writers

LEMMA SeenInitial == Init => SeenInv
BY NoTapType DEF Init, SeenInv

\* An order is created by a tap that saw sales open and, for a renewal, the
\* account the customer's: whatever changes while it is under way.
THEOREM SoldWhileAllowedAlways == Spec => []SoldWhileAllowed
<1>1. SeenInv => SoldWhileAllowed
  BY DEF SeenInv, SeenOK, SoldWhileAllowed
<1> QED
  BY <1>1, CoreInitial, CoreStep, SeenInitial, SeenStep, PTL DEF Spec

\* An order is charged the price and the best public code of that moment of
\* its tap: the code's largest percentage is the customer's lowest price.
THEOREM ChargedAsOfferedAlways == Spec => []ChargedAsOffered
<1>1. SeenInv => ChargedAsOffered
  BY DEF SeenInv, SeenOK, Charge, ChargedAsOffered
<1> QED
  BY <1>1, CoreInitial, CoreStep, SeenInitial, SeenStep, PTL DEF Spec

-----------------------------------------------------------------------------
(* The limit of a code *)

Settling(o) == \E s \in Confirmers : serving[s].pc = "settle" /\ serving[s].order = o

\* Orders whose use of a code has been counted, as far as the orders show it.
Counted(c) ==
    {o \in Orders : order[o] # None /\ order[o].code = c /\ (order[o].status = "paid" \/ Settling(o))}

UseInv == \A c \in Codes : Cardinality(Counted(c)) <= uses[c]

LEMMA FiniteCounted ==
  ASSUME NEW c
  PROVE  IsFiniteSet(Counted(c)) /\ Cardinality(Counted(c)) \in Nat
<1>1. IsFiniteSet(Orders) /\ Counted(c) \subseteq Orders
  BY ShopAssumption DEF Counted
<1> QED
  BY <1>1, FS_Subset, FS_CardinalityType

\* No order is counted anew, and no count is forgotten.
LEMMA NothingCounted ==
  ASSUME ServeInv, UseInv, NEW c \in Codes, Counted(c)' \subseteq Counted(c), uses'[c] = uses[c]
  PROVE  Cardinality(Counted(c)') <= uses'[c]
<1>1. Cardinality(Counted(c)') \in Nat /\ Cardinality(Counted(c)') <= Cardinality(Counted(c))
  BY FiniteCounted, FS_Subset, FS_CardinalityType
<1> QED
  BY <1>1, FiniteCounted DEF UseInv, ServeInv

LEMMA OneCounted ==
  ASSUME ServeInv, UseInv, NEW c \in Codes, NEW o, Counted(c)' \subseteq Counted(c) \cup {o},
         uses'[c] = uses[c] + 1
  PROVE  Cardinality(Counted(c)') <= uses'[c]
<1>1. IsFiniteSet(Counted(c) \cup {o}) /\ Cardinality(Counted(c) \cup {o}) \in Nat
      /\ Cardinality(Counted(c) \cup {o}) <= Cardinality(Counted(c)) + 1
  <2>1. /\ IsFiniteSet(Counted(c) \cup {o})
        /\ Cardinality(Counted(c) \cup {o}) = IF o \in Counted(c) THEN Cardinality(Counted(c))
                                              ELSE Cardinality(Counted(c)) + 1
    BY FiniteCounted, FS_AddElement, Zenon
  <2> QED
    BY <2>1, FiniteCounted
<1>2. Cardinality(Counted(c)') \in Nat /\ Cardinality(Counted(c)') <= Cardinality(Counted(c) \cup {o})
  BY <1>1, FS_Subset, FS_CardinalityType
<1> QED
  BY <1>1, <1>2, FiniteCounted DEF UseInv, ServeInv

\* Nobody starts to settle an order, and no order becomes paid or takes a code.
LEMMA NobodySettles ==
  ASSUME CoreInv, ServeInv, UseInv, uses' = uses,
         \A o \in Orders :
           order'[o] # None =>
             /\ order[o] # None => order'[o].code = order[o].code /\ order'[o].status = order[o].status
             /\ order[o] = None => order'[o].status = "pending",
         \A s \in Confirmers :
           /\ serving'[s].pc = "settle" => serving[s].pc # "idle"
           /\ serving'[s].pc = "settle" =>
                serving'[s] = serving[s] \/ order'[serving'[s].order].code = None
  PROVE  UseInv'
<1>1. None \notin Codes /\ \A s \in Confirmers : serving[s].pc # "idle" => order[serving[s].order] # None
  BY CoreFacts DEF ServeInv, ServiceOK
<1>2. ASSUME NEW c \in Codes, NEW o \in Counted(c)' PROVE o \in Counted(c)
  <2>1. o \in Orders /\ order'[o] # None /\ order'[o].code = c
    BY <1>2 DEF Counted
  <2>2. CASE order'[o].status = "paid"
    BY <2>1, <2>2 DEF Counted
  <2>3. CASE \E s \in Confirmers : serving'[s].pc = "settle" /\ serving'[s].order = o
    <3>1. PICK s \in Confirmers : serving'[s].pc = "settle" /\ serving'[s].order = o
      BY <2>3
    <3>2. serving'[s] = serving[s]
      BY <1>1, <2>1, <3>1
    <3>3. order[o] # None
      BY <1>1, <3>1, <3>2
    <3> QED
      BY <2>1, <3>1, <3>2, <3>3 DEF Counted, Settling
  <2> QED
    BY <1>2, <2>2, <2>3 DEF Counted, Settling
<1> QED
  BY <1>2, NothingCounted DEF UseInv

LEMMA ProcessUses ==
  ASSUME CoreInv, ServeInv, ServeInv', UseInv, NEW s \in Confirmers,
         \/ \E o \in Orders : Activate(s, o)
         \/ ReadUses(s) \/ WriteUse(s) \/ MarkPaid(s) \/ CutShort(s)
  PROVE  UseInv'
<1>1. /\ serving \in [Confirmers -> Services] /\ order \in [Orders -> OrderTypes \cup {None}]
      /\ serving' \in [Confirmers -> Services] /\ None \notin Codes /\ uses \in [Codes -> Nat]
  BY CoreFacts DEF ServeInv
<1>2. /\ \A q \in Confirmers : serving[q].pc # "idle" => ServiceOK(serving[q], order)
      /\ \A q \in Confirmers : serving'[q].pc # "idle" => ServiceOK(serving'[q], order')
  BY DEF ServeInv
<1>3. CASE WriteUse(s)
  <2> DEFINE c == serving[s].code
             o == serving[s].order
  <2>1. /\ c \in Codes /\ order' = order /\ uses' = [uses EXCEPT ![c] = uses[c] + 1]
        /\ serving' = [serving EXCEPT ![s].pc = "settle"] /\ serving[s].pc = "write"
    BY <1>3, UseStep DEF WriteUse, shopVars
  <2>2. /\ serving'[s].order = o /\ \A q \in Confirmers \ {s} : serving'[q] = serving[q]
        /\ order[o].code = c
    BY <1>1, <1>2, <2>1 DEF Services, ServiceOK
  <2> HIDE DEF c, o
  <2>3. ASSUME NEW d \in Codes, NEW x \in Counted(d)' PROVE x \in Counted(d) \/ (x = o /\ d = c)
    <3>1. x \in Orders /\ order[x] # None /\ order[x].code = d /\ (order[x].status = "paid" \/ Settling(x)')
      BY <2>1, <2>3 DEF Counted
    <3>2. Settling(x)' => Settling(x) \/ x = o
      BY <2>2 DEF Settling
    <3> QED
      BY <2>2, <3>1, <3>2 DEF Counted
  <2>4. ASSUME NEW d \in Codes PROVE Cardinality(Counted(d)') <= uses'[d]
    <3>1. CASE d = c
      <4>1. Counted(d)' \subseteq Counted(d) \cup {o} /\ uses'[d] = uses[d] + 1
        BY <1>1, <2>1, <2>3, <3>1
      <4> QED
        BY <4>1, OneCounted
    <3>2. CASE d # c
      <4>1. Counted(d)' \subseteq Counted(d) /\ uses'[d] = uses[d]
        BY <1>1, <2>1, <2>3, <3>2
      <4> QED
        BY <4>1, NothingCounted
    <3> QED
      BY <3>1, <3>2
  <2> QED
    BY <2>4 DEF UseInv
<1>4. CASE MarkPaid(s)
  <2> DEFINE o == serving[s].order
  <2>1. /\ serving[s].pc = "settle" /\ uses' = uses
        /\ serving' = [serving EXCEPT ![s] = NoService]
        /\ \A x \in Orders : order'[x] # None =>
              /\ order[x] # None /\ order'[x].code = order[x].code
              /\ order'[x].status = order[x].status \/ x = o
    BY <1>4, PaidStep DEF MarkPaid
  <2>2. \A q \in Confirmers : serving'[q].pc = "settle" => serving'[q] = serving[q]
    BY <1>1, <2>1 DEF NoService
  <2>3. ASSUME NEW d \in Codes, NEW x \in Counted(d)' PROVE x \in Counted(d)
    <3>1. /\ x \in Orders /\ order[x] # None /\ order[x].code = d
          /\ order[x].status = "paid" \/ x = o \/ Settling(x)'
      BY <2>1, <2>3 DEF Counted
    <3>2. Settling(x)' => Settling(x)
      BY <2>2 DEF Settling
    <3>3. x = o => Settling(x)
      BY <2>1 DEF Settling
    <3> QED
      BY <3>1, <3>2, <3>3 DEF Counted
  <2> QED
    BY <2>1, <2>3, NothingCounted DEF UseInv
<1>5. ASSUME order' = order, uses' = uses, \A q \in Confirmers \ {s} : serving'[q] = serving[q],
             serving'[s].pc = "settle" => order[serving'[s].order].code = None
      PROVE  UseInv'
  <2>1. ASSUME NEW d \in Codes, NEW x \in Counted(d)' PROVE x \in Counted(d)
    <3>1. x \in Orders /\ order[x] # None /\ order[x].code = d /\ (order[x].status = "paid" \/ Settling(x)')
      BY <1>5, <2>1 DEF Counted
    <3>2. Settling(x)' => Settling(x)
      BY <1>1, <1>5, <3>1 DEF Settling
    <3> QED
      BY <3>1, <3>2 DEF Counted
  <2> QED
    BY <1>5, <2>1, NothingCounted DEF UseInv
<1>6. ASSUME NEW o \in Orders, Activate(s, o) PROVE UseInv'
  <2>1. /\ order' = order /\ uses' = uses
        /\ serving' = [serving EXCEPT ![s] =
               [pc |-> IF order[o].code = None THEN "settle" ELSE "count",
                order |-> o, code |-> order[o].code, read |-> 0]]
    BY <1>6 DEF Activate, shopVars
  <2>2. /\ \A q \in Confirmers \ {s} : serving'[q] = serving[q]
        /\ serving'[s].pc = "settle" => order[serving'[s].order].code = None
    BY <1>1, <2>1
  <2> QED
    BY <1>5, <2>1, <2>2
<1>7. CASE ReadUses(s)
  <2>1. /\ order' = order /\ uses' = uses /\ \A q \in Confirmers \ {s} : serving'[q] = serving[q]
        /\ serving[s].code # Deleted => serving'[s].pc = "write"
        /\ serving'[s].order = serving[s].order /\ serving[s].pc = "count"
    BY <1>1, <1>7 DEF ReadUses, shopVars, Services
  <2>2. serving[s].code = Deleted => order[serving[s].order].code = None
    BY <1>2, <2>1, CodeAssumption DEF ServiceOK
  <2> QED
    BY <1>5, <2>1, <2>2
<1>8. CASE CutShort(s)
  <2>1. /\ order' = order /\ uses' = uses /\ serving' = [serving EXCEPT ![s] = NoService]
    BY <1>8 DEF CutShort, shopVars
  <2>2. /\ \A q \in Confirmers \ {s} : serving'[q] = serving[q]
        /\ serving'[s].pc # "settle"
    BY <1>1, <2>1 DEF NoService
  <2> QED
    BY <1>5, <2>1, <2>2
<1> QED
  BY <1>3, <1>4, <1>6, <1>7, <1>8

\* What was counted for a code goes with it.
LEMMA AdminUses ==
  ASSUME CoreInv, CoreInv', ServeInv, UseInv, NEW a \in Admins, SalesAdmin(a)
  PROVE  UseInv'
<1> DEFINE gone == {c \in Existing : discount'[c] = None}
<1>1. /\ order' = [o \in Orders |-> IF order[o] # None /\ order[o].code \in gone
                                    THEN [order[o] EXCEPT !.code = None] ELSE order[o]]
      /\ serving' = [s \in Confirmers |-> IF serving[s].code \in gone
                                          THEN [serving[s] EXCEPT !.code = Deleted] ELSE serving[s]]
      /\ uses' = [c \in Codes |-> IF c \in gone THEN 0 ELSE uses[c]]
  BY DEF SalesAdmin, ForgetCode
<1>2. /\ \A c \in gone : discount'[c] = None
      /\ order \in [Orders -> OrderTypes \cup {None}] /\ None \notin Codes
      /\ serving \in [Confirmers -> Services]
  BY CoreFacts DEF ServeInv
<1> HIDE DEF gone
<1>3. ASSUME NEW s \in Confirmers PROVE serving'[s].pc = serving[s].pc /\ serving'[s].order = serving[s].order
  BY <1>1, <1>2 DEF Services
<1>4. ASSUME NEW c \in Codes PROVE Cardinality(Counted(c)') <= uses'[c]
  <2>1. CASE c \in gone
    <3>1. Counted(c)' = {}
      BY <1>2, <2>1 DEF Counted, CoreInv, LinkInv
    <3> QED
      BY <1>1, <2>1, <3>1, FS_EmptySet
  <2>2. CASE c \notin gone
    <3>1. ASSUME NEW o \in Counted(c)' PROVE o \in Counted(c)
      <4>1. o \in Orders /\ order'[o] # None /\ order'[o].code = c /\ (order'[o].status = "paid" \/ Settling(o)')
        BY <3>1 DEF Counted
      <4>2. order'[o] = order[o]
        <5>1. CASE order[o] # None /\ order[o].code \in gone
          <6>1. order'[o] = [order[o] EXCEPT !.code = None] /\ order[o] \in OrderTypes
            BY <1>1, <1>2, <4>1, <5>1
          <6>2. order'[o].code = None
            BY <6>1 DEF OrderTypes
          <6> QED
            BY <1>2, <4>1, <6>2
        <5>2. CASE ~(order[o] # None /\ order[o].code \in gone)
          BY <1>1, <4>1, <5>2
        <5> QED
          BY <5>1, <5>2
      <4>3. Settling(o)' => Settling(o)
        BY <1>3 DEF Settling
      <4> QED
        BY <4>1, <4>2, <4>3 DEF Counted
    <3>2. Counted(c)' \subseteq Counted(c) /\ uses'[c] = uses[c]
      BY <1>1, <2>2, <3>1
    <3> QED
      BY <3>2, NothingCounted
  <2> QED
    BY <2>1, <2>2
<1> QED
  BY <1>4 DEF UseInv

LEMMA UseInitial == Init => UseInv
<1> SUFFICES ASSUME Init, NEW c \in Codes PROVE Cardinality(Counted(c)) <= uses[c]
  BY DEF UseInv
<1>1. \A o \in Orders : order[o] = None
  BY DEF Init
<1>2. Counted(c) = {}
  BY <1>1 DEF Counted
<1>3. uses[c] \in Nat
  BY CoreInitial DEF ServeInv
<1> QED
  BY <1>2, <1>3, FS_EmptySet

LEMMA UseStepAll ==
  ASSUME CoreInv, CoreInv', ServeInv, ServeInv', UseInv, [Next]_vars
  PROVE  UseInv'
<1>1. CASE Shopping /\ UNCHANGED activationVars
  <2>1. serving' = serving /\ uses' = uses
    BY <1>1 DEF activationVars
  <2>2. ASSUME NEW o \in Orders, order'[o] # None
        PROVE  order[o] # None => order'[o] = order[o]
    BY <1>1, ShoppingServes
  <2>3. ASSUME NEW o \in Orders, order'[o] # None, order[o] = None PROVE order'[o].status = "pending"
    <3>1. PICK h \in Taps, q \in Orders : InsertOrder(h, q)
      BY <1>1, <2>3, Insertions
    <3> QED
      BY <2>3, <3>1, InsertStep
  <2> QED
    BY <2>1, <2>2, <2>3, NobodySettles
<1>2. ASSUME NEW s \in Confirmers, NEW o \in Orders, Activate(s, o) PROVE UseInv'
  BY <1>2, ProcessUses
<1>3. ASSUME NEW s \in Confirmers, ReadUses(s) \/ WriteUse(s) \/ MarkPaid(s) \/ CutShort(s) PROVE UseInv'
  BY <1>3, ProcessUses
<1>4. ASSUME NEW a \in Admins, SalesAdmin(a) PROVE UseInv'
  BY <1>4, AdminUses
<1>5. CASE UNCHANGED <<order, serving, uses>>
  BY <1>5, NobodySettles
<1>6. CASE ((\E on \in BOOLEAN : SetSales(on)) \/ Transfer) /\ UNCHANGED activationVars
  BY <1>5, <1>6 DEF SetSales, Transfer, activationVars
<1>7. ASSUME NEW a \in Admins, FullAdmin(a), UNCHANGED activationVars PROVE UseInv'
  BY <1>5, <1>7 DEF FullAdmin, shopVars, activationVars
<1>8. CASE UNCHANGED vars
  BY <1>5, <1>8 DEF vars, shopVars, activationVars
<1> QED
  BY <1>1, <1>2, <1>3, <1>4, <1>6, <1>7, <1>8, NextCases

\* Only the quote of its price takes a tap to its insert.
LEMMA Quoting ==
  ASSUME CoreInv, CoreInv', ServeInv, [Next]_vars, NEW h \in Taps, tap[h].pc = "quote", tap'[h].pc = "insert"
  PROVE  QuoteAmount(h)
<1>1. CASE tap' = tap
  BY <1>1
<1>2. ASSUME NEW a \in Admins, SalesAdmin(a) PROVE tap'[h].pc = tap[h].pc
  <2>1. GoodsInv' /\ ForgetCode
    BY <1>2 DEF SalesAdmin, CoreInv
  <2> QED
    BY <2>1, ForgetStep
<1>3. ASSUME NEW s \in Confirmers, MarkPaid(s) PROVE tap' = tap
  BY <1>3 DEF MarkPaid
<1>4. ASSUME Browse \/ \E p \in Plans : Summary(p) PROVE tap' = tap
  BY <1>4 DEF Browse, Summary
<1>5. ASSUME NEW g \in Taps, NEW purpose \in {"purchase", "renew"}, NEW p \in Plans, Confirm(g, purpose, p)
      PROVE  QuoteAmount(h)
  BY <1>5, ConfirmStep DEF TapStep
<1>6. ASSUME NEW g \in Taps, NEW o \in Orders, InsertOrder(g, o) PROVE QuoteAmount(h)
  BY <1>6, InsertStep DEF TapStep
<1>7. ASSUME NEW g \in Taps, PassGate(g) \/ FindAccount(g) PROVE QuoteAmount(h)
  BY <1>7, GateStep DEF TapStep
<1>8. ASSUME NEW g \in Taps, Ends(g) PROVE QuoteAmount(h)
  BY <1>8, EndsStep DEF TapStep
<1>9. ASSUME NEW g \in Taps, LoadPlan(g) PROVE QuoteAmount(h)
  BY <1>9, LoadStep DEF TapStep
<1>10. ASSUME NEW g \in Taps, QuoteAmount(g) PROVE QuoteAmount(h)
  BY <1>10, QuoteStep DEF TapStep
<1>11. CASE Shopping
  BY <1>1, <1>4, <1>5, <1>6, <1>7, <1>8, <1>9, <1>10, <1>11
     DEF Shopping, Customer, Paused, NotOwned, InsertFails, Invoice
<1> QED
  BY <1>1, <1>2, <1>3, <1>11, Writers DEF vars, shopVars

\* A code is quoted only while fewer orders than its limit are paid with it,
\* and uses that overlapping activations overwrote: an activation counts its
\* use before its order is paid, and no step of it forgets one.
THEOREM LimitIsKeptAlways == Spec => LimitIsKept
<1>1. ASSUME CoreInv, ServeInv, UseInv, NEW h \in Taps, NEW c \in Codes, QuoteAmount(h), tap'[h].code = c,
             discount[c].limit # None
      PROVE  Cardinality(PaidWith(c)) < discount[c].limit + Overwritten(c)
  <2>1. c \in BestAutoDiscount(tap[h].plan) /\ None \notin Codes
    BY <1>1, QuoteStep, CoreFacts
  <2>2. discount[c] \in Rows /\ discount[c].used < discount[c].limit
    BY <1>1, <2>1, CoreFacts DEF BestAutoDiscount, Usable, WithinLimit, Existing
  <2>3. discount[c].limit \in Nat /\ discount[c].used \in Nat /\ uses[c] \in Nat
    BY <1>1, <2>2 DEF Rows, ServeInv
  <2>4. /\ PaidWith(c) \subseteq Counted(c) /\ IsFiniteSet(Counted(c))
        /\ Cardinality(Counted(c)) \in Nat /\ Cardinality(Counted(c)) <= uses[c]
    BY <1>1, FiniteCounted DEF PaidWith, Counted, UseInv
  <2>5. Cardinality(PaidWith(c)) \in Nat /\ Cardinality(PaidWith(c)) <= Cardinality(Counted(c))
    BY <2>4, FS_Subset, FS_CardinalityType
  <2> QED
    BY <2>2, <2>3, <2>4, <2>5 DEF Overwritten
<1>2. ASSUME CoreInv, CoreInv', ServeInv, UseInv, [Next]_vars
      PROVE  [\A h \in Taps, c \in Codes :
                tap[h].pc = "quote" /\ tap'[h].pc = "insert" /\ tap'[h].code = c /\ discount[c].limit # None
                  => Cardinality(PaidWith(c)) < discount[c].limit + Overwritten(c)]_vars
  BY <1>1, <1>2, Quoting
<1>3. CoreInv /\ ServeInv /\ UseInv /\ [Next]_vars => CoreInv' /\ ServeInv' /\ UseInv'
  BY CoreStep, UseStepAll
<1> QED
  BY <1>2, <1>3, CoreInitial, UseInitial, PTL DEF Spec, LimitIsKept

-----------------------------------------------------------------------------
(* What an order asks for *)

\* Orders are inserted by taps, and what they ask for is never changed.
LEMMA OrdersStand ==
  ASSUME CoreInv, CoreInv', ServeInv, [Next]_vars, NEW o \in Orders
  PROVE  /\ order[o] # None =>
              /\ order'[o] # None /\ order'[o].plan = order[o].plan
              /\ order'[o].original = order[o].original /\ order'[o].amount = order[o].amount
         /\ order[o] = None /\ order'[o] # None =>
              \E h \in Taps : /\ tap[h].pc = "insert" /\ order'[o].original = tap[h].price
                              /\ order'[o].amount = tap[h].amount
<1>0. order \in [Orders -> OrderTypes \cup {None}]
  BY CoreFacts
<1>1. CASE UNCHANGED order
  BY <1>1
<1>2. ASSUME NEW h \in Taps, NEW q \in Orders, InsertOrder(h, q)
      PROVE  /\ order[o] # None => order'[o] = order[o]
             /\ order[o] = None /\ order'[o] # None =>
                  /\ tap[h].pc = "insert" /\ order'[o].original = tap[h].price
                  /\ order'[o].amount = tap[h].amount
  BY <1>2, InsertStep
<1>3. ASSUME NEW s \in Confirmers, MarkPaid(s)
      PROVE  /\ order[o] # None =>
                  /\ order'[o] # None /\ order'[o].plan = order[o].plan
                  /\ order'[o].original = order[o].original /\ order'[o].amount = order[o].amount
             /\ order[o] = None => order'[o] = None
  BY <1>3, PaidStep
<1>4. ASSUME NEW a \in Admins, SalesAdmin(a)
      PROVE  /\ order[o] # None =>
                  /\ order'[o] # None /\ order'[o].plan = order[o].plan
                  /\ order'[o].original = order[o].original /\ order'[o].amount = order[o].amount
             /\ order'[o] # None => order[o] # None
  <2>1. GoodsInv' /\ ForgetCode
    BY <1>4 DEF SalesAdmin, CoreInv
  <2> QED
    BY <2>1, ForgetStep
<1>5. \/ UNCHANGED order
      \/ \E h \in Taps, q \in Orders : InsertOrder(h, q)
      \/ \E s \in Confirmers : MarkPaid(s)
      \/ \E a \in Admins : SalesAdmin(a)
  BY Writers, Insertions DEF vars, shopVars
<1> QED
  BY <1>1, <1>2, <1>3, <1>4, <1>5

\* Once an order is inserted, and its invoice asked for, nothing an admin does
\* to plans and codes changes what it is for and what it asks for.
OrderStands ==
    [][\A o \in Orders :
         order[o] # None =>
           /\ order'[o] # None /\ order'[o].plan = order[o].plan
           /\ order'[o].original = order[o].original /\ order'[o].amount = order[o].amount]_vars

THEOREM OrderStandsAlways == Spec => OrderStands
<1>1. ASSUME CoreInv, CoreInv', ServeInv, [Next]_vars
      PROVE  [\A o \in Orders :
                order[o] # None =>
                  /\ order'[o] # None /\ order'[o].plan = order[o].plan
                  /\ order'[o].original = order[o].original /\ order'[o].amount = order[o].amount]_vars
  BY <1>1, OrdersStand
<1> QED
  BY <1>1, CoreInitial, CoreStep, PTL DEF Spec, OrderStands

\* No order asks for more than the price that its confirming tap loaded:
\* whatever admins do to the plan and the codes from then on, and however
\* discount_price rounds.
NeverOvercharged ==
    \A o \in Orders :
      order[o] # None => order[o].amount \in 0..order[o].original /\ order[o].original \in Nat

\* A tap that is about to order asks for no more than its price.
LEMMA ChargeBelowPrice ==
  ASSUME CoreInv, SeenInv, NEW h \in Taps, tap[h].pc = "insert"
  PROVE  tap[h].price \in Nat /\ tap[h].amount \in 0..tap[h].price
<1>1. tap[h].price \in Nat
  BY CoreFacts DEF TapTypes
<1>2. PICK offer \in seen[h].offers : tap[h].amount = Charge(tap[h].price, offer)
  BY DEF SeenInv, SeenOK
<1>3. offer.percent \in 0..Whole
  BY DEF SeenInv, SeenOK, Seen
<1>4. DiscountPrice(tap[h].price, offer.percent) \in 0..tap[h].price
  BY <1>1, <1>3, DiscountIsExact
<1> QED
  BY <1>1, <1>2, <1>4 DEF Charge

THEOREM NeverOverchargedAlways == Spec => []NeverOvercharged
<1>1. Init => NeverOvercharged
  BY DEF Init, NeverOvercharged
<1>2. ASSUME CoreInv, CoreInv', ServeInv, SeenInv, NeverOvercharged, [Next]_vars PROVE NeverOvercharged'
  <2> SUFFICES ASSUME NEW o \in Orders, order'[o] # None
               PROVE  order'[o].amount \in 0..order'[o].original /\ order'[o].original \in Nat
    BY DEF NeverOvercharged
  <2>1. CASE order[o] # None
    BY <1>2, <2>1, OrdersStand DEF NeverOvercharged
  <2>2. CASE order[o] = None
    <3>1. PICK h \in Taps : /\ tap[h].pc = "insert" /\ order'[o].original = tap[h].price
                            /\ order'[o].amount = tap[h].amount
      BY <1>2, <2>2, OrdersStand
    <3> QED
      BY <1>2, <3>1, ChargeBelowPrice
  <2> QED
    BY <2>1, <2>2
<1> QED
  BY <1>1, <1>2, CoreInitial, CoreStep, SeenInitial, SeenStep, PTL DEF Spec
=============================================================================
