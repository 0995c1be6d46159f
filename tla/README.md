# A verification of Homeland-Bot

Homeland-Bot is a Telegram bot that sells VPN accounts: customers pay through
the Plisio crypto gateway, accounts live in an external IBSng server, and the
bot keeps its own record of them in PostgreSQL. This directory holds TLA+
models of the parts where something can go wrong between two actors, the TLC
runs that check them, and TLAPS proofs of all the safety properties that
hold.

Paths below are relative to `src/app/` unless they start with `src/`.

## The system

Everything runs in one asyncio process (`main.py`): aiogram's polling (a task
per update), an aiohttp server for Plisio's callbacks, and background loops for
reminders, reconciliation, health, accounting and backups. A handler may be
interrupted at every `await` - each database statement, each call to IBSng,
Plisio or Telegram - and meets the others only in PostgreSQL's rows and locks.
A restart ends all of them at once; updates waiting at Telegram are dropped.

| Component | State | Operations | Hard parts |
| --- | --- | --- | --- |
| Payment pipeline (`webhook.py`, `services/payments/`) | `payments` rows and their row locks, Plisio's invoices | checkout, callback, reconciliation pass, activation | callbacks late, repeated, reordered, lost; two activations of one order; commits that give the lock up midway; restarts between them |
| Ownership and password reset (`services/ownership.py`, `reset_vpn_password`) | owner and cooldown of an account, `ownership_transfers` rows, two kinds of row locks | offer, accept, decline, cancel, unreachable, reset | two lock orders, stale buttons, an offer whose sending failed, a reset across a transfer |
| Expiry reminders (`services/reminders.py`) | `expiry_reminder_sent_at` of every account, window and switch | a pass; cleared by a renewal | no locks between pass and renewal; sends before commits |
| Trial and handover (`bot/handlers/trial.py`, `services/handover.py`) | accounts in IBSng and their rows; which buttons a message shows | creation attempts, pickers, claim, credentials, setup | taps racing on one message; partial creation; failed sends |
| Catalogue and discount codes (`services/catalog.py`, `discounts.py`, their admin screens) | prices and the list of plans; codes with limit, scope and `used_count`; admins' conversations | quote, validate, count, the wizard, edits | a limit checked at the quote and counted at payment; conversations that hold old values |
| Checkout and sales gate (`bot/handlers/buy.py`, `renew.py`, `bot/sales_gate.py`) | sales switch, summaries in the chat, orders | browse, confirm, invoice | old buttons; checks that are stale when the order is made |
| Middlewares, bot users, admins (`bot/middlewares/`, `services/bot_users.py`, `admin_users.py`, `user_admin.py`) | `bot_users`, `admin_users`, conversations, pooled connections | the chain of every update; add, remove, block | first contact, the last full admin, connections held across awaits, conversation state read before the checks |
| Broadcast and campaign (`services/broadcast.py`, `bot/handlers/campaign.py`) | one conversation, prompts in the chat, running broadcasts | content, button, preview, send | double confirmation, old prompts, restart midway |
| Log group and health (`services/adminlog.py`, `logtopics.py`, `health.py`) | topic ids in PostgreSQL, health state in Redis | post, create topics, the hourly pass, `/logtopics` | duplicate topics; alerts lost between store and post; the watched components are the ones the watching needs |
| Setup material (`services/tutorials.py`, `tutorial_delivery.py`, `bot/handlers/tutorial_admin.py`) | guides, profiles, links; an admin's conversation; customers' buttons | upload, offer, send | ids without a type, targets from the conversation, content that is empty |
| Reporting, wiring, texts | - | - | none of their own |

What makes each correct, in a sentence: an order is served once, only for money
that arrived, and always if it did; what is charged was on offer, to somebody
it could be sold to; an account changes hands only by the consent of both
sides; a customer is reminded once in every cycle; a trial is given once, and a
picker, each time it is shown, runs once; somebody can always run the panel,
and nobody else does; a prompt starts one broadcast, of what it showed; the log
group learns the state of every component; material is kept where the admin
said and is there when it was offered.

How they interact: checkout creates a payment row and a Plisio invoice;
a callback or a reconciliation pass activates it, which creates or renews an
account through IBSng, counts the discount and starts the handover; a renewal
clears the reminder stamp; a transfer moves the account and clears the
cooldown. `PROJECT.json` lists every component and every hazard with its line.

## The modules

| Module | What it is |
| --- | --- |
| `Payments` | the payment pipeline |
| `OrderLifecycle` | what it promises about an order: the abstract specification `Payments` implements |
| `Ownership` | transfers and password resets of one account |
| `Custody` | what a transfer promises: the abstract specification `Ownership` implements |
| `Reminders` | the reminder pass beside renewals and the admin's settings |
| `Handover` | the free trial with its limit, the pickers and the handover sequence |
| `Catalog` | plans, and the screens on which they are priced and switched |
| `Discounts` | discount codes and their wizard; extends `Catalog` |
| `Storefront` | buying and renewing beside both; extends `Discounts` |
| `Updates` | an update's way through the middlewares and the connection pool |
| `Panel` | admins, blocks, settlement and channel settings; extends `Updates` |
| `Outreach` | announcements and campaigns |
| `Operations` | the log group, its topics and the health pass |
| `Guides` | setup material: uploads and the Tutorials section |
| `PaymentsProofs`, `OwnershipProofs`, `RemindersProofs`, `HandoverProofs`, `StorefrontProofs`, `PanelProofs`, `OutreachProofs`, `OperationsProofs` | the theorems about the module of that name, and about those it extends; `HandoverProofs` is also about `Guides` |
| `MC*` | the modules TLC runs on: initial rows, bounds and symmetry sets |

The systems meet in what they share: `Storefront` ends with the invoice that is
`Payments`' first state, and pays its open orders at any moment instead;
`Payments` ends with the credentials that open `Handover`'s sequence for an
order; the renewals of `Reminders` are the activations of `Payments`, reduced
to the statements the pass can see.

Operators whose comment begins with "A mutant:" are wrong variants of the
definition that follows them. They belong to no specification; they are there
to confirm that each property is sensitive to the code it is about.

### Payments

An order is a row of `payments`. Orders are the only thing processes share, so
the state is the row (`status`, `txn`, `linked`, whether it is older than 72
hours, and `holder` of its row lock), what an activation produces (`account` in
IBSng, `row` in `vpn_users`, `renewals`, the shared discount's `used`), Plisio
(`invoice`, and `sent`, the set of callbacks ever sent, any of which may arrive
at any time and any number of times), and what the buyer was told.

Callback handlers and sweeps are processes with a `pc`. One action is what the
code does between two points where another process can get in: a statement that
waits for a lock, an external call, or a commit. The commit at the end of
`create_vpn_user`, `renew_and_change_group` and `increment_discount_usage`
releases the lock that the handler took: `Release` in `InsertRow`, `UpdateRow`
and `WriteUsage`. From there to `MarkPaid` the order still reads open and
nothing protects it; most of the properties are about that window.

Abstractions: an invoice that expired with money in it is the status
`underpaid`. Creating an invoice and recording its id is one step, because the
buyer gets the link only after the commit. The status `refunded` is accepted by
the code and produced by nothing. The audit table of statuses is left out, and
so are amounts. Usernames are generated and do not collide, except with the
order's own account. Assumed of Plisio: an invoice that was cancelled or that
expired empty does not complete later.

`FairSpec`: a handler that was started keeps running (asyncio) and PostgreSQL
queues the waiters of a row, hence strong fairness of `Activate`; the
reconciliation loop never stops (`run_reconcile_loop` catches everything), and
the outages of IBSng and of Plisio's API that its passes meet end (finitely
many calls fail). The database is taken to be up; a commit that fails in the
middle of an activation would do what a restart there does. Nothing is assumed about the buyer or
the arrival of callbacks.

### Ownership

One account: `owner`, `cooling` (changed within 30 days), its lock; its offers
with status, parties, age and lock; and handlers, one per tap. A tap carries a
string anyone may send, so any user may turn up with any button. `chosenBy` is a
history variable: for whom the password now in IBSng was chosen.

`create_transfer` locks the account (`LockAccount`), then waits for pending
offers (`PostOffer`); a settle locks the offer (`LockOffer`) and then waits for
the account. `Deadlocked` is the cycle, `DeadlockAbort` PostgreSQL's way out.
A reset holds the account from its check to its stamp, through the call to
IBSng. Fairness: handlers go on and locks are granted in turn.

### Reminders

`phase` is what IBSng says of an account's expiry, `cycle` counts its renewals,
`stamp` says that `expiry_reminder_sent_at` is set. A pass reads switch and
window, selects its candidates once and takes them one by one: lookup, send,
stamp. A renewal is IBSng's two calls and the write that clears the stamp -
which SQLAlchemy skips when the value it loaded was already empty: `loaded` is
what the session holds, from the start of the activation for a paid renewal,
from after the calls for an admin's. The admin switches reminders and types a
number of days, which is refused outside 1..365; days are abstracted into
phases, "near" being at least `Near` days from the end. Days do not pass within
the treatment of one account (`Quiet`), and renewals of one account do not
overlap here (in `Payments` they do). One admin, one tap at a time. Fairness:
the loop goes on, outages end; nothing is assumed about time, which is why the
liveness property allows an account to lapse, nor about renewals, which need
not end for a pass to go on. `lost` counts, for each account, the stamps that
did not follow a delivered reminder: Telegram's answer was lost, which the code
cannot tell from a refusal (`SendUnheard`), the commit failed (`StampFails`), or
the process went down (`Crash`).

### Handover

A message shows one set of buttons at a time (`keyboard`). A tap is taken from
what is shown and handled later, when the message may show something else.
`Arm` puts buttons on a message, `Disarm` is `edit_reply_markup(None)`, which
Telegram refuses for a message without buttons: that refusal is the only thing
that stops a second tap. The trial's creation keeps IBSng's two calls apart, as
an account without a name may remain between them. The limit of one trial can
be switched off and on (`enforced`); `waived` counts the creations that it let
through with reason to stop them: because it was off, or because another tap's
creation was not in the table yet. A paid order's opening is credentials, then
picker, once for each process that confirms it (`Confirmers`): two may for a
renewal, one for a purchase, as in `Payments`, which models what comes before.
One customer.

### Catalog, Discounts, Storefront

`Catalog` has a plan's price, in cents, and whether it is on sale; an admin's
conversation (`chat`) with what it remembers; and the write a handler has
decided on from an earlier read (`doing`). `Discounts` adds the codes - percent
in hundredths, as `Numeric(5, 2)` stores what was typed in thousandths, with
the rounding of `discount_price` - and the wizard step by step: name, percent,
limit, plans, public or private, for a new code or an edit. `Storefront` has
the customer: lists and summaries that stay in the chat with their buttons, and
the confirm tap in its steps: gate, owner, plan, quote, insert, invoice. An open
order may be activated at any time, by each of the `Confirmers`, in its commits:
the account (`Activate`), the use of its code (`ReadUses`, `WriteUse`: read and
written without a lock), the order as paid (`MarkPaid`); `serving` is where each
is, and it may be cut short between any two. The account's row (`provisioned`)
stops a second process for a purchase, and nothing does for a renewal. `uses` is
a history variable that counts every use that was written.
`seen` is a history variable: what was true of sales, owner, price and offers at
some moment since the tap began; it is what "at some moment of the tap" in the
properties means.

### Updates, Panel

An update is a task that goes through `user_tracking`, the block, the language,
the mandatory channels and the handler's permission, in this order. `held` is
the set of sessions with a connection; the block's and the channels'
middlewares keep theirs while everything behind them runs, and `PoolTimeout`
ends an update that finds the pool empty. The conversation's state that decides
which handler takes a text was read before the first of these (`Arrive`).
`Panel` has the handlers that change rows: adding and removing admins, blocking
by id and from a user's page, languages, channels, and the settlement address
with its two commits. `was` and `raced` are history variables.
Fairness: an update goes on; its calls have timeouts.

### Outreach

`chat` is the admin's conversation, `prompt` the messages with a Send button
and what they show, `run` the broadcasts. A Send tap reads the data, clears the
conversation, edits its message to "started", and starts the task; Telegram
refuses the second identical edit, which is what stops a second tap. A prompt
has two more buttons, Cancel and Back (`Buttons`): their handlers edit the same
message (`Replace`), and one that comes late puts its screen over "started", so
that a waiting tap's edit is granted once more. `cut` and `reused` are history
variables: a preview was interrupted or the data changed under a tap; the
prompts that were edited over like that.
A broadcast selects its recipients or dies there, and its summary reaches the
admin or does not (`unreported`). Fairness: a broadcast goes on; its query and
its sends return or fail.

### Operations

A job is whoever posts: the hourly pass, other posters, `/logtopics`. The pass
asks the components one after the other, and one may change between its check
and its entry; a check itself (the probes of `health.py`) is one step.
Each posting looks up its topic, creates and stores it the first time, and
sends. The database and Redis are among the components watched: with the
database down no topic is found, with Redis down no former state.
`told` is what the group was last told of a component, `filed` the topics in
which entries of a category are, `slipped` and `raced` the excuses of the
properties. Fairness: the hourly pass goes on, and a day ends.

### Guides

`chat` is the admin's conversation, `screen` the bot's messages with what was
tapped on the way to them, `store` what is kept for a target, protocol and
device, `offered` the buttons in customers' chats. A handler writes the
conversation in one step (`set_state`, `update_data` and `clear` are taken
together) and edits its message in another, which may fail. A tap with an id is
taken by the picker of the conversation's state, whatever keyboard it is on. An
id of nothing that exists ends in an error when the content is saved, except a
link's device, whose link is then the generic one.
`mixed` is a history variable: taps overlapped, an old menu was used, or a step
was not carried out.

## The runs

| Run | Instance | What it shows |
| --- | --- | --- |
| `payments_purchase` | 1 discounted purchase, 2 callbacks, 2 sweeps, 2 invoices, all faults, 1 restart | `PaidIsServed`, `ServedIsPaidFor`, `FailedIsUnpaid`, `PurchaseServedOnce`, `ClosedStays`; the pipeline implements `OrderLifecycle` |
| `payments_recovery` | a purchase and a renewal, 1 callback, 1 sweep that works through both, all faults, 1 restart | every order whose invoice Plisio completed is eventually paid, stranded or too old |
| `payments_restart` | 1 purchase, 1 callback, 1 sweep, 1 restart | ends in a violation: see below |
| `ownership` | 2 users, 2 offers, 2 taps of any kind, unreachable recipients, IBSng failing, restarts | one standing offer; settled offers stay; implements `Custody`; a reset's checks hold to its end; cooldowns do not follow an account; no tap waits for ever |
| `reminders_pass` | 2 accounts, one of them renewed up to twice, by a paid or an admin's renewal, IBSng, Telegram and database faults, 1 stamp lost after a delivery, 2 taps on the settings | one reminder a cycle, and one more for a lost stamp; no candidate is lost |
| `handover_trial` | 1 screen, 1 old message, 3 accounts, 2 taps, all faults, restarts, the limit switched twice | one trial, and one more for each creation the limit could not stop; what is handed over works |
| `handover_taps` | a renewal that two processes confirm, both devices, 3 taps, failed sends, restarts | racing taps share a sequence; credentials come before picker and setup |
| `storefront` | 3 plans, 2 codes, 3 orders, 1 tap, 1 admin, 2 processes that activate | nothing for free but by a discount, orders only by taps that found sales open, the charge is an offer of that moment, a used-up code is quoted to nobody |
| `access` | 2 full admins and a new user, 2 updates, 3 connections, 1 restart | nobody acts without the right to; a full admin stays; users are announced once; the settlement pair matches; every update ends |
| `outreach` | 2 users, 3 prompts, 2 broadcasts, up to 3 handlers, 1 restart | a prompt sends once; what is sent was previewed; broadcasts whose query succeeds come to a full count |
| `operations` | 2 components, 3 topics, 2 other posters, `/logtopics`, 1 restart | an alert is news; the group learns every state; a category has one topic |
| `guides` | 2 protocols, 3 devices, 2 handlers, 2 menus | uploads are kept where they were meant; what was offered is there |

`payments_restart` checks one sentence in the repository that the code does not
keep (`findings` in `PROJECT.json` quotes it): the reconciler finishes what
Plisio completed. It does not after a restart between the commit of the account
and the commit of paid, because every later attempt meets the account and ends
as blocked.

### Why the bounds are enough

Two processes per kind let any two callbacks, any two sweeps or one of each meet
on one order; a third would meet an order that one of the two has already served
and find what the second found. The safety properties of `Payments` are proved
for any number. Two invoices are one coin switch. One restart separates every
pair of steps once. In `Ownership`, two offers are an offer and one that
supersedes it, and two handlers are every pair of operations. In `Handover`,
three taps are needed for one tap to put buttons back between two others; the
trial is checked with the two whose creations can race, on Android, whose one
protocol and old messages reach every step of the sequence. A trial's pickers
take the same steps as the renewal's; with them both in one run there are too
many states, and the theorems cover them.
`AccountsLeft` and `RowsLeft` stop taps that would need another row; `Cap`,
`MaxCycles`, `MaxCrashes`, `MaxLosses`, `MaxTaps` and `MaxSwitches` bound counters. In
`Reminders`, two accounts are one that is renewed during the pass and one that
is a candidate beside it (`Renewable`). Counters that saturate (`reminded`, `armed`, `ran`, `credentials`,
`waived`) are compared below their bound or saturate together. `Near` and
`Days` are one window that reaches the phase "near", and one that is refused.

The later modules bound a behaviour by a budget for each kind of input
(`Budgets`): how many taps, texts, switches, failures or restarts it may have.
A run has several budgets, each with much of one kind, so that a long sequence
of it and a mixture of all are both covered without their product:

- `storefront`: many changes of codes; many of codes beside two taps; many of
  plans; three orders with four activations by two processes; a few of
  everything. The rows start with a free code for two uses, a plan without a
  price and the trial; typed percentages round down to half a cent and up over 100.
- `access`: six updates to add an admin, two removals, blocks with customers,
  channels with customers, settlement changes with a restart. Three connections
  (`PoolSize`) for two updates of up to three sessions each make the pool run
  dry as 40 do for a crowd.
- `outreach`: seven taps one after the other are the longest way to a campaign's
  prompt, a tap on it and one more; five with three at once are two on Send and
  a Cancel that meet on one prompt; four with two at once are beside a blocked
  user and a restart (`atonce` is how many handlers may be in progress). Three
  prompts are two conversations and an old one.
- `operations`: three changes are a failure, a recovery and a failure (two,
  where a restart comes between); the two components are the ones that watching
  depends on - any other is like them without that. `MaxTopic` allows every category its topic and one twice.
- `guides`: six taps are two uploads in full, or one with every Back; the ids
  overlap as the migrations' do, and one device's id is no protocol's.

Deadlock is not checked, because every system here may stop: all orders closed,
all taps handled, no more accounts in the bound.

### Conditions under which a property holds

Payments:

- `CompletedIsSettled` leaves out two kinds of order. A purchase is `Stranded`
  when IBSng has its account and the activation that created it was cut short:
  by a restart (`payments_restart`) or because IBSng's answer was lost
  (`client.py:225`). Every later attempt is told that the name is taken and ends
  as BLOCKED; the money is in and the order stays open. And a pass looks no
  further back than 72 hours. A renewal is never stranded.
- It holds with one invoice an order. Give `payments_recovery` a second invoice
  and it fails: when the callbacks of a replacement invoice
  are all lost, the reconciler keeps asking Plisio about the abandoned one, as
  `provider_payment_id` changes only through a callback.
- `PurchaseServedOnce` and `KeepsLifecycle` do not say that decisions on an
  order are taken one after the other. `webhook.py:128-131` does, and it is not
  so: activation commits, and the lock is gone, before the order reads paid. A
  second process may get in, report the order to its buyer as blocked
  (`confirmation.py:36`: "permanently stuck"), and the first then marks it paid.
- A discount's use is counted once for a purchase, not for a renewal that two
  processes activate, though `services/discounts.py:144` says "Called once per
  finished payment that applied a discount".
- Nothing says that a paid order's credentials arrive. `services/handover.py`
  says they are sent "straight away (a paying customer must never depend on a
  later tap to learn them)", but only a block is caught (`delivery.py:97`), and
  the order is committed as paid before.

Ownership:

- `SettledStays` and `KeepsCustody` hold when an offer whose send failed did not
  arrive (fault `unreachable`, not `send_timeout`). After a lost answer of
  Telegram the recipient may accept, and `mark_unreachable` then overwrites the
  acceptance with cancelled, though `db/models/ownership_transfer.py:14` says
  that "every row is kept as the audit trail".

Reminders and handover:

- `OncePerCycle` allows one reminder more for every stamp lost after a delivery:
  when Telegram's answer to the reminder is lost, when the commit of the stamp
  fails, and when a restart comes between the two, the account is reminded again.
- An account that a pass stamps while a paid renewal of it is under way keeps
  the stamp and is not reminded in its next cycle, though
  `db/models/vpn_user.py:21-22` says that both stamps are cleared on renewal.
- `EachKeyboardRunsOnce` counts a picker that was put back as a new one. A
  slower tap on a device, or Back, edits a message back into a picker that
  another tap has already stripped, and the next tap sends everything again: so
  `bot/handlers/handover.py:102`, "one sequence per picker", holds for each
  showing of the buttons, not for the message. It assumes that Telegram refuses
  to strip a message only because it shows no buttons (no `edit_refused`).
- `OneTrial` allows one more trial for each creation that found the limit off,
  or another creation under way: two confirm taps that race get two trials, which
  the code's own docstring (`services/vpn_users.py:60-67`) accepts. What it rules
  out is every other way to a second one: a failed, interrupted or repeated
  attempt, or a tap on an old screen.
- `CredentialsComeFirst` does not say that credentials are sent once. Each
  process that confirms a renewal opens the handover (`confirmation.py:75-79`),
  so two of them send the credentials and a picker twice, and each picker runs.

Storefront:

- `ChargedAsOffered` is about the confirming tap. `payments/service.py:20-25`
  says "the quoted price and the charged price can never disagree"; they do when
  a price or a code changes between the summary and its confirmation.
- `SoldWhileAllowed` is about the order's creation. Activation does not look at
  the owner again, so a renewal paid after a transfer renews, and delivers to
  its buyer, an account that is somebody else's. Nor does a
  confirmation ask whether the plan is still active: an old button buys it
  (`buy.py:76-78`).
- `LimitIsKept`: open orders may exceed the limit together, since it is checked
  at the quote and counted at the activation. Two activations that overlap may
  read the same count, and one use is lost; the property allows one order more
  for each (`Overwritten`). A renewal that two processes activate is counted
  twice, and one that is cut short after the count and tried again, once for
  each try, so that a code can also be used up by fewer orders than its limit.
- A code's scope is compared with the list of plans by length: picking as many
  plans as there are, of which one was then taken off sale, makes the code apply
  to all. A typed percentage below 0.005 is stored as 0.00. A code deleted
  between quote and insert fails the order.

Access:

- `SomeoneIsFull` and `SettlementPair` except overlaps: two removals that meet
  can leave no full admin, though `admin_admins.py:32` says there must be one;
  two saves that meet, or one that a restart or an empty pool cut, leave an
  address with the other network.
- A removed admin's conversation keeps waiting for a text, and takes the next
  one (also `/start`) without effect. `NewUserOnce` does not say that a user is
  announced: the post is lost when the pool is empty.

Outreach:

- `OncePerPrompt` except when a Cancel or Back on the same prompt comes after one
  tap on Send and before the edit of another: it puts its own screen over
  "started", and the second tap's edit is no longer refused. Two taps on Send
  and one on Cancel, nearly at once, can send an announcement twice.
- `SentWasPreviewed` except when a preview was cut short (the conversation is
  ready to send before it is shown) or data changed under the tap: the Send
  button of an old prompt sends what the conversation holds now.
- `Summarised` except across restarts, which lose running broadcasts, and when
  the query for the recipients fails (`broadcast.py:65-66`): nothing catches
  that, the task ends, and the admin hears nothing. The summary itself is sent
  once, and a failure to send it is logged only (`broadcast.py:87-92`). A send
  whose answer was lost is counted as failed. A failure between the clearing of the conversation and the start of the task loses the
  broadcast. A campaign keyboard left in the chat leads an announcement's
  document into the campaign flow, where the preview fails.

Operations:

- `OneTopic` except for categories whose first two events raced.
- `GroupLearns` is "in the end", by the daily summary at the latest: an alert is
  stored as told before it is posted, and a lost one is not repeated. An outage
  of Redis announces failing components again in every pass and hides a
  recovery. With the database down its own alert cannot be posted, since
  `log_event` ("Never raises") looks its topic up outside its try. A topic
  deleted by hand loses every entry of its category, and `/logtopics`, which
  `services/logtopics.py:3-10` offers as the way to recreate it, calls it
  already set up.

Guides:

- `SavedWhereMeant` except when taps overlapped, an old menu was used, or a step
  was not carried out. A second tap on a protocol is taken for a device of the
  same id; a button of an old menu sets protocol and device of an upload whose
  target the newest menu chose. A profile is kept by device, whatever protocol
  was picked.
- `OfferedIsDelivered` except when a link was saved blank, which a photo sent in
  place of a link does: the button is then offered, and answers that there is
  nothing here, though `bot/keyboards/tutorials.py:41-43` says "each button
  appears ONLY when that content is actually configured, so tapping one can
  never answer \"nothing here\"".

## What is proved

Every theorem holds for every value of the constants - any number of orders,
users, offers, accounts, plans, codes, protocols, devices, updates, prompts,
components, taps and restarts - under the assumptions that the module declares. They say that `None`
is none of the values, that names of two kinds differ, that bounds are numbers;
where something is counted, that the set of those that count is finite
(`Handover`, `Storefront`, `Operations`, `Updates`); in `Operations`, that
components and categories are sequences and include those the code names. No
invariant or action property of a passing run is left to TLC alone.

Hardly any of the properties is inductive by itself. What was added to each is
what the code relies on without saying so, and is given here as the argument.

### Payments (`PaymentsProofs`)

`TypeCorrect`, with one addition, that a process doing something works on an
order; the safety invariants `PaidIsServedAlways`, `ServedIsPaidForAlways`,
`FailedIsUnpaidAlways`, `PurchaseServedOnceAlways`; the action property
`ClosedStaysAlways`; and `Refinement`, that `Payments` implements
`OrderLifecycle`. `Invariant` proves the inductive invariant, in layers:

1. Locks. `LockInv`: a process in the locked part of an activation is the
   holder of its order's row, and a holder is such a process.
2. Money. At most one invoice of an order can still be paid, the others are
   replaced (`InvoiceInv`); every callback ever sent says what its invoice
   was or still is (`SentInv`); what a process wants to do to an order,
   and what a sweep saw, is covered by an invoice (`SeenInv`). Hence an
   order to be closed as failed has no completed invoice and can get none.
3. Service. Where a process is in an activation determines what exists for the
   order (account before row, row before paid), and for a purchase only one
   process can be past the account's creation, because the row or the account
   makes every other attempt end as blocked. Renewals lack that last step,
   which is why a renewal's use of a discount can be counted twice.

The refinement then needs, for each action, the part of the invariant that
allows the abstract step: `MarkPaid` needs the service, `MarkUnpaid` the
absence of money, `InsertRow` and `UpdateRow` its presence.

Two more statements follow from the layers: `OneHoldsTheRow`, that no two
processes are in the locked part of an activation of one order (`LockInv`), and
`SentAfterPaidAlways`, that the buyer is sent something for an order only when
it is paid.

### Ownership (`OwnershipProofs`)

`StandingOfferAlways`, `CooldownIsOwnersAlways`, `ResetDecisionHoldsAlways`:
between its locking SELECT and its commit a handler holds the account's row, and
what the SELECT found is still so (`AccountInv`); an offer is posted by whoever
holds the row and has seen the others settled. `SettledStaysAlways` and
`Refinement` (of `Custody`) assume `FailedIsUnsent`, that no answer of Telegram
is lost (`send_timeout`): then nobody can have answered an offer that its poster
withdraws (`PostInv`). Without it both are false, as said above. What remains
without it is `MovesByConsentAlways`, an action property: the account moves only
when an offer of its present owner, pending and in time, is accepted for the
user it names; no offer stands afterwards, and no handler that holds the
account's row, in the middle of an offer or of a reset, is overtaken.

### Reminders (`RemindersProofs`)

`OncePerCycleAlways`. `StampInv`: reminders of the present cycle that no stamp
accounts for are accounted for by a lost stamp or by the one the pass has just
sent. `NewCycleInv`: while a renewal is between IBSng and the write that clears
the stamp, its cycle is new, nothing was sent in it, and the pass, if it is at
that account, is about an earlier one. From the same invariant
`ClearsAnOldStampAlways`: when a renewal clears the stamp, no reminder of the
cycle it began has been sent, so that clearing it repeats none.

### Handover (`HandoverProofs`)

- `HandedOverWorksAlways`: a row exists only for an account with a name in
  IBSng, and whatever a tap carries or a message refers to has a row
  (`CustomerInv`).
- `CredentialsComeFirstAlways`: a tap that carries or delivers a paid order, and
  a message that names one, come after its credentials (`FirstInv`).
- `OneTrialAlways`, for any number of taps at once. It assumes at most one
  account more than the counters go to (`Cap`). The rows, and the creations that
  have passed the check, are counted together against the creations that the
  limit could not stop (`TrialInv`).
- `EachKeyboardRunsOnceAlways` assumes that Telegram refuses no edit but with
  "not modified". `KeyboardInv` counts: what a message has sent, what taps that
  have stripped it are about to send, and the buttons it still shows, are
  together no more than the keyboards it was given.

### Guides (second half of `HandoverProofs`)

The assumption is that `Any` and `Unset` name no protocol and no device, and
`Unset` no kind of content. The proofs rest on different parts of `GuidesInv`:

- `OfferedIsDeliveredAlways` (`StoreInv`, `OfferInv`): a save puts down only what
  the check of the content lets through and takes nothing away, so the item that
  a button was offered for is there when the button is tapped, or is a blank
  link, which is the exception in the property.
- `KeptIsAcceptedAlways` (`StoreInv`): whatever is stored is of a kind that may
  be kept as what it is kept as, however many taps changed the target meanwhile.
- `SavedWhereMeantAlways`, an action property (`OrderlyInv`): unless taps have
  been mixed, one handler is at work at a time, it comes from the newest screen,
  and the conversation agrees with what was tapped on the way to that screen, or,
  between the write of the conversation and the next screen, to that one. A
  handler that saves therefore saves where the admin was asked for content.

### Catalog, Discounts, Storefront (`StorefrontProofs`)

`CoreInv`: columns keep their ranges; a plan on sale, or about to be put there
by an admin's half-done handler, has a price, and so has every plan a customer
was ever shown; a code that an order or a tap refers to exists, since deleting
it clears the link first. From it:

- `DiscountIsExact`: `discount_price` is within half a cent of the exact price
  and never above the undiscounted one; `BetterPercent`: the code with the
  larger percentage never costs more, so that the best code is the best price.
- `NothingForFreeAlways`.
- `SoldWhileAllowedAlways`, `ChargedAsOfferedAlways`: `SeenInv` says what the
  history of a tap holds by the time it has come so far.
- `LimitIsKeptAlways`, an action property: `ServeInv` says that an activation
  holds its order's code or knows that it is gone, and `UseInv` that at least as
  many uses were counted for a code as orders are paid with it or about to be.
  A quote finds the stored count below the limit, and what is missing from it
  was overwritten.
- `OrderStandsAlways`, an action property: an order comes only from a tap, and
  neither its price nor what it is for changes afterwards, whatever admins do to
  plans and codes. With `DiscountIsExact` it gives `NeverOverchargedAlways`: no
  order costs more than the price that its confirming tap loaded, which need not
  be the one on the summary before.

### Updates, Panel (`PanelProofs`)

`UpdateInv` says what an update in progress knows at each of its stages, and
`HeldInv` that sessions are of updates in progress and no more than the pool has.

- `NewUserOnceAlways` (`AnnounceInv`): the one update whose insert made the row
  is about to announce the user, or has.
- `ActsWithAuthorityAlways` (`AuthorityInv`): which of the checks has been
  passed, stage by stage.
- `SomeoneIsFullAlways` assumes a full admin, or one in the configuration, at
  first. `RemovalInv`: unless removals met, who is about to be removed leaves
  another one behind, because nothing else takes the level away.
- `SettlementPairAlways` (`SettlementInv`): unless saves met, the update about to
  store the network is the one that stored the address, and the conversation it
  takes the network from has not changed since its text was typed.

### Outreach (`OutreachProofs`)

- `SentWasPreviewedAlways` (`PreviewInv`): whatever conversation, tap or
  broadcast has got past the preview is among the pairs of content and button
  that prompts have shown, or that a handler is about to show.
- `OncePerPromptAlways` (`OnceInv`): the tap that Telegram let change the prompt
  and the broadcast it starts exclude each other while the prompt says
  "started". The attempt to prove this without exception failed on a Cancel
  that overtakes a Send, which is in the code; the model had left it out, and
  the bounds had been too small to meet it.
- `StartedSaysSoAlways`, from `OnceInv`: while a broadcast is about to start or
  runs, the prompt it came from says that it was started, unless a Cancel or
  Back already under way has written over it.

### Operations (`OperationsProofs`)

- `OneTopicAlways` (`TopicInv`): unless it is marked as raced, a category has one
  creator while it has no topic, none afterwards, and every entry on its way
  goes to the stored topic or, if there is none, to the general one.
- `ToldOnChangeAlways`, an action property. `HourlyInv` says what the pass is
  about to post; `NewsInv` relates, for every component about which nothing was
  lost, what the pass has found, what Redis knows and what the group was told:
  Redis knows what the pass has found so far, and the group what Redis knows,
  but for an alert on its way and a healthy component never heard of.
- `AlertedBeforeSummaryAlways` (`NewsInv`): when the daily summary is posted, the
  group has been told of every failure in it, and no alarm that is over still
  stands, but for components about which something was lost.

## What is model-checked only

- Liveness (`CompletedIsSettled`, `TapsAreAnswered`, `CandidateIsReminded`,
  `Answered`, `Summarised`, `GroupLearns`): TLAPS has no rules for fairness and
  ENABLED.

No module uses a recursive definition. `Reminders`, `Handover` and the proofs'
modules state their types; `Outreach` and `Operations` have theirs (`TypeInv`),
and `Guides` its (`MenuTypes`), where they are proved.

## What is not modelled

Texts, keyboards' layout, wiring and configuration; SQL aggregation for reports
and the financial screens; the signature check and the HTTP and XML-RPC of the
clients; what probes measure; the backup, whose only decision - the exit status
of `pg_dump | gzip`, which is gzip's, so that a failed dump reports success - is
the shell's. The text shown while sales are paused, the search before an admin's
renewal, the screen of accepted coins, groups (written only by migrations), and
the resend of setup material in My Services, which reads and sends. Composition
of whole systems is by what they share, as described above, not by a module
that runs them together.

## Plan

The set of runs is kept to a dozen, each a question of its own.

Done, in this order: `Payments` with `OrderLifecycle` and its proofs;
`Ownership` with `Custody`; `Reminders`; `Handover`; `Catalog`, `Discounts` and
`Storefront`; `Updates` and `Panel`; `Outreach`; `Operations`; `Guides`.

Proofs, in the order they were made: `Payments`, `Ownership`, `Reminders`,
`Handover`, `Updates` and `Panel`, `Catalog`, `Discounts` and `Storefront`,
`Outreach`, `Operations`, `Guides`.

What is left are statements that the invariants already contain, and that no
run checks: that no session outlives its update (`HeldInv`), that a row of
`Handover` is never taken back (`Grows`).
