------------------------------ MODULE Handover ------------------------------
(***************************************************************************)
(* How a customer receives an account: the free trial's creation           *)
(* (trial_confirm_cb, create_vpn_user) and the shared handover sequence    *)
(* (app/services/handover.py and its ho: callbacks).                       *)
(*                                                                         *)
(* Everything happens in messages with buttons that handlers edit in       *)
(* place.  Each tap is a handler of its own; two taps on one message run   *)
(* at the same time, and only Telegram decides who strips its keyboard.    *)
(***************************************************************************)
EXTENDS Naturals, FiniteSets

CONSTANTS
    Accounts,     \* trial accounts that may come to exist in IBSng
    Orders,       \* paid orders of the customer
    Renewals,     \* those that renew an account; the others are purchases
    Confirmers,   \* processes that may confirm an order: callbacks and sweeps
    Screens,      \* messages that show the trial's confirm button
    Legacy,       \* old messages of the protocol-first trial flow
    Devices,      \* active platforms, of "ios" and "android"
    Taps,         \* taps that can be in progress at once
    Faults,       \* which failures the environment may inject
    Cap,          \* bound: counters stop here
    MaxSwitches,  \* bound: how often an admin switches the trial limit
    None

\* One opening for each process that confirms an order; it is named for the
\* picker that it sends.
Openings == Orders \X Confirmers
OrderOf(e) == e[1]

Messages == Screens \cup Legacy \cup Openings
Protocols == {"openvpn", "l2tp"}
FaultKinds == {"ibsng_down", "collision", "telegram_down", "edit_refused", "no_material",
               "crash"}

MaxAttempts == 3  \* _MAX_CREATE_ATTEMPTS

ASSUME MessageAssumption ==
    /\ Screens \cap Openings = {} /\ Legacy \cap (Screens \cup Openings) = {}
    /\ Renewals \subseteq Orders
ASSUME DeviceAssumption == Devices \subseteq {"ios", "android"}
ASSUME CapAssumption == Cap \in Nat \ {0} /\ MaxSwitches \in Nat
ASSUME FaultAssumption == Faults \subseteq FaultKinds
ASSUME NoneAssumption == None \notin Accounts \cup Orders \cup Messages /\ Accounts \cap Orders = {}
ASSUME FiniteAssumption == IsFiniteSet(Accounts) /\ IsFiniteSet(Taps)

VARIABLES
    ibsng,        \* "none", "nameless" or "named" for each trial account
    rows,         \* trial accounts with a vpn_users row
    latest,       \* the newest of them
    enforced,     \* trial_limit_enabled
    switches,     \* how often it was switched
    waived,       \* history: creations that the limit could not stop
    opening,      \* how far each confirmation's opening has come
    keyboard,     \* which buttons each message shows
    refers,       \* the account its handover buttons name
    armed,        \* how often buttons were put on the message after the first
    ran,          \* sequences that sent something, for each message and account
    credentials,  \* credentials sent, for each account and order
    \* local state of the taps
    pc, msg, acc, choice, attempt

messageVars == <<keyboard, refers, armed>>
sentVars    == <<ran, credentials>>
tapVars     == <<msg, acc, choice, attempt>>
limitVars   == <<enforced, switches, waived>>
accountVars == <<ibsng, rows, latest>>
trialVars   == <<accountVars, limitVars>>
vars == <<trialVars, opening, messageVars, sentVars, pc, tapVars>>

Choice == [device : Devices, protocol : Protocols]

\* protocols_for_platform: Android has no L2TP.
Valid(device, protocol) == ~(device = "android" /\ protocol = "l2tp")
ProtocolsFor(device) == {p \in Protocols : Valid(device, p)}

\* A mutant: the limit looks at trials that were handed over.
HasUsedTrialDelivered == enforced /\ \E a \in rows : credentials[a] > 0

\* has_used_trial: never, while the limit is off.
HasUsedTrial == enforced /\ rows # {}

Bump(n) == IF n < Cap THEN n + 1 ELSE n

Init ==
    /\ ibsng = [a \in Accounts |-> "none"]
    /\ rows = {} /\ latest = None
    /\ enforced = TRUE /\ switches = 0 /\ waived = 0
    /\ opening = [e \in Openings |-> "open"]
    /\ keyboard = [m \in Messages |->
                      IF m \in Screens THEN "confirm" ELSE IF m \in Legacy THEN "legacy" ELSE "bare"]
    /\ refers = [m \in Messages |-> IF m \in Openings THEN OrderOf(m) ELSE None]
    /\ armed = [m \in Messages |-> IF m \in Legacy THEN 1 ELSE 0]
    /\ ran = [m \in Messages |-> [x \in Accounts \cup Orders |-> 0]]
    /\ credentials = [x \in Accounts \cup Orders |-> 0]
    /\ pc = [h \in Taps |-> "idle"]
    /\ msg = [h \in Taps |-> None]
    /\ acc = [h \in Taps |-> None]
    /\ choice = [h \in Taps |-> None]
    /\ attempt = [h \in Taps |-> 0]

Goto(h, label) == pc' = [pc EXCEPT ![h] = label]

End(h) ==
    /\ Goto(h, "idle")
    /\ msg'     = [msg     EXCEPT ![h] = None]
    /\ acc'     = [acc     EXCEPT ![h] = None]
    /\ choice'  = [choice  EXCEPT ![h] = None]
    /\ attempt' = [attempt EXCEPT ![h] = 0]

\* A tap on a button the message shows; the handler acts on it later.
Begin(h, m, label, a, c) ==
    /\ pc[h] = "idle"
    /\ Goto(h, label)
    /\ msg'    = [msg    EXCEPT ![h] = m]
    /\ acc'    = [acc    EXCEPT ![h] = a]
    /\ choice' = [choice EXCEPT ![h] = c]
    /\ UNCHANGED <<trialVars, opening, messageVars, sentVars, attempt>>

\* Buttons are put on a message, and with them something to strip.
Arm(m, buttons) ==
    /\ keyboard' = [keyboard EXCEPT ![m] = buttons]
    /\ armed'    = [armed    EXCEPT ![m] = Bump(@)]

\* A picker for account a.
Show(m, picker, a) ==
    /\ Arm(m, picker)
    /\ refers' = [refers EXCEPT ![m] = a]

-----------------------------------------------------------------------------
(* The free trial: trial_confirm_cb *)

\* Bound: an account is left for every tap that may still create one.
AccountsLeft ==
    \/ HasUsedTrial
    \/ Cardinality({a \in Accounts : ibsng[a] = "none"})
         > Cardinality({h \in Taps : pc[h] \in {"check", "create", "add"}})

\* trial_entry_cb, by way of the main menu.
TrialEntry(m) ==
    /\ keyboard[m] = "menu" /\ ~HasUsedTrial
    /\ Arm(m, "confirm")
    /\ UNCHANGED <<trialVars, opening, refers, sentVars, pc, tapVars>>

TapConfirm(h, m) ==
    /\ AccountsLeft /\ keyboard[m] = "confirm"
    /\ Begin(h, m, "check", None, None)

\* "Already used", found by the handler or - after it - by create_vpn_user.
AlreadyUsed(h) ==
    /\ pc[h] \in {"check", "create"} /\ HasUsedTrial
    /\ Arm(msg[h], "menu")
    /\ End(h)
    /\ UNCHANGED <<trialVars, opening, refers, sentVars>>

\* A creation that has passed the check and is not in the table yet.
UnderWay(h) == pc[h] \in {"add", "name", "insert"}

\* create_vpn_user's check lets a creation through that there is reason to
\* stop: the limit is off, or another tap's creation is under way.
Waives(h) ==
    \/ ~enforced /\ rows # {}
    \/ \E g \in Taps \ {h} : UnderWay(g)

Eligible(h) ==
    /\ pc[h] \in {"check", "create"} /\ ~HasUsedTrial
    /\ Goto(h, IF pc[h] = "check" THEN "create" ELSE "add")
    /\ waived' = IF pc[h] = "create" /\ Waives(h) THEN Bump(waived) ELSE waived
    /\ UNCHANGED <<accountVars, enforced, switches, opening, messageVars, sentVars, tapVars>>

\* The generated username is taken, here or in IBSng: another attempt.
Collision(h) ==
    /\ "collision" \in Faults /\ pc[h] \in {"create", "add"}
    /\ attempt[h] + 1 < MaxAttempts
    /\ attempt' = [attempt EXCEPT ![h] = @ + 1]
    /\ Goto(h, "create")
    /\ UNCHANGED <<trialVars, opening, messageVars, sentVars, msg, acc, choice>>

\* trial_create_failed: the third collision, or any IBSngError.
CreationFails(h) ==
    /\ \/ "collision" \in Faults /\ pc[h] \in {"create", "add"} /\ attempt[h] + 1 = MaxAttempts
       \/ "ibsng_down" \in Faults /\ pc[h] \in {"add", "name"}
    /\ Arm(msg[h], "menu")
    /\ End(h)
    /\ UNCHANGED <<trialVars, opening, refers, sentVars>>

\* IBSng did it, and its answer was lost.
AnswerLost(h) ==
    /\ "ibsng_down" \in Faults
    /\ \/ pc[h] = "add" /\ \E a \in Accounts :
             ibsng[a] = "none" /\ ibsng' = [ibsng EXCEPT ![a] = "nameless"]
       \/ pc[h] = "name" /\ ibsng' = [ibsng EXCEPT ![acc[h]] = "named"]
    /\ Arm(msg[h], "menu")
    /\ End(h)
    /\ UNCHANGED <<rows, latest, limitVars, opening, refers, sentVars>>

\* user.addNewUsers: an account without a name or a password.
AddUser(h, a) ==
    /\ pc[h] = "add" /\ ibsng[a] = "none"
    /\ ibsng' = [ibsng EXCEPT ![a] = "nameless"]
    /\ acc' = [acc EXCEPT ![h] = a]
    /\ Goto(h, "name")
    /\ UNCHANGED <<rows, latest, limitVars, opening, messageVars, sentVars, msg, choice, attempt>>

\* user.updateUserAttrs
NameUser(h) ==
    /\ pc[h] = "name"
    /\ ibsng' = [ibsng EXCEPT ![acc[h]] = "named"]
    /\ Goto(h, "insert")
    /\ UNCHANGED <<rows, latest, limitVars, opening, messageVars, sentVars, tapVars>>

\* A mutant: the row is committed as soon as IBSng gave an id.
InsertTrialRowEarly(h) ==
    /\ pc[h] \in {"name", "insert"}
    /\ rows' = rows \cup {acc[h]} /\ latest' = acc[h]
    /\ Goto(h, "picker")
    /\ UNCHANGED <<ibsng, limitVars, opening, messageVars, sentVars, tapVars>>

InsertTrialRow(h) ==
    /\ pc[h] = "insert"
    /\ rows' = rows \cup {acc[h]} /\ latest' = acc[h]
    /\ Goto(h, "picker")
    /\ UNCHANGED <<ibsng, limitVars, opening, messageVars, sentVars, tapVars>>

\* _show_device_picker: in place of the confirm screen, whatever it shows by now.
ShowDevicePicker(h) ==
    /\ pc[h] = "picker"
    /\ Show(msg[h], "platform", acc[h])
    /\ End(h)
    /\ UNCHANGED <<trialVars, opening, sentVars>>

\* settings_toggle_trial_limit_cb writes the negation of what it reads; one
\* admin at a time.
SwitchTrialLimit ==
    /\ switches < MaxSwitches
    /\ switches' = switches + 1
    /\ enforced' = ~enforced
    /\ UNCHANGED <<accountVars, waived, opening, messageVars, sentVars, pc, tapVars>>

-----------------------------------------------------------------------------
(* The opening of a paid order's handover: send_handover_prompt.  Payments *)
(* models what comes before.                                               *)

Progress(e, stage) == opening' = [opening EXCEPT ![e] = stage]

\* confirm_paid_payment commits "paid" and opens the handover.  Two processes
\* may do so for a renewal, each for itself; for a purchase only one gets
\* this far (PurchaseServedOnce in Payments).
OrderPaid(e) ==
    /\ opening[e] = "open"
    /\ \/ OrderOf(e) \in Renewals
       \/ \A f \in Openings : OrderOf(f) = OrderOf(e) => opening[f] = "open"
    /\ Progress(e, "paid")
    /\ UNCHANGED <<trialVars, messageVars, sentVars, pc, tapVars>>

SendPaidCredentials(e) ==
    /\ opening[e] = "paid"
    /\ credentials' = [credentials EXCEPT ![OrderOf(e)] = Bump(@)]
    /\ Progress(e, "prompt")
    /\ UNCHANGED <<trialVars, messageVars, ran, pc, tapVars>>

SendPicker(e) ==
    /\ opening[e] = "prompt"
    /\ Show(e, "platform", OrderOf(e))
    /\ Progress(e, "done")
    /\ UNCHANGED <<trialVars, sentVars, pc, tapVars>>

\* A mutant: credentials that could not be sent do not end it.
PromptGoesOn(e) ==
    /\ "telegram_down" \in Faults /\ opening[e] \in {"paid", "prompt"}
    /\ Progress(e, IF opening[e] = "paid" THEN "prompt" ELSE "done")
    /\ UNCHANGED <<trialVars, messageVars, sentVars, pc, tapVars>>

\* A blocked bot ends it, and so does any other Telegram error.  Credentials
\* that arrived, the answer lost, are SendPaidCredentials and then this.
PromptFails(e) ==
    /\ "telegram_down" \in Faults /\ opening[e] \in {"paid", "prompt"}
    /\ Progress(e, "done")
    /\ UNCHANGED <<trialVars, messageVars, sentVars, pc, tapVars>>

-----------------------------------------------------------------------------
(* The pickers: handover_cb *)

Pick(d, p) == [device |-> d, protocol |-> p]

TapDevice(h, m, d) ==
    /\ keyboard[m] = "platform" /\ ProtocolsFor(d) = Protocols
    /\ Begin(h, m, "protocols", refers[m], None)

\* One protocol left: it is not asked for.
TapDeviceOfOne(h, m, d, p) ==
    /\ keyboard[m] = "platform" /\ ProtocolsFor(d) = {p}
    /\ Begin(h, m, "deliver", refers[m], Pick(d, p))

\* The protocol picker is only ever shown for a device with a choice.
TapProtocol(h, m, d, p) ==
    /\ keyboard[m] = "protocol" /\ ProtocolsFor(d) = Protocols
    /\ Begin(h, m, "deliver", refers[m], Pick(d, p))

TapBack(h, m) ==
    /\ keyboard[m] = "protocol"
    /\ Begin(h, m, "back", refers[m], None)

\* An old message's buttons name any device and protocol, and mean the
\* latest trial.
TapLegacy(h, m, d, p) ==
    /\ keyboard[m] = "legacy" /\ latest # None
    /\ Begin(h, m, "deliver", latest, Pick(d, p))

ShowProtocols(h) ==
    /\ pc[h] = "protocols"
    /\ Show(msg[h], "protocol", acc[h])
    /\ End(h)
    /\ UNCHANGED <<trialVars, opening, sentVars>>

ShowDevices(h) ==
    /\ pc[h] = "back"
    /\ Show(msg[h], "platform", acc[h])
    /\ End(h)
    /\ UNCHANGED <<trialVars, opening, sentVars>>

-----------------------------------------------------------------------------
(* deliver_handover *)

\* The compatibility gate.
Unsupported(h) ==
    /\ pc[h] = "deliver" /\ ~Valid(choice[h].device, choice[h].protocol)
    /\ End(h)
    /\ UNCHANGED <<trialVars, opening, messageVars, sentVars>>

\* A mutant: the keyboard is stripped only after the sequence.
DisarmAny(h) ==
    /\ pc[h] = "deliver" /\ Valid(choice[h].device, choice[h].protocol)
    /\ keyboard' = [keyboard EXCEPT ![msg[h]] = "bare"]
    /\ Goto(h, "send")
    /\ UNCHANGED <<trialVars, opening, refers, armed, sentVars, tapVars>>

\* edit_reply_markup strips whatever keyboard the message has by now.
Disarm(h) ==
    /\ pc[h] = "deliver" /\ Valid(choice[h].device, choice[h].protocol)
    /\ keyboard[msg[h]] # "bare"
    /\ keyboard' = [keyboard EXCEPT ![msg[h]] = "bare"]
    /\ Goto(h, "send")
    /\ UNCHANGED <<trialVars, opening, refers, armed, sentVars, tapVars>>

\* "not modified": another tap already won.
AlreadyDisarmed(h) ==
    /\ pc[h] = "deliver" /\ Valid(choice[h].device, choice[h].protocol)
    /\ keyboard[msg[h]] = "bare"
    /\ End(h)
    /\ UNCHANGED <<trialVars, opening, messageVars, sentVars>>

\* Any other refusal counts as won; any other error ends the handler.
DisarmFails(h) ==
    /\ pc[h] = "deliver" /\ Valid(choice[h].device, choice[h].protocol)
    /\ \/ "edit_refused" \in Faults /\ Goto(h, "send") /\ UNCHANGED tapVars
       \/ "telegram_down" \in Faults /\ End(h)
    /\ UNCHANGED <<trialVars, opening, messageVars, sentVars>>

Sent(h) == ran' = [ran EXCEPT ![msg[h]][acc[h]] = Bump(@)]

\* A trial's credentials; a paid order's went out when it was paid.
SendCredentials(h) ==
    /\ pc[h] = "send"
    /\ IF acc[h] \in Orders THEN UNCHANGED sentVars
         ELSE /\ credentials' = [credentials EXCEPT ![acc[h]] = Bump(@)]
              /\ Sent(h)
    /\ Goto(h, "setup")
    /\ UNCHANGED <<trialVars, opening, messageVars, tapVars>>

\* Credentials that arrived, the answer lost, are SendCredentials and then this.
SendFails(h) ==
    /\ "telegram_down" \in Faults /\ pc[h] \in {"send", "setup"}
    /\ End(h)
    /\ UNCHANGED <<trialVars, opening, messageVars, sentVars>>

SendSetup(h) ==
    /\ pc[h] = "setup"
    /\ IF acc[h] \in Orders THEN Sent(h) ELSE UNCHANGED ran
    /\ End(h)
    /\ UNCHANGED <<trialVars, opening, messageVars, credentials>>

\* Nothing is configured for the device: the closing pair goes on the
\* credentials, or - for a paid order - on the picker itself.
NoSetup(h) ==
    /\ "no_material" \in Faults /\ pc[h] = "setup"
    /\ IF acc[h] \in Orders THEN Arm(msg[h], "closing") ELSE UNCHANGED <<keyboard, armed>>
    /\ End(h)
    /\ UNCHANGED <<trialVars, opening, refers, sentVars>>

\* The process restarts; taps in progress are dropped, and nobody confirms
\* again what is paid already.
Crash ==
    /\ "crash" \in Faults
    /\ (\E h \in Taps : pc[h] # "idle") \/ \E e \in Openings : opening[e] \in {"paid", "prompt"}
    /\ pc'      = [h \in Taps |-> "idle"]
    /\ msg'     = [h \in Taps |-> None]
    /\ acc'     = [h \in Taps |-> None]
    /\ choice'  = [h \in Taps |-> None]
    /\ attempt' = [h \in Taps |-> 0]
    /\ opening'   = [e \in Openings |->
                      IF \A f \in Openings : OrderOf(f) = OrderOf(e) => opening[f] = "open"
                        THEN "open" ELSE "done"]
    /\ UNCHANGED <<trialVars, messageVars, sentVars>>

-----------------------------------------------------------------------------
Trial(h) ==
    \/ \E m \in Screens : TapConfirm(h, m)
    \/ AlreadyUsed(h) \/ Eligible(h) \/ Collision(h) \/ CreationFails(h) \/ AnswerLost(h)
    \/ \E a \in Accounts : AddUser(h, a)
    \/ NameUser(h) \/ InsertTrialRow(h) \/ ShowDevicePicker(h)

Opening(e) == OrderPaid(e) \/ SendPaidCredentials(e) \/ SendPicker(e) \/ PromptFails(e)

Pickers(h) ==
    \/ \E m \in Messages, d \in Devices :
          \/ TapDevice(h, m, d)
          \/ \E p \in Protocols :
                TapDeviceOfOne(h, m, d, p) \/ TapProtocol(h, m, d, p) \/ TapLegacy(h, m, d, p)
    \/ \E m \in Messages : TapBack(h, m)
    \/ ShowProtocols(h) \/ ShowDevices(h)

Deliver(h) ==
    \/ Unsupported(h) \/ Disarm(h) \/ AlreadyDisarmed(h) \/ DisarmFails(h)
    \/ SendCredentials(h) \/ SendFails(h) \/ SendSetup(h) \/ NoSetup(h)

Next ==
    \/ \E h \in Taps : Trial(h) \/ Pickers(h) \/ Deliver(h)
    \/ \E e \in Openings : Opening(e)
    \/ \E m \in Screens : TrialEntry(m)
    \/ SwitchTrialLimit \/ Crash

Spec == Init /\ [][Next]_vars

-----------------------------------------------------------------------------
(* Properties *)

\* The types of the variables.
TypeOK ==
    /\ ibsng \in [Accounts -> {"none", "nameless", "named"}]
    /\ rows \subseteq Accounts /\ latest \in rows \cup {None}
    /\ enforced \in BOOLEAN /\ switches \in 0..MaxSwitches /\ waived \in 0..Cap
    /\ opening \in [Openings -> {"open", "paid", "prompt", "done"}]
    /\ keyboard \in [Messages -> {"confirm", "platform", "protocol", "legacy", "menu", "closing", "bare"}]
    /\ refers \in [Messages -> Accounts \cup Orders \cup {None}]
    /\ armed \in [Messages -> 0..Cap]
    /\ ran \in [Messages -> [Accounts \cup Orders -> 0..Cap]]
    /\ credentials \in [Accounts \cup Orders -> 0..Cap]
    /\ pc \in [Taps -> {"idle", "check", "create", "add", "name", "insert", "picker",
                        "protocols", "back", "deliver", "send", "setup"}]
    /\ msg \in [Taps -> Messages \cup {None}]
    /\ acc \in [Taps -> Accounts \cup Orders \cup {None}]
    /\ choice \in [Taps -> Choice \cup {None}]
    /\ attempt \in [Taps -> 0..(MaxAttempts - 1)]

\* What a customer is handed works: an account with a row, a picker or
\* credentials has its name and password in IBSng, wherever the creation's
\* three calls were interrupted.
HandedOverWorks ==
    \A a \in Accounts :
        (a \in rows \/ credentials[a] > 0 \/ \E m \in Messages : refers[m] = a)
            => a \in rows /\ ibsng[a] = "named"

\* One trial per customer, and one more for each creation that the limit could
\* not stop, because it was off or because another tap's creation was under
\* way: racing taps, failed, interrupted and repeated attempts, and the limit
\* switched at any point of them, leave no further account that works.
OneTrial == Cardinality(rows) <= 1 + waived

\* "A paying customer must never depend on a later tap to learn them": whoever
\* is shown a paid order's picker has its credentials, and nobody is sent a
\* device's setup without them, paid or trial - whichever confirmation,
\* showing of the buttons or racing tap leads there, and whatever fails.
CredentialsComeFirst ==
    /\ \A m \in Messages :
          keyboard[m] \in {"platform", "protocol"} /\ refers[m] \in Orders
              => credentials[refers[m]] > 0
    /\ \A h \in Taps : pc[h] = "setup" => credentials[acc[h]] > 0

\* Every time buttons are put on a message, they run the sequence at most
\* once: of taps that race, one strips the keyboard.
EachKeyboardRunsOnce ==
    \A m \in Messages, x \in Accounts \cup Orders : ran[m][x] <= armed[m]
=============================================================================
