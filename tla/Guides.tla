------------------------------- MODULE Guides -------------------------------
(***************************************************************************)
(* Setup material: guides, OpenVPN profiles and download links.  An admin  *)
(* picks what to upload, a protocol and a device and sends the content     *)
(* (app/bot/handlers/tutorial_admin.py, app/services/tutorials.py); the    *)
(* Tutorials section offers customers what there is                        *)
(* (app/bot/handlers/tutorials.py, app/services/tutorial_delivery.py).     *)
(*                                                                         *)
(* The admin's choices are kept in one conversation, whatever message the  *)
(* buttons are on; a button of the two pickers carries an id and nothing   *)
(* of the step it belongs to, and the state it meets decides what the id   *)
(* is taken for.                                                           *)
(***************************************************************************)
EXTENDS Integers, FiniteSets, Sequences

CONSTANTS
    ProtocolIds, OpenVPN, L2TP, \* ids of tutorial_protocols
    DeviceIds, Android,         \* ids of tutorial_platforms
    Any,                        \* "Generic (any platform)"
    AdminTaps,                  \* the admin's handlers in progress at once
    Budgets,                    \* bounds: how much of everything a behaviour has
    Unset

ASSUME GuidesAssumption ==
    /\ {OpenVPN, L2TP} \subseteq ProtocolIds /\ OpenVPN # L2TP
    /\ Android \in DeviceIds /\ Any \notin ProtocolIds \cup DeviceIds
    /\ Unset \notin ProtocolIds \cup DeviceIds \cup {Any}
    /\ Unset \notin {"guide", "profile", "link"}

VARIABLES
    chat,     \* the admin's conversation: state and data
    screen,   \* the bot's messages to the admin, and what was tapped on each
    tap,      \* handlers in progress
    store,    \* what is kept for each target, protocol and device
    offered,  \* buttons in customers' chats, which stay there
    mixed,    \* history: taps met, an old message was used, a step was not carried out
    budget

guidesVars == <<chat, screen, tap, store, offered, mixed, budget>>

Targets == {"guide", "profile", "link"}
Contents == {"media", "text", "sticker"}

\* A profile is for a device, whatever protocol was picked; a link for a
\* device that does not exist is the generic one.
Key(target, protocol, device) ==
    <<target, IF target = "profile" THEN Any ELSE protocol,
      IF target = "link" /\ device \notin DeviceIds THEN Any ELSE device>>

Keys == {Key(t, p, d) : t \in Targets, p \in ProtocolIds, d \in DeviceIds \cup {Any}}

Idle == [state |-> "none", target |-> Unset, protocol |-> Unset, device |-> Unset]
NoTap == [pc |-> "idle", task |-> "none", on |-> 0, arg |-> Unset, data |-> Idle]
Root == [step |-> "root", target |-> Unset, protocol |-> Unset, device |-> Unset, generic |-> FALSE]

GuidesInit ==
    /\ chat = Idle
    /\ screen = << >>
    /\ tap = [h \in AdminTaps |-> NoTap]
    /\ store = [k \in Keys |-> "absent"]
    /\ offered = {}
    /\ mixed = FALSE
    /\ budget \in Budgets

-----------------------------------------------------------------------------
(* What the admin can do *)

Button(to, target, id) == [to |-> to, target |-> target, id |-> id]

\* The keyboard of each screen.
ButtonsOf(s) ==
    CASE s.step = "root" -> {Button("target", t, Unset) : t \in Targets}
      [] s.step = "protocol" -> {Button("pick", s.target, p) : p \in ProtocolIds}
                                \cup {Button("root", Unset, Unset)}
      [] s.step = "platform" -> {Button("pick", s.target, d) :
                                   d \in DeviceIds \cup (IF s.generic THEN {Any} ELSE {})}
                                \cup {Button("protocol", Unset, Unset)}
      [] s.step = "content" -> {Button("platform", Unset, Unset)}

Overlaps == \E g \in AdminTaps : tap[g].pc # "idle"

Arrive(h, task, on, arg) ==
    /\ tap[h].pc = "idle"
    /\ tap' = [tap EXCEPT ![h] = [NoTap EXCEPT !.pc = "handler", !.task = task, !.on = on, !.arg = arg]]
    /\ mixed' = (mixed \/ Overlaps \/ on # Len(screen))
    /\ UNCHANGED <<chat, screen, store, offered>>

\* /admintutorials
Command(h) == Arrive(h, "command", Len(screen), Unset)

\* Any button on any message.  The pickers take what carries an id by the
\* state; "none" is no protocol's id, and in other states nobody takes it.
TapButton(h) ==
    \E i \in 1..Len(screen) : \E b \in ButtonsOf(screen[i]) :
      IF b.to = "pick"
      THEN /\ chat.state \in {"pick_protocol", "pick_platform"}
           /\ chat.state = "pick_protocol" => b.id # Any
           /\ Arrive(h, chat.state, i, <<b.target, b.id>>)
      ELSE Arrive(h, b.to, i, b.target)

SendContent(h) ==
    /\ chat.state = "await_content"
    /\ \E c \in Contents : Arrive(h, "content", Len(screen), c)

-----------------------------------------------------------------------------
(* The admin's handlers *)

Ends(h) == tap' = [tap EXCEPT ![h] = NoTap]
Handling(h, task) == tap[h].pc = "handler" /\ tap[h].task = task
\* The conversation is written; the message is edited next.
ThenShows(h, task) == tap' = [tap EXCEPT ![h].pc = "edit", ![h].task = task, ![h].data = chat']

\* A mutant: the command opens a new menu and leaves the conversation as it is.
RestartInPlace(h) ==
    /\ Handling(h, "command")
    /\ chat' = chat
    /\ ThenShows(h, "command")
    /\ UNCHANGED <<screen, store, offered, mixed>>

\* The command is the flow's hard reset.
Restart(h) ==
    /\ Handling(h, "command")
    /\ chat' = Idle
    /\ ThenShows(h, "command")
    /\ UNCHANGED <<screen, store, offered, mixed>>

\* Back, to the root; and from further down when the conversation is over.
BackToRoot(h) ==
    /\ \/ Handling(h, "root")
       \/ Handling(h, "protocol") /\ chat.target = Unset
       \/ Handling(h, "platform") /\ Unset \in {chat.target, chat.protocol}
    /\ chat' = Idle
    /\ ThenShows(h, "root")
    /\ UNCHANGED <<screen, store, offered, mixed>>

BackToProtocol(h) ==
    /\ Handling(h, "protocol") /\ chat.target # Unset
    /\ chat' = [chat EXCEPT !.state = "pick_protocol"]
    /\ ThenShows(h, "protocol")
    /\ UNCHANGED <<screen, store, offered, mixed>>

BackToPlatform(h) ==
    /\ Handling(h, "platform") /\ Unset \notin {chat.target, chat.protocol}
    /\ chat' = [chat EXCEPT !.state = "pick_platform"]
    /\ ThenShows(h, "platform")
    /\ UNCHANGED <<screen, store, offered, mixed>>

PickTarget(h) ==
    /\ Handling(h, "target")
    /\ chat' = [chat EXCEPT !.state = "pick_protocol", !.target = tap[h].arg]
    /\ ThenShows(h, "target")
    /\ UNCHANGED <<screen, store, offered, mixed>>

PickProtocol(h) ==
    /\ Handling(h, "pick_protocol")
    /\ chat' = [chat EXCEPT !.state = "pick_platform", !.protocol = tap[h].arg[2]]
    /\ ThenShows(h, "pick_protocol")
    /\ UNCHANGED <<screen, store, offered, mixed>>

\* The target is the conversation's, whatever the button's is.
PickPlatform(h) ==
    /\ Handling(h, "pick_platform")
    /\ chat' = [chat EXCEPT !.state = "await_content", !.device = tap[h].arg[2]]
    /\ ThenShows(h, "pick_platform")
    /\ UNCHANGED <<screen, store, offered, mixed>>

\* The next screen, in place of the last; a prompt whose conversation is over
\* by then raises.
Shown(s, task, arg, data) ==
    CASE task = "target" -> [Root EXCEPT !.step = "protocol", !.target = arg]
      [] task = "protocol" -> [Root EXCEPT !.step = "protocol", !.target = data.target]
      [] task = "pick_protocol" -> [Root EXCEPT !.step = "platform", !.target = arg[1],
                                               !.protocol = arg[2], !.generic = arg[2] = OpenVPN]
      [] task = "platform" -> [s EXCEPT !.step = "platform", !.target = data.target,
                                        !.device = Unset, !.generic = data.protocol = OpenVPN]
      [] task = "pick_platform" -> [s EXCEPT !.step = "content", !.target = data.target,
                                             !.device = arg[2]]
      [] OTHER -> Root

ShowScreen(h) ==
    /\ tap[h].pc = "edit"
    /\ screen' = LET s == IF tap[h].on = 0 THEN Root ELSE screen[tap[h].on]
                     next == Shown(s, tap[h].task, tap[h].arg,
                                   IF tap[h].task = "pick_platform" THEN chat ELSE tap[h].data)
                 IN IF tap[h].task = "command" THEN Append(screen, Root)
                    ELSE IF tap[h].task = "pick_platform" /\ chat.target = Unset THEN screen
                    ELSE [screen EXCEPT ![tap[h].on] = next]
    /\ Ends(h)
    /\ UNCHANGED <<chat, store, offered, mixed>>

\* A mutant: only guides are checked for content.
AcceptsAnyProfile(target, content) == target = "guide" => content = "media"

\* A guide is a file, a profile a file or text; a link is whatever text there is.
Accepts(target, content) ==
    /\ target = "guide" => content = "media"
    /\ target = "profile" => content # "sticker"

\* Data that is gone raises; what is refused leaves the conversation waiting.
Receive(h) ==
    /\ Handling(h, "content")
    /\ IF Unset \notin {chat.target, chat.protocol, chat.device} /\ Accepts(chat.target, tap[h].arg)
       THEN /\ chat' = Idle
            /\ tap' = [tap EXCEPT ![h].pc = "save", ![h].data = chat]
       ELSE Ends(h) /\ UNCHANGED chat
    /\ UNCHANGED <<screen, store, offered, mixed>>

\* What is kept: a photo sent for a link has no text.
KeptAs(target, content) ==
    IF content = "text" \/ (target # "link" /\ content = "media") THEN content ELSE "blank"

\* What names a protocol that does not exist, or a guide or a profile for a
\* device that does not, raises.
Put(k, content) == IF k \in Keys THEN [store EXCEPT ![k] = content] ELSE store

Save(h) ==
    /\ tap[h].pc = "save"
    /\ LET d == tap[h].data
           k == Key(d.target, d.protocol, d.device)
       IN store' = Put(k, KeptAs(d.target, tap[h].arg))
    /\ Ends(h)
    /\ UNCHANGED <<chat, screen, offered, mixed>>

\* Telegram refuses an edit, a second row for the same guide or link is
\* refused, or the bot is restarted.
Abandon(h) ==
    /\ tap[h].pc \in {"handler", "edit", "save"}
    /\ mixed' = TRUE
    /\ Ends(h)
    /\ UNCHANGED <<chat, screen, store, offered>>

Handlers ==
    \E h \in AdminTaps :
      \/ Restart(h) \/ BackToRoot(h) \/ BackToProtocol(h) \/ BackToPlatform(h)
      \/ PickTarget(h) \/ PickProtocol(h) \/ PickPlatform(h)
      \/ ShowScreen(h) \/ Receive(h) \/ Save(h)

-----------------------------------------------------------------------------
(* Customers *)

\* A link for the device, or else the generic one; a blank one counts as none.
Link(p, d) ==
    IF store[<<"link", p, d>>] = "text" THEN "text" ELSE store[<<"link", p, Any>>]

\* The newest upload for the device, or else the newest generic one.
Profile(d) ==
    IF store[<<"profile", Any, d>>] # "absent" THEN store[<<"profile", Any, d>>]
    ELSE store[<<"profile", Any, Any>>]

ValidFor(d, p) == ~(d = Android /\ p = L2TP)

\* What there is of a button's kind; a blank link is one.
Has(b) ==
    IF b[1] = "link" THEN Link(b[2], b[3]) # "absent"
    ELSE b[2] = OpenVPN /\ Profile(b[3]) # "absent"

Extras(p, d) == {b \in {<<"link", p, d>>, <<"profile", p, d>>} : Has(b)}

\* The guide is sent, and the rest is offered.
Tutorial(p, d) ==
    /\ offered' = IF ValidFor(d, p) THEN offered \cup Extras(p, d) ELSE offered
    /\ UNCHANGED <<chat, screen, tap, store, mixed>>

LinkSent(p, d) == Link(p, d) = "text"
ProfileSent(d) == Profile(d) \in {"text", "media"}

\* A tap on an offered button changes nothing; it sends what there is by then,
\* or answers that there is nothing here.
Sends(b) == IF b[1] = "link" THEN LinkSent(b[2], b[3]) ELSE ProfileSent(b[3])

-----------------------------------------------------------------------------
Spend(kind) ==
    /\ budget[kind] > 0
    /\ budget' = [budget EXCEPT ![kind] = @ - 1]

\* One more of its kind; and of those that meet another.
SpendArrival(kind) ==
    /\ budget[kind] > 0
    /\ Overlaps => budget.overlaps > 0
    /\ budget' = [budget EXCEPT ![kind] = @ - 1,
                                !.overlaps = IF Overlaps THEN @ - 1 ELSE @]

\* Handlers are interchangeable: the first that is free takes what arrives.
FreeTap(h) == tap[h].pc = "idle" /\ h = CHOOSE g \in AdminTaps : tap[g].pc = "idle"

GuidesNext ==
    \/ \E h \in AdminTaps : FreeTap(h) /\ Command(h) /\ SpendArrival("commands")
    \/ \E h \in AdminTaps : FreeTap(h) /\ TapButton(h) /\ SpendArrival("taps")
    \/ \E h \in AdminTaps : FreeTap(h) /\ SendContent(h) /\ SpendArrival("contents")
    \/ Handlers /\ UNCHANGED budget
    \/ \E h \in AdminTaps : Abandon(h) /\ Spend("failures")
    \/ \E p \in ProtocolIds, d \in DeviceIds : Tutorial(p, d) /\ Spend("tutorials")

GuidesSpec == GuidesInit /\ [][GuidesNext]_guidesVars

-----------------------------------------------------------------------------
(* Properties *)

\* The prompt the admin is looking at, and what was tapped on the way to it.
Asked(k) ==
    /\ screen # << >>
    /\ LET s == screen[Len(screen)]
       IN s.step = "content" /\ k = Key(s.target, s.protocol, s.device)

\* Content is kept where the buttons tapped on the way to its prompt said,
\* through every Back and every new start: as long as the admin uses the
\* newest menu, one tap at a time, and every step is carried out.
SavedWhereMeant ==
    [][\A k \in Keys : store'[k] # store[k] /\ ~mixed => Asked(k)]_guidesVars

\* A button offered to a customer still delivers, whatever was uploaded since
\* and by however many handlers: unless a link was saved blank.
OfferedIsDelivered ==
    \A b \in offered :
      \/ Sends(b)
      \/ b[1] = "link" /\ "blank" \in {store[b], store[<<"link", b[2], Any>>]}
=============================================================================
