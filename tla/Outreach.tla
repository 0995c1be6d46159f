------------------------------ MODULE Outreach ------------------------------
(***************************************************************************)
(* Announcements and ad campaigns: one admin's conversation from the       *)
(* content to the Send button, and the broadcasts that run on their own    *)
(* afterwards (app/bot/handlers/broadcast.py and campaign.py,              *)
(* app/services/broadcast.py).                                             *)
(*                                                                         *)
(* A tap or a message is a handler of its own; the state it was matched    *)
(* against was read when it arrived, the data is read when it runs.  Old   *)
(* messages keep their buttons.                                            *)
(***************************************************************************)
EXTENDS Integers, FiniteSets

CONSTANTS
    Users,      \* bot_users other than the admin
    Contents,   \* what the admin may send: kinds of messages
    Files,      \* those of them that are documents
    Taps,       \* handlers in progress at once
    Prompts,    \* messages with a Send button
    Runs,       \* broadcasts
    Budgets,    \* bounds: how much of everything a behaviour has, and how many
                \* handlers at once
    None

Sends == {"send", "send_ad"}
Args == Contents \cup {None, "menu", "custom"}

PromptTypes == [flow : Sends, content : Args, button : Args,
                shows : {"prompt", "started", "screen"}]

RunTypes == [pc : {"select", "died", "sending", "done", "unreported", "lost"}, by : Prompts,
             content : Args, button : Args, todo : SUBSET Users,
             count : Nat, sent : Nat, failed : Nat]

ASSUME OutreachAssumption ==
    /\ Files \subseteq Contents /\ IsFiniteSet(Users)
    /\ None \notin Contents \cup Prompts \cup PromptTypes \cup RunTypes

VARIABLES
    chat,     \* the conversation: state and data
    tap,      \* handlers in progress
    prompt,   \* the messages with a Send button: what they showed, and show
    run,      \* the broadcasts
    blocked,  \* users an admin has blocked
    cut,      \* history: a message may have gone out that no prompt had shown
    reused,   \* history: prompts that "started" was on, and something else after it
    budget

vars == <<chat, tap, prompt, run, blocked, cut, reused, budget>>

Idle == [state |-> "none", content |-> None, button |-> None]
NoTap == [pc |-> "idle", task |-> "none", arg |-> None, on |-> None,
          content |-> None, button |-> None]

\* The state a message, or a button, needs; the others are taken in any state.
Expected ==
    [announce |-> "any", content |-> "content", campaign |-> "any", ad_content |-> "ad_content",
     choose |-> "any", button |-> "choice", custom |-> "any", label |-> "label",
     to_url |-> "dest", dest |-> "dest", url |-> "url",
     send |-> "confirm", send_ad |-> "ad_confirm", cancel |-> "any"]

Init ==
    /\ chat = Idle
    /\ tap = [h \in Taps |-> NoTap]
    /\ prompt = [p \in Prompts |-> None]
    /\ run = [r \in Runs |-> None]
    /\ blocked = {}
    /\ cut = FALSE
    /\ reused = {}
    /\ budget \in Budgets

\* Handlers, messages and tasks are interchangeable: the first that is free.
Free(S, free(_)) == IF \E x \in S : free(x) THEN CHOOSE x \in S : free(x) ELSE None

-----------------------------------------------------------------------------
(* Handlers *)

Ends(h) == tap' = [tap EXCEPT ![h] = NoTap]

\* Another button than Send puts its screen where the prompt was, also over
\* the "started" of a tap on Send that was quicker.
Replace(h) ==
    IF tap[h].on = None THEN UNCHANGED <<prompt, reused>>
    ELSE /\ prompt' = [prompt EXCEPT ![tap[h].on].shows = "screen"]
         /\ reused' = IF prompt[tap[h].on].shows = "started" THEN reused \cup {tap[h].on} ELSE reused

Handling(h, task) == tap[h].pc = "handler" /\ tap[h].task = task

\* A Send button says which prompt it is on; Back and Cancel may be on one.
Arrive(h, task, arg, on) ==
    /\ tap[h].pc = "idle"
    /\ Expected[task] \in {"any", chat.state}
    /\ tap' = [tap EXCEPT ![h] = [NoTap EXCEPT !.pc = "handler", !.task = task, !.arg = arg,
                                               !.on = on,
                                               !.content = IF task \in Sends THEN chat.content ELSE None,
                                               !.button = IF task \in Sends THEN chat.button ELSE None]]
    /\ UNCHANGED <<chat, prompt, run, blocked, cut, reused>>

\* The content of an announcement is asked for; data from before stays.
Announce(h) ==
    /\ Handling(h, "announce")
    /\ chat' = [chat EXCEPT !.state = "content"]
    /\ Replace(h) /\ Ends(h)
    /\ UNCHANGED <<run, blocked, cut>>

ReceiveContent(h) ==
    /\ Handling(h, "content")
    /\ chat' = [chat EXCEPT !.state = "confirm", !.content = tap[h].arg]
    /\ tap' = [tap EXCEPT ![h].pc = "prompt", ![h].content = tap[h].arg, ![h].button = None]
    /\ UNCHANGED <<prompt, run, blocked, cut, reused>>

Clear == chat' = Idle

Cancel(h) ==
    /\ Handling(h, "cancel")
    /\ Clear /\ Replace(h) /\ Ends(h)
    /\ UNCHANGED <<run, blocked, cut>>

StartCampaign(h) ==
    /\ Handling(h, "campaign") \/ (tap[h].pc = "handler" /\ tap[h].task \in {"choose", "custom"}
                                  /\ chat.content = None)
    /\ chat' = [Idle EXCEPT !.state = "ad_content"]
    /\ Replace(h) /\ Ends(h)
    /\ UNCHANGED <<run, blocked, cut>>

\* A campaign takes no documents.
ReceiveAdContent(h) ==
    /\ Handling(h, "ad_content")
    /\ chat' = IF tap[h].arg \in Files THEN chat
               ELSE [state |-> "choice", content |-> tap[h].arg, button |-> None]
    /\ Ends(h)
    /\ UNCHANGED <<prompt, run, blocked, cut, reused>>

\* Back to the choice of a button, from wherever there is a content - also
\* from an announcement's, by a button left from an earlier campaign.
ChooseButton(h) ==
    /\ Handling(h, "choose") /\ chat.content # None
    /\ chat' = [chat EXCEPT !.state = "choice"]
    /\ Replace(h) /\ Ends(h)
    /\ UNCHANGED <<run, blocked, cut>>

\* The button's label, where it leads, and a link typed in.
CustomButton(h) ==
    /\ \/ /\ Handling(h, "custom") /\ chat.content # None
          /\ chat' = [chat EXCEPT !.state = "label"]
       \/ /\ Handling(h, "label")
          /\ chat' = [chat EXCEPT !.state = "dest"]
       \/ /\ Handling(h, "to_url")
          /\ chat' = [chat EXCEPT !.state = "url"]
    /\ Replace(h) /\ Ends(h)
    /\ UNCHANGED <<run, blocked, cut>>

\* _send_preview: the conversation is ready to send before anything is shown.
Preview(h) ==
    /\ tap[h].pc = "handler" /\ tap[h].task \in {"button", "dest", "url"}
    /\ IF chat.content = None THEN Ends(h) /\ UNCHANGED chat
       ELSE /\ chat' = [chat EXCEPT !.state = "ad_confirm", !.button = tap[h].arg]
            /\ tap' = [tap EXCEPT ![h].pc = "prompt", ![h].content = chat.content,
                                  ![h].button = tap[h].arg]
    /\ UNCHANGED <<prompt, run, blocked, cut, reused>>

\* The message itself, for a campaign, and the prompt below it.
SendPrompt(h, p) ==
    /\ tap[h].pc = "prompt"
    /\ tap[h].task # "content" => tap[h].content \notin Files
    /\ prompt[p] = None
    /\ prompt' = [prompt EXCEPT ![p] =
           [flow |-> IF tap[h].task = "content" THEN "send" ELSE "send_ad",
            content |-> tap[h].content, button |-> tap[h].button, shows |-> "prompt"]]
    /\ Ends(h)
    /\ UNCHANGED <<chat, run, blocked, cut, reused>>

\* Telegram or the database fails; or the content is an announcement's document,
\* which has no text to preview.
PromptFails(h) ==
    /\ tap[h].pc = "prompt"
    /\ cut' = TRUE
    /\ Ends(h)
    /\ UNCHANGED <<chat, prompt, run, blocked, reused>>

\* A mutant: a campaign goes out without its button.
ReadWithoutButton(h) ==
    /\ tap[h].pc = "handler" /\ tap[h].task \in Sends
    /\ tap' = IF chat.content = None THEN [tap EXCEPT ![h] = NoTap]
              ELSE [tap EXCEPT ![h].pc = "clear", ![h].content = chat.content, ![h].button = None]
    /\ cut' = (cut \/ (\E g \in Taps : tap[g].pc = "prompt")
                   \/ <<tap[h].content, tap[h].button>> # <<chat.content, chat.button>>)
    /\ UNCHANGED <<chat, prompt, run, blocked, reused>>

\* The Send button takes what the conversation holds when its handler runs,
\* whatever the message it is on has shown.
ReadData(h) ==
    /\ tap[h].pc = "handler" /\ tap[h].task \in Sends
    /\ tap' = IF chat.content = None THEN [tap EXCEPT ![h] = NoTap]
              ELSE [tap EXCEPT ![h].pc = "clear", ![h].content = chat.content,
                               ![h].button = IF tap[h].task = "send" THEN None ELSE chat.button]
    /\ cut' = (cut \/ (\E g \in Taps : tap[g].pc = "prompt")
                   \/ <<tap[h].content, tap[h].button>> # <<chat.content, chat.button>>)
    /\ UNCHANGED <<chat, prompt, run, blocked, reused>>

ClearData(h) ==
    /\ tap[h].pc = "clear"
    /\ Clear
    /\ tap' = [tap EXCEPT ![h].pc = "edit"]
    /\ UNCHANGED <<prompt, run, blocked, cut, reused>>

\* A mutant: Telegram's "message is not modified" is swallowed, as elsewhere.
EditTolerant(h) ==
    /\ tap[h].pc = "edit"
    /\ prompt' = [prompt EXCEPT ![tap[h].on].shows = "started"]
    /\ tap' = [tap EXCEPT ![h].pc = "start"]
    /\ UNCHANGED <<chat, run, blocked, cut, reused>>

\* The prompt becomes "started", which Telegram grants once for each message.
EditPrompt(h) ==
    /\ tap[h].pc = "edit"
    /\ prompt[tap[h].on].shows # "started"
    /\ prompt' = [prompt EXCEPT ![tap[h].on].shows = "started"]
    /\ tap' = [tap EXCEPT ![h].pc = "start"]
    /\ UNCHANGED <<chat, run, blocked, cut, reused>>

\* An identical edit is refused; and Telegram may fail here, and when the tap
\* is answered: nothing is sent, and the conversation is over.
EditFails(h) ==
    /\ tap[h].pc \in {"edit", "start"}
    /\ Ends(h)
    /\ UNCHANGED <<chat, prompt, run, blocked, cut, reused>>

StartRun(h, r) ==
    /\ tap[h].pc = "start"
    /\ run[r] = None
    /\ run' = [run EXCEPT ![r] = [pc |-> "select", by |-> tap[h].on, content |-> tap[h].content,
                                  button |-> tap[h].button, todo |-> {}, count |-> 0,
                                  sent |-> 0, failed |-> 0]]
    /\ Ends(h)
    /\ UNCHANGED <<chat, prompt, blocked, cut, reused>>

Handlers ==
    \E h \in Taps :
      \/ Announce(h) \/ ReceiveContent(h) \/ Cancel(h) \/ StartCampaign(h) \/ ReceiveAdContent(h)
      \/ ChooseButton(h) \/ CustomButton(h) \/ Preview(h) \/ PromptFails(h)
      \/ \E p \in Prompts : p = Free(Prompts, LAMBDA q : prompt[q] = None) /\ SendPrompt(h, p)
      \/ ReadData(h) \/ ClearData(h) \/ EditPrompt(h) \/ EditFails(h)
      \/ \E r \in Runs : r = Free(Runs, LAMBDA q : run[q] = None) /\ StartRun(h, r)

-----------------------------------------------------------------------------
(* The broadcasts *)

RunAt(r, pc) == run[r] # None /\ run[r].pc = pc

\* list_recipients: whoever is not blocked now, and nobody who joins later.
SelectRecipients(r) ==
    /\ RunAt(r, "select")
    /\ run' = [run EXCEPT ![r].pc = "sending", ![r].todo = Users \ blocked,
                          ![r].count = Cardinality(Users \ blocked)]
    /\ UNCHANGED <<chat, tap, prompt, blocked, cut, reused>>

\* No connection in time, or no database: nothing catches it, and the task ends
\* without a word.
QueryFails(r) ==
    /\ RunAt(r, "select")
    /\ run' = [run EXCEPT ![r].pc = "died"]
    /\ UNCHANGED <<chat, tap, prompt, blocked, cut, reused>>

SendOne(r, u) ==
    /\ RunAt(r, "sending") /\ u \in run[r].todo
    /\ run' = [run EXCEPT ![r].todo = @ \ {u}, ![r].sent = @ + 1]
    /\ UNCHANGED <<chat, tap, prompt, blocked, cut, reused>>

\* A mutant: one failure ends the broadcast.
FailAndStop(r, u) ==
    /\ RunAt(r, "sending") /\ u \in run[r].todo
    /\ run' = [run EXCEPT ![r].pc = "stopped", ![r].failed = @ + 1]
    /\ UNCHANGED <<chat, tap, prompt, blocked, cut, reused>>

\* The user has left the bot, or Telegram fails or does not answer, so that the
\* message may be out: counted, not retried.
SendFails(r, u) ==
    /\ RunAt(r, "sending") /\ u \in run[r].todo
    /\ run' = [run EXCEPT ![r].todo = @ \ {u}, ![r].failed = @ + 1]
    /\ UNCHANGED <<chat, tap, prompt, blocked, cut, reused>>

Summary(r) ==
    /\ RunAt(r, "sending") /\ run[r].todo = {}
    /\ run' = [run EXCEPT ![r].pc = "done"]
    /\ UNCHANGED <<chat, tap, prompt, blocked, cut, reused>>

\* The error is logged, and the admin hears nothing.
SummaryFails(r) ==
    /\ RunAt(r, "sending") /\ run[r].todo = {}
    /\ run' = [run EXCEPT ![r].pc = "unreported"]
    /\ UNCHANGED <<chat, tap, prompt, blocked, cut, reused>>

Sending(r) ==
    \/ SelectRecipients(r) \/ QueryFails(r) \/ Summary(r) \/ SummaryFails(r)
    \/ \E u \in Users : SendOne(r, u) \/ SendFails(r, u)

-----------------------------------------------------------------------------
(* The admin, other admins, restarts *)

\* On a message that was a prompt: the ways between the screens are left out.
Buttons(p) ==
    CASE prompt[p].shows = "prompt" -> {prompt[p].flow, "cancel"}
                                         \cup (IF prompt[p].flow = "send_ad" THEN {"choose"} ELSE {})
      [] prompt[p].shows = "started" -> {}
      [] OTHER -> {"announce", "campaign", "choose", "custom", "to_url", "cancel"}

\* What the admin has on the screen.
Tap(h) ==
    \/ \E task \in {"announce", "campaign", "choose", "custom", "cancel", "label", "to_url"} :
         Arrive(h, task, None, None)
    \/ \E task \in {"content", "ad_content"}, c \in Contents : Arrive(h, task, c, None)
    \/ \E button \in {None, "menu"} : Arrive(h, "button", button, None)
    \/ \E task \in {"dest", "url"} : Arrive(h, task, "custom", None)
    \/ \E p \in Prompts :
         prompt[p] # None /\ \E task \in Buttons(p) : Arrive(h, task, None, p)

SetBlocked(u) ==
    /\ blocked' = IF u \in blocked THEN blocked \ {u} ELSE blocked \cup {u}
    /\ UNCHANGED <<chat, tap, prompt, run, cut, reused>>

\* A restart loses the handlers and the broadcasts; conversations are in Redis.
Restart ==
    /\ tap' = [h \in Taps |-> NoTap]
    /\ run' = [r \in Runs |-> IF RunAt(r, "select") \/ RunAt(r, "sending")
                              THEN [run[r] EXCEPT !.pc = "lost"] ELSE run[r]]
    /\ cut' = (cut \/ \E h \in Taps : tap[h].pc = "prompt")
    /\ UNCHANGED <<chat, prompt, blocked, reused>>

Spend(kind) ==
    /\ budget[kind] > 0
    /\ budget' = [budget EXCEPT ![kind] = @ - 1]

InProgress == Cardinality({h \in Taps : tap[h].pc # "idle"})

Next ==
    \/ /\ InProgress < budget.atonce /\ Spend("taps")
       /\ \E h \in Taps : h = Free(Taps, LAMBDA g : tap[g].pc = "idle") /\ Tap(h)
    \/ Handlers /\ UNCHANGED budget
    \/ \E r \in Runs : Sending(r) /\ UNCHANGED budget
    \/ \E u \in Users : SetBlocked(u) /\ Spend("blocks")
    \/ Restart /\ Spend("restarts")

\* A broadcast goes on by itself: the query, every send and the summary return
\* or fail.
Spec == /\ Init /\ [][Next]_vars
        /\ \A r \in Runs : WF_vars(Sending(r) /\ UNCHANGED budget)

-----------------------------------------------------------------------------
(* Properties *)

\* A Send button starts one broadcast at most, however often it is tapped and
\* however the taps meet: unless a Cancel or Back on that very message came
\* late and put its own screen over "started".
OncePerPrompt ==
    \A r, s \in Runs : r # s /\ run[r] # None /\ run[s] # None =>
                          run[r].by # run[s].by \/ run[r].by \in reused

\* What goes out to everybody was previewed, content and button together, by
\* some prompt: unless a preview was cut short after the conversation was
\* ready to send, or the data changed under a tap.
SentWasPreviewed ==
    ~cut => \A r \in Runs : run[r] # None =>
              \E p \in Prompts : /\ prompt[p] # None
                                 /\ prompt[p].content = run[r].content
                                 /\ prompt[p].button = run[r].button

\* A broadcast that has started comes to its summary, which counts each of its
\* recipients once, whoever of them could not be reached: unless the bot is
\* restarted, or the query for the recipients fails.  Whether the admin gets the
\* summary is up to one send.
Summarised ==
    \A r \in Runs :
      run[r] # None ~> \/ RunAt(r, "lost") \/ RunAt(r, "died")
                       \/ /\ RunAt(r, "done") \/ RunAt(r, "unreported")
                          /\ run[r].sent + run[r].failed = run[r].count
=============================================================================
