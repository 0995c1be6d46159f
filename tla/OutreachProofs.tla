--------------------------- MODULE OutreachProofs ---------------------------
(***************************************************************************)
(* Announcements and campaigns for every number of handlers, prompts and   *)
(* broadcasts: a prompt starts one broadcast, of what was previewed.       *)
(***************************************************************************)
EXTENDS Outreach, FiniteSetTheorems, TLAPS

Chats == [state : {"none", "content", "confirm", "ad_content", "choice", "label", "dest", "url",
                   "ad_confirm"},
          content : Args, button : Args]

Tasks == {"none", "announce", "content", "campaign", "ad_content", "choose", "button", "custom",
          "label", "to_url", "dest", "url", "send", "send_ad", "cancel"}

TapTypes == [pc : {"idle", "handler", "prompt", "clear", "edit", "start"},
             task : Tasks, arg : Args, on : Prompts \cup {None},
             content : Args, button : Args]

\* A tap on Send is on a prompt, from its arrival to the broadcast's start.
ToSend(h) ==
    \/ tap[h].pc \in {"clear", "edit", "start"}
    \/ tap[h].pc = "handler" /\ tap[h].task \in Sends

TypeInv ==
    /\ chat \in Chats
    /\ tap \in [Taps -> TapTypes]
    /\ prompt \in [Prompts -> PromptTypes \cup {None}]
    /\ run \in [Runs -> RunTypes \cup {None}]
    /\ cut \in BOOLEAN /\ reused \subseteq Prompts
    /\ \A h \in Taps : tap[h].on # None => prompt[tap[h].on] # None
    /\ \A h \in Taps : ToSend(h) => tap[h].on \in Prompts

\* What prompts have shown, content and button together; and what handlers are
\* about to show.
Shown == {<<prompt[p].content, prompt[p].button>> : p \in {q \in Prompts : prompt[q] # None}}
Coming == {<<tap[h].content, tap[h].button>> : h \in {g \in Taps : tap[g].pc = "prompt"}}
Ready == Shown \cup Coming

\* What may be sent is previewed, or is being: from the conversation's state
\* to the broadcast.
PreviewInv ==
    ~cut =>
      /\ chat.state = "confirm" => <<chat.content, None>> \in Ready
      /\ chat.state = "ad_confirm" => <<chat.content, chat.button>> \in Ready
      /\ \A h \in Taps :
           /\ tap[h].pc = "handler" /\ tap[h].task = "send" => <<tap[h].content, None>> \in Ready
           /\ tap[h].pc = "handler" /\ tap[h].task = "send_ad" => <<tap[h].content, tap[h].button>> \in Ready
           /\ tap[h].pc \in {"clear", "edit", "start"} => <<tap[h].content, tap[h].button>> \in Shown
      /\ \A r \in Runs : run[r] # None => <<run[r].content, run[r].button>> \in Shown

\* The one tap that Telegram let change the prompt to "started", and the one
\* broadcast of a prompt, exclude each other while the prompt still says so.
Used == reused \cup {p \in Prompts : prompt[p] # None /\ prompt[p].shows = "started"}

OnceInv ==
    /\ \A h \in Taps : tap[h].pc = "start" => tap[h].on \in Used
    /\ \A g, h \in Taps : g # h /\ tap[g].pc = "start" /\ tap[h].pc = "start" =>
                            tap[g].on # tap[h].on \/ tap[g].on \in reused
    /\ \A r \in Runs : run[r] # None => run[r].by \in Used
    /\ \A h \in Taps, r \in Runs : tap[h].pc = "start" /\ run[r] # None =>
                                     tap[h].on # run[r].by \/ tap[h].on \in reused
    /\ OncePerPrompt

-----------------------------------------------------------------------------
(* What each step does *)

LEMMA NoTapType == NoTap \in TapTypes /\ NoTap.pc = "idle" /\ NoTap.on = None /\ NoTap.task = "none"
BY DEF NoTap, TapTypes, Tasks, Args

LEMMA IdleType == Idle \in Chats /\ Idle.state = "none"
BY DEF Idle, Chats, Args

\* The screen or the Send button that a tap or a message is for.
LEMMA Arrived ==
  ASSUME TypeInv, NEW h \in Taps, Tap(h)
  PROVE  /\ tap' \in [Taps -> TapTypes] /\ \A g \in Taps \ {h} : tap'[g] = tap[g]
         /\ tap[h].pc = "idle" /\ tap'[h].pc = "handler"
         /\ tap'[h].on # None => tap'[h].on \in Prompts /\ prompt[tap'[h].on] # None
         /\ tap'[h].task \in Sends =>
              /\ tap'[h].on \in Prompts
              /\ tap'[h].content = chat.content /\ tap'[h].button = chat.button
              /\ tap'[h].task = "send" => chat.state = "confirm"
              /\ tap'[h].task = "send_ad" => chat.state = "ad_confirm"
         /\ UNCHANGED <<chat, prompt, run, blocked, cut, reused>>
<1>1. PICK task \in Tasks, arg \in Args, on \in Prompts \cup {None} :
        /\ Arrive(h, task, arg, on) /\ (on # None => prompt[on] # None)
        /\ task \in Sends => on \in Prompts
  <2>1. CASE \E task \in {"announce", "campaign", "choose", "custom", "cancel", "label", "to_url"} :
               Arrive(h, task, None, None)
    BY <2>1 DEF Tasks, Args, Sends
  <2>2. CASE \E task \in {"content", "ad_content"}, c \in Contents : Arrive(h, task, c, None)
    BY <2>2 DEF Tasks, Args, Sends
  <2>3. CASE \E button \in {None, "menu"} : Arrive(h, "button", button, None)
    BY <2>3 DEF Tasks, Args, Sends
  <2>4. CASE \E task \in {"dest", "url"} : Arrive(h, task, "custom", None)
    BY <2>4 DEF Tasks, Args, Sends
  <2>5. CASE \E p \in Prompts : prompt[p] # None /\ \E task \in Buttons(p) : Arrive(h, task, None, p)
    <3>0. PICK p \in Prompts : prompt[p] # None /\ \E task \in Buttons(p) : Arrive(h, task, None, p)
      BY <2>5
    <3>1. PICK task \in Buttons(p) : prompt[p] # None /\ Arrive(h, task, None, p)
      BY <3>0
    <3>2. prompt[p].flow \in Sends
      BY <3>1 DEF TypeInv, PromptTypes
    <3>3. task \in Tasks
      BY <3>1, <3>2 DEF Buttons, Tasks, Sends
    <3> QED
      BY <3>1, <3>3 DEF Args
  <2> QED
    BY <2>1, <2>2, <2>3, <2>4, <2>5 DEF Tap
<1>2. PICK t : t = [NoTap EXCEPT !.pc = "handler", !.task = task, !.arg = arg, !.on = on,
                                 !.content = IF task \in Sends THEN chat.content ELSE None,
                                 !.button = IF task \in Sends THEN chat.button ELSE None]
  OBVIOUS
<1>3. t = [pc |-> "handler", task |-> task, arg |-> arg, on |-> on,
           content |-> IF task \in Sends THEN chat.content ELSE None,
           button |-> IF task \in Sends THEN chat.button ELSE None]
  BY <1>2 DEF NoTap
<1>4. t \in TapTypes
  BY <1>3 DEF TapTypes, TypeInv, Chats, Args
<1>5. tap[h].pc = "idle" /\ tap' = [tap EXCEPT ![h] = t] /\ Expected[task] \in {"any", chat.state}
      /\ UNCHANGED <<chat, prompt, run, blocked, cut, reused>>
  BY <1>1, <1>2 DEF Arrive
<1>6. /\ task = "send" => chat.state = "confirm"
      /\ task = "send_ad" => chat.state = "ad_confirm"
  BY <1>5 DEF Expected
<1>7. tap' \in [Taps -> TapTypes] /\ tap'[h] = t /\ \A g \in Taps \ {h} : tap'[g] = tap[g]
  BY <1>4, <1>5 DEF TypeInv
<1> QED
  BY <1>1, <1>3, <1>5, <1>6, <1>7, OutreachAssumption

\* The prompts that are there stay, with what they showed; "started" is only
\* ever replaced on a prompt that is then reused.
PromptsStay ==
    /\ prompt' \in [Prompts -> PromptTypes \cup {None}] /\ reused \subseteq reused' /\ reused' \subseteq Prompts
    /\ \A p \in Prompts : prompt[p] # None =>
         /\ prompt'[p] # None /\ prompt'[p].content = prompt[p].content /\ prompt'[p].button = prompt[p].button
         /\ prompt[p].shows = "started" => prompt'[p].shows = "started" \/ p \in reused'

LEMMA SameStays == ASSUME TypeInv, UNCHANGED <<prompt, reused>> PROVE PromptsStay
BY DEF TypeInv, PromptsStay

LEMMA Shows ==
  ASSUME TypeInv, NEW p \in Prompts, prompt[p] # None, NEW screen \in {"prompt", "started", "screen"},
         prompt' = [prompt EXCEPT ![p].shows = screen]
  PROVE  /\ prompt' \in [Prompts -> PromptTypes \cup {None}]
         /\ prompt'[p] # None /\ prompt'[p].content = prompt[p].content
         /\ prompt'[p].button = prompt[p].button /\ prompt'[p].shows = screen
         /\ \A q \in Prompts \ {p} : prompt'[q] = prompt[q]
<1>1. prompt[p] \in PromptTypes /\ prompt \in [Prompts -> PromptTypes \cup {None}]
  BY DEF TypeInv
<1>2. /\ prompt'[p] = [prompt[p] EXCEPT !.shows = screen]
      /\ \A q \in Prompts \ {p} : prompt'[q] = prompt[q]
  BY <1>1
<1>3. prompt'[p] \in PromptTypes /\ prompt'[p].content = prompt[p].content
      /\ prompt'[p].button = prompt[p].button /\ prompt'[p].shows = screen
  BY <1>1, <1>2 DEF PromptTypes
<1> QED
  BY <1>1, <1>2, <1>3, OutreachAssumption

LEMMA ReplaceStays ==
  ASSUME TypeInv, NEW h \in Taps, Replace(h)
  PROVE  PromptsStay
<1>1. tap[h].on \in Prompts \cup {None} /\ (tap[h].on # None => prompt[tap[h].on] # None)
  BY DEF TypeInv, TapTypes
<1>2. CASE tap[h].on = None
  BY <1>2, SameStays DEF Replace
<1>3. CASE tap[h].on # None
  <2>1. /\ prompt' = [prompt EXCEPT ![tap[h].on].shows = "screen"]
        /\ reused' = IF prompt[tap[h].on].shows = "started" THEN reused \cup {tap[h].on} ELSE reused
    BY <1>3 DEF Replace
  <2> QED
    BY <1>1, <1>3, <2>1, Shows DEF PromptsStay, TypeInv
<1> QED
  BY <1>2, <1>3

LEMMA ShownStays == ASSUME PromptsStay PROVE Shown \subseteq Shown'
BY DEF PromptsStay, Shown

LEMMA UsedStays == ASSUME PromptsStay PROVE Used \subseteq Used'
BY DEF PromptsStay, Used

\* One handler goes on, or arrives, with t: the others stay.
Goes(h, t) == t \in TapTypes /\ tap' = [tap EXCEPT ![h] = t]

LEMMA TapGoes ==
  ASSUME TypeInv, NEW h \in Taps, NEW t, Goes(h, t)
  PROVE  tap' \in [Taps -> TapTypes] /\ tap'[h] = t /\ \A g \in Taps \ {h} : tap'[g] = tap[g]
BY DEF TypeInv, Goes

LEMMA GoesTypes ==
  ASSUME TypeInv, NEW h \in Taps, NEW t, Goes(h, t), PromptsStay,
         t.on # None => t.on \in Prompts /\ prompt'[t.on] # None,
         t.pc \in {"clear", "edit", "start"} => t.on \in Prompts,
         t.pc = "handler" /\ t.task \in Sends => t.on \in Prompts,
         chat' \in Chats, run' \in [Runs -> RunTypes \cup {None}], cut' \in BOOLEAN
  PROVE  TypeInv'
<1>1. tap' \in [Taps -> TapTypes] /\ tap'[h] = t /\ \A g \in Taps \ {h} : tap'[g] = tap[g]
  BY TapGoes
<1>2. \A g \in Taps : tap'[g].on # None => prompt'[tap'[g].on] # None
  <2>1. SUFFICES ASSUME NEW g \in Taps \ {h}, tap[g].on # None PROVE prompt'[tap[g].on] # None
    BY <1>1
  <2>2. tap[g].on \in Prompts /\ prompt[tap[g].on] # None
    BY <2>1 DEF TypeInv, TapTypes
  <2> QED
    BY <2>2 DEF PromptsStay
<1>3. \A g \in Taps : ToSend(g)' => tap'[g].on \in Prompts
  BY <1>1 DEF TypeInv, ToSend
<1> QED
  BY <1>1, <1>2, <1>3 DEF TypeInv, PromptsStay

\* What a handler that ends, or goes from one screen to another, leaves behind.
Ended(h) ==
    /\ Ends(h) /\ PromptsStay /\ UNCHANGED run
    /\ chat' \in Chats /\ (chat'.state \in {"confirm", "ad_confirm"} => chat' = chat)
    /\ cut' \in BOOLEAN /\ (cut => cut') /\ (tap[h].pc = "prompt" => cut')

LEMMA EndedTypes ==
  ASSUME TypeInv, NEW h \in Taps, Ended(h)
  PROVE  TypeInv' /\ tap'[h] = NoTap /\ \A g \in Taps \ {h} : tap'[g] = tap[g]
<1>1. Goes(h, NoTap)
  BY NoTapType DEF Ended, Ends, Goes
<1>2. run' \in [Runs -> RunTypes \cup {None}]
  BY DEF Ended, TypeInv
<1> QED
  BY <1>1, <1>2, TapGoes, GoesTypes, NoTapType DEF Ended

LEMMA EndedPreviews ==
  ASSUME TypeInv, PreviewInv, NEW h \in Taps, Ended(h)
  PROVE  PreviewInv'
<1>1. tap'[h] = NoTap /\ \A g \in Taps \ {h} : tap'[g] = tap[g]
  BY EndedTypes
<1>2. SUFFICES ASSUME ~cut' PROVE PreviewInv'
  BY DEF PreviewInv
<1>3. ~cut /\ tap[h].pc # "prompt" /\ PromptsStay /\ run' = run
  BY <1>2 DEF Ended
<1>4. Shown \subseteq Shown' /\ Ready \subseteq Ready'
  BY <1>1, <1>3, ShownStays DEF Ready, Coming
<1>5. /\ chat'.state = "confirm" => <<chat'.content, None>> \in Ready'
      /\ chat'.state = "ad_confirm" => <<chat'.content, chat'.button>> \in Ready'
  BY <1>3, <1>4 DEF PreviewInv, Ended
<1>6. \A g \in Taps :
        /\ tap'[g].pc = "handler" /\ tap'[g].task = "send" => <<tap'[g].content, None>> \in Ready'
        /\ tap'[g].pc = "handler" /\ tap'[g].task = "send_ad" => <<tap'[g].content, tap'[g].button>> \in Ready'
        /\ tap'[g].pc \in {"clear", "edit", "start"} => <<tap'[g].content, tap'[g].button>> \in Shown'
  BY <1>1, <1>3, <1>4, NoTapType DEF PreviewInv
<1>7. \A r \in Runs : run'[r] # None => <<run'[r].content, run'[r].button>> \in Shown'
  BY <1>3, <1>4 DEF PreviewInv
<1> QED
  BY <1>5, <1>6, <1>7 DEF PreviewInv

LEMMA EndedOnce ==
  ASSUME TypeInv, OnceInv, NEW h \in Taps, Ended(h)
  PROVE  OnceInv'
<1>1. tap'[h].pc = "idle" /\ \A g \in Taps \ {h} : tap'[g] = tap[g]
  BY EndedTypes, NoTapType
<1>2. PromptsStay /\ run' = run /\ reused \subseteq reused' /\ Used \subseteq Used'
  BY UsedStays DEF Ended, PromptsStay
<1>3. OncePerPrompt'
  BY <1>2 DEF OnceInv, OncePerPrompt
<1> QED
  BY <1>1, <1>2, <1>3 DEF OnceInv

\* Most handlers end, or go to another screen, without a prompt or a broadcast.
LEMMA Ending ==
  ASSUME TypeInv, NEW h \in Taps,
         \/ Announce(h) \/ Cancel(h) \/ StartCampaign(h) \/ ReceiveAdContent(h) \/ ChooseButton(h)
         \/ CustomButton(h) \/ PromptFails(h) \/ EditFails(h)
  PROVE  Ended(h)
<1>1. chat \in Chats /\ cut \in BOOLEAN /\ tap[h].arg \in Args
  BY DEF TypeInv, TapTypes
<1>2. \A state \in {"content", "choice", "label", "dest", "url"} :
        [chat EXCEPT !.state = state] \in Chats /\ [chat EXCEPT !.state = state].state = state
  BY <1>1 DEF Chats
<1>3. [Idle EXCEPT !.state = "ad_content"] \in Chats /\ [Idle EXCEPT !.state = "ad_content"].state = "ad_content"
  BY IdleType DEF Chats
<1>4. Replace(h) => PromptsStay
  BY ReplaceStays
<1>5. UNCHANGED <<prompt, reused>> => PromptsStay
  BY SameStays
<1>6. CASE Announce(h)
  BY <1>1, <1>2, <1>4, <1>6 DEF Announce, Handling, Ended
<1>7. CASE Cancel(h)
  BY <1>1, <1>4, <1>7, IdleType DEF Cancel, Clear, Handling, Ended
<1>8. CASE StartCampaign(h)
  BY <1>1, <1>3, <1>4, <1>8 DEF StartCampaign, Handling, Ended
<1>9. CASE ReceiveAdContent(h)
  BY <1>1, <1>5, <1>9 DEF ReceiveAdContent, Handling, Ended, Chats, Args
<1>10. CASE ChooseButton(h)
  BY <1>1, <1>2, <1>4, <1>10 DEF ChooseButton, Handling, Ended
<1>11. CASE CustomButton(h)
  BY <1>1, <1>2, <1>4, <1>11 DEF CustomButton, Handling, Ended
<1>12. CASE PromptFails(h)
  BY <1>1, <1>5, <1>12 DEF PromptFails, Ended
<1>13. CASE EditFails(h)
  BY <1>1, <1>5, <1>13 DEF EditFails, Ended
<1> QED
  BY <1>6, <1>7, <1>8, <1>9, <1>10, <1>11, <1>12, <1>13

-----------------------------------------------------------------------------
(* The way to a prompt *)

\* The conversation is ready to send, and the handler has yet to show it.
Asked(h, t) ==
    /\ Goes(h, t) /\ tap[h].pc = "handler" /\ t.pc = "prompt" /\ t.on = tap[h].on
    /\ chat' \in Chats
    /\ \/ chat'.state = "confirm" /\ <<chat'.content, None>> = <<t.content, t.button>>
       \/ chat'.state = "ad_confirm" /\ <<chat'.content, chat'.button>> = <<t.content, t.button>>
    /\ UNCHANGED <<prompt, run, cut, reused>>

LEMMA Asking ==
  ASSUME TypeInv, NEW h \in Taps, ReceiveContent(h) \/ Preview(h)
  PROVE  Ended(h) \/ \E t : Asked(h, t)
<1>1. chat \in Chats /\ tap[h] \in TapTypes /\ tap \in [Taps -> TapTypes] /\ cut \in BOOLEAN
  BY DEF TypeInv
<1>2. CASE ReceiveContent(h)
  <2>1. PICK t : t = [tap[h] EXCEPT !.pc = "prompt", !.content = tap[h].arg, !.button = None]
    OBVIOUS
  <2>2. t \in TapTypes /\ t.pc = "prompt" /\ t.on = tap[h].on /\ t.content = tap[h].arg /\ t.button = None
    BY <1>1, <2>1 DEF TapTypes, Args
  <2>3. tap' = [tap EXCEPT ![h] = t]
    BY <1>1, <1>2, <2>1 DEF ReceiveContent
  <2>4. chat' \in Chats /\ chat'.state = "confirm" /\ chat'.content = tap[h].arg
    BY <1>1, <1>2 DEF ReceiveContent, Chats, TapTypes
  <2> QED
    BY <1>2, <2>2, <2>3, <2>4 DEF ReceiveContent, Handling, Asked, Goes
<1>3. CASE Preview(h) /\ chat.content = None
  BY <1>1, <1>3, SameStays DEF Preview, Ended
<1>4. CASE Preview(h) /\ chat.content # None
  <2>1. PICK t : t = [tap[h] EXCEPT !.pc = "prompt", !.content = chat.content, !.button = tap[h].arg]
    OBVIOUS
  <2>2. t \in TapTypes /\ t.pc = "prompt" /\ t.on = tap[h].on /\ t.content = chat.content
        /\ t.button = tap[h].arg
    BY <1>1, <2>1 DEF TapTypes, Chats
  <2>3. tap' = [tap EXCEPT ![h] = t]
    BY <1>1, <1>4, <2>1 DEF Preview
  <2>4. chat' \in Chats /\ chat'.state = "ad_confirm" /\ chat'.content = chat.content
        /\ chat'.button = tap[h].arg
    BY <1>1, <1>4 DEF Preview, Chats, TapTypes
  <2> QED
    BY <1>4, <2>2, <2>3, <2>4 DEF Preview, Asked, Goes
<1> QED
  BY <1>2, <1>3, <1>4

LEMMA AskedStep ==
  ASSUME TypeInv, PreviewInv, OnceInv, NEW h \in Taps, NEW t, Asked(h, t)
  PROVE  TypeInv' /\ PreviewInv' /\ OnceInv'
<1>1. tap' \in [Taps -> TapTypes] /\ tap'[h] = t /\ \A g \in Taps \ {h} : tap'[g] = tap[g]
  BY TapGoes DEF Asked
<1>2. PromptsStay
  BY SameStays DEF Asked
<1>3. TypeInv'
  <2>1. tap[h].on # None => tap[h].on \in Prompts /\ prompt'[tap[h].on] # None
    BY DEF TypeInv, TapTypes, Asked
  <2>2. run' \in [Runs -> RunTypes \cup {None}] /\ cut' \in BOOLEAN
    BY DEF TypeInv, Asked
  <2> QED
    BY <1>2, <2>1, <2>2, GoesTypes DEF Asked
<1>4. PreviewInv'
  <2>1. SUFFICES ASSUME ~cut PROVE PreviewInv'
    BY DEF PreviewInv, Asked
  <2>2. Shown' = Shown /\ Ready \subseteq Ready' /\ <<t.content, t.button>> \in Ready'
    BY <1>1 DEF Shown, Coming, Ready, Asked
  <2> QED
    BY <1>1, <2>1, <2>2 DEF PreviewInv, Asked
<1>5. Used' = Used
  BY DEF Used, Asked
<1> QED
  BY <1>1, <1>3, <1>4, <1>5 DEF OnceInv, OncePerPrompt, Asked

LEMMA SendPromptStep ==
  ASSUME TypeInv, PreviewInv, OnceInv, NEW h \in Taps, NEW p \in Prompts, SendPrompt(h, p)
  PROVE  TypeInv' /\ PreviewInv' /\ OnceInv'
<1>1. PICK sent : sent = [flow |-> IF tap[h].task = "content" THEN "send" ELSE "send_ad",
                          content |-> tap[h].content, button |-> tap[h].button, shows |-> "prompt"]
  OBVIOUS
<1>2. sent \in PromptTypes /\ sent # None
  BY <1>1, OutreachAssumption DEF PromptTypes, Sends, TypeInv, TapTypes
<1>3. prompt' = [prompt EXCEPT ![p] = sent] /\ prompt[p] = None /\ prompt \in [Prompts -> PromptTypes \cup {None}]
  BY <1>1 DEF SendPrompt, TypeInv
<1>4. PromptsStay
  BY <1>2, <1>3 DEF PromptsStay, SendPrompt, TypeInv
<1>5. Goes(h, NoTap) /\ tap' \in [Taps -> TapTypes] /\ tap'[h] = NoTap /\ \A g \in Taps \ {h} : tap'[g] = tap[g]
  BY NoTapType, TapGoes DEF SendPrompt, Ends, Goes
<1>6. TypeInv'
  <2>1. chat' \in Chats /\ run' \in [Runs -> RunTypes \cup {None}] /\ cut' \in BOOLEAN
    BY DEF SendPrompt, TypeInv
  <2> QED
    BY <1>4, <1>5, <2>1, NoTapType, GoesTypes
<1>7. PreviewInv'
  <2>1. SUFFICES ASSUME ~cut PROVE PreviewInv'
    BY DEF PreviewInv, SendPrompt
  <2>2. Shown \subseteq Shown' /\ <<tap[h].content, tap[h].button>> \in Shown'
    BY <1>1, <1>2, <1>3, <1>4, ShownStays DEF Shown
  <2>3. Ready \subseteq Ready'
    BY <1>5, <2>2 DEF Coming, Ready
  <2> QED
    BY <1>5, <2>1, <2>2, <2>3, NoTapType DEF PreviewInv, SendPrompt
<1>8. Used \subseteq Used'
  BY <1>4, UsedStays
<1> QED
  BY <1>5, <1>6, <1>7, <1>8, NoTapType DEF OnceInv, OncePerPrompt, SendPrompt

-----------------------------------------------------------------------------
(* The Send button *)

LEMMA ReadDataStep ==
  ASSUME TypeInv, PreviewInv, OnceInv, NEW h \in Taps, ReadData(h)
  PROVE  TypeInv' /\ PreviewInv' /\ OnceInv'
<1>1. chat \in Chats /\ tap[h] \in TapTypes /\ cut' \in BOOLEAN /\ (cut => cut') /\ PromptsStay
      /\ run' \in [Runs -> RunTypes \cup {None}]
  BY SameStays DEF TypeInv, ReadData
<1>2. CASE chat.content = None
  <2>1. Ended(h)
    BY <1>1, <1>2 DEF ReadData, Ended, Ends
  <2> QED
    BY <2>1, EndedTypes, EndedPreviews, EndedOnce
<1>3. CASE chat.content # None
  <2>1. PICK t : t = [tap[h] EXCEPT !.pc = "clear", !.content = chat.content,
                                    !.button = IF tap[h].task = "send" THEN None ELSE chat.button]
    OBVIOUS
  <2>2. t \in TapTypes /\ t.pc = "clear" /\ t.on = tap[h].on /\ t.content = chat.content
        /\ t.button = (IF tap[h].task = "send" THEN None ELSE chat.button)
    BY <1>1, <2>1 DEF TapTypes, Chats, Args
  <2>3. Goes(h, t)
    BY <1>1, <1>3, <2>1, <2>2 DEF ReadData, Goes, TypeInv
  <2>4. tap' \in [Taps -> TapTypes] /\ tap'[h] = t /\ \A g \in Taps \ {h} : tap'[g] = tap[g]
    BY <2>3, TapGoes
  <2>5. tap[h].on \in Prompts /\ prompt'[tap[h].on] # None
    BY OutreachAssumption DEF TypeInv, ToSend, ReadData
  <2>6. TypeInv'
    BY <1>1, <2>2, <2>3, <2>5, GoesTypes DEF ReadData
  <2>7. PreviewInv'
    <3>1. SUFFICES ASSUME ~cut' PROVE PreviewInv'
      BY DEF PreviewInv
    <3>2. /\ ~cut /\ \A g \in Taps : tap[g].pc # "prompt"
          /\ tap[h].content = chat.content /\ tap[h].button = chat.button
      BY <3>1 DEF ReadData
    <3>3. Shown' = Shown /\ Coming' = {} /\ Coming = {}
      BY <3>2, <2>2, <2>4 DEF Shown, Coming, ReadData
    <3>4. <<t.content, t.button>> \in Shown
      BY <2>2, <3>2, <3>3 DEF PreviewInv, Ready, ReadData, Sends
    <3>5. Ready' = Ready
      BY <3>3 DEF Ready
    <3>6. \A g \in Taps :
            /\ tap'[g].pc = "handler" /\ tap'[g].task = "send" => <<tap'[g].content, None>> \in Ready
            /\ tap'[g].pc = "handler" /\ tap'[g].task = "send_ad" => <<tap'[g].content, tap'[g].button>> \in Ready
            /\ tap'[g].pc \in {"clear", "edit", "start"} => <<tap'[g].content, tap'[g].button>> \in Shown
      BY <2>2, <2>4, <3>2, <3>4 DEF PreviewInv
    <3> QED
      BY <3>2, <3>3, <3>5, <3>6 DEF PreviewInv, ReadData
  <2>8. Used' = Used
    BY DEF Used, ReadData
  <2> QED
    BY <2>2, <2>4, <2>6, <2>7, <2>8 DEF OnceInv, OncePerPrompt, ReadData
<1> QED
  BY <1>2, <1>3

LEMMA ClearDataStep ==
  ASSUME TypeInv, PreviewInv, OnceInv, NEW h \in Taps, ClearData(h)
  PROVE  TypeInv' /\ PreviewInv' /\ OnceInv'
<1>1. PICK t : t = [tap[h] EXCEPT !.pc = "edit"]
  OBVIOUS
<1>2. t \in TapTypes /\ t.pc = "edit" /\ t.on = tap[h].on /\ t.content = tap[h].content
      /\ t.button = tap[h].button
  BY <1>1 DEF TapTypes, TypeInv
<1>3. Goes(h, t) /\ PromptsStay /\ run' \in [Runs -> RunTypes \cup {None}] /\ cut' \in BOOLEAN
  BY <1>1, <1>2, SameStays DEF ClearData, Goes, TypeInv
<1>4. tap' \in [Taps -> TapTypes] /\ tap'[h] = t /\ \A g \in Taps \ {h} : tap'[g] = tap[g]
  BY <1>3, TapGoes
<1>5. TypeInv'
  <2>1. tap[h].on \in Prompts /\ prompt'[tap[h].on] # None /\ chat' \in Chats
    BY OutreachAssumption, IdleType DEF TypeInv, ToSend, ClearData, Clear
  <2> QED
    BY <1>2, <1>3, <2>1, GoesTypes
<1>6. PreviewInv'
  <2>1. Shown' = Shown /\ Ready' = Ready
    BY <1>2, <1>4 DEF Shown, Coming, Ready, ClearData
  <2> QED
    BY <1>2, <1>4, <2>1, IdleType DEF PreviewInv, ClearData, Clear
<1>7. Used' = Used
  BY DEF Used, ClearData
<1> QED
  BY <1>2, <1>4, <1>5, <1>6, <1>7 DEF OnceInv, OncePerPrompt, ClearData

\* The edit that Telegram accepts: no other tap on this prompt has had it, and
\* no broadcast, unless "started" was overwritten.
LEMMA EditPromptStep ==
  ASSUME TypeInv, PreviewInv, OnceInv, NEW h \in Taps, EditPrompt(h)
  PROVE  TypeInv' /\ PreviewInv' /\ OnceInv'
<1>1. PICK t : t = [tap[h] EXCEPT !.pc = "start"]
  OBVIOUS
<1>2. t \in TapTypes /\ t.pc = "start" /\ t.on = tap[h].on /\ t.content = tap[h].content
      /\ t.button = tap[h].button
  BY <1>1 DEF TapTypes, TypeInv
<1>3. Goes(h, t) /\ run' \in [Runs -> RunTypes \cup {None}] /\ cut' \in BOOLEAN /\ chat' \in Chats
  BY <1>1, <1>2 DEF EditPrompt, Goes, TypeInv
<1>4. tap' \in [Taps -> TapTypes] /\ tap'[h] = t /\ \A g \in Taps \ {h} : tap'[g] = tap[g]
  BY <1>3, TapGoes
<1>5. PICK p \in Prompts : p = tap[h].on /\ prompt[p] # None
  BY OutreachAssumption DEF TypeInv, ToSend, EditPrompt
<1>6. /\ prompt' \in [Prompts -> PromptTypes \cup {None}]
      /\ prompt'[p] # None /\ prompt'[p].content = prompt[p].content
      /\ prompt'[p].button = prompt[p].button /\ prompt'[p].shows = "started"
      /\ \A q \in Prompts \ {p} : prompt'[q] = prompt[q]
  BY <1>5, Shows DEF EditPrompt
<1>7. PromptsStay /\ Used \subseteq Used' /\ p \in Used'
  <2>1. PromptsStay
    BY <1>6 DEF PromptsStay, EditPrompt, TypeInv
  <2> QED
    BY <1>6, <2>1, UsedStays DEF Used
<1>8. TypeInv'
  BY <1>2, <1>3, <1>5, <1>6, <1>7, GoesTypes
<1>9. PreviewInv'
  <2>1. Shown \subseteq Shown' /\ Ready \subseteq Ready'
    BY <1>2, <1>4, <1>7, ShownStays DEF Coming, Ready, EditPrompt
  <2> QED
    BY <1>2, <1>4, <2>1 DEF PreviewInv, EditPrompt
<1>10. p \in Used => p \in reused
  BY <1>5 DEF Used, EditPrompt
<1> QED
  BY <1>2, <1>4, <1>5, <1>7, <1>8, <1>9, <1>10 DEF OnceInv, OncePerPrompt, EditPrompt

LEMMA StartRunStep ==
  ASSUME TypeInv, PreviewInv, OnceInv, NEW h \in Taps, NEW r \in Runs, StartRun(h, r)
  PROVE  TypeInv' /\ PreviewInv' /\ OnceInv'
<1>1. PICK new : new = [pc |-> "select", by |-> tap[h].on, content |-> tap[h].content,
                        button |-> tap[h].button, todo |-> {}, count |-> 0, sent |-> 0, failed |-> 0]
  OBVIOUS
<1>2. new \in RunTypes /\ new # None
  <2>1. tap[h].on \in Prompts /\ tap[h] \in TapTypes
    BY DEF TypeInv, ToSend, StartRun
  <2> QED
    BY <1>1, <2>1, OutreachAssumption DEF RunTypes, TapTypes
<1>3. /\ run' = [run EXCEPT ![r] = new] /\ run' \in [Runs -> RunTypes \cup {None}]
      /\ run'[r] = new /\ \A s \in Runs \ {r} : run'[s] = run[s]
  BY <1>1, <1>2 DEF StartRun, TypeInv
<1>4. Goes(h, NoTap) /\ tap'[h] = NoTap /\ \A g \in Taps \ {h} : tap'[g] = tap[g]
  BY NoTapType, TapGoes DEF StartRun, Ends, Goes
<1>5. PromptsStay /\ Shown' = Shown /\ Used' = Used
  BY SameStays DEF StartRun, Shown, Used
<1>6. TypeInv'
  <2>1. chat' \in Chats /\ cut' \in BOOLEAN
    BY DEF StartRun, TypeInv
  <2> QED
    BY <1>3, <1>4, <1>5, <2>1, NoTapType, GoesTypes
<1>7. PreviewInv'
  <2>1. SUFFICES ASSUME ~cut PROVE PreviewInv'
    BY DEF PreviewInv, StartRun
  <2>2. Ready \subseteq Ready'
    BY <1>4, <1>5 DEF Coming, Ready, StartRun
  <2>3. <<new.content, new.button>> \in Shown'
    BY <1>1, <1>5, <2>1 DEF PreviewInv, StartRun
  <2> QED
    BY <1>3, <1>4, <1>5, <2>1, <2>2, <2>3, NoTapType DEF PreviewInv, StartRun
<1>8. new.by = tap[h].on /\ tap[h].pc = "start" /\ tap[h].on \in Used
  BY <1>1 DEF StartRun, OnceInv
<1>9. OncePerPrompt'
  BY <1>2, <1>3, <1>8 DEF OnceInv, OncePerPrompt, StartRun
<1>10. \A g \in Taps, s \in Runs : tap'[g].pc = "start" /\ run'[s] # None =>
                                     tap'[g].on # run'[s].by \/ tap'[g].on \in reused
  BY <1>3, <1>4, <1>8, NoTapType DEF OnceInv
<1> QED
  BY <1>3, <1>4, <1>5, <1>6, <1>7, <1>8, <1>9, <1>10, NoTapType DEF OnceInv, StartRun

-----------------------------------------------------------------------------
(* Arrivals, the broadcasts and restarts *)

LEMMA TapStep ==
  ASSUME TypeInv, PreviewInv, OnceInv, NEW h \in Taps, Tap(h)
  PROVE  TypeInv' /\ PreviewInv' /\ OnceInv'
<1>1. /\ tap' \in [Taps -> TapTypes] /\ \A g \in Taps \ {h} : tap'[g] = tap[g]
      /\ tap[h].pc = "idle" /\ tap'[h].pc = "handler"
      /\ tap'[h].on # None => tap'[h].on \in Prompts /\ prompt[tap'[h].on] # None
      /\ UNCHANGED <<chat, prompt, run, blocked, cut, reused>>
  BY Arrived
<1>2. tap'[h].task \in Sends =>
        /\ tap'[h].on \in Prompts
        /\ tap'[h].content = chat.content /\ tap'[h].button = chat.button
        /\ tap'[h].task = "send" => chat.state = "confirm"
        /\ tap'[h].task = "send_ad" => chat.state = "ad_confirm"
  BY Arrived
<1>3. TypeInv'
  <2>1. \A g \in Taps : ToSend(g)' => tap'[g].on \in Prompts
    BY <1>1, <1>2 DEF TypeInv, ToSend
  <2> QED
    BY <1>1, <2>1 DEF TypeInv
<1>4. PreviewInv'
  <2>1. SUFFICES ASSUME ~cut PROVE PreviewInv'
    BY <1>1 DEF PreviewInv
  <2>2. Shown' = Shown /\ Ready' = Ready
    BY <1>1 DEF Shown, Coming, Ready
  <2>3. /\ tap'[h].task = "send" => <<tap'[h].content, None>> \in Ready
        /\ tap'[h].task = "send_ad" => <<tap'[h].content, tap'[h].button>> \in Ready
    BY <1>2, <2>1 DEF PreviewInv, Sends
  <2> QED
    BY <1>1, <2>1, <2>2, <2>3 DEF PreviewInv
<1>5. Used' = Used
  BY <1>1 DEF Used
<1> QED
  BY <1>1, <1>3, <1>4, <1>5 DEF OnceInv, OncePerPrompt

\* What broadcasts were started with stays; the handlers stay, or a restart
\* ends them all.
RunsStay ==
    /\ run' \in [Runs -> RunTypes \cup {None}]
    /\ \A r \in Runs : IF run[r] = None THEN run'[r] = None
                       ELSE /\ run'[r] # None /\ run'[r].by = run[r].by
                            /\ run'[r].content = run[r].content /\ run'[r].button = run[r].button
    /\ cut' \in BOOLEAN /\ (cut => cut')
    /\ \/ tap' = tap
       \/ tap' = [h \in Taps |-> NoTap] /\ ((\E h \in Taps : tap[h].pc = "prompt") => cut')
    /\ UNCHANGED <<chat, prompt, reused>>

LEMMA RunsStayStep ==
  ASSUME TypeInv, PreviewInv, OnceInv, RunsStay
  PROVE  TypeInv' /\ PreviewInv' /\ OnceInv'
<1>1. tap' \in [Taps -> TapTypes] /\ \A h \in Taps : tap'[h] = tap[h] \/ tap'[h] = NoTap
  BY NoTapType DEF RunsStay, TypeInv
<1>2. TypeInv'
  <2>1. \A h \in Taps : ToSend(h)' => tap'[h].on \in Prompts
    BY <1>1, NoTapType DEF TypeInv, ToSend, Sends
  <2> QED
    BY <1>1, <2>1, NoTapType DEF TypeInv, RunsStay
<1>3. PreviewInv'
  <2>1. SUFFICES ASSUME ~cut' PROVE PreviewInv'
    BY DEF PreviewInv
  <2>2. ~cut /\ Shown' = Shown
    BY <2>1 DEF RunsStay, Shown
  <2>3. Ready' = Ready
    <3>1. CASE tap' = tap
      BY <2>2, <3>1 DEF Ready, Coming
    <3>2. CASE tap' = [h \in Taps |-> NoTap] /\ ~\E h \in Taps : tap[h].pc = "prompt"
      BY <2>2, <3>2, NoTapType DEF Ready, Coming
    <3> QED
      BY <2>1, <3>1, <3>2 DEF RunsStay
  <2>4. \A r \in Runs : run'[r] # None => <<run'[r].content, run'[r].button>> \in Shown
    BY <2>2 DEF PreviewInv, RunsStay
  <2>5. \A g \in Taps :
          /\ tap'[g].pc = "handler" /\ tap'[g].task = "send" => <<tap'[g].content, None>> \in Ready
          /\ tap'[g].pc = "handler" /\ tap'[g].task = "send_ad" => <<tap'[g].content, tap'[g].button>> \in Ready
          /\ tap'[g].pc \in {"clear", "edit", "start"} => <<tap'[g].content, tap'[g].button>> \in Shown
    BY <1>1, <2>2, NoTapType DEF PreviewInv
  <2> QED
    BY <2>2, <2>3, <2>4, <2>5 DEF PreviewInv, RunsStay
<1>4. Used' = Used
  BY DEF Used, RunsStay
<1>5. OncePerPrompt'
  BY DEF OnceInv, OncePerPrompt, RunsStay
<1> QED
  BY <1>1, <1>2, <1>3, <1>4, <1>5, NoTapType DEF OnceInv, RunsStay

LEMMA RunsGoOn ==
  ASSUME TypeInv, \/ \E r \in Runs : Sending(r)
                  \/ Restart
                  \/ \E u \in Users : SetBlocked(u)
                  \/ UNCHANGED vars
  PROVE  RunsStay
<1>1. ASSUME NEW r \in Runs, run[r] # None, NEW t \in RunTypes, run' = [run EXCEPT ![r] = t],
             t.by = run[r].by, t.content = run[r].content, t.button = run[r].button,
             UNCHANGED <<chat, tap, prompt, blocked, cut, reused>>
      PROVE  RunsStay
  BY <1>1, OutreachAssumption DEF TypeInv, RunsStay
<1>2. ASSUME NEW r \in Runs, Sending(r) PROVE RunsStay
  <2>0. run[r] # None /\ run[r] \in RunTypes
    BY <1>2 DEF Sending, SelectRecipients, QueryFails, SendOne, SendFails, Summary, SummaryFails, RunAt,
                TypeInv
  <2>1. CASE SelectRecipients(r)
    <3>1. PICK t : t = [run[r] EXCEPT !.pc = "sending", !.todo = Users \ blocked,
                                      !.count = Cardinality(Users \ blocked)]
      OBVIOUS
    <3>2. Cardinality(Users \ blocked) \in Nat
      BY OutreachAssumption, FS_Difference, FS_CardinalityType
    <3>3. t \in RunTypes /\ t.by = run[r].by /\ t.content = run[r].content /\ t.button = run[r].button
      BY <2>0, <3>1, <3>2 DEF RunTypes
    <3>4. run' = [run EXCEPT ![r] = t]
      BY <2>1, <3>1 DEF SelectRecipients, TypeInv
    <3> QED
      BY <1>1, <2>0, <2>1, <3>3, <3>4 DEF SelectRecipients
  <2>2. ASSUME NEW u \in Users, SendOne(r, u) PROVE RunsStay
    <3>1. PICK t : t = [run[r] EXCEPT !.todo = run[r].todo \ {u}, !.sent = run[r].sent + 1]
      OBVIOUS
    <3>2. t \in RunTypes /\ t.by = run[r].by /\ t.content = run[r].content /\ t.button = run[r].button
      <4>1. run[r].todo \ {u} \in SUBSET Users /\ run[r].sent + 1 \in Nat
        BY <2>0 DEF RunTypes
      <4> QED
        BY <2>0, <3>1, <4>1 DEF RunTypes
    <3>3. run' = [run EXCEPT ![r] = t]
      BY <2>0, <2>2, <3>1 DEF SendOne, TypeInv, RunTypes
    <3> QED
      BY <1>1, <2>0, <2>2, <3>2, <3>3 DEF SendOne
  <2>3. ASSUME NEW u \in Users, SendFails(r, u) PROVE RunsStay
    <3>1. PICK t : t = [run[r] EXCEPT !.todo = run[r].todo \ {u}, !.failed = run[r].failed + 1]
      OBVIOUS
    <3>2. t \in RunTypes /\ t.by = run[r].by /\ t.content = run[r].content /\ t.button = run[r].button
      <4>1. run[r].todo \ {u} \in SUBSET Users /\ run[r].failed + 1 \in Nat
        BY <2>0 DEF RunTypes
      <4> QED
        BY <2>0, <3>1, <4>1 DEF RunTypes
    <3>3. run' = [run EXCEPT ![r] = t]
      BY <2>0, <2>3, <3>1 DEF SendFails, TypeInv, RunTypes
    <3> QED
      BY <1>1, <2>0, <2>3, <3>2, <3>3 DEF SendFails
  <2>4. CASE QueryFails(r) \/ Summary(r) \/ SummaryFails(r)
    <3>1. PICK pc \in {"died", "done", "unreported"} : run' = [run EXCEPT ![r].pc = pc]
      BY <2>4 DEF QueryFails, Summary, SummaryFails
    <3>2. PICK t : t = [run[r] EXCEPT !.pc = pc]
      OBVIOUS
    <3>3. t \in RunTypes /\ t.by = run[r].by /\ t.content = run[r].content /\ t.button = run[r].button
      BY <2>0, <3>2 DEF RunTypes
    <3>4. run' = [run EXCEPT ![r] = t]
      BY <3>1, <3>2 DEF TypeInv
    <3> QED
      BY <1>1, <2>0, <2>4, <3>3, <3>4 DEF QueryFails, Summary, SummaryFails
  <2> QED
    BY <1>2, <2>1, <2>2, <2>3, <2>4 DEF Sending
<1>3. CASE Restart
  <2>1. ASSUME NEW r \in Runs
        PROVE  /\ run'[r] \in RunTypes \cup {None}
               /\ IF run[r] = None THEN run'[r] = None
                  ELSE /\ run'[r] # None /\ run'[r].by = run[r].by
                       /\ run'[r].content = run[r].content /\ run'[r].button = run[r].button
    <3>1. run'[r] = IF RunAt(r, "select") \/ RunAt(r, "sending") THEN [run[r] EXCEPT !.pc = "lost"] ELSE run[r]
      BY <1>3 DEF Restart
    <3>2. run[r] \in RunTypes \cup {None}
      BY DEF TypeInv
    <3> QED
      BY <3>1, <3>2, OutreachAssumption DEF RunTypes, RunAt
  <2>2. run' \in [Runs -> RunTypes \cup {None}]
    <3>1. run' = [r \in Runs |-> run'[r]]
      BY <1>3 DEF Restart
    <3> QED
      BY <2>1, <3>1
  <2> QED
    BY <1>3, <2>1, <2>2 DEF Restart, RunsStay, TypeInv
<1>4. CASE \E u \in Users : SetBlocked(u)
  BY <1>4 DEF SetBlocked, RunsStay, TypeInv
<1>5. CASE UNCHANGED vars
  BY <1>5 DEF vars, RunsStay, TypeInv
<1> QED
  BY <1>2, <1>3, <1>4, <1>5

-----------------------------------------------------------------------------
(* Theorems *)

LEMMA Initially == ASSUME Init PROVE TypeInv /\ PreviewInv /\ OnceInv
<1>1. TypeInv
  BY NoTapType, IdleType DEF Init, TypeInv, ToSend, Sends
<1>2. PreviewInv /\ OnceInv
  BY NoTapType, IdleType DEF Init, PreviewInv, OnceInv, OncePerPrompt
<1> QED
  BY <1>1, <1>2

LEMMA Step ==
  ASSUME TypeInv, PreviewInv, OnceInv, [Next]_vars
  PROVE  TypeInv' /\ PreviewInv' /\ OnceInv'
<1>1. CASE \E h \in Taps : Tap(h)
  BY <1>1, TapStep
<1>2. CASE Handlers
  <2>1. PICK h \in Taps :
          \/ Announce(h) \/ ReceiveContent(h) \/ Cancel(h) \/ StartCampaign(h) \/ ReceiveAdContent(h)
          \/ ChooseButton(h) \/ CustomButton(h) \/ Preview(h) \/ PromptFails(h)
          \/ \E p \in Prompts : SendPrompt(h, p)
          \/ ReadData(h) \/ ClearData(h) \/ EditPrompt(h) \/ EditFails(h)
          \/ \E r \in Runs : StartRun(h, r)
    BY <1>2 DEF Handlers
  <2>2. Ended(h) => TypeInv' /\ PreviewInv' /\ OnceInv'
    BY EndedTypes, EndedPreviews, EndedOnce
  <2>3. CASE ReceiveContent(h) \/ Preview(h)
    BY <2>2, <2>3, Asking, AskedStep
  <2>4. CASE \E p \in Prompts : SendPrompt(h, p)
    BY <2>4, SendPromptStep
  <2>5. CASE ReadData(h)
    BY <2>5, ReadDataStep
  <2>6. CASE ClearData(h)
    BY <2>6, ClearDataStep
  <2>7. CASE EditPrompt(h)
    BY <2>7, EditPromptStep
  <2>8. CASE \E r \in Runs : StartRun(h, r)
    BY <2>8, StartRunStep
  <2> QED
    BY <2>1, <2>2, <2>3, <2>4, <2>5, <2>6, <2>7, <2>8, Ending
<1>3. CASE \/ \E r \in Runs : Sending(r)
           \/ Restart
           \/ \E u \in Users : SetBlocked(u)
           \/ UNCHANGED vars
  BY <1>3, RunsGoOn, RunsStayStep
<1> QED
  BY <1>1, <1>2, <1>3 DEF Next

LEMMA Invariant == Spec => [](TypeInv /\ PreviewInv /\ OnceInv)
BY Initially, Step, PTL DEF Spec

\* A Send button starts one broadcast at most, however many admins' taps meet
\* on it: only a Cancel or Back that puts its screen over "started" undoes the
\* guard that Telegram's refusal of an identical edit is (broadcast_confirm_cb).
THEOREM OncePerPromptAlways == Spec => []OncePerPrompt
<1>1. OnceInv => OncePerPrompt
  BY DEF OnceInv
<1> QED
  BY <1>1, Invariant, PTL

\* Nothing is broadcast that no prompt has shown, content and button together,
\* while no preview was cut short and no data changed under a tap.
THEOREM SentWasPreviewedAlways == Spec => []SentWasPreviewed
<1>1. PreviewInv => SentWasPreviewed
  BY DEF PreviewInv, SentWasPreviewed, Shown
<1> QED
  BY <1>1, Invariant, PTL

\* A broadcast, and a tap that is about to start one, has put "started" on the
\* prompt it came from: nobody else finds a Send button there, until a Cancel
\* or Back that was already under way writes its own screen over it.
StartedSaysSo ==
    /\ \A r \in Runs : run[r] # None => prompt[run[r].by].shows = "started" \/ run[r].by \in reused
    /\ \A h \in Taps : tap[h].pc = "start" =>
                         prompt[tap[h].on].shows = "started" \/ tap[h].on \in reused

THEOREM StartedSaysSoAlways == Spec => []StartedSaysSo
<1>1. OnceInv => StartedSaysSo
  BY DEF OnceInv, Used, StartedSaysSo
<1> QED
  BY <1>1, Invariant, PTL
=============================================================================
