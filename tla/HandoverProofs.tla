--------------------------- MODULE HandoverProofs ---------------------------
(***************************************************************************)
(* What a customer is handed: accounts, for every number of accounts,      *)
(* orders, confirmations, messages and taps at once; and then setup        *)
(* material, for every number of protocols, devices, screens and handlers  *)
(* at once.                                                                *)
(***************************************************************************)
EXTENDS Handover, Guides, FiniteSetTheorems, SequenceTheorems, TLAPS

Buttons == {"confirm", "platform", "protocol", "legacy", "menu", "closing", "bare"}
Labels == {"idle", "check", "create", "add", "name", "insert", "picker",
           "protocols", "back", "deliver", "send", "setup"}

\* TypeOK in the groups that actions leave alone together.
TrialType ==
    /\ ibsng \in [Accounts -> {"none", "nameless", "named"}]
    /\ rows \subseteq Accounts /\ latest \in rows \cup {None}
    /\ enforced \in BOOLEAN /\ switches \in 0..MaxSwitches /\ waived \in 0..Cap
OrderType == opening \in [Openings -> {"open", "paid", "prompt", "done"}]
MessageType ==
    /\ keyboard \in [Messages -> Buttons]
    /\ refers \in [Messages -> Accounts \cup Orders \cup {None}]
    /\ armed \in [Messages -> 0..Cap]
SentType ==
    /\ ran \in [Messages -> [Accounts \cup Orders -> 0..Cap]]
    /\ credentials \in [Accounts \cup Orders -> 0..Cap]
TapType ==
    /\ pc \in [Taps -> Labels]
    /\ msg \in [Taps -> Messages \cup {None}]
    /\ acc \in [Taps -> Accounts \cup Orders \cup {None}]
    /\ choice \in [Taps -> Choice \cup {None}]
    /\ attempt \in [Taps -> 0..(MaxAttempts - 1)]

\* What a tap in progress knows: its message; the account it creates; the
\* account its buttons named, which works; what was chosen.
TapOK(h) ==
    /\ pc[h] # "idle" => msg[h] \in Messages
    /\ pc[h] = "name" => acc[h] \in Accounts
    /\ pc[h] = "insert" => acc[h] \in Accounts /\ ibsng[acc[h]] = "named"
    /\ pc[h] = "picker" => acc[h] \in rows
    /\ pc[h] \in {"protocols", "back", "deliver", "send", "setup"} => acc[h] \in rows \cup Orders
    /\ pc[h] = "deliver" => choice[h] \in Choice

TapInv == \A h \in Taps : TapOK(h)

\* Accounts with a row work; buttons and credentials are for those, and for
\* orders.
WorksInv ==
    /\ \A a \in rows : ibsng[a] = "named"
    /\ \A m \in Messages : /\ refers[m] \in rows \cup Orders \cup {None}
                           /\ keyboard[m] \in {"platform", "protocol"} => refers[m] # None
    /\ \A a \in Accounts : credentials[a] > 0 => a \in rows

Types == TrialType /\ OrderType /\ MessageType /\ SentType /\ TapType

CustomerInv == Types /\ TapInv /\ WorksInv

-----------------------------------------------------------------------------
(* What the steps are made of *)

LEMMA TypeGroups == Types => TypeOK
BY DEF TypeOK, Types, TrialType, OrderType, MessageType, SentType, TapType, Buttons, Labels

LEMMA BumpType ==
  ASSUME NEW n \in 0..Cap
  PROVE  Bump(n) \in 1..Cap /\ n <= Bump(n) /\ (n < Cap => Bump(n) = n + 1)
BY CapAssumption DEF Bump

\* Nothing is taken back: a row stays, and an account keeps its name.
Grows ==
    /\ rows \subseteq rows'
    /\ \A a \in Accounts : ibsng[a] = "named" => ibsng'[a] = "named"

\* A step of one tap leaves the others alone.
Alone(h) ==
    \A g \in Taps \ {h} : /\ pc'[g] = pc[g] /\ msg'[g] = msg[g]
                          /\ acc'[g] = acc[g] /\ choice'[g] = choice[g]

LEMMA TapStep ==
  ASSUME TapInv, NEW h \in Taps, Alone(h), Grows, TapOK(h)'
  PROVE  TapInv'
<1> SUFFICES ASSUME NEW g \in Taps, g # h PROVE TapOK(g)'
  BY DEF TapInv
<1>1. TapOK(g) /\ pc'[g] = pc[g] /\ msg'[g] = msg[g] /\ acc'[g] = acc[g] /\ choice'[g] = choice[g]
  BY DEF TapInv, Alone
<1> QED
  BY <1>1 DEF TapOK, Grows

LEMMA EndStep ==
  ASSUME TapType, TapInv, NEW h \in Taps, End(h), Grows
  PROVE  TapType' /\ TapInv'
<1>1. TapType'
  BY DEF TapType, End, Goto, Labels, MaxAttempts
<1>2. Alone(h) /\ pc'[h] = "idle"
  BY DEF TapType, End, Goto, Alone
<1>3. TapOK(h)'
  BY <1>2 DEF TapOK
<1> QED
  BY <1>1, <1>2, <1>3, TapStep

\* A tap goes on, with an account, a choice or an attempt that it may have new.
LEMMA GoStep ==
  ASSUME TapType, TapInv, Grows, NEW h \in Taps, NEW label \in Labels,
         Goto(h, label), UNCHANGED <<msg, choice>>, attempt' \in [Taps -> 0..(MaxAttempts - 1)],
         NEW a \in Accounts \cup Orders \cup {None}, acc' = [acc EXCEPT ![h] = a],
         label = "idle" \/ msg[h] \in Messages,
         label = "name" => a \in Accounts,
         label = "insert" => a \in Accounts /\ ibsng'[a] = "named",
         label = "picker" => a \in rows',
         label \in {"protocols", "back", "deliver", "send", "setup"} => a \in rows' \cup Orders,
         label = "deliver" => choice[h] \in Choice
  PROVE  TapType' /\ TapInv'
<1>1. TapType'
  BY DEF TapType, Goto
<1>2. Alone(h) /\ pc'[h] = label /\ acc'[h] = a
  BY DEF TapType, Goto, Alone
<1>3. TapOK(h)'
  BY <1>2 DEF TapOK
<1> QED
  BY <1>1, <1>2, <1>3, TapStep

LEMMA ArmType ==
  ASSUME MessageType, NEW m \in Messages, NEW b \in Buttons, Arm(m, b), refers' = refers
  PROVE  MessageType'
BY BumpType DEF MessageType, Arm

LEMMA ShowType ==
  ASSUME MessageType, NEW m \in Messages, NEW b \in Buttons,
         NEW a \in Accounts \cup Orders, Show(m, b, a)
  PROVE  MessageType'
BY BumpType DEF MessageType, Arm, Show

LEMMA BeginStep ==
  ASSUME CustomerInv, NEW h \in Taps, NEW m \in Messages,
         NEW label \in {"check", "protocols", "back", "deliver"},
         NEW a \in rows \cup Orders \cup {None}, NEW c \in Choice \cup {None},
         Begin(h, m, label, a, c),
         label # "check" => a \in rows \cup Orders, label = "deliver" => c \in Choice
  PROVE  CustomerInv'
<1>1. TrialType' /\ OrderType' /\ MessageType' /\ SentType' /\ Grows
  BY DEF CustomerInv, Types, Begin, TrialType, OrderType, MessageType, SentType, Grows,
     trialVars, accountVars, limitVars, messageVars, sentVars
<1>2. TapType' /\ Alone(h) /\ pc'[h] = label /\ msg'[h] = m /\ acc'[h] = a /\ choice'[h] = c
  BY DEF CustomerInv, Types, Begin, TapType, Labels, Goto, Alone, TrialType
<1>3. TapOK(h)'
  BY <1>2 DEF TapOK, Begin, trialVars, accountVars
<1>4. TapInv'
  BY <1>1, <1>2, <1>3, TapStep DEF CustomerInv
<1>5. WorksInv'
  BY DEF CustomerInv, WorksInv, Begin, trialVars, accountVars, messageVars, sentVars
<1> QED
  BY <1>1, <1>2, <1>4, <1>5 DEF CustomerInv, Types

LEMMA CustomerInit == Init => CustomerInv
<1> SUFFICES ASSUME Init PROVE CustomerInv
  OBVIOUS
<1> USE CapAssumption DEF Init
<1>1. TrialType /\ OrderType
  BY DEF TrialType, OrderType
<1>a. \A e \in Openings : OrderOf(e) \in Orders /\ e \notin Screens /\ e \notin Legacy
  BY MessageAssumption DEF Openings, OrderOf
<1>2. keyboard \in [Messages -> Buttons] /\ refers \in [Messages -> Accounts \cup Orders \cup {None}]
  BY <1>a DEF Buttons
<1>3. armed \in [Messages -> 0..Cap]
  OBVIOUS
<1>4. SentType
  BY DEF SentType
<1>5. TapType
  BY DEF TapType, Labels, MaxAttempts
<1>6. TapInv
  BY DEF TapInv, TapOK
<1>7. \A m \in Messages : /\ refers[m] \in rows \cup Orders \cup {None}
                          /\ keyboard[m] \in {"platform", "protocol"} => refers[m] # None
  BY <1>a DEF Messages
<1>8. (\A a \in rows : ibsng[a] = "named") /\ (\A a \in Accounts : credentials[a] > 0 => a \in rows)
  OBVIOUS
<1> QED
  BY <1>1, <1>2, <1>3, <1>4, <1>5, <1>6, <1>7, <1>8 DEF CustomerInv, Types, MessageType, WorksInv

-----------------------------------------------------------------------------
(* Every step keeps the invariant *)

\* What a step that ends a tap, or takes it on, has still to show.
LEMMA Rest ==
  ASSUME Types, WorksInv, UNCHANGED <<opening, sentVars>>, TrialType', MessageType', TapType',
         TapInv', Grows, \A a \in rows' : ibsng'[a] = "named",
         \A m \in Messages : /\ refers'[m] \in rows' \cup Orders \cup {None}
                             /\ keyboard'[m] \in {"platform", "protocol"} => refers'[m] # None
  PROVE  CustomerInv'
<1>1. OrderType' /\ SentType' /\ credentials' = credentials
  BY DEF Types, OrderType, SentType, sentVars
<1>2. WorksInv'
  BY <1>1 DEF WorksInv, Grows
<1> QED
  BY <1>1, <1>2 DEF CustomerInv, Types

LEMMA RestKeeps ==
  ASSUME CustomerInv, UNCHANGED <<trialVars, opening, messageVars, sentVars>>, TapType', TapInv'
  PROVE  CustomerInv'
<1>1. TrialType' /\ MessageType' /\ Grows
  BY DEF CustomerInv, Types, TrialType, MessageType, Grows, trialVars, accountVars, limitVars, messageVars
<1> QED
  BY <1>1, Rest DEF CustomerInv, WorksInv, trialVars, accountVars, messageVars

\* A message's buttons become others that name no account.
LEMMA RestArmed ==
  ASSUME CustomerInv, UNCHANGED <<rows, opening, refers, sentVars>>, Grows, TrialType', TapType', TapInv',
         NEW m \in Messages, NEW b \in {"confirm", "menu", "closing"}, Arm(m, b)
  PROVE  CustomerInv'
<1>1. MessageType'
  BY ArmType DEF CustomerInv, Types, Buttons
<1>2. \A n \in Messages : /\ refers'[n] = refers[n]
                          /\ keyboard'[n] = IF n = m THEN b ELSE keyboard[n]
  BY DEF Arm, CustomerInv, Types, MessageType
<1>3. \A a \in rows' : ibsng'[a] = "named"
  BY DEF CustomerInv, Types, TrialType, WorksInv, Grows
<1> QED
  BY <1>1, <1>2, <1>3, Rest DEF CustomerInv, WorksInv

\* A picker is shown, for an account that works or an order.
LEMMA RestShown ==
  ASSUME CustomerInv, UNCHANGED <<trialVars, opening, sentVars>>, TapType', TapInv',
         NEW m \in Messages, NEW b \in {"platform", "protocol"}, NEW a \in rows \cup Orders, Show(m, b, a)
  PROVE  CustomerInv'
<1>1. a \in Accounts \cup Orders /\ a # None
  BY NoneAssumption DEF CustomerInv, Types, TrialType, Messages
<1>2. MessageType'
  BY <1>1, ShowType DEF CustomerInv, Types, Buttons
<1>3. \A n \in Messages : /\ refers'[n] = IF n = m THEN a ELSE refers[n]
                          /\ keyboard'[n] = IF n = m THEN b ELSE keyboard[n]
  BY DEF Show, Arm, CustomerInv, Types, MessageType
<1>4. TrialType' /\ Grows /\ UNCHANGED <<rows, ibsng>>
  BY DEF CustomerInv, Types, TrialType, Grows, trialVars, accountVars, limitVars
<1> QED
  BY <1>1, <1>2, <1>3, <1>4, Rest DEF CustomerInv, WorksInv

LEMMA TrialCustomer == ASSUME CustomerInv, NEW h \in Taps, Trial(h) PROVE CustomerInv'
<1>0. TapType /\ TrialType /\ TapInv /\ TapOK(h)
  BY DEF CustomerInv, Types, TapInv
<1>a. None \notin Accounts /\ pc[h] \in Labels /\ acc[h] \in Accounts \cup Orders \cup {None}
  BY <1>0, NoneAssumption DEF TapType
<1>1. ASSUME NEW m \in Screens, TapConfirm(h, m) PROVE CustomerInv'
  BY <1>1, BeginStep DEF TapConfirm, Messages
<1>2. CASE AlreadyUsed(h)
  <2>1. msg[h] \in Messages /\ Grows /\ TrialType' /\ UNCHANGED <<rows, opening, refers, sentVars>>
    BY <1>0, <1>2 DEF AlreadyUsed, TapOK, Grows, TrialType, trialVars, accountVars, limitVars
  <2>2. TapType' /\ TapInv'
    BY <1>0, <1>2, <2>1, EndStep DEF AlreadyUsed
  <2> QED
    BY <1>2, <2>1, <2>2, RestArmed DEF AlreadyUsed
<1>3. CASE Eligible(h)
  <2>1. Grows /\ TrialType' /\ MessageType' /\ UNCHANGED <<accountVars, opening, messageVars, sentVars, tapVars>>
    BY <1>0, <1>3, BumpType DEF Eligible, TrialType, Grows, CustomerInv, Types, MessageType,
       accountVars, messageVars
  <2>2. PICK label \in {"create", "add"} : Goto(h, label)
    BY <1>3 DEF Eligible
  <2>3. /\ acc' = [acc EXCEPT ![h] = acc[h]] /\ attempt' \in [Taps -> 0..(MaxAttempts - 1)]
        /\ UNCHANGED <<msg, choice>> /\ msg[h] \in Messages
    BY <1>0, <1>3, <2>1 DEF tapVars, TapType, Eligible, TapOK
  <2>4. TapType' /\ TapInv'
    BY <1>0, <1>a, <2>1, <2>2, <2>3, GoStep DEF Labels
  <2> QED
    BY <2>1, <2>4, Rest DEF CustomerInv, WorksInv, accountVars, messageVars
<1>4. CASE Collision(h)
  <2>1. /\ acc' = [acc EXCEPT ![h] = acc[h]] /\ attempt' \in [Taps -> 0..(MaxAttempts - 1)]
        /\ UNCHANGED <<msg, choice>> /\ msg[h] \in Messages /\ Grows
    BY <1>0, <1>4 DEF Collision, TapType, MaxAttempts, TapOK, Grows, trialVars, accountVars
  <2>2. TapType' /\ TapInv'
    BY <1>0, <1>a, <1>4, <2>1, GoStep DEF Collision, Labels
  <2> QED
    BY <1>4, <2>2, RestKeeps DEF Collision
<1>5. CASE CreationFails(h)
  <2>1. msg[h] \in Messages /\ Grows /\ TrialType' /\ UNCHANGED <<rows, opening, refers, sentVars>>
    BY <1>0, <1>5 DEF CreationFails, TapOK, Grows, TrialType, trialVars, accountVars, limitVars
  <2>2. TapType' /\ TapInv'
    BY <1>0, <1>5, <2>1, EndStep DEF CreationFails
  <2> QED
    BY <1>5, <2>1, <2>2, RestArmed DEF CreationFails
<1>6. CASE AnswerLost(h)
  <2>1. msg[h] \in Messages /\ Grows /\ TrialType' /\ UNCHANGED <<rows, opening, refers, sentVars>>
    BY <1>0, <1>6 DEF AnswerLost, TapOK, Grows, TrialType, limitVars
  <2>2. TapType' /\ TapInv'
    BY <1>0, <1>6, <2>1, EndStep DEF AnswerLost
  <2> QED
    BY <1>6, <2>1, <2>2, RestArmed DEF AnswerLost
<1>7. ASSUME NEW a \in Accounts, AddUser(h, a) PROVE CustomerInv'
  <2>1. Grows /\ TrialType' /\ MessageType' /\ UNCHANGED <<rows, opening, messageVars, sentVars>>
    BY <1>0, <1>7 DEF AddUser, TrialType, Grows, CustomerInv, Types, MessageType, limitVars, messageVars
  <2>2. attempt' \in [Taps -> 0..(MaxAttempts - 1)] /\ msg[h] \in Messages /\ UNCHANGED <<msg, choice>>
    BY <1>0, <1>7 DEF AddUser, TapType, TapOK
  <2>3. TapType' /\ TapInv'
    BY <1>0, <1>7, <2>1, <2>2, GoStep DEF AddUser, Labels
  <2>4. \A b \in rows' : ibsng'[b] = "named"
    BY <2>1, <1>0 DEF CustomerInv, WorksInv, TrialType, Grows
  <2> QED
    BY <2>1, <2>3, <2>4, Rest DEF CustomerInv, WorksInv, messageVars
<1>8. CASE NameUser(h)
  <2>1. Grows /\ TrialType' /\ MessageType' /\ UNCHANGED <<rows, opening, messageVars, sentVars>>
    BY <1>0, <1>8 DEF NameUser, TrialType, Grows, CustomerInv, Types, MessageType, limitVars, messageVars
  <2>2. /\ attempt' \in [Taps -> 0..(MaxAttempts - 1)] /\ msg[h] \in Messages /\ UNCHANGED <<msg, choice>>
        /\ acc' = [acc EXCEPT ![h] = acc[h]] /\ acc[h] \in Accounts /\ ibsng'[acc[h]] = "named"
    BY <1>0, <1>8 DEF NameUser, TapType, TapOK, tapVars, TrialType
  <2>3. TapType' /\ TapInv'
    BY <1>0, <1>8, <2>1, <2>2, GoStep DEF NameUser, Labels
  <2>4. \A b \in rows' : ibsng'[b] = "named"
    BY <2>1, <1>0 DEF CustomerInv, WorksInv, TrialType, Grows
  <2> QED
    BY <2>1, <2>3, <2>4, Rest DEF CustomerInv, WorksInv, messageVars
<1>9. CASE InsertTrialRow(h)
  <2>1. acc[h] \in Accounts /\ ibsng[acc[h]] = "named" /\ rows' = rows \cup {acc[h]} /\ ibsng' = ibsng
    BY <1>0, <1>9 DEF InsertTrialRow, TapOK
  <2>2. Grows /\ TrialType' /\ MessageType' /\ UNCHANGED <<opening, messageVars, sentVars>>
    BY <1>0, <1>9, <2>1 DEF InsertTrialRow, TrialType, Grows, CustomerInv, Types, MessageType, limitVars, messageVars
  <2>3. /\ attempt' \in [Taps -> 0..(MaxAttempts - 1)] /\ msg[h] \in Messages /\ UNCHANGED <<msg, choice>>
        /\ acc' = [acc EXCEPT ![h] = acc[h]] /\ acc[h] \in rows'
    BY <1>0, <1>9, <2>1 DEF InsertTrialRow, TapType, TapOK, tapVars
  <2>4. TapType' /\ TapInv'
    BY <1>0, <1>9, <2>1, <2>2, <2>3, GoStep DEF InsertTrialRow, Labels
  <2>5. \A b \in rows' : ibsng'[b] = "named"
    BY <2>1 DEF CustomerInv, WorksInv
  <2> QED
    BY <2>1, <2>2, <2>4, <2>5, Rest DEF CustomerInv, WorksInv, messageVars
<1>10. CASE ShowDevicePicker(h)
  <2>1. msg[h] \in Messages /\ acc[h] \in rows /\ Grows
    BY <1>0, <1>10 DEF ShowDevicePicker, TapOK, Grows, trialVars, accountVars
  <2>2. TapType' /\ TapInv'
    BY <1>0, <1>10, <2>1, EndStep DEF ShowDevicePicker
  <2> QED
    BY <1>10, <2>1, <2>2, RestShown DEF ShowDevicePicker
<1> QED
  BY <1>1, <1>2, <1>3, <1>4, <1>5, <1>6, <1>7, <1>8, <1>9, <1>10 DEF Trial

LEMMA OpeningCustomer == ASSUME CustomerInv, NEW e \in Openings, Opening(e) PROVE CustomerInv'
<1>0. OrderOf(e) \in Orders /\ e \in Messages
  BY DEF Openings, OrderOf, Messages
<1>1. CASE OrderPaid(e) \/ PromptFails(e)
  <2>1. /\ opening' \in [Openings -> {"open", "paid", "prompt", "done"}]
        /\ UNCHANGED <<trialVars, messageVars, sentVars, pc, tapVars>>
    BY <1>1 DEF OrderPaid, PromptFails, Progress, CustomerInv, Types, OrderType
  <2> QED
    BY <2>1 DEF CustomerInv, Types, TrialType, OrderType, MessageType, SentType, TapType, TapInv,
       TapOK, WorksInv, trialVars, accountVars, limitVars, messageVars, sentVars, tapVars
<1>2. CASE SendPaidCredentials(e)
  <2>1. /\ opening' \in [Openings -> {"open", "paid", "prompt", "done"}]
        /\ UNCHANGED <<trialVars, messageVars, ran, pc, tapVars>>
    BY <1>2 DEF SendPaidCredentials, Progress, CustomerInv, Types, OrderType
  <2>2. /\ credentials' \in [Accounts \cup Orders -> 0..Cap]
        /\ \A a \in Accounts : credentials'[a] = credentials[a]
    BY <1>0, <1>2, BumpType, NoneAssumption DEF SendPaidCredentials, CustomerInv, Types, SentType
  <2> QED
    BY <2>1, <2>2 DEF CustomerInv, Types, TrialType, OrderType, MessageType, SentType, TapType, TapInv,
       TapOK, WorksInv, trialVars, accountVars, limitVars, messageVars, tapVars
<1>3. CASE SendPicker(e)
  <2>1. /\ opening' \in [Openings -> {"open", "paid", "prompt", "done"}] /\ Show(e, "platform", OrderOf(e))
        /\ UNCHANGED <<trialVars, sentVars, pc, tapVars>>
    BY <1>3 DEF SendPicker, Progress, CustomerInv, Types, OrderType
  <2>2. MessageType' /\ OrderOf(e) # None
    BY <1>0, <2>1, ShowType, NoneAssumption DEF CustomerInv, Types, Messages, Buttons
  <2>3. \A n \in Messages : /\ refers'[n] = IF n = e THEN OrderOf(e) ELSE refers[n]
                            /\ keyboard'[n] = IF n = e THEN "platform" ELSE keyboard[n]
    BY <1>0, <2>1 DEF Show, Arm, CustomerInv, Types, MessageType
  <2>4. WorksInv'
    BY <1>0, <2>1, <2>2, <2>3 DEF CustomerInv, WorksInv, trialVars, accountVars, sentVars
  <2> QED
    BY <2>1, <2>2, <2>4 DEF CustomerInv, Types, TrialType, OrderType, SentType, TapType, TapInv,
       TapOK, trialVars, accountVars, limitVars, sentVars, tapVars
<1> QED
  BY <1>1, <1>2, <1>3 DEF Opening

LEMMA PickersCustomer == ASSUME CustomerInv, NEW h \in Taps, Pickers(h) PROVE CustomerInv'
<1>0. TapType /\ TapInv /\ TapOK(h) /\ rows \subseteq Accounts
  BY DEF CustomerInv, Types, TapInv, TrialType
<1>a. \A m \in Messages : keyboard[m] \in {"platform", "protocol"} => refers[m] \in rows \cup Orders
  BY DEF CustomerInv, WorksInv
<1>b. \A d \in Devices, p \in Protocols : Pick(d, p) \in Choice
  BY DEF Pick, Choice
<1>1. ASSUME NEW m \in Messages, NEW d \in Devices, TapDevice(h, m, d) PROVE CustomerInv'
  BY <1>1, <1>a, BeginStep DEF TapDevice
<1>2. ASSUME NEW m \in Messages, NEW d \in Devices, NEW p \in Protocols, TapDeviceOfOne(h, m, d, p)
      PROVE  CustomerInv'
  BY <1>2, <1>a, <1>b, BeginStep DEF TapDeviceOfOne
<1>3. ASSUME NEW m \in Messages, NEW d \in Devices, NEW p \in Protocols, TapProtocol(h, m, d, p)
      PROVE  CustomerInv'
  BY <1>3, <1>a, <1>b, BeginStep DEF TapProtocol
<1>4. ASSUME NEW m \in Messages, NEW d \in Devices, NEW p \in Protocols, TapLegacy(h, m, d, p)
      PROVE  CustomerInv'
  <2>1. latest \in rows
    BY <1>4 DEF TapLegacy, CustomerInv, Types, TrialType
  <2> QED
    BY <1>4, <1>b, <2>1, BeginStep DEF TapLegacy
<1>5. ASSUME NEW m \in Messages, TapBack(h, m) PROVE CustomerInv'
  BY <1>5, <1>a, BeginStep DEF TapBack
<1>6. CASE ShowProtocols(h) \/ ShowDevices(h)
  <2>1. PICK b \in {"platform", "protocol"} : Show(msg[h], b, acc[h])
    BY <1>6 DEF ShowProtocols, ShowDevices
  <2>2. /\ msg[h] \in Messages /\ acc[h] \in rows \cup Orders /\ Grows /\ End(h)
        /\ UNCHANGED <<trialVars, opening, sentVars>>
    BY <1>0, <1>6 DEF ShowProtocols, ShowDevices, TapOK, Grows, trialVars, accountVars
  <2>3. TapType' /\ TapInv'
    BY <1>0, <2>2, EndStep
  <2> QED
    BY <2>1, <2>2, <2>3, RestShown
<1> QED
  BY <1>1, <1>2, <1>3, <1>4, <1>5, <1>6 DEF Pickers

LEMMA DeliverCustomer == ASSUME CustomerInv, NEW h \in Taps, Deliver(h) PROVE CustomerInv'
<1>0. TapType /\ TrialType /\ TapInv /\ TapOK(h)
  BY DEF CustomerInv, Types, TapInv
<1>a. pc[h] \in Labels /\ acc[h] \in Accounts \cup Orders \cup {None}
  BY <1>0 DEF TapType
<1>1. ASSUME End(h), UNCHANGED <<trialVars, opening, messageVars, sentVars>> PROVE CustomerInv'
  BY <1>0, <1>1, EndStep, RestKeeps DEF Grows, trialVars, accountVars
<1>2. CASE Unsupported(h) \/ AlreadyDisarmed(h) \/ SendFails(h)
  BY <1>1, <1>2 DEF Unsupported, AlreadyDisarmed, SendFails
<1>3. ASSUME pc[h] \in {"deliver", "send"}, NEW label \in {"send", "setup"}, Goto(h, label),
             UNCHANGED <<trialVars, opening, tapVars>>
      PROVE  TapType' /\ TapInv' /\ TrialType' /\ Grows /\ UNCHANGED <<rows, ibsng>>
  <2>1. Grows /\ TrialType' /\ UNCHANGED <<rows, ibsng>>
    BY <1>0, <1>3 DEF Grows, TrialType, trialVars, accountVars, limitVars
  <2>2. /\ acc' = [acc EXCEPT ![h] = acc[h]] /\ attempt' \in [Taps -> 0..(MaxAttempts - 1)]
        /\ UNCHANGED <<msg, choice>> /\ msg[h] \in Messages /\ acc[h] \in rows' \cup Orders
    BY <1>0, <1>3, <2>1 DEF tapVars, TapType, TapOK
  <2> QED
    BY <1>0, <1>a, <1>3, <2>1, <2>2, GoStep DEF Labels
<1>4. CASE Disarm(h)
  <2>1. TapType' /\ TapInv' /\ TrialType' /\ Grows /\ UNCHANGED <<rows, ibsng>>
    BY <1>3, <1>4 DEF Disarm
  <2>2. MessageType' /\ refers' = refers
    BY <1>4 DEF Disarm, CustomerInv, Types, MessageType, Buttons
  <2>3. \A m \in Messages : keyboard'[m] \in {keyboard[m], "bare"}
    BY <1>4 DEF Disarm, CustomerInv, Types, MessageType
  <2> QED
    BY <1>4, <2>1, <2>2, <2>3, Rest DEF Disarm, CustomerInv, WorksInv
<1>5. CASE DisarmFails(h)
  <2>1. CASE Goto(h, "send") /\ UNCHANGED tapVars
    BY <1>3, <1>5, <2>1, RestKeeps DEF DisarmFails
  <2> QED
    BY <1>1, <1>5, <2>1 DEF DisarmFails
<1>6. ASSUME SentType', TapType', TapInv', UNCHANGED <<trialVars, opening, messageVars>>,
             \A a \in Accounts : credentials'[a] > 0 => credentials[a] > 0 \/ a \in rows
      PROVE  CustomerInv'
  BY <1>6 DEF CustomerInv, Types, TrialType, OrderType, MessageType, WorksInv,
     trialVars, accountVars, limitVars, messageVars
<1>7. ASSUME Sent(h), pc[h] \in {"send", "setup"} PROVE ran' \in [Messages -> [Accounts \cup Orders -> 0..Cap]]
  <2>1. msg[h] \in Messages /\ acc[h] \in Accounts \cup Orders
    BY <1>0, <1>7 DEF TapOK, TrialType
  <2>2. ran[msg[h]] \in [Accounts \cup Orders -> 0..Cap]
    BY <2>1 DEF CustomerInv, Types, SentType
  <2>3. [ran[msg[h]] EXCEPT ![acc[h]] = Bump(@)] \in [Accounts \cup Orders -> 0..Cap]
    BY <2>1, <2>2, BumpType
  <2>4. ran' = [ran EXCEPT ![msg[h]] = [ran[msg[h]] EXCEPT ![acc[h]] = Bump(@)]]
    BY <1>7 DEF Sent
  <2> QED
    BY <2>1, <2>3, <2>4 DEF CustomerInv, Types, SentType
<1>8. CASE SendCredentials(h)
  <2>1. TapType' /\ TapInv' /\ acc[h] \in rows \cup Orders /\ UNCHANGED <<trialVars, opening, messageVars>>
    BY <1>0, <1>3, <1>8 DEF SendCredentials, TapOK
  <2>2. CASE acc[h] \in Orders
    BY <1>6, <1>8, <2>1, <2>2 DEF SendCredentials, sentVars, CustomerInv, Types, SentType
  <2>3. CASE acc[h] \notin Orders
    <3>1. acc[h] \in rows /\ acc[h] \in Accounts
      BY <1>0, <2>1, <2>3 DEF TrialType
    <3>2. credentials' = [credentials EXCEPT ![acc[h]] = Bump(@)] /\ Sent(h)
      BY <1>8, <2>3 DEF SendCredentials
    <3>3. ran' \in [Messages -> [Accounts \cup Orders -> 0..Cap]]
      BY <1>7, <1>8, <3>2 DEF SendCredentials
    <3>4. /\ credentials' \in [Accounts \cup Orders -> 0..Cap]
          /\ \A a \in Accounts : credentials'[a] = credentials[a] \/ a = acc[h]
      BY <3>1, <3>2, BumpType DEF CustomerInv, Types, SentType
    <3> QED
      BY <1>6, <2>1, <3>1, <3>3, <3>4 DEF SentType
  <2> QED
    BY <2>2, <2>3
<1>9. CASE SendSetup(h)
  <2>1. TapType' /\ TapInv' /\ UNCHANGED <<trialVars, opening, messageVars, credentials>>
    BY <1>0, <1>9, EndStep DEF SendSetup, Grows, trialVars, accountVars
  <2>2. SentType'
    BY <1>7, <1>9, <2>1 DEF SendSetup, CustomerInv, Types, SentType
  <2> QED
    BY <1>6, <2>1, <2>2
<1>10. CASE NoSetup(h)
  <2>1. /\ msg[h] \in Messages /\ Grows /\ TrialType' /\ TapType' /\ TapInv'
        /\ UNCHANGED <<rows, ibsng, opening, refers, sentVars>>
    BY <1>0, <1>10, EndStep DEF NoSetup, TapOK, Grows, TrialType, trialVars, accountVars, limitVars
  <2>2. CASE Arm(msg[h], "closing")
    BY <2>1, <2>2, RestArmed
  <2>3. CASE UNCHANGED <<keyboard, armed>>
    BY <1>10, <2>1, <2>3, RestKeeps DEF NoSetup, messageVars
  <2> QED
    BY <1>10, <2>2, <2>3 DEF NoSetup
<1> QED
  BY <1>2, <1>4, <1>5, <1>8, <1>9, <1>10 DEF Deliver

LEMMA CustomerStep == CustomerInv /\ [Next]_vars => CustomerInv'
<1> SUFFICES ASSUME CustomerInv, [Next]_vars PROVE CustomerInv'
  OBVIOUS
<1>1. ASSUME NEW m \in Screens, TrialEntry(m) PROVE CustomerInv'
  <2>1. /\ Grows /\ TrialType' /\ TapType' /\ TapInv' /\ UNCHANGED <<rows, opening, refers, sentVars>>
    BY <1>1 DEF TrialEntry, CustomerInv, Types, Grows, TrialType, TapType, TapInv, TapOK, tapVars,
       trialVars, accountVars, limitVars
  <2> QED
    BY <1>1, <2>1, RestArmed DEF TrialEntry, Messages
<1>2. CASE SwitchTrialLimit
  BY <1>2, CapAssumption DEF SwitchTrialLimit, CustomerInv, Types, TrialType, OrderType, MessageType, SentType,
     TapType, TapInv, TapOK, WorksInv, accountVars, messageVars, sentVars, tapVars
<1>3. CASE Crash
  <2>1. TapType' /\ TapInv'
    BY <1>3 DEF Crash, TapType, TapInv, TapOK, Labels, MaxAttempts
  <2>2. OrderType'
    BY <1>3 DEF Crash, CustomerInv, Types, OrderType
  <2> QED
    BY <1>3, <2>1, <2>2 DEF Crash, CustomerInv, Types, TrialType, MessageType, SentType, WorksInv,
       trialVars, accountVars, limitVars, messageVars, sentVars
<1>4. CASE UNCHANGED vars
  BY <1>4 DEF CustomerInv, Types, TrialType, OrderType, MessageType, SentType, TapType, TapInv, TapOK,
     WorksInv, vars, trialVars, accountVars, limitVars, messageVars, sentVars, tapVars
<1> QED
  BY <1>1, <1>2, <1>3, <1>4, TrialCustomer, OpeningCustomer, PickersCustomer, DeliverCustomer DEF Next

\* The variables have their types.
THEOREM TypeCorrect == Spec => []TypeOK
<1>1. CustomerInv => TypeOK
  BY TypeGroups DEF CustomerInv
<1> QED
  BY <1>1, CustomerInit, CustomerStep, PTL DEF Spec

\* What a customer is handed works, however many taps create accounts at once,
\* and wherever IBSng, Telegram or the process fails: the row follows the name
\* (create_vpn_user), and buttons name only what has a row.
THEOREM HandedOverWorksAlways == Spec => []HandedOverWorks
<1>1. CustomerInv => HandedOverWorks
  BY NoneAssumption DEF CustomerInv, WorksInv, HandedOverWorks
<1> QED
  BY <1>1, CustomerInit, CustomerStep, PTL DEF Spec

-----------------------------------------------------------------------------
(* Credentials come first *)

Picking == {"protocols", "back", "deliver", "send", "setup"}

\* Who taps a paid order's picker, and the opening that is about to send one,
\* is past its credentials.
FirstInv ==
    /\ CredentialsComeFirst
    /\ \A h \in Taps : pc[h] \in Picking /\ acc[h] \in Orders => credentials[acc[h]] > 0
    /\ \A e \in Openings : opening[e] = "prompt" => credentials[OrderOf(e)] > 0

\* Credentials are never taken back; buttons, taps and openings may go on to
\* what is past them.
LEMMA FirstKeeps ==
  ASSUME CustomerInv, CustomerInv', FirstInv,
         \A x \in Accounts \cup Orders : credentials[x] > 0 => credentials'[x] > 0,
         \A m \in Messages :
             keyboard'[m] \in {"platform", "protocol"} /\ refers'[m] \in Orders
                 => \/ keyboard[m] \in {"platform", "protocol"} /\ refers[m] = refers'[m]
                    \/ credentials'[refers'[m]] > 0,
         \A h \in Taps :
             pc'[h] \in Picking /\ acc'[h] \in Orders
                 => (pc[h] \in Picking /\ acc[h] = acc'[h]) \/ credentials'[acc'[h]] > 0,
         \A h \in Taps :
             pc'[h] = "setup" => (pc[h] = "setup" /\ acc[h] = acc'[h]) \/ credentials'[acc'[h]] > 0,
         \A e \in Openings :
             opening'[e] = "prompt" => opening[e] = "prompt" \/ credentials'[OrderOf(e)] > 0
  PROVE  FirstInv'
<1>1. \A e \in Openings : OrderOf(e) \in Orders
  BY DEF Openings, OrderOf
<1>2. /\ \A h \in Taps : pc[h] = "setup" => acc[h] \in Accounts \cup Orders
      /\ \A x \in Orders : x \in Accounts \cup Orders
  BY DEF CustomerInv, Types, TrialType, TapInv, TapOK
<1>3. CredentialsComeFirst'
  BY <1>2 DEF FirstInv, CredentialsComeFirst
<1>4. \A h \in Taps : pc'[h] \in Picking /\ acc'[h] \in Orders => credentials'[acc'[h]] > 0
  BY <1>2 DEF FirstInv
<1>5. \A e \in Openings : opening'[e] = "prompt" => credentials'[OrderOf(e)] > 0
  BY <1>1, <1>2 DEF FirstInv
<1> QED
  BY <1>3, <1>4, <1>5 DEF FirstInv

\* Steps that leave the chat as it is, or put up buttons that are no picker.
LEMMA FirstIdles ==
  ASSUME CustomerInv, CustomerInv', FirstInv, UNCHANGED <<credentials, refers>>,
         \A m \in Messages : keyboard'[m] \in {keyboard[m], "bare", "confirm", "menu", "closing"},
         \A h \in Taps :
             pc'[h] \in Picking => /\ pc[h] \in Picking /\ acc[h] = acc'[h]
                                   /\ pc'[h] = "setup" => pc[h] = "setup",
         \A e \in Openings : opening'[e] = "prompt" => opening[e] = "prompt"
  PROVE  FirstInv'
<1>1. \A m \in Messages :
         keyboard'[m] \in {"platform", "protocol"}
             => keyboard[m] \in {"platform", "protocol"} /\ refers[m] = refers'[m]
  OBVIOUS
<1>2. \A h \in Taps : pc'[h] = "setup" => pc[h] = "setup" /\ acc[h] = acc'[h]
  BY DEF Picking
<1> QED
  BY <1>1, <1>2, FirstKeeps

LEMMA FirstTrial ==
  ASSUME CustomerInv, CustomerInv', FirstInv, NEW h \in Taps, Trial(h)
  PROVE  FirstInv'
<1>0. /\ TapType /\ MessageType /\ TapOK(h) /\ rows \subseteq Accounts
      /\ Accounts \cap Orders = {}
  BY NoneAssumption DEF CustomerInv, Types, TapInv, TrialType
<1>1. CASE ShowDevicePicker(h)
  <2>1. /\ acc[h] \in Accounts /\ msg[h] \in Messages
        /\ UNCHANGED <<opening, credentials>> /\ Show(msg[h], "platform", acc[h]) /\ End(h)
    BY <1>0, <1>1 DEF ShowDevicePicker, TapOK, sentVars
  <2>2. \A m \in Messages : m # msg[h] => keyboard'[m] = keyboard[m] /\ refers'[m] = refers[m]
    BY <1>0, <2>1 DEF Show, Arm, MessageType
  <2>3. refers'[msg[h]] \notin Orders
    BY <1>0, <2>1 DEF Show, MessageType
  <2>4. \A g \in Taps : pc'[g] \in Picking => g # h /\ pc'[g] = pc[g] /\ acc'[g] = acc[g]
    BY <1>0, <2>1 DEF End, Goto, TapType, Picking
  <2>5. \A g \in Taps : pc'[g] = "setup" => pc[g] = "setup" /\ acc'[g] = acc[g]
    BY <2>4 DEF Picking
  <2> QED
    BY <2>1, <2>2, <2>3, <2>4, <2>5, FirstKeeps
<1>2. CASE AlreadyUsed(h) \/ CreationFails(h) \/ AnswerLost(h)
  <2>1. /\ msg[h] \in Messages /\ UNCHANGED <<opening, credentials, refers>>
        /\ Arm(msg[h], "menu") /\ End(h)
    BY <1>0, <1>2 DEF AlreadyUsed, CreationFails, AnswerLost, TapOK, sentVars
  <2>2. \A m \in Messages : keyboard'[m] \in {keyboard[m], "menu"}
    BY <1>0, <2>1 DEF Arm, MessageType
  <2>3. \A g \in Taps : pc'[g] \in Picking => g # h /\ pc'[g] = pc[g] /\ acc'[g] = acc[g]
    BY <1>0, <2>1 DEF End, Goto, TapType, Picking
  <2> QED
    BY <2>1, <2>2, <2>3, FirstIdles
<1>3. CASE \/ \E m \in Screens : TapConfirm(h, m)
           \/ Eligible(h) \/ Collision(h) \/ (\E a \in Accounts : AddUser(h, a))
           \/ NameUser(h) \/ InsertTrialRow(h)
  <2>1. /\ UNCHANGED <<opening, credentials, refers, keyboard>>
        /\ pc'[h] \notin Picking
        /\ \A g \in Taps \ {h} : pc'[g] = pc[g] /\ acc'[g] = acc[g]
    BY <1>0, <1>3 DEF TapConfirm, Begin, Eligible, Collision, AddUser, NameUser, InsertTrialRow, Goto,
       TapType, Picking, sentVars, messageVars, tapVars
  <2> QED
    BY <2>1, FirstIdles
<1> QED
  BY <1>1, <1>2, <1>3 DEF Trial

LEMMA FirstOpening ==
  ASSUME CustomerInv, CustomerInv', FirstInv, NEW e \in Openings, Opening(e)
  PROVE  FirstInv'
<1>0. /\ opening \in [Openings -> {"open", "paid", "prompt", "done"}]
      /\ credentials \in [Accounts \cup Orders -> 0..Cap]
      /\ MessageType /\ e \in Messages /\ \A f \in Openings : OrderOf(f) \in Orders
  BY DEF CustomerInv, Types, OrderType, SentType, Openings, OrderOf, Messages
<1>1. CASE OrderPaid(e) \/ PromptFails(e)
  <2>1. /\ \E stage \in {"paid", "done"} : opening' = [opening EXCEPT ![e] = stage]
        /\ UNCHANGED <<credentials, keyboard, refers, pc, acc>>
    BY <1>1 DEF OrderPaid, PromptFails, Progress, sentVars, messageVars, tapVars
  <2>2. \A f \in Openings : opening'[f] = "prompt" => opening[f] = "prompt"
    BY <1>0, <2>1
  <2> QED
    BY <2>1, <2>2, FirstIdles
<1>2. CASE SendPaidCredentials(e)
  <2>1. /\ opening' = [opening EXCEPT ![e] = "prompt"]
        /\ credentials' = [credentials EXCEPT ![OrderOf(e)] = Bump(@)]
        /\ UNCHANGED <<keyboard, refers, pc, acc>>
    BY <1>2 DEF SendPaidCredentials, Progress, messageVars, tapVars
  <2>2. /\ \A x \in Accounts \cup Orders : credentials[x] > 0 => credentials'[x] > 0
        /\ credentials'[OrderOf(e)] > 0
    <3>1. /\ OrderOf(e) \in Accounts \cup Orders /\ Bump(credentials[OrderOf(e)]) \in 1..Cap
      BY <1>0, BumpType
    <3> QED
      BY <1>0, <2>1, <3>1
  <2>3. \A f \in Openings : opening'[f] = "prompt" => opening[f] = "prompt" \/ f = e
    BY <1>0, <2>1
  <2> QED
    BY <2>1, <2>2, <2>3, FirstKeeps
<1>3. CASE SendPicker(e)
  <2>1. /\ opening[e] = "prompt" /\ opening' = [opening EXCEPT ![e] = "done"]
        /\ Show(e, "platform", OrderOf(e)) /\ UNCHANGED <<credentials, pc, acc>>
    BY <1>3 DEF SendPicker, Progress, sentVars, tapVars
  <2>2. credentials[OrderOf(e)] > 0
    BY <2>1 DEF FirstInv
  <2>3. \A m \in Messages : /\ m = e => refers'[m] = OrderOf(e)
                            /\ m # e => keyboard'[m] = keyboard[m] /\ refers'[m] = refers[m]
    BY <1>0, <2>1 DEF Show, Arm, MessageType
  <2>4. \A f \in Openings : opening'[f] = "prompt" => opening[f] = "prompt"
    BY <1>0, <2>1
  <2> QED
    BY <2>1, <2>2, <2>3, <2>4, FirstKeeps
<1> QED
  BY <1>1, <1>2, <1>3 DEF Opening

LEMMA FirstPickers ==
  ASSUME CustomerInv, CustomerInv', FirstInv, NEW h \in Taps, Pickers(h)
  PROVE  FirstInv'
<1>0. TapType /\ MessageType /\ TapOK(h) /\ Accounts \cap Orders = {} /\ rows \subseteq Accounts
      /\ latest \in rows \cup {None} /\ None \notin Orders
  BY NoneAssumption DEF CustomerInv, Types, TapInv, TrialType
<1>1. ASSUME NEW m \in Messages, keyboard[m] \in {"platform", "protocol"},
             NEW label \in {"protocols", "back", "deliver"}, NEW c, Begin(h, m, label, refers[m], c)
      PROVE  FirstInv'
  <2>1. /\ UNCHANGED <<opening, credentials, refers, keyboard>>
        /\ pc'[h] = label /\ acc'[h] = refers[m]
        /\ \A g \in Taps \ {h} : pc'[g] = pc[g] /\ acc'[g] = acc[g]
    BY <1>0, <1>1 DEF Begin, Goto, TapType, sentVars, messageVars
  <2>2. refers[m] \in Orders => credentials[refers[m]] > 0
    BY <1>1 DEF FirstInv, CredentialsComeFirst
  <2> QED
    BY <2>1, <2>2, FirstKeeps
<1>2. ASSUME NEW m \in Messages, NEW d \in Devices, NEW p \in Protocols, TapLegacy(h, m, d, p)
      PROVE  FirstInv'
  <2>1. /\ UNCHANGED <<opening, credentials, refers, keyboard>>
        /\ pc'[h] = "deliver" /\ acc'[h] = latest /\ latest \notin Orders
        /\ \A g \in Taps \ {h} : pc'[g] = pc[g] /\ acc'[g] = acc[g]
    BY <1>0, <1>2 DEF TapLegacy, Begin, Goto, TapType, sentVars, messageVars
  <2> QED
    BY <2>1, FirstKeeps
<1>3. CASE ShowProtocols(h) \/ ShowDevices(h)
  <2>1. /\ pc[h] \in Picking /\ msg[h] \in Messages /\ UNCHANGED <<opening, credentials>>
        /\ \E b \in {"platform", "protocol"} : Show(msg[h], b, acc[h])
        /\ End(h)
    BY <1>0, <1>3 DEF ShowProtocols, ShowDevices, TapOK, Picking, sentVars
  <2>2. acc[h] \in Orders => credentials[acc[h]] > 0
    BY <2>1 DEF FirstInv
  <2>3. \A m \in Messages : /\ m = msg[h] => refers'[m] = acc[h]
                            /\ m # msg[h] => keyboard'[m] = keyboard[m] /\ refers'[m] = refers[m]
    BY <1>0, <2>1 DEF Show, Arm, MessageType
  <2>4. \A g \in Taps : pc'[g] \in Picking => g # h /\ pc'[g] = pc[g] /\ acc'[g] = acc[g]
    BY <1>0, <2>1 DEF End, Goto, TapType, Picking
  <2>5. \A g \in Taps : pc'[g] = "setup" => pc[g] = "setup" /\ acc'[g] = acc[g]
    BY <2>4 DEF Picking
  <2> QED
    BY <2>1, <2>2, <2>3, <2>4, <2>5, FirstKeeps
<1> QED
  BY <1>1, <1>2, <1>3 DEF Pickers, TapDevice, TapDeviceOfOne, TapProtocol, TapBack

LEMMA FirstDeliver ==
  ASSUME CustomerInv, CustomerInv', FirstInv, NEW h \in Taps, Deliver(h)
  PROVE  FirstInv'
<1>0. /\ TapType /\ MessageType /\ TapOK(h) /\ rows \subseteq Accounts
      /\ credentials \in [Accounts \cup Orders -> 0..Cap]
  BY DEF CustomerInv, Types, SentType, TapInv, TrialType
<1>1. CASE SendCredentials(h)
  <2>1. /\ acc[h] \in Accounts \cup Orders /\ pc[h] = "send" /\ pc[h] \in Picking
        /\ UNCHANGED <<opening, refers, keyboard>>
        /\ pc'[h] = "setup" /\ acc' = acc /\ \A g \in Taps \ {h} : pc'[g] = pc[g]
    BY <1>0, <1>1 DEF SendCredentials, TapOK, Goto, TapType, messageVars, tapVars, Picking
  <2>2. /\ \A x \in Accounts \cup Orders : credentials[x] > 0 => credentials'[x] > 0
        /\ credentials'[acc[h]] > 0
    <3>1. CASE acc[h] \in Orders
      <4>1. credentials' = credentials /\ credentials[acc[h]] > 0
        BY <1>1, <2>1, <3>1 DEF SendCredentials, sentVars, FirstInv
      <4> QED
        BY <4>1
    <3>2. CASE acc[h] \notin Orders
      <4>1. credentials' = [credentials EXCEPT ![acc[h]] = Bump(@)]
        BY <1>1, <3>2 DEF SendCredentials
      <4>2. Bump(credentials[acc[h]]) \in 1..Cap
        BY <1>0, <2>1, BumpType
      <4> QED
        BY <1>0, <2>1, <4>1, <4>2
    <3> QED
      BY <3>1, <3>2
  <2> QED
    BY <2>1, <2>2, FirstKeeps
<1>2. CASE ~SendCredentials(h)
  <2>1. /\ UNCHANGED <<opening, credentials, refers>>
        /\ \A m \in Messages : keyboard'[m] \in {keyboard[m], "bare", "closing"}
    BY <1>0, <1>2 DEF Deliver, Unsupported, Disarm, AlreadyDisarmed, DisarmFails, SendFails, SendSetup,
       NoSetup, Arm, MessageType, messageVars, sentVars
  <2>2. pc[h] \in Picking /\ pc'[h] \in {"idle", "send"} /\ (pc'[h] = "send" => acc'[h] = acc[h])
        /\ \A g \in Taps \ {h} : pc'[g] = pc[g] /\ acc'[g] = acc[g]
    BY <1>0, <1>2 DEF Deliver, Unsupported, Disarm, AlreadyDisarmed, DisarmFails, SendFails, SendSetup,
       NoSetup, End, Goto, TapType, tapVars, Picking
  <2>3. \A g \in Taps :
           pc'[g] \in Picking => /\ pc[g] \in Picking /\ acc[g] = acc'[g]
                                 /\ pc'[g] = "setup" => pc[g] = "setup"
    BY <2>2 DEF Picking
  <2> QED
    BY <2>1, <2>2, <2>3, FirstIdles
<1> QED
  BY <1>1, <1>2

LEMMA FirstStep == CustomerInv /\ CustomerInv' /\ FirstInv /\ [Next]_vars => FirstInv'
<1> SUFFICES ASSUME CustomerInv, CustomerInv', FirstInv, [Next]_vars PROVE FirstInv'
  OBVIOUS
<1>1. ASSUME NEW m \in Screens, TrialEntry(m) PROVE FirstInv'
  <2>1. /\ UNCHANGED <<opening, credentials, refers, pc, acc>>
        /\ \A n \in Messages : keyboard'[n] \in {keyboard[n], "confirm"}
    BY <1>1 DEF TrialEntry, Arm, CustomerInv, Types, MessageType, sentVars, tapVars
  <2> QED
    BY <2>1, FirstIdles
<1>2. CASE Crash
  <2>1. /\ UNCHANGED <<credentials, refers, keyboard>>
        /\ \A g \in Taps : pc'[g] \notin Picking
        /\ \A e \in Openings : opening'[e] # "prompt"
    BY <1>2 DEF Crash, messageVars, sentVars, Picking
  <2> QED
    BY <2>1, FirstIdles
<1>3. CASE SwitchTrialLimit \/ UNCHANGED vars
  <2>1. UNCHANGED <<opening, credentials, refers, keyboard, pc, acc>>
    BY <1>3 DEF SwitchTrialLimit, vars, messageVars, sentVars, tapVars
  <2> QED
    BY <2>1, FirstIdles
<1> QED
  BY <1>1, <1>2, <1>3, FirstTrial, FirstOpening, FirstPickers, FirstDeliver DEF Next

\* Whoever is shown a paid order's picker has its credentials, and no setup is
\* sent without them: however many processes confirm an order, however many
\* taps there are on its pickers, and whatever Telegram fails to deliver.
THEOREM CredentialsComeFirstAlways == Spec => []CredentialsComeFirst
<1>1. Init => FirstInv
  BY DEF Init, FirstInv, CredentialsComeFirst, Picking
<1>2. FirstInv => CredentialsComeFirst
  BY DEF FirstInv
<1> QED
  BY <1>1, <1>2, CustomerInit, CustomerStep, FirstStep, PTL DEF Spec

-----------------------------------------------------------------------------
(* One trial per customer *)

\* The creations in progress that a row may come of.
Creating == {h \in Taps : UnderWay(h)}

\* One row, and one more for each creation that was waived: those in progress
\* included.  Bound: the count of the waived ones stops at Cap.
TrialInv ==
    waived = Cap \/ Cardinality(rows) + Cardinality(Creating) <= 1 + waived

LEMMA FiniteRows ==
  ASSUME CustomerInv
  PROVE  /\ IsFiniteSet(rows) /\ Cardinality(rows) \in Nat /\ waived \in 0..Cap
         /\ Cardinality(rows) <= Cardinality(Accounts) /\ Cardinality(Accounts) \in Nat
<1>1. rows \subseteq Accounts /\ waived \in 0..Cap
  BY DEF CustomerInv, Types, TrialType
<1> QED
  BY <1>1, FiniteAssumption, FS_Subset, FS_CardinalityType

LEMMA FiniteCreating == IsFiniteSet(Creating) /\ Cardinality(Creating) \in Nat
<1>1. Creating \subseteq Taps
  BY DEF Creating
<1> QED
  BY <1>1, FiniteAssumption, FS_Subset, FS_CardinalityType

\* A step that adds no row and no creation in progress.
LEMMA FewerCreating ==
  ASSUME CustomerInv, TrialInv, UNCHANGED <<rows, waived>>, Creating' \subseteq Creating
  PROVE  TrialInv'
<1>1. /\ IsFiniteSet(Creating') /\ Cardinality(Creating') \in Nat
      /\ Cardinality(Creating') <= Cardinality(Creating)
  BY FiniteCreating, FS_Subset, FS_CardinalityType
<1> QED
  BY <1>1, FiniteRows, FiniteCreating DEF TrialInv

LEMMA OneTrialStep ==
  ASSUME CustomerInv, CustomerInv', TrialInv, [Next]_vars
  PROVE  TrialInv'
<1>0. /\ IsFiniteSet(rows) /\ Cardinality(rows) \in Nat /\ waived \in 0..Cap /\ Cap \in Nat \ {0}
      /\ IsFiniteSet(Creating) /\ Cardinality(Creating) \in Nat /\ pc \in [Taps -> Labels]
  BY FiniteRows, FiniteCreating, CapAssumption DEF CustomerInv, Types, TapType
<1>1. ASSUME NEW h \in Taps, UNCHANGED <<rows, waived>>,
             pc' = [pc EXCEPT ![h] = pc'[h]], UnderWay(h)' => UnderWay(h)
      PROVE  TrialInv'
  <2>1. Creating' \subseteq Creating
    BY <1>0, <1>1 DEF Creating, UnderWay
  <2> QED
    BY <1>1, <2>1, FewerCreating
<1>2. ASSUME UNCHANGED <<rows, waived>>, \A h \in Taps : UnderWay(h)' => UnderWay(h) PROVE TrialInv'
  <2>1. Creating' \subseteq Creating
    BY <1>2 DEF Creating
  <2> QED
    BY <1>2, <2>1, FewerCreating
<1>3. ASSUME NEW h \in Taps, Trial(h) PROVE TrialInv'
  <2>1. CASE InsertTrialRow(h)
    <3>1. /\ rows' = rows \cup {acc[h]} /\ waived' = waived /\ h \in Creating
          /\ pc' = [pc EXCEPT ![h] = "picker"]
      BY <1>0, <2>1 DEF InsertTrialRow, Creating, UnderWay, limitVars, Goto
    <3>2. Creating' = Creating \ {h}
      BY <1>0, <3>1 DEF Creating, UnderWay
    <3>3. Cardinality(Creating') = Cardinality(Creating) - 1
      BY <1>0, <3>1, <3>2, FS_RemoveElement
    <3>4. Cardinality(rows') <= Cardinality(rows) + 1 /\ Cardinality(rows') \in Nat
      <4>1. Cardinality(rows \cup {acc[h]}) = IF acc[h] \in rows THEN Cardinality(rows)
                                               ELSE Cardinality(rows) + 1
        BY <1>0, FS_AddElement, Zenon
      <4> QED
        BY <1>0, <3>1, <4>1
    <3> QED
      BY <1>0, <3>1, <3>3, <3>4 DEF TrialInv
  <2>2. CASE Eligible(h) /\ pc[h] = "create"
    <3>1. /\ rows' = rows /\ h \notin Creating /\ pc' = [pc EXCEPT ![h] = "add"]
          /\ waived' = (IF Waives(h) THEN Bump(waived) ELSE waived)
          /\ rows = {} \/ ~enforced
      BY <1>0, <2>2 DEF Eligible, accountVars, Creating, UnderWay, HasUsedTrial, Goto
    <3>2. Creating' = Creating \cup {h}
      BY <1>0, <3>1 DEF Creating, UnderWay
    <3>3. Cardinality(Creating') = Cardinality(Creating) + 1
      BY <1>0, <3>1, <3>2, FS_AddElement
    <3>4. CASE Waives(h)
      BY <1>0, <3>1, <3>3, <3>4, BumpType DEF TrialInv
    <3>5. CASE ~Waives(h)
      <4>1. rows = {} /\ Creating = {}
        BY <3>1, <3>5 DEF Waives, Creating
      <4>2. Cardinality(rows) = 0 /\ Cardinality(Creating) = 0
        BY <4>1, FS_EmptySet
      <4> QED
        BY <1>0, <3>1, <3>3, <3>5, <4>2 DEF TrialInv
    <3> QED
      BY <3>4, <3>5
  <2>3. CASE AlreadyUsed(h) \/ CreationFails(h) \/ AnswerLost(h) \/ ShowDevicePicker(h)
    BY <1>0, <1>1, <2>3 DEF AlreadyUsed, CreationFails, AnswerLost, ShowDevicePicker, End, Goto, UnderWay,
       limitVars, trialVars, accountVars
  <2>4. CASE \/ Eligible(h) /\ pc[h] # "create"
             \/ Collision(h)
             \/ (\E m \in Screens : TapConfirm(h, m))
    BY <1>0, <1>1, <2>4 DEF Eligible, Collision, TapConfirm, Begin, Goto, UnderWay, limitVars, trialVars,
       accountVars
  <2>5. CASE (\E a \in Accounts : AddUser(h, a)) \/ NameUser(h)
    BY <1>0, <1>1, <2>5 DEF AddUser, NameUser, UnderWay, Goto, limitVars
  <2> QED
    BY <1>3, <2>1, <2>2, <2>3, <2>4, <2>5 DEF Trial
<1>4. ASSUME NEW h \in Taps, Pickers(h) PROVE TrialInv'
  BY <1>0, <1>1, <1>4 DEF Pickers, TapDevice, TapDeviceOfOne, TapProtocol, TapLegacy, TapBack, Begin,
     ShowProtocols, ShowDevices, End, Goto, UnderWay, limitVars, trialVars, accountVars
<1>5. ASSUME NEW h \in Taps, Deliver(h) PROVE TrialInv'
  BY <1>0, <1>1, <1>5 DEF Deliver, Unsupported, Disarm, AlreadyDisarmed, DisarmFails, SendCredentials,
     SendFails, SendSetup, NoSetup, End, Goto, UnderWay, limitVars, trialVars, accountVars
<1>6. CASE Crash
  BY <1>2, <1>6 DEF Crash, UnderWay, limitVars, trialVars, accountVars
<1>7. CASE \/ SwitchTrialLimit \/ (\E m \in Screens : TrialEntry(m))
           \/ (\E e \in Openings : Opening(e)) \/ UNCHANGED vars
  BY <1>2, <1>7 DEF SwitchTrialLimit, TrialEntry, Opening, OrderPaid, SendPaidCredentials, SendPicker,
     PromptFails, UnderWay, vars, limitVars, trialVars, accountVars
<1> QED
  BY <1>3, <1>4, <1>5, <1>6, <1>7 DEF Next

\* A customer has one trial, or one more for each creation that the limit
\* could not stop, because it was off or another was under way - however many
\* taps race, whatever fails in between.  The bound Cap has to leave room for
\* every account.
THEOREM OneTrialAlways ==
  ASSUME Cardinality(Accounts) <= 1 + Cap
  PROVE  Spec => []OneTrial
<1>1. Init => TrialInv
  <2> SUFFICES ASSUME Init PROVE TrialInv
    OBVIOUS
  <2>1. rows = {} /\ Creating = {} /\ waived = 0
    BY DEF Init, Creating, UnderWay
  <2> QED
    BY <2>1, FS_EmptySet, CapAssumption DEF TrialInv
<1>2. CustomerInv /\ CustomerInv' /\ TrialInv /\ [Next]_vars => TrialInv'
  BY OneTrialStep
<1>3. CustomerInv /\ TrialInv => OneTrial
  BY FiniteRows, FiniteCreating, CapAssumption DEF TrialInv, OneTrial
<1> QED
  BY <1>1, <1>2, <1>3, CustomerInit, CustomerStep, PTL DEF Spec

-----------------------------------------------------------------------------
(* Each keyboard runs the sequence once *)

\* The taps whose sequence has still to send its first messages, on m.
Sending(m) ==
    {h \in Taps : /\ msg[h] = m
                  /\ pc[h] = "send" \/ (pc[h] = "setup" /\ acc[h] \in Orders)}

\* There are buttons on m that were put there, for one tap to strip.
Live(m) == IF armed[m] > 0 /\ keyboard[m] # "bare" THEN 1 ELSE 0

\* Buttons of a picker were put on their message.
ArmedInv ==
    /\ \A m \in Messages : keyboard[m] \notin {"confirm", "bare"} => armed[m] > 0
    /\ \A h \in Taps : pc[h] = "deliver" => armed[msg[h]] > 0

\* What was sent, what is about to be, and what the buttons still allow, is no
\* more than the keyboards there were.  Bound: their count stops at Cap.
KeyboardInv ==
    \A m \in Messages, x \in Accounts \cup Orders :
        armed[m] = Cap \/ ran[m][x] + Cardinality(Sending(m)) + Live(m) <= armed[m]

\* A step puts new buttons on a message, or strips them, or leaves it alone.
Kept(m) == armed'[m] = armed[m] /\ keyboard'[m] \in {keyboard[m], "bare"}

LEMMA ArmsOrKeeps ==
  ASSUME CustomerInv, [Next]_vars, NEW m \in Messages
  PROVE  Kept(m) \/ armed'[m] = Bump(armed[m])
<1>0. keyboard \in [Messages -> Buttons] /\ armed \in [Messages -> 0..Cap] /\ TapInv
  BY DEF CustomerInv, Types, MessageType
<1>1. ASSUME UNCHANGED messageVars PROVE Kept(m)
  BY <1>1 DEF messageVars, Kept
<1>2. ASSUME NEW n, NEW b, Arm(n, b) PROVE Kept(m) \/ armed'[m] = Bump(armed[m])
  BY <1>0, <1>2 DEF Arm, Kept
<1>3. ASSUME NEW h \in Taps, Trial(h) PROVE Kept(m) \/ armed'[m] = Bump(armed[m])
  BY <1>1, <1>2, <1>3 DEF Trial, TapConfirm, Begin, AlreadyUsed, Eligible, Collision, CreationFails,
     AnswerLost, AddUser, NameUser, InsertTrialRow, ShowDevicePicker, Show
<1>4. ASSUME NEW h \in Taps, Pickers(h) PROVE Kept(m) \/ armed'[m] = Bump(armed[m])
  BY <1>1, <1>2, <1>4 DEF Pickers, TapDevice, TapDeviceOfOne, TapProtocol, TapLegacy, TapBack, Begin,
     ShowProtocols, ShowDevices, Show
<1>5. ASSUME NEW h \in Taps, Deliver(h) PROVE Kept(m) \/ armed'[m] = Bump(armed[m])
  <2>1. CASE Disarm(h)
    BY <1>0, <2>1 DEF Disarm, Kept
  <2>2. CASE NoSetup(h)
    BY <1>2, <2>2 DEF NoSetup, Kept
  <2> QED
    BY <1>1, <1>5, <2>1, <2>2 DEF Deliver, Unsupported, AlreadyDisarmed, DisarmFails, SendCredentials,
       SendFails, SendSetup
<1>6. ASSUME NEW e \in Openings, Opening(e) PROVE Kept(m) \/ armed'[m] = Bump(armed[m])
  BY <1>1, <1>2, <1>6 DEF Opening, OrderPaid, SendPaidCredentials, SendPicker, PromptFails, Show
<1>7. ASSUME NEW n \in Screens, TrialEntry(n) PROVE Kept(m) \/ armed'[m] = Bump(armed[m])
  BY <1>2, <1>7 DEF TrialEntry
<1>8. CASE SwitchTrialLimit \/ Crash \/ UNCHANGED vars
  BY <1>1, <1>8 DEF SwitchTrialLimit, Crash, vars
<1> QED
  BY <1>3, <1>4, <1>5, <1>6, <1>7, <1>8 DEF Next

\* Only a tap on a picker comes to a delivery.
LEMMA DeliveryBegins ==
  ASSUME CustomerInv, [Next]_vars, NEW h \in Taps, pc'[h] = "deliver"
  PROVE  \/ pc[h] = "deliver" /\ msg'[h] = msg[h]
         \/ \E m \in Messages : /\ msg'[h] = m /\ keyboard[m] \in {"platform", "protocol", "legacy"}
                                /\ UNCHANGED messageVars
<1>0. pc \in [Taps -> Labels] /\ msg \in [Taps -> Messages \cup {None}]
  BY DEF CustomerInv, Types, TapType
<1> DEFINE Goal == \/ pc[h] = "deliver" /\ msg'[h] = msg[h]
                   \/ \E m \in Messages : /\ msg'[h] = m
                                          /\ keyboard[m] \in {"platform", "protocol", "legacy"}
                                          /\ UNCHANGED messageVars
<1>1. ASSUME NEW g \in Taps, Trial(g) PROVE Goal
  BY <1>0, <1>1 DEF Trial, TapConfirm, Begin, AlreadyUsed, Eligible, Collision, CreationFails, AnswerLost,
     AddUser, NameUser, InsertTrialRow, ShowDevicePicker, End, Goto, tapVars
<1>2. ASSUME NEW g \in Taps, Pickers(g) PROVE Goal
  BY <1>0, <1>2 DEF Pickers, TapDevice, TapDeviceOfOne, TapProtocol, TapLegacy, TapBack, Begin,
     ShowProtocols, ShowDevices, End, Goto
<1>3. ASSUME NEW g \in Taps, Deliver(g) PROVE Goal
  BY <1>0, <1>3 DEF Deliver, Unsupported, Disarm, AlreadyDisarmed, DisarmFails, SendCredentials,
     SendFails, SendSetup, NoSetup, End, Goto, tapVars
<1>4. CASE \/ Crash \/ SwitchTrialLimit \/ (\E m \in Screens : TrialEntry(m))
           \/ (\E e \in Openings : Opening(e)) \/ UNCHANGED vars
  BY <1>0, <1>4 DEF Crash, SwitchTrialLimit, TrialEntry, Opening, OrderPaid, SendPaidCredentials, SendPicker,
     PromptFails, vars, tapVars
<1> QED
  BY <1>1, <1>2, <1>3, <1>4 DEF Next

LEMMA ArmedStep == CustomerInv /\ CustomerInv' /\ ArmedInv /\ [Next]_vars => ArmedInv'
<1> SUFFICES ASSUME CustomerInv, CustomerInv', ArmedInv, [Next]_vars PROVE ArmedInv'
  OBVIOUS
<1>0. armed \in [Messages -> 0..Cap]
  BY DEF CustomerInv, Types, MessageType
<1>1. ASSUME NEW m \in Messages
      PROVE  /\ armed[m] > 0 => armed'[m] > 0
             /\ keyboard'[m] \notin {"confirm", "bare"} => armed'[m] > 0
  <2>1. Kept(m) \/ armed'[m] = Bump(armed[m])
    BY ArmsOrKeeps
  <2> QED
    BY <1>0, <2>1, BumpType DEF Kept, ArmedInv
<1>2. ASSUME NEW h \in Taps, pc'[h] = "deliver" PROVE armed'[msg'[h]] > 0
  <2>1. CASE pc[h] = "deliver" /\ msg'[h] = msg[h]
    <3>1. msg[h] \in Messages
      BY <2>1 DEF CustomerInv, TapInv, TapOK
    <3> QED
      BY <1>1, <2>1, <3>1 DEF ArmedInv
  <2>2. CASE \E m \in Messages : /\ msg'[h] = m /\ keyboard[m] \in {"platform", "protocol", "legacy"}
                                 /\ UNCHANGED messageVars
    BY <2>2 DEF ArmedInv, messageVars
  <2> QED
    BY <1>2, <2>1, <2>2, DeliveryBegins
<1> QED
  BY <1>1, <1>2 DEF ArmedInv

LEMMA FiniteTaps ==
  ASSUME NEW S \in SUBSET Taps
  PROVE  IsFiniteSet(S) /\ Cardinality(S) \in Nat
BY FiniteAssumption, FS_Subset, FS_CardinalityType

\* A step that sends nothing, and leaves no more to be sent, keeps the count.
LEMMA NothingSent ==
  ASSUME CustomerInv, CustomerInv', KeyboardInv, [Next]_vars, ran' = ran,
         \A m \in Messages : Sending(m)' \subseteq Sending(m)
  PROVE  KeyboardInv'
<1> SUFFICES ASSUME NEW m \in Messages, NEW x \in Accounts \cup Orders
             PROVE  armed'[m] = Cap \/ ran'[m][x] + Cardinality(Sending(m)') + Live(m)' <= armed'[m]
  BY DEF KeyboardInv
<1>1. /\ armed[m] \in 0..Cap /\ ran[m][x] \in 0..Cap /\ Cap \in Nat
  BY CapAssumption DEF CustomerInv, Types, MessageType, SentType
<1>2. /\ Cardinality(Sending(m)') <= Cardinality(Sending(m))
      /\ Cardinality(Sending(m)') \in Nat /\ Cardinality(Sending(m)) \in Nat
  <2>1. /\ Sending(m) \in SUBSET Taps /\ Sending(m)' \in SUBSET Taps
        /\ Sending(m)' \subseteq Sending(m)
    BY DEF Sending
  <2>2. IsFiniteSet(Sending(m))
    BY <2>1, FiniteTaps
  <2> QED
    BY <2>1, <2>2, FiniteTaps, FS_Subset
<1>3. armed[m] = Cap \/ ran[m][x] + Cardinality(Sending(m)) + Live(m) <= armed[m]
  BY DEF KeyboardInv
<1>4. CASE Kept(m)
  <2>1. armed'[m] = armed[m] /\ Live(m)' <= Live(m) /\ Live(m) \in Nat /\ Live(m)' \in Nat
    BY <1>4 DEF Kept, Live
  <2> QED
    BY <1>1, <1>2, <1>3, <2>1
<1>5. CASE armed'[m] = Bump(armed[m])
  <2>1. armed[m] = Cap \/ armed'[m] = armed[m] + 1
    BY <1>1, <1>5, BumpType
  <2>2. armed[m] = Cap => armed'[m] = Cap
    BY <1>1, <1>5 DEF Bump
  <2>3. Live(m)' \in 0..1 /\ Live(m) \in 0..1
    BY DEF Live
  <2> QED
    BY <1>1, <1>2, <1>3, <2>1, <2>2, <2>3
<1> QED
  BY <1>4, <1>5, ArmsOrKeeps

\* A tap that has begun to send on a message, or has sent.
LEMMA SendingBegins ==
  ASSUME NEW m, NEW h \in Taps, h \notin Sending(m), Sending(m)' = Sending(m) \cup {h}
  PROVE  Cardinality(Sending(m)') = Cardinality(Sending(m)) + 1
<1>1. IsFiniteSet(Sending(m))
  BY FiniteTaps DEF Sending
<1>2. Cardinality(Sending(m) \cup {h}) = Cardinality(Sending(m)) + 1
  BY <1>1, FS_AddElement, Zenon
<1> QED
  BY <1>2

LEMMA SendingEnds ==
  ASSUME NEW m, NEW h \in Sending(m), Sending(m)' = Sending(m) \ {h}
  PROVE  Cardinality(Sending(m)') = Cardinality(Sending(m)) - 1
<1>1. IsFiniteSet(Sending(m))
  BY FiniteTaps DEF Sending
<1>2. Cardinality(Sending(m) \ {h}) = Cardinality(Sending(m)) - 1
  BY <1>1, FS_RemoveElement, Zenon
<1> QED
  BY <1>2

\* One sequence sends its first message, on the message its button was on.
LEMMA OneSent ==
  ASSUME CustomerInv, CustomerInv', KeyboardInv, NEW h \in Taps, Sent(h), UNCHANGED <<keyboard, armed>>,
         h \in Sending(msg[h]), msg[h] \in Messages, acc[h] \in Accounts \cup Orders,
         \A m \in Messages : Sending(m)' = Sending(m) \ {h}
  PROVE  KeyboardInv'
<1> SUFFICES ASSUME NEW m \in Messages, NEW x \in Accounts \cup Orders
             PROVE  armed'[m] = Cap \/ ran'[m][x] + Cardinality(Sending(m)') + Live(m)' <= armed'[m]
  BY DEF KeyboardInv
<1>1. /\ armed[m] \in 0..Cap /\ ran[m][x] \in 0..Cap /\ Live(m)' = Live(m) /\ Live(m) \in Nat
      /\ ran'[m][x] \in 0..Cap /\ Cap \in Nat
  BY CapAssumption DEF CustomerInv, Types, MessageType, SentType, Live
<1>2. armed[m] = Cap \/ ran[m][x] + Cardinality(Sending(m)) + Live(m) <= armed[m]
  BY DEF KeyboardInv
<1>3. Cardinality(Sending(m)') \in Nat /\ Cardinality(Sending(m)) \in Nat
  <2>1. Sending(m) \in SUBSET Taps /\ Sending(m)' \in SUBSET Taps
    BY DEF Sending
  <2> QED
    BY <2>1, FiniteTaps
<1>4. CASE m = msg[h]
  <2>1. Cardinality(Sending(m)') = Cardinality(Sending(m)) - 1
    BY <1>4, SendingEnds
  <2>2. ran'[m][x] <= ran[m][x] + 1
    BY <1>1, <1>4, BumpType DEF Sent, CustomerInv, Types, SentType
  <2> QED
    BY <1>1, <1>2, <1>3, <2>1, <2>2
<1>5. CASE m # msg[h]
  <2>1. Sending(m)' = Sending(m)
    BY <1>5 DEF Sending
  <2>2. ran'[m][x] = ran[m][x]
    BY <1>5 DEF Sent, CustomerInv, Types, SentType
  <2> QED
    BY <1>1, <1>2, <1>3, <2>1, <2>2
<1> QED
  BY <1>4, <1>5

\* A tap that has nothing to send before a step, or after it.
LEMMA SendingShrinks ==
  ASSUME TapType, NEW h \in Taps, \A g \in Taps \ {h} : UNCHANGED <<pc[g], msg[g], acc[g]>>,
         pc'[h] \notin {"send", "setup"}, NEW m
  PROVE  Sending(m)' \subseteq Sending(m)
BY DEF Sending

LEMMA TrialAlone ==
  ASSUME TapType, NEW h \in Taps, Trial(h) \/ Pickers(h)
  PROVE  /\ \A g \in Taps \ {h} : UNCHANGED <<pc[g], msg[g], acc[g]>>
         /\ pc'[h] \notin {"send", "setup"} /\ ran' = ran
<1>1. CASE Trial(h)
  BY <1>1 DEF TapType, Trial, TapConfirm, Begin, AlreadyUsed, Eligible, Collision, CreationFails, AnswerLost,
     AddUser, NameUser, InsertTrialRow, ShowDevicePicker, End, Goto, tapVars, sentVars
<1>2. CASE Pickers(h)
  BY <1>2 DEF TapType, Pickers, TapDevice, TapDeviceOfOne, TapProtocol, TapLegacy, TapBack, Begin,
     ShowProtocols, ShowDevices, End, Goto, sentVars
<1> QED
  BY <1>1, <1>2

LEMMA KeyboardStep ==
  ASSUME CustomerInv, CustomerInv', ArmedInv, KeyboardInv, [Next]_vars, "edit_refused" \notin Faults
  PROVE  KeyboardInv'
<1>0. TapType /\ TapInv
  BY DEF CustomerInv, Types
<1>1. ASSUME NEW h \in Taps, Trial(h) \/ Pickers(h) PROVE KeyboardInv'
  BY <1>0, <1>1, TrialAlone, SendingShrinks, NothingSent
<1>2. ASSUME NEW h \in Taps, Deliver(h) PROVE KeyboardInv'
  <2>0. ASSUME End(h), ran' = ran PROVE KeyboardInv'
    <3>1. pc'[h] = "idle" /\ \A g \in Taps \ {h} : UNCHANGED <<pc[g], msg[g], acc[g]>>
      BY <1>0, <2>0 DEF End, Goto, TapType
    <3> QED
      BY <1>0, <2>0, <3>1, SendingShrinks, NothingSent
  <2>1. CASE Unsupported(h) \/ AlreadyDisarmed(h) \/ DisarmFails(h) \/ SendFails(h) \/ NoSetup(h)
    BY <2>0, <2>1 DEF Unsupported, AlreadyDisarmed, DisarmFails, SendFails, NoSetup, sentVars
  <2>2. CASE Disarm(h)
    <3>1. /\ pc[h] = "deliver" /\ keyboard[msg[h]] # "bare" /\ pc' = [pc EXCEPT ![h] = "send"]
          /\ keyboard' = [keyboard EXCEPT ![msg[h]] = "bare"] /\ UNCHANGED <<armed, ran, msg, acc>>
          /\ msg[h] \in Messages /\ armed[msg[h]] > 0
      BY <1>0, <2>2 DEF Disarm, Goto, sentVars, tapVars, TapInv, TapOK, ArmedInv
    <3>2. ASSUME NEW m \in Messages, NEW x \in Accounts \cup Orders
          PROVE  armed'[m] = Cap \/ ran'[m][x] + Cardinality(Sending(m)') + Live(m)' <= armed'[m]
      <4>1. /\ armed[m] \in 0..Cap /\ ran[m][x] \in 0..Cap /\ Cap \in Nat
            /\ keyboard'[m] = IF m = msg[h] THEN "bare" ELSE keyboard[m]
        BY <3>1, CapAssumption DEF CustomerInv, Types, MessageType, SentType
      <4>2. armed[m] = Cap \/ ran[m][x] + Cardinality(Sending(m)) + Live(m) <= armed[m]
        BY DEF KeyboardInv
      <4>3. Cardinality(Sending(m)) \in Nat
        BY FiniteTaps DEF Sending
      <4>4. CASE m = msg[h]
        <5>1. h \notin Sending(m) /\ Sending(m)' = Sending(m) \cup {h}
          BY <1>0, <3>1, <4>4 DEF Sending, TapType
        <5>2. Cardinality(Sending(m)') = Cardinality(Sending(m)) + 1
          BY <5>1, SendingBegins
        <5>3. Live(m) = 1 /\ Live(m)' = 0
          BY <3>1, <4>1, <4>4 DEF Live
        <5> QED
          BY <3>1, <4>1, <4>2, <4>3, <5>2, <5>3
      <4>5. CASE m # msg[h]
        <5>1. Sending(m)' = Sending(m)
          BY <1>0, <3>1, <4>5 DEF Sending, TapType
        <5>2. Live(m)' = Live(m)
          BY <3>1, <4>1, <4>5 DEF Live
        <5> QED
          BY <3>1, <4>2, <5>1, <5>2
      <4> QED
        BY <4>4, <4>5
    <3> QED
      BY <3>2 DEF KeyboardInv
  <2>3. CASE SendCredentials(h)
    <3>1. /\ pc[h] = "send" /\ pc' = [pc EXCEPT ![h] = "setup"]
          /\ UNCHANGED <<msg, acc, keyboard, armed>>
      BY <2>3 DEF SendCredentials, Goto, messageVars, tapVars
    <3>2. CASE acc[h] \in Orders
      <4>1. \A m \in Messages : Sending(m)' \subseteq Sending(m)
        BY <1>0, <3>1, <3>2 DEF Sending, TapType
      <4> QED
        BY <2>3, <3>2, <4>1, NothingSent DEF SendCredentials, sentVars
    <3>3. CASE acc[h] \notin Orders
      <4>1. \A m \in Messages : Sending(m)' = Sending(m) \ {h}
        BY <1>0, <3>1, <3>3 DEF Sending, TapType
      <4>2. /\ h \in Sending(msg[h]) /\ msg[h] \in Messages /\ acc[h] \in Accounts \cup Orders
            /\ UNCHANGED <<keyboard, armed>>
        BY <1>0, <3>1 DEF Sending, TapInv, TapOK, CustomerInv, Types, TrialType
      <4>3. Sent(h)
        BY <2>3, <3>3 DEF SendCredentials
      <4> QED
        BY <4>1, <4>2, <4>3, OneSent
    <3> QED
      BY <3>2, <3>3
  <2>4. CASE SendSetup(h)
    <3>1. CASE acc[h] \in Orders
      <4>1. pc[h] = "setup" /\ pc' = [pc EXCEPT ![h] = "idle"] /\ Sent(h) /\ UNCHANGED <<keyboard, armed>>
        BY <2>4, <3>1 DEF SendSetup, End, Goto, messageVars
      <4>2. /\ msg' = [msg EXCEPT ![h] = None] /\ acc' = [acc EXCEPT ![h] = None]
        BY <2>4 DEF SendSetup, End
      <4>3. \A m \in Messages : Sending(m)' = Sending(m) \ {h}
        BY <1>0, <4>1, <4>2 DEF Sending, TapType
      <4>4. h \in Sending(msg[h]) /\ msg[h] \in Messages /\ acc[h] \in Accounts \cup Orders
        BY <1>0, <3>1, <4>1 DEF Sending, TapInv, TapOK
      <4> QED
        BY <4>1, <4>3, <4>4, OneSent
    <3>2. CASE acc[h] \notin Orders
      BY <2>0, <2>4, <3>2 DEF SendSetup
    <3> QED
      BY <3>1, <3>2
  <2> QED
    BY <1>2, <2>1, <2>2, <2>3, <2>4 DEF Deliver
<1>3. CASE Crash
  <2>1. ran' = ran /\ \A m \in Messages : Sending(m)' \subseteq Sending(m)
    BY <1>3 DEF Crash, Sending, sentVars
  <2> QED
    BY <2>1, NothingSent
<1>4. CASE \/ SwitchTrialLimit \/ (\E m \in Screens : TrialEntry(m))
           \/ (\E e \in Openings : Opening(e)) \/ UNCHANGED vars
  <2>1. UNCHANGED <<ran, pc, msg, acc>>
    BY <1>4 DEF SwitchTrialLimit, TrialEntry, Opening, OrderPaid, SendPaidCredentials, SendPicker,
       PromptFails, vars, sentVars, tapVars
  <2>2. \A m \in Messages : Sending(m)' \subseteq Sending(m)
    BY <2>1 DEF Sending
  <2> QED
    BY <2>1, <2>2, NothingSent
<1> QED
  BY <1>1, <1>2, <1>3, <1>4 DEF Next

\* However many taps race, and however often the pickers are put on a message
\* again, each keyboard runs its sequence once.  Only where Telegram refuses no
\* edit but with "not modified": any other refusal counts as won
\* (deliver_handover), and lets a second tap through.
THEOREM EachKeyboardRunsOnceAlways ==
  ASSUME "edit_refused" \notin Faults
  PROVE  Spec => []EachKeyboardRunsOnce
<1>1. Init => ArmedInv /\ KeyboardInv
  <2> SUFFICES ASSUME Init PROVE ArmedInv /\ KeyboardInv
    OBVIOUS
  <2>1. ArmedInv
    BY DEF Init, ArmedInv
  <2>2. \A m \in Messages : Sending(m) = {}
    BY DEF Init, Sending
  <2>3. Cardinality({}) = 0
    BY FS_EmptySet
  <2>4. \A m \in Messages : Live(m) <= armed[m] /\ armed[m] \in 0..1 /\ Live(m) \in 0..1
    BY DEF Init, Live
  <2>5. \A m \in Messages, x \in Accounts \cup Orders : ran[m][x] = 0
    BY DEF Init
  <2> QED
    BY <2>1, <2>2, <2>3, <2>4, <2>5 DEF KeyboardInv
<1>2. ASSUME CustomerInv, KeyboardInv PROVE EachKeyboardRunsOnce
  <2> SUFFICES ASSUME NEW m \in Messages, NEW x \in Accounts \cup Orders PROVE ran[m][x] <= armed[m]
    BY DEF EachKeyboardRunsOnce
  <2>1. armed[m] \in 0..Cap /\ ran[m][x] \in 0..Cap /\ Cap \in Nat /\ Live(m) \in Nat
    BY <1>2, CapAssumption DEF CustomerInv, Types, MessageType, SentType, Live
  <2>2. Cardinality(Sending(m)) \in Nat
    BY FiniteTaps DEF Sending
  <2>3. armed[m] = Cap \/ ran[m][x] + Cardinality(Sending(m)) + Live(m) <= armed[m]
    BY <1>2 DEF KeyboardInv
  <2> QED
    BY <2>1, <2>2, <2>3
<1>3. CustomerInv /\ CustomerInv' /\ ArmedInv /\ KeyboardInv /\ [Next]_vars => KeyboardInv'
  BY KeyboardStep
<1> QED
  BY <1>1, <1>2, <1>3, CustomerInit, CustomerStep, ArmedStep, PTL DEF Spec

-----------------------------------------------------------------------------
(* Setup material: what is offered, and where an upload goes *)

Ids == ProtocolIds \cup DeviceIds \cup {Any}
SomeTarget == Targets \cup {Unset}
SomeId == Ids \cup {Unset}
Conversations ==
    [state : {"none", "pick_protocol", "pick_platform", "await_content"},
     target : SomeTarget, protocol : SomeId, device : SomeId]
MenuScreens ==
    [step : {"root", "protocol", "platform", "content"},
     target : SomeTarget, protocol : SomeId, device : SomeId, generic : BOOLEAN]
MenuTasks == {"command", "root", "protocol", "platform", "target", "pick_protocol", "pick_platform"}
Jobs == [pc : {"idle", "handler", "edit", "save"}, task : MenuTasks \cup {"none", "content"}, on : Nat,
         arg : {Unset} \cup Targets \cup Contents \cup (SomeTarget \X Ids), data : Conversations]

\* What a handler in progress carries.
JobOK(t) ==
    /\ t.pc # "idle" => t.task # "none" /\ t.on \in 0..Len(screen)
    /\ t.pc # "idle" /\ t.task \notin {"command", "content"} => t.on >= 1
    /\ t.pc = "edit" => t.task # "content"
    /\ t.pc # "idle" /\ t.task = "target" => t.arg \in Targets
    /\ t.pc # "idle" /\ t.task \in {"pick_protocol", "pick_platform"} => t.arg \in SomeTarget \X Ids
    /\ t.pc # "idle" /\ t.task = "content" => t.arg \in Contents
    /\ t.pc = "save" =>
         t.task = "content" /\ t.data.target \in Targets /\ Accepts(t.data.target, t.arg)

MenuTypes ==
    /\ chat \in Conversations
    /\ screen \in Seq(MenuScreens)
    /\ tap \in [AdminTaps -> Jobs] /\ \A h \in AdminTaps : JobOK(tap[h])
    /\ mixed \in BOOLEAN

\* Every key holds nothing, or something a handler accepts for its target.
Storable(target) == {KeptAs(target, c) : c \in {x \in Contents : Accepts(target, x)}}

StoreInv ==
    /\ DOMAIN store = Keys
    /\ \A k \in Keys : store[k] \in {"absent"} \cup Storable(k[1])

\* What a button was offered for is still kept, as that or as something newer.
IsKept(b) ==
    \/ b[1] = "link" /\ (store[b] # "absent" \/ store[<<"link", b[2], Any>>] # "absent")
    \/ b[1] = "profile" /\ Profile(b[3]) # "absent"

OfferInv ==
    \A b \in offered : b \in {"link", "profile"} \X ProtocolIds \X DeviceIds /\ IsKept(b)

\* The conversation is where the screen says.
Agree(c, s) ==
    /\ s.step = "root" => c = Idle
    /\ s.step \in {"protocol", "platform"} => c.target = s.target /\ c.target # Unset
    /\ s.step = "protocol" => c.state = "pick_protocol"
    /\ s.step = "platform" => c.state = "pick_platform" /\ c.protocol = s.protocol /\ c.protocol # Unset
    /\ s.step = "content" /\ c # Idle =>
         /\ c.state = "await_content"
         /\ <<c.target, c.protocol, c.device>> = <<s.target, s.protocol, s.device>>
         /\ Unset \notin {c.target, c.protocol, c.device}

Last == screen[Len(screen)]
ChatAgrees == IF screen = <<>> THEN chat = Idle ELSE Agree(chat, Last)

\* What an edit will show.
NextScreen(t) == Shown(IF t.on = 0 THEN Root ELSE screen[t.on], t.task, t.arg,
                       IF t.task = "pick_platform" THEN chat ELSE t.data)

\* A handler comes from the newest screen, where it was.
ComesFrom(t) ==
    /\ t.task = "target" => Last.step = "root"
    /\ t.task = "pick_protocol" => Last.step = "protocol" /\ t.arg[1] = Last.target
    /\ t.task \in {"pick_platform", "protocol"} => Last.step = "platform"
    /\ t.task = "platform" => Last.step = "content"
    /\ t.task = "content" => chat.state = "await_content"

OrderlyInv ==
    ~mixed =>
      /\ \A g, h \in AdminTaps : tap[g].pc # "idle" /\ tap[h].pc # "idle" => g = h
      /\ (\A h \in AdminTaps : tap[h].pc # "edit") => ChatAgrees
      /\ \A h \in AdminTaps :
           /\ tap[h].pc # "idle" => tap[h].on = Len(screen)
           /\ tap[h].pc = "handler" => ComesFrom(tap[h])
           /\ tap[h].pc = "edit" =>
                /\ Agree(chat, NextScreen(tap[h]))
                /\ tap[h].task = "pick_platform" => chat.target # Unset
           /\ tap[h].pc = "save" =>
                LET d == tap[h].data
                IN /\ screen # <<>> /\ Last.step = "content"
                   /\ <<d.target, d.protocol, d.device>> = <<Last.target, Last.protocol, Last.device>>

-----------------------------------------------------------------------------
(* Screens and buttons *)

LEMMA IdleIsConversation == Idle \in Conversations /\ Idle.state = "none" /\ Idle.target = Unset
BY DEF Idle, Conversations, SomeTarget, SomeId

LEMMA NoJob == NoTap \in Jobs /\ NoTap.pc = "idle"
BY IdleIsConversation DEF NoTap, Jobs

LEMMA RootIsScreen == Root \in MenuScreens /\ Root.step = "root"
BY DEF Root, MenuScreens, SomeTarget, SomeId

\* Where a button's tap goes, and what it carries.
LEMMA ButtonsLead ==
  ASSUME NEW s \in MenuScreens, NEW b \in ButtonsOf(s)
  PROVE  /\ b.to \in {"target", "pick", "root", "protocol", "platform"}
         /\ b.to = "target" => s.step = "root" /\ b.target \in Targets
         /\ b.to = "pick" => s.step \in {"protocol", "platform"} /\ b.target = s.target /\ b.id \in Ids
         /\ b.to = "protocol" => s.step = "platform"
         /\ b.to = "platform" => s.step = "content"
         /\ b.to \in {"root", "protocol", "platform"} => b.target = Unset
<1>1. CASE s.step = "root"
  <2>1. b \in {Button("target", t, Unset) : t \in Targets}
    BY <1>1 DEF ButtonsOf
  <2> QED
    BY <1>1, <2>1 DEF Button
<1>2. CASE s.step = "protocol"
  <2>1. b \in {Button("pick", s.target, p) : p \in ProtocolIds} \cup {Button("root", Unset, Unset)}
    BY <1>2 DEF ButtonsOf
  <2> QED
    BY <1>2, <2>1 DEF Button, Ids
<1>3. CASE s.step = "platform"
  <2>1. b \in {Button("pick", s.target, d) : d \in DeviceIds \cup (IF s.generic THEN {Any} ELSE {})}
              \cup {Button("protocol", Unset, Unset)}
    BY <1>3 DEF ButtonsOf
  <2> QED
    BY <1>3, <2>1 DEF Button, Ids
<1>4. CASE s.step = "content"
  <2>1. b = Button("platform", Unset, Unset)
    BY <1>4 DEF ButtonsOf
  <2> QED
    BY <1>4, <2>1 DEF Button
<1> QED
  BY <1>1, <1>2, <1>3, <1>4 DEF MenuScreens

\* The next screen is one, and agrees with the conversation that led to it.
LEMMA ScreenShown ==
  ASSUME NEW s \in MenuScreens, NEW task \in MenuTasks, NEW arg, NEW d \in Conversations,
         task = "target" => arg \in Targets,
         task \in {"pick_protocol", "pick_platform"} => arg \in SomeTarget \X Ids
  PROVE  /\ Shown(s, task, arg, d) \in MenuScreens
         /\ task \in {"command", "root"} => Shown(s, task, arg, d) = Root
         /\ task = "target" => /\ Shown(s, task, arg, d).step = "protocol"
                               /\ Shown(s, task, arg, d).target = arg
         /\ task = "protocol" => /\ Shown(s, task, arg, d).step = "protocol"
                                 /\ Shown(s, task, arg, d).target = d.target
         /\ task = "pick_protocol" => /\ Shown(s, task, arg, d).step = "platform"
                                      /\ Shown(s, task, arg, d).target = arg[1]
                                      /\ Shown(s, task, arg, d).protocol = arg[2]
         /\ task = "platform" => /\ Shown(s, task, arg, d).step = "platform"
                                 /\ Shown(s, task, arg, d).target = d.target
                                 /\ Shown(s, task, arg, d).protocol = s.protocol
         /\ task = "pick_platform" => /\ Shown(s, task, arg, d).step = "content"
                                      /\ Shown(s, task, arg, d).target = d.target
                                      /\ Shown(s, task, arg, d).protocol = s.protocol
                                      /\ Shown(s, task, arg, d).device = arg[2]
<1> USE RootIsScreen DEF MenuScreens, Conversations, SomeId, SomeTarget
<1>1. CASE task \in {"command", "root"}
  <2>1. Shown(s, task, arg, d) = Root
    BY <1>1 DEF Shown
  <2> QED
    BY <1>1, <2>1
<1>2. CASE task = "target"
  <2>1. Shown(s, task, arg, d) = [Root EXCEPT !.step = "protocol", !.target = arg]
    BY <1>2 DEF Shown
  <2> QED
    BY <1>2, <2>1
<1>3. CASE task = "protocol"
  <2>1. Shown(s, task, arg, d) = [Root EXCEPT !.step = "protocol", !.target = d.target]
    BY <1>3 DEF Shown
  <2> QED
    BY <1>3, <2>1
<1>4. CASE task = "pick_protocol"
  <2>1. Shown(s, task, arg, d) = [Root EXCEPT !.step = "platform", !.target = arg[1],
                                     !.protocol = arg[2], !.generic = arg[2] = OpenVPN]
    BY <1>4 DEF Shown
  <2>2. arg[1] \in SomeTarget /\ arg[2] \in Ids /\ (arg[2] = OpenVPN) \in BOOLEAN
    BY <1>4
  <2> QED
    BY <1>4, <2>1, <2>2
<1>5. CASE task = "platform"
  <2>1. Shown(s, task, arg, d) = [s EXCEPT !.step = "platform", !.target = d.target,
                                     !.device = Unset, !.generic = d.protocol = OpenVPN]
    BY <1>5 DEF Shown
  <2>2. (d.protocol = OpenVPN) \in BOOLEAN
    OBVIOUS
  <2> QED
    BY <1>5, <2>1, <2>2
<1>6. CASE task = "pick_platform"
  <2>1. Shown(s, task, arg, d) = [s EXCEPT !.step = "content", !.target = d.target, !.device = arg[2]]
    BY <1>6 DEF Shown
  <2>2. arg[2] \in Ids
    BY <1>6
  <2> QED
    BY <1>6, <2>1, <2>2
<1> QED
  BY <1>1, <1>2, <1>3, <1>4, <1>5, <1>6 DEF MenuTasks

-----------------------------------------------------------------------------
(* What is kept, and what is offered for it *)

LEMMA KeptIsStorable ==
  ASSUME NEW target \in Targets, NEW c \in Contents, Accepts(target, c)
  PROVE  KeptAs(target, c) \in Storable(target) /\ KeptAs(target, c) # "absent"
BY DEF Storable, KeptAs, Contents

\* A link is text or blank, a profile text or a file.
LEMMA StorableIs ==
  /\ Storable("link") \subseteq {"text", "blank"}
  /\ Storable("profile") \subseteq {"text", "media"}
BY DEF Storable, KeptAs, Accepts, Contents

LEMMA KeysHold ==
  ASSUME NEW p \in ProtocolIds, NEW d \in DeviceIds \cup {Any}
  PROVE  <<"link", p, d>> \in Keys /\ <<"profile", Any, d>> \in Keys
<1>1. "link" \in Targets /\ "profile" \in Targets
  BY DEF Targets
<1>2. Key("link", p, d) \in Keys /\ Key("profile", p, d) \in Keys
  BY <1>1 DEF Keys
<1> QED
  BY <1>2 DEF Key

\* An upload is storable where it is put, and takes nothing away.
LEMMA SaveKeeps ==
  ASSUME MenuTypes, StoreInv, NEW h \in AdminTaps, Save(h)
  PROVE  /\ StoreInv'
         /\ \A k \in Keys : store[k] # "absent" => store'[k] # "absent"
<1> DEFINE d == tap[h].data
           k == Key(d.target, d.protocol, d.device)
           c == KeptAs(d.target, tap[h].arg)
<1>1. store' = Put(k, c)
  BY DEF Save
<1>2. d.target \in Targets /\ c \in Storable(d.target) /\ c # "absent"
  BY KeptIsStorable DEF Save, MenuTypes, JobOK
<1>3. k[1] = d.target
  BY DEF Key
<1>4. CASE k \in Keys
  <2>1. store' = [store EXCEPT ![k] = c]
    BY <1>1, <1>4 DEF Put
  <2> QED
    BY <2>1, <1>2, <1>3, <1>4 DEF StoreInv
<1>5. CASE k \notin Keys
  <2>1. store' = store
    BY <1>1, <1>5 DEF Put
  <2> QED
    BY <2>1 DEF StoreInv
<1> QED
  BY <1>4, <1>5

\* Whoever only writes uploads keeps what was offered.
LEMMA StillKept ==
  ASSUME OfferInv, \A k \in Keys : store[k] # "absent" => store'[k] # "absent",
         UNCHANGED offered
  PROVE  OfferInv'
<1> SUFFICES ASSUME NEW b \in offered
             PROVE  b \in {"link", "profile"} \X ProtocolIds \X DeviceIds /\ IsKept(b)'
  BY DEF OfferInv
<1>1. b \in {"link", "profile"} \X ProtocolIds \X DeviceIds /\ IsKept(b)
  BY DEF OfferInv
<1>2. CASE b[1] = "link"
  <2>1. b = <<"link", b[2], b[3]>> /\ b[2] \in ProtocolIds /\ b[3] \in DeviceIds
    BY <1>1, <1>2
  <2>2. b \in Keys /\ <<"link", b[2], Any>> \in Keys
    BY <2>1, KeysHold
  <2> QED
    BY <1>1, <1>2, <2>2 DEF IsKept
<1>3. CASE b[1] = "profile"
  <2>1. b[2] \in ProtocolIds /\ b[3] \in DeviceIds
    BY <1>1
  <2>2. <<"profile", Any, b[3]>> \in Keys /\ <<"profile", Any, Any>> \in Keys
    BY <2>1, KeysHold
  <2> QED
    BY <1>1, <1>3, <2>2 DEF IsKept, Profile
<1> QED
  BY <1>1, <1>2, <1>3

LEMMA OfferedWhatIsKept ==
  ASSUME OfferInv, NEW p \in ProtocolIds, NEW d \in DeviceIds, Tutorial(p, d)
  PROVE  OfferInv'
<1> SUFFICES ASSUME NEW b \in offered'
             PROVE  b \in {"link", "profile"} \X ProtocolIds \X DeviceIds /\ IsKept(b)'
  BY DEF OfferInv
<1>1. UNCHANGED store
  BY DEF Tutorial
<1>2. IsKept(b)' = IsKept(b)
  BY <1>1 DEF IsKept, Profile
<1>3. CASE b \in offered
  BY <1>2, <1>3 DEF OfferInv
<1>4. CASE b \notin offered
  <2>1. b \in Extras(p, d)
    BY <1>4 DEF Tutorial
  <2>2. b \in {<<"link", p, d>>, <<"profile", p, d>>} /\ Has(b)
    BY <2>1 DEF Extras
  <2>3. IsKept(b)
    BY <2>2 DEF Has, Link, IsKept
  <2> QED
    BY <2>2, <2>3, <1>2
<1> QED
  BY <1>3, <1>4

-----------------------------------------------------------------------------
(* What arrives *)

\* A handler starts; in order when it comes from where the screen was.
LEMMA Arrived ==
  ASSUME MenuTypes, NEW h \in AdminTaps,
         NEW task \in MenuTasks \cup {"content"}, NEW on \in 0..Len(screen),
         NEW arg \in {Unset} \cup Targets \cup Contents \cup (SomeTarget \X Ids),
         task \notin {"command", "content"} => on >= 1,
         task = "target" => arg \in Targets,
         task \in {"pick_protocol", "pick_platform"} => arg \in SomeTarget \X Ids,
         task = "content" => arg \in Contents,
         ~mixed /\ ChatAgrees /\ on = Len(screen) => ComesFrom([NoTap EXCEPT !.task = task, !.arg = arg]),
         Arrive(h, task, on, arg)
  PROVE  MenuTypes' /\ (OrderlyInv => OrderlyInv')
<1> DEFINE t == [NoTap EXCEPT !.pc = "handler", !.task = task, !.on = on, !.arg = arg]
<1>1. /\ tap' = [tap EXCEPT ![h] = t]
      /\ mixed' = (mixed \/ Overlaps \/ on # Len(screen))
      /\ UNCHANGED <<chat, screen>>
  BY DEF Arrive
<1>2. Len(screen) \in Nat
  BY LenProperties DEF MenuTypes
<1>3. /\ t \in Jobs /\ t.pc = "handler"
      /\ t.task = task /\ t.on = on /\ t.arg = arg
  <2>1. on \in Nat
    BY <1>2
  <2>2. task \in MenuTasks \cup {"none", "content"}
    OBVIOUS
  <2>3. t \in Jobs
    BY <2>1, <2>2, NoJob DEF Jobs
  <2> QED
    BY <2>3, NoJob DEF Jobs
<1> HIDE DEF t
<1>4. JobOK(t)
  BY <1>2, <1>3 DEF JobOK, MenuTasks
<1>5. tap'[h] = t /\ \A g \in AdminTaps : g # h => tap'[g] = tap[g]
  BY <1>1 DEF MenuTypes
<1>6. MenuTypes'
  <2>1. (chat \in Conversations)' /\ (screen \in Seq(MenuScreens))'
    BY <1>1 DEF MenuTypes
  <2>2. tap' \in [AdminTaps -> Jobs]
    BY <1>1, <1>3 DEF MenuTypes
  <2>3. \A g \in AdminTaps : JobOK(tap[g])'
    <3> SUFFICES ASSUME NEW g \in AdminTaps PROVE JobOK(tap'[g])
      BY <1>1 DEF JobOK
    <3> QED
      BY <1>4, <1>5 DEF MenuTypes
  <2>4. mixed' \in BOOLEAN
    BY <1>1
  <2> QED
    BY <2>1, <2>2, <2>3, <2>4 DEF MenuTypes
<1>7. ASSUME OrderlyInv PROVE OrderlyInv'
  <2> SUFFICES ASSUME ~mixed' PROVE OrderlyInv'
    BY DEF OrderlyInv
  <2>1. ~mixed /\ on = Len(screen) /\ \A g \in AdminTaps : tap[g].pc = "idle"
    BY <1>1 DEF Overlaps
  <2>2. ChatAgrees
    BY <1>7, <2>1 DEF OrderlyInv
  <2>3. ComesFrom(t)
    <3>1. ComesFrom([NoTap EXCEPT !.task = task, !.arg = arg])
      BY <2>1, <2>2
    <3>2. /\ [NoTap EXCEPT !.task = task, !.arg = arg].task = task
          /\ [NoTap EXCEPT !.task = task, !.arg = arg].arg = arg
      BY DEF NoTap
    <3> QED
      BY <3>1, <3>2, <1>3 DEF ComesFrom
  <2>4. ChatAgrees' /\ ComesFrom(tap[h])'
    BY <1>1, <1>5, <2>2, <2>3 DEF ChatAgrees, ComesFrom, Last
  <2>5. \A g \in AdminTaps : g # h => tap'[g].pc = "idle"
    BY <1>5, <2>1
  <2> QED
    BY <1>1, <1>3, <1>5, <2>1, <2>4, <2>5 DEF OrderlyInv
<1> QED
  BY <1>6, <1>7

LEMMA CommandArrives ==
  ASSUME MenuTypes, NEW h \in AdminTaps, Command(h)
  PROVE  MenuTypes' /\ (OrderlyInv => OrderlyInv')
<1>1. Len(screen) \in 0..Len(screen)
  BY LenProperties DEF MenuTypes
<1>2. ComesFrom([NoTap EXCEPT !.task = "command", !.arg = Unset])
  BY DEF ComesFrom, NoTap
<1> QED
  BY <1>1, <1>2, Arrived DEF Command, MenuTasks

LEMMA ContentArrives ==
  ASSUME MenuTypes, NEW h \in AdminTaps, SendContent(h)
  PROVE  MenuTypes' /\ (OrderlyInv => OrderlyInv')
<1>1. Len(screen) \in 0..Len(screen)
  BY LenProperties DEF MenuTypes
<1>2. PICK c \in Contents : Arrive(h, "content", Len(screen), c)
  BY DEF SendContent
<1>3. ComesFrom([NoTap EXCEPT !.task = "content", !.arg = c])
  BY DEF ComesFrom, NoTap, SendContent
<1> QED
  BY <1>1, <1>2, <1>3, Arrived

LEMMA TapArrives ==
  ASSUME MenuTypes, NEW h \in AdminTaps, TapButton(h)
  PROVE  MenuTypes' /\ (OrderlyInv => OrderlyInv')
<1>0. PICK i \in 1..Len(screen) : \E b \in ButtonsOf(screen[i]) :
        IF b.to = "pick"
        THEN /\ chat.state \in {"pick_protocol", "pick_platform"}
             /\ chat.state = "pick_protocol" => b.id # Any
             /\ Arrive(h, chat.state, i, <<b.target, b.id>>)
        ELSE Arrive(h, b.to, i, b.target)
  BY DEF TapButton
<1>1. PICK b \in ButtonsOf(screen[i]) :
        IF b.to = "pick"
        THEN /\ chat.state \in {"pick_protocol", "pick_platform"}
             /\ chat.state = "pick_protocol" => b.id # Any
             /\ Arrive(h, chat.state, i, <<b.target, b.id>>)
        ELSE Arrive(h, b.to, i, b.target)
  BY <1>0
<1>2. screen[i] \in MenuScreens /\ i \in 0..Len(screen) /\ i >= 1
  BY LenProperties, ElementOfSeq DEF MenuTypes
<1>3. screen[i].target \in SomeTarget
  BY <1>2 DEF MenuScreens
<1>4. /\ b.to \in {"target", "pick", "root", "protocol", "platform"}
      /\ b.to = "target" => screen[i].step = "root" /\ b.target \in Targets
      /\ b.to = "pick" => /\ screen[i].step \in {"protocol", "platform"}
                          /\ b.target = screen[i].target /\ b.id \in Ids
      /\ b.to = "protocol" => screen[i].step = "platform"
      /\ b.to = "platform" => screen[i].step = "content"
      /\ b.to \in {"root", "protocol", "platform"} => b.target = Unset
  BY <1>2, ButtonsLead
<1>5. ASSUME i = Len(screen) PROVE screen # << >> /\ Last = screen[i]
  BY <1>2, <1>5 DEF Last
<1>6. CASE b.to = "pick"
  <2> DEFINE a == <<b.target, b.id>>
             t == [NoTap EXCEPT !.task = chat.state, !.arg = a]
  <2>1. a \in SomeTarget \X Ids /\ a[1] = screen[i].target
    BY <1>3, <1>4, <1>6
  <2>2. t.task = chat.state /\ t.arg = a
    BY DEF NoTap
  <2>3. chat.state \in {"pick_protocol", "pick_platform"} /\ Arrive(h, chat.state, i, a)
    BY <1>1, <1>6
  <2> HIDE DEF a, t
  <2>4. ASSUME ChatAgrees, i = Len(screen) PROVE ComesFrom(t)
    <3>1. Agree(chat, Last) /\ Last = screen[i]
      BY <1>5, <2>4 DEF ChatAgrees
    <3> QED
      BY <3>1, <1>4, <1>6, <2>1, <2>2, <2>3 DEF Agree, ComesFrom
  <2> QED
    BY <1>2, <2>1, <2>3, <2>4, Arrived DEF t, MenuTasks
<1>7. CASE b.to # "pick"
  <2> DEFINE t == [NoTap EXCEPT !.task = b.to, !.arg = b.target]
  <2>1. t.task = b.to /\ t.arg = b.target
    BY DEF NoTap
  <2>2. Arrive(h, b.to, i, b.target)
    BY <1>1, <1>7
  <2> HIDE DEF t
  <2>3. ASSUME i = Len(screen) PROVE ComesFrom(t)
    BY <1>4, <1>5, <1>7, <2>1, <2>3 DEF ComesFrom
  <2>4. b.to \in MenuTasks \ {"command", "pick_protocol", "pick_platform"} /\ b.target \in {Unset} \cup Targets
    BY <1>4, <1>7 DEF MenuTasks
  <2> QED
    BY <1>2, <1>4, <2>2, <2>3, <2>4, Arrived DEF t
<1> QED
  BY <1>6, <1>7

-----------------------------------------------------------------------------
(* What a handler writes *)

LEMMA UnsetIsNone == Unset \notin Targets /\ Unset \notin Ids
BY GuidesAssumption DEF Targets, Ids

\* In order, a handler finds the conversation where its screen says.
LEMMA InOrder ==
  ASSUME MenuTypes, OrderlyInv, ~mixed, NEW h \in AdminTaps, tap[h].pc \in {"handler", "save"}
  PROVE  /\ tap[h].on = Len(screen)
         /\ ChatAgrees
         /\ \A g \in AdminTaps : g # h => tap[g].pc = "idle"
         /\ tap[h].pc = "handler" => ComesFrom(tap[h])
         /\ tap[h].on >= 1 => screen # <<>> /\ screen[tap[h].on] = Last /\ Agree(chat, Last)
<1>1. \A g \in AdminTaps : g # h => tap[g].pc = "idle"
  BY DEF OrderlyInv
<1>2. ChatAgrees
  BY <1>1 DEF OrderlyInv
<1>3. tap[h].on = Len(screen)
  BY DEF OrderlyInv
<1>4. ASSUME tap[h].on >= 1 PROVE screen # <<>>
  BY <1>3, <1>4
<1> QED
  BY <1>1, <1>2, <1>3, <1>4 DEF OrderlyInv, ChatAgrees, Last

\* Writing the conversation is in order when the screen to come agrees.
LEMMA Wrote ==
  ASSUME MenuTypes, NEW h \in AdminTaps, tap[h].pc = "handler", NEW task \in MenuTasks,
         ThenShows(h, task), chat' \in Conversations, UNCHANGED <<screen, store, offered, mixed>>,
         task # "command" => tap[h].on >= 1,
         task = "target" => tap[h].arg \in Targets,
         task \in {"pick_protocol", "pick_platform"} => tap[h].arg \in SomeTarget \X Ids,
         ~mixed /\ OrderlyInv =>
           /\ Agree(chat', Shown(IF tap[h].on = 0 THEN Root ELSE screen[tap[h].on],
                                 task, tap[h].arg, chat'))
           /\ task = "pick_platform" => chat'.target # Unset
  PROVE  MenuTypes' /\ (OrderlyInv => OrderlyInv')
<1> DEFINE t == [tap[h] EXCEPT !.pc = "edit", !.task = task, !.data = chat']
<1>1. tap[h] \in Jobs /\ JobOK(tap[h])
  BY DEF MenuTypes
<1>2. tap' = [tap EXCEPT ![h] = t]
  BY DEF ThenShows
<1>3. /\ t \in Jobs /\ t.pc = "edit" /\ t.task = task /\ t.data = chat'
      /\ t.on = tap[h].on /\ t.arg = tap[h].arg
  BY <1>1 DEF Jobs
<1> HIDE DEF t
<1>4. JobOK(t)
  BY <1>1, <1>3 DEF JobOK, MenuTasks
<1>5. tap'[h] = t /\ \A g \in AdminTaps : g # h => tap'[g] = tap[g]
  BY <1>2 DEF MenuTypes
<1>6. MenuTypes'
  <2>1. tap' \in [AdminTaps -> Jobs]
    BY <1>2, <1>3 DEF MenuTypes
  <2>2. \A g \in AdminTaps : JobOK(tap[g])'
    <3> SUFFICES ASSUME NEW g \in AdminTaps PROVE JobOK(tap'[g])
      BY DEF JobOK
    <3> QED
      BY <1>4, <1>5 DEF MenuTypes
  <2> QED
    BY <2>1, <2>2 DEF MenuTypes
<1>7. ASSUME OrderlyInv PROVE OrderlyInv'
  <2> SUFFICES ASSUME ~mixed PROVE OrderlyInv'
    BY DEF OrderlyInv
  <2>1. tap[h].on = Len(screen) /\ \A g \in AdminTaps : g # h => tap[g].pc = "idle"
    BY <1>7, InOrder
  <2>2. /\ Agree(chat', Shown(IF t.on = 0 THEN Root ELSE screen[t.on], t.task, t.arg, chat'))
        /\ t.task = "pick_platform" => chat'.target # Unset
    BY <1>3, <1>7
  <2>3. Agree(chat, NextScreen(tap[h]))'
    <3>1. NextScreen(tap[h])' = Shown(IF t.on = 0 THEN Root ELSE screen[t.on], t.task, t.arg, chat')
      BY <1>3, <1>5 DEF NextScreen
    <3> QED
      BY <3>1, <2>2 DEF Agree
  <2>4. \A g \in AdminTaps : g # h => tap'[g].pc = "idle"
    BY <1>5, <2>1
  <2> QED
    BY <1>3, <1>5, <2>1, <2>2, <2>3, <2>4 DEF OrderlyInv
<1> QED
  BY <1>6, <1>7

\* What an admin's handler starts from.
LEMMA HandlingIs ==
  ASSUME MenuTypes, NEW h \in AdminTaps, NEW task, Handling(h, task)
  PROVE  /\ tap[h] \in Jobs /\ JobOK(tap[h]) /\ chat \in Conversations
         /\ tap[h].pc = "handler" /\ tap[h].task = task
         /\ task \in {"root", "protocol", "platform", "target", "pick_protocol", "pick_platform"} =>
              /\ tap[h].on >= 1 /\ tap[h].on # 0
              /\ screen[tap[h].on] \in MenuScreens
<1>1. /\ tap[h] \in Jobs /\ JobOK(tap[h]) /\ chat \in Conversations
      /\ tap[h].pc = "handler" /\ tap[h].task = task
  BY DEF MenuTypes, Handling
<1>2. ASSUME task \in {"root", "protocol", "platform", "target", "pick_protocol", "pick_platform"}
      PROVE  tap[h].on >= 1 /\ tap[h].on \in 1..Len(screen)
  BY <1>1, <1>2, LenProperties DEF JobOK, MenuTypes
<1>3. \A i \in 1..Len(screen) : screen[i] \in MenuScreens
  BY ElementOfSeq DEF MenuTypes
<1> QED
  BY <1>1, <1>2, <1>3

LEMMA RestartWrites ==
  ASSUME MenuTypes, NEW h \in AdminTaps, Restart(h)
  PROVE  MenuTypes' /\ (OrderlyInv => OrderlyInv')
<1>1. tap[h].pc = "handler" /\ tap[h].on \in Nat
  BY HandlingIs DEF Restart, Jobs
<1>2. chat' = Idle /\ chat' \in Conversations
  BY IdleIsConversation DEF Restart
<1> DEFINE s == IF tap[h].on = 0 THEN Root ELSE screen[tap[h].on]
<1>3. Agree(chat', Shown(s, "command", tap[h].arg, chat'))
  <2>1. Shown(s, "command", tap[h].arg, chat') = Root
    BY DEF Shown
  <2> QED
    BY <1>2, <2>1, RootIsScreen DEF Agree
<1> QED
  BY <1>1, <1>2, <1>3, Wrote DEF Restart, MenuTasks

LEMMA BackToRootWrites ==
  ASSUME MenuTypes, NEW h \in AdminTaps, BackToRoot(h)
  PROVE  MenuTypes' /\ (OrderlyInv => OrderlyInv')
<1>1. tap[h].pc = "handler" /\ tap[h].on >= 1
  BY HandlingIs DEF BackToRoot
<1>2. chat' = Idle /\ chat' \in Conversations
  BY IdleIsConversation DEF BackToRoot
<1> DEFINE s == IF tap[h].on = 0 THEN Root ELSE screen[tap[h].on]
<1>3. Agree(chat', Shown(s, "root", tap[h].arg, chat'))
  <2>1. Shown(s, "root", tap[h].arg, chat') = Root
    BY DEF Shown
  <2> QED
    BY <1>2, <2>1, RootIsScreen DEF Agree
<1> QED
  BY <1>1, <1>2, <1>3, Wrote DEF BackToRoot, MenuTasks

\* Back to the protocols of the target that was picked.
LEMMA BackToProtocolWrites ==
  ASSUME MenuTypes, NEW h \in AdminTaps, BackToProtocol(h)
  PROVE  MenuTypes' /\ (OrderlyInv => OrderlyInv')
<1>1. /\ tap[h].pc = "handler" /\ tap[h].task = "protocol" /\ tap[h].on >= 1 /\ tap[h].on # 0
      /\ screen[tap[h].on] \in MenuScreens /\ chat \in Conversations
  BY HandlingIs DEF BackToProtocol
<1>2. /\ chat' \in Conversations /\ chat'.state = "pick_protocol"
      /\ chat'.target = chat.target /\ chat.target # Unset
  BY <1>1 DEF BackToProtocol, Conversations
<1> DEFINE s == IF tap[h].on = 0 THEN Root ELSE screen[tap[h].on]
           n == Shown(s, "protocol", tap[h].arg, chat')
<1>3. n.step = "protocol" /\ n.target = chat'.target
  BY <1>1, <1>2, ScreenShown DEF MenuTasks
<1> HIDE DEF n
<1>4. Agree(chat', n)
  BY <1>2, <1>3 DEF Agree
<1> QED
  BY <1>1, <1>2, <1>4, Wrote DEF n, BackToProtocol, MenuTasks

\* Back from the prompt to the devices of the protocol on it.
LEMMA BackToPlatformWrites ==
  ASSUME MenuTypes, NEW h \in AdminTaps, BackToPlatform(h)
  PROVE  MenuTypes' /\ (OrderlyInv => OrderlyInv')
<1>1. /\ tap[h].pc = "handler" /\ tap[h].task = "platform" /\ tap[h].on >= 1 /\ tap[h].on # 0
      /\ screen[tap[h].on] \in MenuScreens /\ chat \in Conversations
  BY HandlingIs DEF BackToPlatform
<1>2. /\ chat' \in Conversations /\ chat'.state = "pick_platform"
      /\ chat'.target = chat.target /\ chat'.protocol = chat.protocol
      /\ Unset \notin {chat.target, chat.protocol}
  BY <1>1 DEF BackToPlatform, Conversations
<1> DEFINE s == IF tap[h].on = 0 THEN Root ELSE screen[tap[h].on]
           n == Shown(s, "platform", tap[h].arg, chat')
<1>3. n.step = "platform" /\ n.target = chat'.target /\ n.protocol = s.protocol
  BY <1>1, <1>2, ScreenShown DEF MenuTasks
<1> HIDE DEF n
<1>4. ASSUME ~mixed, OrderlyInv PROVE Agree(chat', n)
  <2>1. s = Last /\ Agree(chat, Last) /\ ComesFrom(tap[h])
    BY <1>1, <1>4, InOrder
  <2>2. Last.step = "content" /\ chat # Idle
    BY <1>1, <1>2, <2>1, IdleIsConversation DEF ComesFrom
  <2>3. chat.protocol = s.protocol
    BY <2>1, <2>2 DEF Agree
  <2> QED
    BY <1>2, <1>3, <2>3 DEF Agree
<1> QED
  BY <1>1, <1>2, <1>4, Wrote DEF n, BackToPlatform, MenuTasks

LEMMA PickTargetWrites ==
  ASSUME MenuTypes, NEW h \in AdminTaps, PickTarget(h)
  PROVE  MenuTypes' /\ (OrderlyInv => OrderlyInv')
<1>1. /\ tap[h].pc = "handler" /\ tap[h].task = "target" /\ tap[h].on >= 1 /\ tap[h].on # 0
      /\ screen[tap[h].on] \in MenuScreens /\ chat \in Conversations /\ JobOK(tap[h])
  BY HandlingIs DEF PickTarget
<1>2. tap[h].arg \in Targets
  BY <1>1 DEF JobOK
<1>3. /\ chat' \in Conversations /\ chat'.state = "pick_protocol" /\ chat'.target = tap[h].arg
  BY <1>1, <1>2 DEF PickTarget, Conversations, SomeTarget
<1> DEFINE s == IF tap[h].on = 0 THEN Root ELSE screen[tap[h].on]
           n == Shown(s, "target", tap[h].arg, chat')
<1>4. n.step = "protocol" /\ n.target = tap[h].arg
  BY <1>1, <1>2, <1>3, ScreenShown DEF MenuTasks
<1> HIDE DEF n
<1>5. Agree(chat', n)
  BY <1>2, <1>3, <1>4, UnsetIsNone DEF Agree
<1> QED
  BY <1>1, <1>2, <1>3, <1>5, Wrote DEF n, PickTarget, MenuTasks

\* A protocol's button is on the screen of the conversation's target.
LEMMA PickProtocolWrites ==
  ASSUME MenuTypes, NEW h \in AdminTaps, PickProtocol(h)
  PROVE  MenuTypes' /\ (OrderlyInv => OrderlyInv')
<1>1. /\ tap[h].pc = "handler" /\ tap[h].task = "pick_protocol" /\ tap[h].on >= 1 /\ tap[h].on # 0
      /\ screen[tap[h].on] \in MenuScreens /\ chat \in Conversations /\ JobOK(tap[h])
  BY HandlingIs DEF PickProtocol
<1>2. tap[h].arg \in SomeTarget \X Ids /\ tap[h].arg[2] \in Ids
  BY <1>1 DEF JobOK
<1>3. /\ chat' \in Conversations /\ chat'.state = "pick_platform"
      /\ chat'.target = chat.target /\ chat'.protocol = tap[h].arg[2]
  BY <1>1, <1>2 DEF PickProtocol, Conversations, SomeId
<1> DEFINE s == IF tap[h].on = 0 THEN Root ELSE screen[tap[h].on]
           n == Shown(s, "pick_protocol", tap[h].arg, chat')
<1>4. n.step = "platform" /\ n.target = tap[h].arg[1] /\ n.protocol = tap[h].arg[2]
  BY <1>1, <1>2, <1>3, ScreenShown DEF MenuTasks
<1> HIDE DEF n
<1>5. ASSUME ~mixed, OrderlyInv PROVE Agree(chat', n)
  <2>1. Agree(chat, Last) /\ ComesFrom(tap[h])
    BY <1>1, <1>5, InOrder
  <2>2. Last.step = "protocol" /\ tap[h].arg[1] = Last.target
    BY <1>1, <2>1 DEF ComesFrom
  <2>3. chat.target = tap[h].arg[1] /\ chat.target # Unset
    BY <2>1, <2>2 DEF Agree
  <2> QED
    BY <1>2, <1>3, <1>4, <2>3, UnsetIsNone DEF Agree
<1> QED
  BY <1>1, <1>2, <1>3, <1>5, Wrote DEF n, PickProtocol, MenuTasks

\* A device's button is on the screen of the conversation's target and protocol.
LEMMA PickPlatformWrites ==
  ASSUME MenuTypes, NEW h \in AdminTaps, PickPlatform(h)
  PROVE  MenuTypes' /\ (OrderlyInv => OrderlyInv')
<1>1. /\ tap[h].pc = "handler" /\ tap[h].task = "pick_platform" /\ tap[h].on >= 1 /\ tap[h].on # 0
      /\ screen[tap[h].on] \in MenuScreens /\ chat \in Conversations /\ JobOK(tap[h])
  BY HandlingIs DEF PickPlatform
<1>2. tap[h].arg \in SomeTarget \X Ids /\ tap[h].arg[2] \in Ids
  BY <1>1 DEF JobOK
<1>3. /\ chat' \in Conversations /\ chat'.state = "await_content"
      /\ chat'.target = chat.target /\ chat'.protocol = chat.protocol /\ chat'.device = tap[h].arg[2]
  BY <1>1, <1>2 DEF PickPlatform, Conversations, SomeId
<1> DEFINE s == IF tap[h].on = 0 THEN Root ELSE screen[tap[h].on]
           n == Shown(s, "pick_platform", tap[h].arg, chat')
<1>4. n.step = "content" /\ n.target = chat'.target /\ n.protocol = s.protocol /\ n.device = tap[h].arg[2]
  BY <1>1, <1>2, <1>3, ScreenShown DEF MenuTasks
<1> HIDE DEF n
<1>5. ASSUME ~mixed, OrderlyInv PROVE Agree(chat', n) /\ chat'.target # Unset
  <2>1. s = Last /\ Agree(chat, Last) /\ ComesFrom(tap[h])
    BY <1>1, <1>5, InOrder
  <2>2. Last.step = "platform"
    BY <1>1, <2>1 DEF ComesFrom
  <2>3. chat.target # Unset /\ chat.protocol = s.protocol /\ chat.protocol # Unset
    BY <2>1, <2>2 DEF Agree
  <2> QED
    BY <1>2, <1>3, <1>4, <2>3, UnsetIsNone DEF Agree
<1> QED
  BY <1>1, <1>2, <1>3, <1>5, Wrote DEF n, PickPlatform, MenuTasks

-----------------------------------------------------------------------------
(* How a handler ends *)

LEMMA Ended ==
  ASSUME MenuTypes, NEW h \in AdminTaps, Ends(h), chat' \in Conversations,
         screen' \in Seq(MenuScreens), Len(screen') >= Len(screen), mixed' \in BOOLEAN,
         OrderlyInv /\ ~mixed' =>
           ChatAgrees' /\ ~mixed /\ \A g \in AdminTaps : g # h => tap[g].pc = "idle"
  PROVE  MenuTypes' /\ (OrderlyInv => OrderlyInv')
<1>1. tap'[h] = NoTap /\ \A g \in AdminTaps : g # h => tap'[g] = tap[g]
  BY DEF Ends, MenuTypes
<1>2. MenuTypes'
  <2>1. tap' \in [AdminTaps -> Jobs]
    BY NoJob DEF Ends, MenuTypes
  <2>2. \A g \in AdminTaps : JobOK(tap[g])'
    <3> SUFFICES ASSUME NEW g \in AdminTaps PROVE JobOK(tap[g])'
      OBVIOUS
    <3>1. CASE g = h
      BY <1>1, <3>1, NoJob DEF JobOK
    <3>2. CASE g # h
      <4>1. tap'[g] = tap[g] /\ JobOK(tap[g])
        BY <1>1, <3>2 DEF MenuTypes
      <4>2. Len(screen) \in Nat /\ Len(screen') \in Nat
        BY LenProperties DEF MenuTypes
      <4>3. tap[g].on \in 0..Len(screen) => tap[g].on \in 0..Len(screen')
        BY <4>2
      <4> QED
        BY <4>1, <4>3 DEF JobOK
    <3> QED
      BY <3>1, <3>2
  <2> QED
    BY <2>1, <2>2 DEF MenuTypes
<1>3. ASSUME OrderlyInv, ~mixed' PROVE OrderlyInv'
  <2>1. \A g \in AdminTaps : tap'[g].pc = "idle"
    BY <1>1, <1>3, NoJob
  <2> QED
    BY <1>3, <2>1 DEF OrderlyInv
<1> QED
  BY <1>2, <1>3 DEF OrderlyInv

\* The screen in place of the tapped one is the newest.
LEMMA ScreenComes ==
  ASSUME MenuTypes, NEW h \in AdminTaps, ShowScreen(h)
  PROVE  MenuTypes' /\ (OrderlyInv => OrderlyInv')
<1> DEFINE t == tap[h]
           next == NextScreen(t)
<1>1. t \in Jobs /\ JobOK(t) /\ chat \in Conversations /\ t.pc = "edit"
  BY DEF ShowScreen, MenuTypes
<1>2. t.on \in 0..Len(screen) /\ t.task \in MenuTasks /\ Len(screen) \in Nat
  BY <1>1, LenProperties DEF JobOK, Jobs, MenuTasks, MenuTypes
<1>3. (IF t.on = 0 THEN Root ELSE screen[t.on]) \in MenuScreens
  BY <1>2, RootIsScreen, ElementOfSeq DEF MenuTypes
<1>4. (IF t.task = "pick_platform" THEN chat ELSE t.data) \in Conversations
  BY <1>1 DEF Jobs
<1>5. /\ next \in MenuScreens
      /\ t.task = "command" => next = Root
  BY <1>1, <1>2, <1>3, <1>4, ScreenShown DEF NextScreen, JobOK
<1>6. screen' = IF t.task = "command" THEN Append(screen, Root)
                ELSE IF t.task = "pick_platform" /\ chat.target = Unset THEN screen
                ELSE [screen EXCEPT ![t.on] = next]
  BY DEF ShowScreen, NextScreen
<1>7. t.task # "command" => t.on \in 1..Len(screen)
  BY <1>1, <1>2 DEF JobOK, MenuTasks
<1>8. OrderlyInv /\ ~mixed => /\ t.on = Len(screen) /\ Agree(chat, next)
                              /\ t.task = "pick_platform" => chat.target # Unset
                              /\ \A g \in AdminTaps : g # h => tap[g].pc = "idle"
  BY <1>1 DEF OrderlyInv
<1> HIDE DEF t, next
<1>9. /\ screen' \in Seq(MenuScreens) /\ Len(screen') >= Len(screen)
      /\ OrderlyInv /\ ~mixed => screen' # <<>> /\ screen'[Len(screen')] = next
  <2>1. CASE t.task = "command"
    <3>1. /\ screen' \in Seq(MenuScreens) /\ Len(screen') = Len(screen) + 1
          /\ screen'[Len(screen) + 1] = Root
      BY <1>6, <2>1, RootIsScreen, AppendProperties DEF MenuTypes
    <3> QED
      BY <1>2, <1>5, <2>1, <3>1
  <2>2. CASE t.task = "pick_platform" /\ chat.target = Unset
    BY <1>2, <1>6, <1>8, <2>2 DEF MenuTypes
  <2>3. CASE t.task # "command" /\ ~(t.task = "pick_platform" /\ chat.target = Unset)
    <3>1. screen' = [screen EXCEPT ![t.on] = next]
      BY <1>6, <2>3
    <3>2. /\ screen' \in Seq(MenuScreens) /\ Len(screen') = Len(screen)
          /\ screen'[t.on] = next
      BY <1>5, <1>7, <2>3, <3>1, ExceptSeq DEF MenuTypes
    <3> QED
      BY <1>2, <1>7, <1>8, <2>3, <3>2
  <2> QED
    BY <2>1, <2>2, <2>3
<1>10. UNCHANGED <<chat, mixed>> /\ Ends(h)
  BY DEF ShowScreen
<1>11. OrderlyInv /\ ~mixed' => ChatAgrees'
  BY <1>8, <1>9, <1>10 DEF ChatAgrees, Last, Agree
<1> QED
  BY <1>1, <1>8, <1>9, <1>10, <1>11, Ended DEF MenuTypes

\* What is accepted is for the prompt the conversation is at.
LEMMA Received ==
  ASSUME MenuTypes, NEW h \in AdminTaps, Receive(h)
  PROVE  MenuTypes' /\ (OrderlyInv => OrderlyInv')
<1> DEFINE t == [tap[h] EXCEPT !.pc = "save", !.data = chat]
           saves == Unset \notin {chat.target, chat.protocol, chat.device} /\ Accepts(chat.target, tap[h].arg)
<1>1. /\ tap[h] \in Jobs /\ JobOK(tap[h]) /\ chat \in Conversations
      /\ tap[h].pc = "handler" /\ tap[h].task = "content"
  BY HandlingIs DEF Receive
<1>2. CASE saves
  <2>1. chat' = Idle /\ tap' = [tap EXCEPT ![h] = t] /\ UNCHANGED <<screen, mixed>>
    BY <1>2 DEF Receive
  <2>2. /\ t \in Jobs /\ t.pc = "save" /\ t.task = "content" /\ t.data = chat
        /\ t.on = tap[h].on /\ t.arg = tap[h].arg
    BY <1>1 DEF Jobs
  <2> HIDE DEF t
  <2>3. chat.target \in Targets
    BY <1>1, <1>2 DEF Conversations, SomeTarget
  <2>4. JobOK(t)
    BY <1>1, <1>2, <2>2, <2>3 DEF JobOK
  <2>5. tap'[h] = t /\ \A g \in AdminTaps : g # h => tap'[g] = tap[g]
    BY <2>1 DEF MenuTypes
  <2>6. MenuTypes'
    <3>1. tap' \in [AdminTaps -> Jobs]
      BY <2>1, <2>2 DEF MenuTypes
    <3>2. \A g \in AdminTaps : JobOK(tap[g])'
      <4> SUFFICES ASSUME NEW g \in AdminTaps PROVE JobOK(tap'[g])
        BY <2>1 DEF JobOK
      <4> QED
        BY <2>4, <2>5 DEF MenuTypes
    <3> QED
      BY <2>1, <3>1, <3>2, IdleIsConversation DEF MenuTypes
  <2>7. ASSUME OrderlyInv PROVE OrderlyInv'
    <3> SUFFICES ASSUME ~mixed PROVE OrderlyInv'
      BY <2>1 DEF OrderlyInv
    <3>1. /\ tap[h].on = Len(screen) /\ ChatAgrees /\ ComesFrom(tap[h])
          /\ \A g \in AdminTaps : g # h => tap[g].pc = "idle"
      BY <1>1, <2>7, InOrder
    <3>2. chat.state = "await_content" /\ chat # Idle
      BY <1>1, <3>1, IdleIsConversation DEF ComesFrom
    <3>3. screen # <<>> /\ Agree(chat, Last)
      BY <3>1, <3>2 DEF ChatAgrees
    <3>4. Last \in MenuScreens
      BY <3>3, LenProperties, ElementOfSeq, EmptySeq DEF MenuTypes, Last
    <3>5. Last.step = "content"
      BY <3>2, <3>3, <3>4 DEF Agree, MenuScreens
    <3>6. <<chat.target, chat.protocol, chat.device>> = <<Last.target, Last.protocol, Last.device>>
      BY <3>2, <3>3, <3>5 DEF Agree
    <3>7. ChatAgrees'
      BY <2>1, <3>3, <3>5 DEF ChatAgrees, Agree, Last
    <3>8. \A g \in AdminTaps : g # h => tap'[g].pc = "idle"
      BY <2>5, <3>1
    <3> QED
      BY <2>1, <2>2, <2>5, <3>1, <3>3, <3>5, <3>6, <3>7, <3>8 DEF OrderlyInv, Last
  <2> QED
    BY <2>6, <2>7
<1>3. CASE ~saves
  <2>1. Ends(h) /\ UNCHANGED <<chat, screen, mixed>>
    BY <1>3 DEF Receive
  <2>2. OrderlyInv /\ ~mixed' =>
          ChatAgrees' /\ ~mixed /\ \A g \in AdminTaps : g # h => tap[g].pc = "idle"
    BY <1>1, <2>1, InOrder DEF ChatAgrees, Last
  <2> QED
    BY <1>1, <2>1, <2>2, Ended, LenProperties DEF MenuTypes
<1> QED
  BY <1>2, <1>3

LEMMA SaveEnds ==
  ASSUME MenuTypes, NEW h \in AdminTaps, Save(h)
  PROVE  MenuTypes' /\ (OrderlyInv => OrderlyInv')
<1>1. Ends(h) /\ UNCHANGED <<chat, screen, mixed>> /\ tap[h].pc = "save"
  BY DEF Save
<1>2. OrderlyInv /\ ~mixed' =>
        ChatAgrees' /\ ~mixed /\ \A g \in AdminTaps : g # h => tap[g].pc = "idle"
  BY <1>1, InOrder DEF ChatAgrees, Last
<1> QED
  BY <1>1, <1>2, Ended, LenProperties DEF MenuTypes

LEMMA Abandoned ==
  ASSUME MenuTypes, NEW h \in AdminTaps, Abandon(h)
  PROVE  MenuTypes' /\ (OrderlyInv => OrderlyInv')
<1>1. Ends(h) /\ UNCHANGED <<chat, screen>> /\ mixed' = TRUE
  BY DEF Abandon
<1> QED
  BY <1>1, Ended, LenProperties DEF MenuTypes

-----------------------------------------------------------------------------
(* Always *)

GuidesInv == MenuTypes /\ StoreInv /\ OfferInv /\ OrderlyInv

\* A step that leaves the uploads and the offers alone.
LEMMA Elsewhere ==
  ASSUME StoreInv, OfferInv, UNCHANGED <<store, offered>>
  PROVE  StoreInv' /\ OfferInv'
BY DEF StoreInv, OfferInv, IsKept, Profile

LEMMA HandlersKeep ==
  ASSUME GuidesInv, Handlers
  PROVE  GuidesInv'
<1> USE DEF GuidesInv
<1>1. PICK h \in AdminTaps :
        \/ Restart(h) \/ BackToRoot(h) \/ BackToProtocol(h) \/ BackToPlatform(h)
        \/ PickTarget(h) \/ PickProtocol(h) \/ PickPlatform(h)
        \/ ShowScreen(h) \/ Receive(h) \/ Save(h)
  BY DEF Handlers
<1>2. CASE Restart(h)
  BY <1>2, RestartWrites, Elsewhere DEF Restart
<1>3. CASE BackToRoot(h)
  BY <1>3, BackToRootWrites, Elsewhere DEF BackToRoot
<1>4. CASE BackToProtocol(h)
  BY <1>4, BackToProtocolWrites, Elsewhere DEF BackToProtocol
<1>5. CASE BackToPlatform(h)
  BY <1>5, BackToPlatformWrites, Elsewhere DEF BackToPlatform
<1>6. CASE PickTarget(h)
  BY <1>6, PickTargetWrites, Elsewhere DEF PickTarget
<1>7. CASE PickProtocol(h)
  BY <1>7, PickProtocolWrites, Elsewhere DEF PickProtocol
<1>8. CASE PickPlatform(h)
  BY <1>8, PickPlatformWrites, Elsewhere DEF PickPlatform
<1>9. CASE ShowScreen(h)
  BY <1>9, ScreenComes, Elsewhere DEF ShowScreen
<1>10. CASE Receive(h)
  BY <1>10, Received, Elsewhere DEF Receive
<1>11. CASE Save(h)
  <2>1. MenuTypes' /\ OrderlyInv'
    BY <1>11, SaveEnds
  <2>2. StoreInv' /\ \A k \in Keys : store[k] # "absent" => store'[k] # "absent"
    BY <1>11, SaveKeeps
  <2>3. UNCHANGED offered
    BY <1>11 DEF Save
  <2> QED
    BY <2>1, <2>2, <2>3, StillKept
<1> QED
  BY <1>1, <1>2, <1>3, <1>4, <1>5, <1>6, <1>7, <1>8, <1>9, <1>10, <1>11

LEMMA GuidesStep ==
  ASSUME GuidesInv, [GuidesNext]_guidesVars
  PROVE  GuidesInv'
<1> USE DEF GuidesInv
<1>1. ASSUME NEW h \in AdminTaps, Command(h) PROVE GuidesInv'
  BY <1>1, CommandArrives, Elsewhere DEF Command, Arrive
<1>2. ASSUME NEW h \in AdminTaps, TapButton(h) PROVE GuidesInv'
  <2>1. UNCHANGED <<store, offered>>
    BY <1>2 DEF TapButton, Arrive
  <2> QED
    BY <1>2, <2>1, TapArrives, Elsewhere
<1>3. ASSUME NEW h \in AdminTaps, SendContent(h) PROVE GuidesInv'
  BY <1>3, ContentArrives, Elsewhere DEF SendContent, Arrive
<1>4. CASE Handlers
  BY <1>4, HandlersKeep
<1>5. ASSUME NEW h \in AdminTaps, Abandon(h) PROVE GuidesInv'
  BY <1>5, Abandoned, Elsewhere DEF Abandon
<1>6. ASSUME NEW p \in ProtocolIds, NEW d \in DeviceIds, Tutorial(p, d) PROVE GuidesInv'
  <2>1. UNCHANGED <<chat, screen, tap, store, mixed>>
    BY <1>6 DEF Tutorial
  <2>2. OfferInv'
    BY <1>6, OfferedWhatIsKept
  <2>3. MenuTypes' /\ StoreInv' /\ OrderlyInv'
    BY <2>1 DEF MenuTypes, JobOK, StoreInv, OrderlyInv, ChatAgrees, ComesFrom, NextScreen, Last, Agree
  <2> QED
    BY <2>2, <2>3
<1>7. CASE UNCHANGED guidesVars
  BY <1>7 DEF guidesVars, MenuTypes, JobOK, StoreInv, OfferInv, IsKept, Profile, OrderlyInv,
              ChatAgrees, ComesFrom, NextScreen, Last, Agree
<1> QED
  BY <1>1, <1>2, <1>3, <1>4, <1>5, <1>6, <1>7 DEF GuidesNext

LEMMA GuidesInvInit == GuidesInit => GuidesInv
<1> SUFFICES ASSUME GuidesInit PROVE GuidesInv
  OBVIOUS
<1>1. chat = Idle /\ screen = << >> /\ tap = [h \in AdminTaps |-> NoTap] /\ offered = {} /\ mixed = FALSE
  BY DEF GuidesInit
<1>2. MenuTypes
  BY <1>1, IdleIsConversation, NoJob, EmptySeq DEF MenuTypes, JobOK
<1>3. StoreInv /\ OfferInv
  BY <1>1 DEF GuidesInit, StoreInv, OfferInv
<1>4. OrderlyInv
  BY <1>1, NoJob DEF OrderlyInv, ChatAgrees
<1> QED
  BY <1>2, <1>3, <1>4 DEF GuidesInv

LEMMA GuidesInvAlways == GuidesSpec => []GuidesInv
BY GuidesInvInit, GuidesStep, PTL DEF GuidesSpec

\* A button offered to a customer still delivers, whatever was uploaded since
\* (app/services/tutorial_delivery.py): unless a link was saved blank.
THEOREM OfferedIsDeliveredAlways == GuidesSpec => []OfferedIsDelivered
<1>1. ASSUME GuidesInv PROVE OfferedIsDelivered
  <2> SUFFICES ASSUME NEW b \in offered
               PROVE  \/ Sends(b)
                      \/ b[1] = "link" /\ "blank" \in {store[b], store[<<"link", b[2], Any>>]}
    BY DEF OfferedIsDelivered
  <2>1. b \in {"link", "profile"} \X ProtocolIds \X DeviceIds /\ IsKept(b)
    BY <1>1 DEF GuidesInv, OfferInv
  <2>2. CASE b[1] = "link"
    <3>1. b = <<"link", b[2], b[3]>> /\ b[2] \in ProtocolIds /\ b[3] \in DeviceIds
      BY <2>1, <2>2
    <3>2. b \in Keys /\ <<"link", b[2], Any>> \in Keys
      BY <3>1, KeysHold
    <3>3. {store[b], store[<<"link", b[2], Any>>]} \subseteq {"absent", "text", "blank"}
      BY <1>1, <2>2, <3>2, StorableIs DEF GuidesInv, StoreInv
    <3>4. Sends(b) <=> IF store[b] = "text" THEN TRUE ELSE store[<<"link", b[2], Any>>] = "text"
      BY <2>2, <3>1 DEF Sends, LinkSent, Link
    <3> QED
      BY <2>1, <2>2, <3>3, <3>4 DEF IsKept
  <2>3. CASE b[1] = "profile"
    <3>1. <<"profile", Any, b[3]>> \in Keys /\ <<"profile", Any, Any>> \in Keys
      BY <2>1, KeysHold
    <3>2. {store[<<"profile", Any, b[3]>>], store[<<"profile", Any, Any>>]} \subseteq {"absent", "text", "media"}
      BY <1>1, <3>1, StorableIs DEF GuidesInv, StoreInv
    <3>3. Profile(b[3]) # "absent" /\ Profile(b[3]) \in {"absent", "text", "media"}
      BY <2>1, <2>3, <3>2 DEF IsKept, Profile
    <3> QED
      BY <2>3, <3>3 DEF Sends, ProfileSent
  <2> QED
    BY <2>1, <2>2, <2>3
<1> QED
  BY <1>1, GuidesInvAlways, PTL

\* Content is kept where the buttons tapped on the way to its prompt said
\* (admin_receive_content in app/bot/handlers/tutorial_admin.py): as long
\* as the admin uses the newest menu, one tap at a time, and every step is
\* carried out.
THEOREM SavedWhereMeantAlways == GuidesSpec => SavedWhereMeant
<1>1. ASSUME GuidesInv, [GuidesNext]_guidesVars
      PROVE  [\A k \in Keys : store'[k] # store[k] /\ ~mixed => Asked(k)]_guidesVars
  <2> SUFFICES ASSUME NEW k \in Keys, store'[k] # store[k], ~mixed
               PROVE  Asked(k)
    OBVIOUS
  <2>1. PICK h \in AdminTaps : Save(h)
    BY <1>1 DEF GuidesNext, guidesVars, Handlers, Command, TapButton, SendContent, Arrive, Abandon, Tutorial,
                Restart, BackToRoot, BackToProtocol, BackToPlatform, PickTarget, PickProtocol,
                PickPlatform, ShowScreen, Receive
  <2> DEFINE d == tap[h].data
  <2>2. k = Key(d.target, d.protocol, d.device)
    <3>1. store' = Put(Key(d.target, d.protocol, d.device), KeptAs(d.target, tap[h].arg))
      BY <2>1 DEF Save
    <3> QED
      BY <3>1 DEF Put
  <2>3. /\ screen # <<>> /\ Last.step = "content"
        /\ <<d.target, d.protocol, d.device>> = <<Last.target, Last.protocol, Last.device>>
    BY <1>1, <2>1 DEF GuidesInv, OrderlyInv, Save
  <2> QED
    BY <2>2, <2>3 DEF Asked, Last
<1> QED
  BY <1>1, GuidesInvAlways, PTL DEF GuidesSpec, SavedWhereMeant

\* Whatever is kept was accepted for what it is kept as: a guide is a file, a
\* profile a file or text (admin_receive_content in
\* app/bot/handlers/tutorial_admin.py), however many taps changed the target
\* while the content was on its way.
THEOREM KeptIsAcceptedAlways ==
  GuidesSpec => [](\A k \in Keys : store[k] \in {"absent"} \cup Storable(k[1]))
<1>1. GuidesInv => \A k \in Keys : store[k] \in {"absent"} \cup Storable(k[1])
  BY DEF GuidesInv, StoreInv
<1> QED
  BY <1>1, GuidesInvAlways, PTL
=============================================================================
