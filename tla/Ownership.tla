----------------------------- MODULE Ownership -----------------------------
(***************************************************************************)
(* Change Ownership and the self-service password reset of one VPN account *)
(* (app/services/ownership.py, reset_vpn_password, and the handlers that   *)
(* call them).  Every tap on a button is a handler of its own; handlers    *)
(* run concurrently and meet only in PostgreSQL's row locks.               *)
(*                                                                         *)
(* create_transfer locks the account's row and then the pending offers';   *)
(* a settle locks the offer's row and then the account's.  The two orders  *)
(* can deadlock, and PostgreSQL then aborts one of the transactions.       *)
(***************************************************************************)
EXTENDS Naturals, FiniteSets

CONSTANTS
    Users,        \* bot users who can be named as recipients
    FirstOwner,   \* whoever bought the account
    Offers,       \* ids of the ownership_transfers rows that may be inserted
    Handlers,     \* taps that can be in progress at once
    Faults,       \* which failures the environment may inject
    None          \* SQL NULL / nobody

FaultKinds == {"unreachable", "send_timeout", "ibsng_down", "crash"}

ASSUME OwnerAssumption == FirstOwner \in Users /\ None \notin Users
ASSUME LockAssumption == None \notin Handlers /\ None \notin Offers
ASSUME FaultAssumption == Faults \subseteq FaultKinds
ASSUME OfferAssumption == Offers \subseteq Nat

VARIABLES
    \* the account's row in vpn_users
    owner,        \* VPNUser.telegram_id
    cooling,      \* password_changed_at is set and less than 30 days old
    accountLock,  \* the handler whose transaction holds the row
    chosenBy,     \* for whom IBSng's live password was last changed
    \* the ownership_transfers table
    offer,        \* OwnershipTransfer.status, "none" before the insert
    from, to,
    late,         \* offers created 24 hours ago or earlier
    offerLock,
    shown,        \* offers whose message reached the recipient
    noted,        \* offer_message_id is recorded, the owner can cancel
    \* local state of the handlers
    pc, who, aim, deed

accountVars == <<owner, cooling, chosenBy>>
offerVars   == <<offer, from, to>>
messageVars == <<shown, noted>>
localVars   == <<who, aim, deed>>
vars == <<accountVars, accountLock, offerVars, late, offerLock, messageVars, pc, localVars>>

Statuses == {"none", "pending", "accepted", "declined", "cancelled", "expired"}
Deeds    == {"offer", "reset", "accept", "decline", "cancel"}

Locations == {"idle", "ask", "supersede", "send", "record", "check", "withdraw",
              "tap", "settle", "rotate", "stamp"}

Pending == {t \in Offers : offer[t] = "pending"}

Init ==
    /\ owner = FirstOwner
    /\ cooling = FALSE
    /\ accountLock = None
    /\ chosenBy = FirstOwner
    /\ offer = [t \in Offers |-> "none"]
    /\ from  = [t \in Offers |-> None]
    /\ to    = [t \in Offers |-> None]
    /\ late = {}
    /\ offerLock = [t \in Offers |-> None]
    /\ shown = {} /\ noted = {}
    /\ pc   = [h \in Handlers |-> "idle"]
    /\ who  = [h \in Handlers |-> None]
    /\ aim  = [h \in Handlers |-> None]
    /\ deed = [h \in Handlers |-> "offer"]

-----------------------------------------------------------------------------
(* Taps, and how a handler's session ends *)

Goto(h, label) == pc' = [pc EXCEPT ![h] = label]

\* aim is the recipient of a new offer, then the offer's own row.
Begin(h, u, d, a, label) ==
    /\ pc[h] = "idle"
    /\ Goto(h, label)
    /\ who'  = [who  EXCEPT ![h] = u]
    /\ aim'  = [aim  EXCEPT ![h] = a]
    /\ deed' = [deed EXCEPT ![h] = d]
    /\ UNCHANGED <<accountVars, accountLock, offerVars, late, offerLock, messageVars>>

\* The session is closed; what it held is released.
End(h) ==
    /\ Goto(h, "idle")
    /\ who'  = [who  EXCEPT ![h] = None]
    /\ aim'  = [aim  EXCEPT ![h] = None]
    /\ deed' = [deed EXCEPT ![h] = "offer"]
    /\ accountLock' = IF accountLock = h THEN None ELSE accountLock
    /\ offerLock' = [t \in Offers |-> IF offerLock[t] = h THEN None ELSE offerLock[t]]

\* Bound: a row of Offers is left for every handler that may insert one.
RowsLeft ==
    Cardinality({t \in Offers : offer[t] = "none"})
      > Cardinality({h \in Handlers : deed[h] = "offer" /\ pc[h] \in {"ask", "supersede"}})

\* transfer_request_cb, past resolve_recipient (which knows the owner as SELF).
AskOffer(h, u, recipient) ==
    /\ RowsLeft /\ u # recipient
    /\ Begin(h, u, "offer", recipient, "ask")

AskReset(h, u) == Begin(h, u, "reset", None, "ask")

\* transfer_accept_cb and its siblings.  The recipient's buttons are in the
\* offer, the owner's on the screen that follows record_offer_message; the
\* data a tap carries is a string, so any user may turn up with it.
TapOffer(h, u, t, d) ==
    /\ t \in (IF d = "cancel" THEN noted ELSE shown)
    /\ Begin(h, u, d, t, "tap")

-----------------------------------------------------------------------------
(* An offer: create_transfer and the rest of transfer_request_cb *)

\* The locking SELECT names the owner and finds no row: the tap is refused.
NotTheirs(h) ==
    /\ pc[h] = "ask" /\ owner # who[h]
    /\ End(h)
    /\ UNCHANGED <<accountVars, offerVars, late, messageVars>>

\* A mutant: the account is read without FOR UPDATE.
LockAccountUnlocked(h) ==
    /\ pc[h] = "ask" /\ deed[h] = "offer" /\ owner = who[h]
    /\ accountLock' = accountLock
    /\ Goto(h, "supersede")
    /\ UNCHANGED <<accountVars, offerVars, late, offerLock, messageVars, localVars>>

LockAccount(h) ==
    /\ pc[h] = "ask" /\ deed[h] = "offer" /\ owner = who[h] /\ accountLock = None
    /\ accountLock' = h
    /\ Goto(h, "supersede")
    /\ UNCHANGED <<accountVars, offerVars, late, offerLock, messageVars, localVars>>

\* Rows are inserted in the order of their ids.
NextRow(t) == offer[t] = "none" /\ \A x \in Offers : offer[x] = "none" => t <= x

\* A mutant: older offers are left standing.
PostOfferBeside(h, t) ==
    /\ pc[h] = "supersede" /\ NextRow(t)
    /\ \A x \in Pending : offerLock[x] = None
    /\ offer' = [offer EXCEPT ![t] = "pending"]
    /\ from'  = [from EXCEPT ![t] = who[h]]
    /\ to'    = [to   EXCEPT ![t] = aim[h]]
    /\ accountLock' = None
    /\ aim'   = [aim EXCEPT ![h] = t]
    /\ Goto(h, "send")
    /\ UNCHANGED <<accountVars, late, offerLock, messageVars, who, deed>>

\* The UPDATE of the pending offers waits for whoever holds one of their
\* rows; then they are cancelled, the new row is inserted, and the commit
\* releases everything.
PostOffer(h, t) ==
    /\ pc[h] = "supersede" /\ NextRow(t)
    /\ \A x \in Pending : offerLock[x] = None
    /\ offer' = [x \in Offers |-> IF x = t THEN "pending"
                                  ELSE IF x \in Pending THEN "cancelled" ELSE offer[x]]
    /\ from'  = [from EXCEPT ![t] = who[h]]
    /\ to'    = [to   EXCEPT ![t] = aim[h]]
    /\ accountLock' = None
    /\ aim'   = [aim EXCEPT ![h] = t]
    /\ Goto(h, "send")
    /\ UNCHANGED <<accountVars, late, offerLock, messageVars, who, deed>>

SendOffer(h) ==
    /\ pc[h] = "send"
    /\ shown' = shown \cup {aim[h]}
    /\ Goto(h, "record")
    /\ UNCHANGED <<accountVars, accountLock, offerVars, late, offerLock, noted, localVars>>

\* send_message raises TelegramAPIError: the recipient blocked the bot, or
\* the answer was lost after the message had gone out.
SendFails(h) ==
    /\ pc[h] = "send"
    /\ \/ "unreachable" \in Faults /\ shown' = shown
       \/ "send_timeout" \in Faults /\ shown' = shown \cup {aim[h]}
    /\ Goto(h, "check")
    /\ UNCHANGED <<accountVars, accountLock, offerVars, late, offerLock, noted, localVars>>

RecordOfferMessage(h) ==
    /\ pc[h] = "record" /\ offerLock[aim[h]] = None
    /\ noted' = noted \cup {aim[h]}
    /\ End(h)
    /\ UNCHANGED <<accountVars, offerVars, late, shown>>

\* mark_unreachable reads the status without a lock ...
FindPending(h) ==
    /\ pc[h] = "check"
    /\ IF aim[h] \in Pending
         THEN Goto(h, "withdraw") /\ UNCHANGED <<accountLock, offerLock, localVars>>
         ELSE End(h)
    /\ UNCHANGED <<accountVars, offerVars, late, messageVars>>

\* ... and then overwrites it.
Withdraw(h) ==
    /\ pc[h] = "withdraw" /\ offerLock[aim[h]] = None
    /\ offer' = [offer EXCEPT ![aim[h]] = "cancelled"]
    /\ End(h)
    /\ UNCHANGED <<accountVars, from, to, late, messageVars>>

-----------------------------------------------------------------------------
(* Settling an offer: _lock, then accept_, decline_ or cancel_transfer *)

LockOffer(h) ==
    /\ pc[h] = "tap" /\ offerLock[aim[h]] = None
    /\ offerLock' = [offerLock EXCEPT ![aim[h]] = h]
    /\ Goto(h, "settle")
    /\ UNCHANGED <<accountVars, accountLock, offerVars, late, messageVars, localVars>>

\* The named recipient accepts or declines, the offering owner cancels.
MayDo(h) == who[h] = IF deed[h] = "cancel" THEN from[aim[h]] ELSE to[aim[h]]

\* A mutant: the status of the locked offer is not looked at.
DecidesOnAny(h, d) ==
    /\ pc[h] = "settle" /\ accountLock = None
    /\ deed[h] = d /\ MayDo(h)

\* Both rows are locked, the tapper is the right one, the offer still stands.
Decides(h, d) ==
    /\ pc[h] = "settle" /\ accountLock = None
    /\ deed[h] = d /\ MayDo(h) /\ aim[h] \in Pending

Settle(h, status) ==
    /\ offer' = [offer EXCEPT ![aim[h]] = status]
    /\ End(h)
    /\ UNCHANGED <<from, to, late, messageVars>>

\* A mutant: the answer for the tapper is written to the row.
RefusedRecorded(h) ==
    /\ pc[h] = "settle" /\ accountLock = None
    /\ ~MayDo(h) \/ aim[h] \notin Pending
    /\ Settle(h, "invalid")
    /\ UNCHANGED accountVars

\* "invalid", or settled already: nothing happens.
Refused(h) ==
    /\ pc[h] = "settle" /\ accountLock = None
    /\ ~MayDo(h) \/ aim[h] \notin Pending
    /\ End(h)
    /\ UNCHANGED <<accountVars, offerVars, late, messageVars>>

\* 24 hours are over, or the account is no longer the offering owner's.
AcceptTooLate(h) ==
    /\ Decides(h, "accept")
    /\ aim[h] \in late \/ owner # from[aim[h]]
    /\ Settle(h, IF aim[h] \in late THEN "expired" ELSE "cancelled")
    /\ UNCHANGED accountVars

\* A mutant: the new owner inherits the old one's cooldown.
AcceptKeepsCooldown(h) ==
    /\ Decides(h, "accept") /\ aim[h] \notin late /\ owner = from[aim[h]]
    /\ owner' = to[aim[h]]
    /\ Settle(h, "accepted")
    /\ UNCHANGED <<cooling, chosenBy>>

Accept(h) ==
    /\ Decides(h, "accept") /\ aim[h] \notin late /\ owner = from[aim[h]]
    /\ owner' = to[aim[h]]
    /\ cooling' = FALSE
    /\ Settle(h, "accepted")
    /\ UNCHANGED chosenBy

Decline(h) ==
    /\ Decides(h, "decline")
    /\ Settle(h, "declined")
    /\ UNCHANGED accountVars

Cancel(h) ==
    /\ Decides(h, "cancel")
    /\ Settle(h, "cancelled")
    /\ UNCHANGED accountVars

\* PostgreSQL (external): c holds the account's row and waits for the pending
\* offer's, s holds the offer's and waits for the account's.  One is aborted.
Deadlocked(c, s) ==
    /\ pc[c] = "supersede" /\ accountLock = c
    /\ pc[s] = "settle" /\ offerLock[aim[s]] = s /\ aim[s] \in Pending

DeadlockAbort(h) ==
    /\ \E g \in Handlers : Deadlocked(h, g) \/ Deadlocked(g, h)
    /\ End(h)
    /\ UNCHANGED <<accountVars, offerVars, late, messageVars>>

-----------------------------------------------------------------------------
(* reset_vpn_password: the row stays locked from the check to the stamp *)

\* A mutant: ownership and cooldown are checked without FOR UPDATE.
StartResetUnlocked(h) ==
    /\ pc[h] = "ask" /\ deed[h] = "reset" /\ owner = who[h]
    /\ ~cooling
    /\ accountLock' = accountLock
    /\ Goto(h, "rotate")
    /\ UNCHANGED <<accountVars, offerVars, late, offerLock, messageVars, localVars>>

StartReset(h) ==
    /\ pc[h] = "ask" /\ deed[h] = "reset" /\ owner = who[h] /\ accountLock = None
    /\ ~cooling
    /\ accountLock' = h
    /\ Goto(h, "rotate")
    /\ UNCHANGED <<accountVars, offerVars, late, offerLock, messageVars, localVars>>

\* PasswordChangeCooldownError
CoolingDown(h) ==
    /\ pc[h] = "ask" /\ deed[h] = "reset" /\ owner = who[h] /\ accountLock = None
    /\ cooling
    /\ End(h)
    /\ UNCHANGED <<accountVars, offerVars, late, messageVars>>

\* A mutant: the session is left open when IBSng fails.
ResetFailsHoldsRow(h) ==
    /\ "ibsng_down" \in Faults /\ pc[h] = "rotate"
    /\ chosenBy' \in {chosenBy, who[h]}
    /\ Goto(h, "idle")
    /\ UNCHANGED <<owner, cooling, accountLock, offerVars, late, offerLock, messageVars,
                   localVars>>

\* ForeignGroupError, or an IBSngError - with the password unchanged, or
\* changed and only the answer lost.  Nothing is stamped.
ResetFails(h) ==
    /\ "ibsng_down" \in Faults /\ pc[h] = "rotate"
    /\ chosenBy' \in {chosenBy, who[h]}
    /\ End(h)
    /\ UNCHANGED <<owner, cooling, offerVars, late, messageVars>>

ChangePassword(h) ==
    /\ pc[h] = "rotate"
    /\ chosenBy' = who[h]
    /\ Goto(h, "stamp")
    /\ UNCHANGED <<owner, cooling, accountLock, offerVars, late, offerLock, messageVars,
                   localVars>>

Stamp(h) ==
    /\ pc[h] = "stamp"
    /\ cooling' = TRUE
    /\ End(h)
    /\ UNCHANGED <<owner, chosenBy, offerVars, late, messageVars>>

-----------------------------------------------------------------------------
(* Time, and the process *)

\* 24 hours pass for an offer; its age is read only while it is pending.
Expire(t) ==
    /\ t \in Pending \ late
    /\ late' = late \cup {t}
    /\ UNCHANGED <<accountVars, accountLock, offerVars, offerLock, messageVars, pc, localVars>>

\* 30 days pass since the password was changed.
CooldownEnds ==
    /\ cooling
    /\ cooling' = FALSE
    /\ UNCHANGED <<owner, chosenBy, accountLock, offerVars, late, offerLock, messageVars,
                   pc, localVars>>

\* Every handler ends with the process; open transactions are rolled back.
Crash ==
    /\ "crash" \in Faults /\ \E h \in Handlers : pc[h] # "idle"
    /\ pc'   = [h \in Handlers |-> "idle"]
    /\ who'  = [h \in Handlers |-> None]
    /\ aim'  = [h \in Handlers |-> None]
    /\ deed' = [h \in Handlers |-> "offer"]
    /\ accountLock' = None
    /\ offerLock' = [t \in Offers |-> None]
    /\ UNCHANGED <<accountVars, offerVars, late, messageVars>>

-----------------------------------------------------------------------------
Taps(h) ==
    \E u \in Users :
        \/ \E recipient \in Users : AskOffer(h, u, recipient)
        \/ AskReset(h, u)
        \/ \E t \in Offers, d \in {"accept", "decline", "cancel"} : TapOffer(h, u, t, d)

Offering(h) ==
    \/ NotTheirs(h) \/ LockAccount(h) \/ \E t \in Offers : PostOffer(h, t)
    \/ SendOffer(h) \/ SendFails(h) \/ RecordOfferMessage(h)
    \/ FindPending(h) \/ Withdraw(h)

Settling(h) ==
    \/ LockOffer(h) \/ Refused(h) \/ AcceptTooLate(h) \/ Accept(h)
    \/ Decline(h) \/ Cancel(h) \/ DeadlockAbort(h)

Resetting(h) ==
    StartReset(h) \/ CoolingDown(h) \/ ResetFails(h) \/ ChangePassword(h) \/ Stamp(h)

Works(h) == Offering(h) \/ Settling(h) \/ Resetting(h)

Next ==
    \/ \E h \in Handlers : Taps(h) \/ Works(h)
    \/ \E t \in Offers : Expire(t)
    \/ CooldownEnds \/ Crash

Spec == Init /\ [][Next]_vars

\* A started handler keeps running, and PostgreSQL grants a lock to each of
\* those that wait for it in turn.
Fairness == \A h \in Handlers : SF_vars(Works(h))

FairSpec == Spec /\ Fairness

-----------------------------------------------------------------------------
(* Properties *)

\* Every variable keeps its type.
TypeOK ==
    /\ owner \in Users /\ chosenBy \in Users /\ cooling \in BOOLEAN
    /\ accountLock \in Handlers \cup {None}
    /\ offer \in [Offers -> Statuses]
    /\ from \in [Offers -> Users \cup {None}]
    /\ to \in [Offers -> Users \cup {None}]
    /\ late \subseteq Offers
    /\ offerLock \in [Offers -> Handlers \cup {None}]
    /\ shown \subseteq Offers /\ noted \subseteq Offers
    /\ pc \in [Handlers -> Locations]
    /\ who \in [Handlers -> Users \cup {None}]
    /\ aim \in [Handlers -> Users \cup Offers \cup {None}]
    /\ deed \in [Handlers -> Deeds]

\* At most one offer stands, it is the present owner's, and it was made to
\* somebody else - although offers are made, settled and withdrawn by
\* handlers that lock the two tables in opposite orders.
StandingOffer ==
    \A t \in Pending : from[t] = owner /\ to[t] # owner /\ Pending = {t}

\* A cooldown is always its owner's own: whoever received the account can
\* change its password straight away, also when the previous owner's reset
\* was under way during the transfer.
CooldownIsOwners == cooling => chosenBy = owner

\* What a reset checked before it called IBSng still holds when it changes
\* the password and stamps the row: the account is still the tapper's, and
\* no other reset got in between.
ResetDecisionHolds ==
    \A h \in Handlers :
        pc[h] \in {"rotate", "stamp"} => owner = who[h] /\ ~cooling

Handover == INSTANCE Custody WITH
    offer <- [t \in Offers |->
                 CASE offer[t] = "pending" -> "open"
                   [] offer[t] \in {"none", "accepted"} -> offer[t]
                   [] OTHER -> "closed"]

\* The account moves by consent only: see Custody.  Holds when an offer that
\* could not be sent did not arrive.
KeepsCustody == Handover!Spec

\* An offer that was settled is never settled again: not by a second tap,
\* and not by the handler whose message did not get through.
SettledStays ==
    [][\A t \in Offers : offer[t] \notin {"none", "pending"} => offer'[t] = offer[t]]_vars

\* Every tap is answered: no handler waits for a row for ever.
TapsAreAnswered == \A h \in Handlers : []<>(pc[h] = "idle")
=============================================================================
