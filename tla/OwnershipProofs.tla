-------------------------- MODULE OwnershipProofs --------------------------
(***************************************************************************)
(* The safety properties of Ownership and its refinement of Custody, for   *)
(* every number of users, offers and handlers at once.                     *)
(***************************************************************************)
EXTENDS Ownership, TLAPS

\* Locations of a handler that posts its own offer's message, and of one that
\* holds the account's row.
Posting == {"send", "record", "check", "withdraw"}
HoldsAccount == {"supersede", "rotate", "stamp"}

\* What a handler works on.
LocalInv ==
    \A h \in Handlers :
        /\ pc[h] # "idle" => who[h] \in Users
        /\ pc[h] = "supersede" \/ (pc[h] = "ask" /\ deed[h] = "offer")
             => aim[h] \in Users /\ aim[h] # who[h]
        /\ pc[h] \in Posting \cup {"tap", "settle"} => aim[h] \in Offers /\ offer[aim[h]] # "none"

\* Only rows that exist have a message, and they name two users.
RowInv ==
    /\ \A t \in shown \cup noted : offer[t] # "none"
    /\ \A t \in Offers : offer[t] # "none" => from[t] \in Users /\ to[t] \in Users

TypeInv == TypeOK /\ LocalInv /\ RowInv

\* Between its locking SELECT and its commit a handler holds the account's
\* row, and what the SELECT found is still so.
AccountInv ==
    \A h \in Handlers :
        /\ pc[h] \in HoldsAccount => accountLock = h /\ owner = who[h]
        /\ pc[h] \in {"rotate", "stamp"} => ~cooling
        /\ pc[h] = "stamp" => chosenBy = who[h]

SafetyInv == AccountInv /\ StandingOffer /\ CooldownIsOwners

\* An offer is posted by one handler; and where a failed send means that the
\* message did not arrive, nobody can have settled what is to be withdrawn.
PostInv ==
    /\ \A h \in Handlers :
         /\ pc[h] \in {"send", "check", "withdraw"} => aim[h] \notin shown
         /\ pc[h] \in {"record", "tap", "settle"} => aim[h] \in shown
         /\ \A g \in Handlers : pc[g] \in Posting /\ pc[h] \in Posting /\ aim[g] = aim[h] => g = h
    /\ noted \subseteq shown
    /\ \A t \in Offers \ shown : offer[t] \in {"none", "pending", "cancelled"}
-----------------------------------------------------------------------------
(* Type correctness *)

LEMMA TypeInit == Init => TypeInv
<1> SUFFICES ASSUME Init PROVE TypeInv
  OBVIOUS
<1> USE DEF Init
<1>1. TypeOK
  BY OwnerAssumption, Zenon DEF TypeOK, Statuses, Locations, Deeds
<1>2. LocalInv
  BY DEF LocalInv, Posting
<1>3. RowInv
  BY DEF RowInv
<1> QED
  BY <1>1, <1>2, <1>3 DEF TypeInv

\* The ways a handler moves on.
LEMMA BeginType ==
  ASSUME TypeInv, NEW h \in Handlers, NEW u \in Users, NEW d \in Deeds, NEW a, NEW label,
         Begin(h, u, d, a, label),
         \/ d = "offer" /\ label = "ask" /\ a \in Users /\ a # u
         \/ d = "reset" /\ label = "ask" /\ a = None
         \/ label = "tap" /\ a \in Offers /\ offer[a] # "none"
  PROVE  TypeInv'
<1> USE DEF TypeInv, TypeOK
<1>1. pc' = [pc EXCEPT ![h] = label] /\ who' = [who EXCEPT ![h] = u]
      /\ aim' = [aim EXCEPT ![h] = a] /\ deed' = [deed EXCEPT ![h] = d]
  BY DEF Begin, Goto
<1>2. LocalInv'
  BY <1>1 DEF Begin, LocalInv, offerVars, Posting
<1>3. pc' \in [Handlers -> Locations] /\ aim' \in [Handlers -> Users \cup Offers \cup {None}]
  BY <1>1 DEF Locations
<1> QED
  BY <1>1, <1>2, <1>3 DEF Begin, RowInv, accountVars, offerVars, messageVars

LEMMA EndType ==
  ASSUME TypeInv, NEW h \in Handlers, End(h)
  PROVE  /\ accountLock' \in Handlers \cup {None}
         /\ offerLock' \in [Offers -> Handlers \cup {None}]
         /\ pc' \in [Handlers -> Locations]
         /\ who' \in [Handlers -> Users \cup {None}]
         /\ aim' \in [Handlers -> Users \cup Offers \cup {None}]
         /\ deed' \in [Handlers -> Deeds]
         /\ (\A t \in Offers : offer[t] # "none" => offer'[t] # "none") => LocalInv'
  BY DEF TypeInv, TypeOK, LocalInv, End, Goto, Locations, Deeds, Posting

\* Steps that end a handler and leave the offers' own columns alone.
LEMMA EndingType ==
  ASSUME TypeInv, NEW h \in Handlers, End(h), UNCHANGED <<from, to, shown, late>>,
         owner' \in Users, chosenBy' \in Users, cooling' \in BOOLEAN,
         offer' \in [Offers -> Statuses], noted' \subseteq Offers,
         \A t \in Offers : offer[t] = "none" <=> offer'[t] = "none",
         \A t \in noted' : offer[t] # "none"
  PROVE  TypeInv'
<1>1. LocalInv'
  BY EndType
<1>2. TypeOK'
  BY EndType DEF TypeInv, TypeOK
<1>3. RowInv'
  BY DEF TypeInv, TypeOK, RowInv
<1> QED
  BY <1>1, <1>2, <1>3 DEF TypeInv

LEMMA SettleType ==
  ASSUME TypeInv, NEW h \in Handlers, NEW status \in Statuses \ {"none"}, Settle(h, status),
         pc[h] \in {"settle", "withdraw"},
         owner' \in Users, UNCHANGED chosenBy, cooling' \in BOOLEAN
  PROVE  TypeInv'
<1>1. aim[h] \in Offers /\ offer[aim[h]] # "none"
  BY DEF TypeInv, LocalInv, Posting
<1>2. /\ offer' = [offer EXCEPT ![aim[h]] = status]
      /\ End(h)
      /\ UNCHANGED <<from, to, late, shown, noted>>
  BY DEF Settle, messageVars
<1>3. \A t \in noted : offer[t] # "none"
  BY DEF TypeInv, RowInv
<1> QED
  BY <1>1, <1>2, <1>3, EndingType DEF TypeInv, TypeOK

\* Steps after which the handler goes on with what it has.
LEMMA GoingOnType ==
  ASSUME TypeInv, NEW h \in Handlers, NEW label \in Locations, Goto(h, label),
         UNCHANGED <<owner, cooling, offer, from, to, late, noted, who, aim, deed>>,
         chosenBy' \in Users,
         accountLock' \in Handlers \cup {None},
         offerLock' \in [Offers -> Handlers \cup {None}],
         \/ UNCHANGED shown
         \/ aim[h] \in Offers /\ offer[aim[h]] # "none" /\ shown' = shown \cup {aim[h]},
         who[h] \in Users,
         label = "supersede" => aim[h] \in Users /\ aim[h] # who[h],
         label # "ask",
         label \in Posting \cup {"tap", "settle"} => aim[h] \in Offers /\ offer[aim[h]] # "none"
  PROVE  TypeInv'
<1>1. LocalInv'
  BY DEF TypeInv, TypeOK, LocalInv, Goto
<1>2. TypeOK'
  BY DEF TypeInv, TypeOK, Goto
<1>3. RowInv'
  BY DEF TypeInv, TypeOK, RowInv
<1> QED
  BY <1>1, <1>2, <1>3 DEF TypeInv

LEMMA PostOfferType ==
  ASSUME TypeInv, NEW h \in Handlers, NEW t \in Offers, PostOffer(h, t)
  PROVE  TypeInv'
<1> USE DEF TypeInv, TypeOK, PostOffer, Goto
<1>1. who[h] \in Users /\ aim[h] \in Users
  BY DEF LocalInv
<1>2. \A x \in Offers : offer'[x] = IF x = t THEN "pending"
                                    ELSE IF x \in Pending THEN "cancelled" ELSE offer[x]
  OBVIOUS
<1>3. offer' \in [Offers -> Statuses]
  BY DEF Statuses
<1>4. LocalInv'
  BY <1>2 DEF LocalInv, Posting, Pending
<1>5. RowInv'
  <2>1. \A x \in Offers : offer'[x] # "none" => offer[x] # "none" \/ x = t
    BY <1>2 DEF Pending
  <2>2. \A x \in shown \cup noted : offer'[x] # "none"
    BY <1>2 DEF RowInv
  <2> QED
    BY <1>1, <2>1, <2>2 DEF RowInv, messageVars
<1>6. TypeOK'
  <2>1. /\ from' \in [Offers -> Users \cup {None}]
        /\ to' \in [Offers -> Users \cup {None}]
    BY <1>1
  <2>2. /\ pc' \in [Handlers -> Locations]
        /\ aim' \in [Handlers -> Users \cup Offers \cup {None}]
    BY DEF Locations
  <2> QED
    BY <1>3, <2>1, <2>2 DEF accountVars, messageVars
<1> QED
  BY <1>4, <1>5, <1>6

LEMMA TapType ==
  ASSUME TypeInv, NEW h \in Handlers, Taps(h)
  PROVE  TypeInv'
<1>1. ASSUME NEW u \in Users, NEW recipient \in Users, AskOffer(h, u, recipient)
      PROVE  TypeInv'
  BY <1>1, BeginType DEF AskOffer, Deeds
<1>2. ASSUME NEW u \in Users, AskReset(h, u)
      PROVE  TypeInv'
  BY <1>2, BeginType DEF AskReset, Deeds
<1>3. ASSUME NEW u \in Users, NEW t \in Offers, NEW d \in {"accept", "decline", "cancel"},
             TapOffer(h, u, t, d)
      PROVE  TypeInv'
  <2>1. offer[t] # "none"
    BY <1>3 DEF TapOffer, TypeInv, RowInv
  <2> QED
    BY <1>3, <2>1, BeginType DEF TapOffer, Deeds
<1> QED
  BY <1>1, <1>2, <1>3 DEF Taps

LEMMA OfferingType ==
  ASSUME TypeInv, NEW h \in Handlers, Offering(h)
  PROVE  TypeInv'
<1> USE DEF TypeInv, TypeOK
<1>1. CASE NotTheirs(h)
  BY <1>1, EndingType DEF NotTheirs, RowInv, accountVars, offerVars, messageVars
<1>2. CASE LockAccount(h)
  BY <1>2, GoingOnType DEF LockAccount, LocalInv, Locations, Posting, accountVars, offerVars,
     messageVars, localVars
<1>3. ASSUME NEW t \in Offers, PostOffer(h, t)
      PROVE  TypeInv'
  BY <1>3, PostOfferType
<1>4. CASE SendOffer(h) \/ SendFails(h)
  BY <1>4, GoingOnType DEF SendOffer, SendFails, LocalInv, Locations, Posting, accountVars,
     offerVars, messageVars, localVars
<1>5. CASE RecordOfferMessage(h)
  BY <1>5, EndingType DEF RecordOfferMessage, LocalInv, RowInv, Posting, accountVars, offerVars
<1>6. CASE FindPending(h)
  <2>1. CASE aim[h] \in Pending
    BY <1>6, <2>1, GoingOnType DEF FindPending, LocalInv, Locations, Posting, accountVars,
       offerVars, messageVars, localVars
  <2>2. CASE aim[h] \notin Pending
    BY <1>6, <2>2, EndingType DEF FindPending, RowInv, accountVars, offerVars, messageVars
  <2> QED
    BY <2>1, <2>2
<1>7. CASE Withdraw(h)
  BY <1>7, SettleType DEF Withdraw, Settle, Statuses, accountVars
<1> QED
  BY <1>1, <1>2, <1>3, <1>4, <1>5, <1>6, <1>7 DEF Offering

LEMMA SettlingType ==
  ASSUME TypeInv, NEW h \in Handlers, Settling(h)
  PROVE  TypeInv'
<1> USE DEF TypeInv, TypeOK
<1>1. CASE LockOffer(h)
  <2>1. aim[h] \in Offers /\ offer[aim[h]] # "none" /\ who[h] \in Users
    BY <1>1 DEF LockOffer, LocalInv
  <2>2. offerLock' \in [Offers -> Handlers \cup {None}]
    BY <1>1 DEF LockOffer
  <2> QED
    BY <1>1, <2>1, <2>2, GoingOnType DEF LockOffer, Locations, Posting, accountVars,
       offerVars, messageVars, localVars
<1>2. CASE Refused(h) \/ DeadlockAbort(h)
  BY <1>2, EndingType DEF Refused, DeadlockAbort, RowInv, accountVars, offerVars, messageVars
<1>3. CASE AcceptTooLate(h)
  BY <1>3, SettleType DEF AcceptTooLate, Decides, Statuses, accountVars
<1>4. CASE Accept(h)
  <2>1. to[aim[h]] \in Users
    BY <1>4 DEF Accept, Decides, LocalInv, RowInv
  <2> QED
    BY <1>4, <2>1, SettleType DEF Accept, Decides, Statuses
<1>5. CASE Decline(h) \/ Cancel(h)
  BY <1>5, SettleType DEF Decline, Cancel, Decides, Statuses, accountVars
<1> QED
  BY <1>1, <1>2, <1>3, <1>4, <1>5 DEF Settling

LEMMA ResettingType ==
  ASSUME TypeInv, NEW h \in Handlers, Resetting(h)
  PROVE  TypeInv'
<1> USE DEF TypeInv, TypeOK
<1>1. CASE StartReset(h)
  BY <1>1, GoingOnType DEF StartReset, LocalInv, Locations, Posting, accountVars, offerVars,
     messageVars, localVars
<1>2. CASE CoolingDown(h)
  BY <1>2, EndingType DEF CoolingDown, RowInv, accountVars, offerVars, messageVars
<1>3. CASE ResetFails(h)
  <2>1. who[h] \in Users
    BY <1>3 DEF ResetFails, LocalInv
  <2> QED
    BY <1>3, <2>1, EndingType DEF ResetFails, RowInv, offerVars, messageVars
<1>4. CASE ChangePassword(h)
  BY <1>4, GoingOnType DEF ChangePassword, LocalInv, Locations, Posting, offerVars,
     messageVars, localVars
<1>5. CASE Stamp(h)
  BY <1>5, EndingType DEF Stamp, RowInv, offerVars, messageVars
<1> QED
  BY <1>1, <1>2, <1>3, <1>4, <1>5 DEF Resetting

LEMMA TypeStep == ASSUME TypeInv, [Next]_vars PROVE TypeInv'
<1>1. ASSUME NEW h \in Handlers, Taps(h) \/ Works(h)
      PROVE  TypeInv'
  BY <1>1, TapType, OfferingType, SettlingType, ResettingType DEF Works
<1>2. ASSUME NEW t \in Offers, Expire(t)
      PROVE  TypeInv'
  BY <1>2 DEF Expire, TypeInv, TypeOK, LocalInv, RowInv, accountVars, offerVars,
     messageVars, localVars
<1>3. CASE CooldownEnds
  BY <1>3 DEF CooldownEnds, TypeInv, TypeOK, LocalInv, RowInv, offerVars, messageVars, localVars
<1>4. CASE Crash
  BY <1>4 DEF Crash, TypeInv, TypeOK, LocalInv, RowInv, Locations, Deeds, Posting, accountVars,
     offerVars, messageVars
<1>5. CASE UNCHANGED vars
  BY <1>5 DEF vars, TypeInv, TypeOK, LocalInv, RowInv, accountVars, offerVars, messageVars,
     localVars
<1> QED
  BY <1>1, <1>2, <1>3, <1>4, <1>5 DEF Next

\* Every variable keeps its type.
THEOREM TypeCorrect == Spec => []TypeOK
<1>1. Spec => []TypeInv
  BY TypeInit, TypeStep, PTL DEF Spec
<1>2. TypeInv => TypeOK
  BY DEF TypeInv
<1> QED
  BY <1>1, <1>2, PTL

-----------------------------------------------------------------------------
(* The account's row: who holds it, and what cannot change meanwhile *)

LEMMA SafetyInit == Init => SafetyInv
  BY DEF Init, SafetyInv, AccountInv, StandingOffer, CooldownIsOwners, HoldsAccount, Pending

\* Steps of a handler that leave the account's row as it is.
LEMMA AccountUntouched ==
  ASSUME TypeInv, AccountInv, NEW h \in Handlers, UNCHANGED <<accountVars, who>>,
         \/ UNCHANGED accountLock
         \/ accountLock = None,
         NEW label, Goto(h, label),
         label \in HoldsAccount =>
            /\ accountLock' = h /\ owner = who[h]
            /\ label # "supersede" => ~cooling
            /\ label = "stamp" => chosenBy = who[h]
  PROVE  AccountInv'
  BY LockAssumption DEF TypeInv, TypeOK, AccountInv, accountVars, Goto, HoldsAccount

\* The end of a handler's session, whatever it did to the row it held.
LEMMA AccountReleased ==
  ASSUME TypeInv, AccountInv, NEW h \in Handlers, End(h),
         \/ UNCHANGED <<owner, chosenBy, cooling>>
         \/ accountLock \in {None, h}
  PROVE  AccountInv'
<1>1. ASSUME NEW g \in Handlers, pc'[g] \in HoldsAccount
      PROVE  /\ g # h /\ pc'[g] = pc[g] /\ who'[g] = who[g]
             /\ accountLock = g /\ accountLock' = g
  BY <1>1 DEF End, Goto, TypeInv, TypeOK, AccountInv, HoldsAccount
<1> QED
  BY <1>1, LockAssumption DEF AccountInv, HoldsAccount

LEMMA AccountStep == ASSUME TypeInv, AccountInv, [Next]_vars PROVE AccountInv'
<1>1. ASSUME NEW h \in Handlers, Taps(h)
      PROVE  AccountInv'
  <2>1. ASSUME NEW u, NEW d, NEW a, NEW label \in {"ask", "tap"}, Begin(h, u, d, a, label)
        PROVE  AccountInv'
    BY <2>1 DEF Begin, Goto, TypeInv, TypeOK, AccountInv, HoldsAccount, accountVars
  <2> QED
    BY <1>1, <2>1 DEF Taps, AskOffer, AskReset, TapOffer
<1>2. ASSUME NEW h \in Handlers, Offering(h)
      PROVE  AccountInv'
  <2>1. CASE NotTheirs(h) \/ RecordOfferMessage(h) \/ Withdraw(h)
    BY <2>1, AccountReleased DEF NotTheirs, RecordOfferMessage, Withdraw, accountVars
  <2>2. CASE LockAccount(h)
    BY <2>2, AccountUntouched DEF LockAccount, HoldsAccount, localVars
  <2>3. ASSUME NEW t \in Offers, PostOffer(h, t)
        PROVE  AccountInv'
    BY <2>3, LockAssumption DEF PostOffer, Goto, TypeInv, TypeOK, AccountInv, HoldsAccount,
       accountVars
  <2>4. CASE SendOffer(h) \/ SendFails(h)
    BY <2>4, AccountUntouched DEF SendOffer, SendFails, HoldsAccount, localVars
  <2>5. CASE FindPending(h)
    BY <2>5, AccountUntouched, AccountReleased DEF FindPending, HoldsAccount, localVars,
       accountVars
  <2> QED
    BY <1>2, <2>1, <2>2, <2>3, <2>4, <2>5 DEF Offering
<1>3. ASSUME NEW h \in Handlers, Settling(h)
      PROVE  AccountInv'
  <2>1. CASE LockOffer(h)
    BY <2>1, AccountUntouched DEF LockOffer, HoldsAccount, localVars
  <2>2. CASE Refused(h) \/ AcceptTooLate(h) \/ Decline(h) \/ Cancel(h) \/ DeadlockAbort(h)
    BY <2>2, AccountReleased DEF Refused, AcceptTooLate, Decline, Cancel, DeadlockAbort, Settle,
       accountVars
  <2>3. CASE Accept(h)
    BY <2>3, AccountReleased DEF Accept, Decides, Settle
  <2> QED
    BY <1>3, <2>1, <2>2, <2>3 DEF Settling
<1>4. ASSUME NEW h \in Handlers, Resetting(h)
      PROVE  AccountInv'
  <2>1. CASE StartReset(h)
    BY <2>1, AccountUntouched DEF StartReset, HoldsAccount, localVars
  <2>2. CASE CoolingDown(h)
    BY <2>2, AccountReleased DEF CoolingDown, accountVars
  <2>3. CASE ResetFails(h) \/ Stamp(h)
    BY <2>3, AccountReleased DEF ResetFails, Stamp, AccountInv, HoldsAccount
  <2>4. CASE ChangePassword(h)
    BY <2>4, LockAssumption DEF ChangePassword, Goto, TypeInv, TypeOK, AccountInv, HoldsAccount,
       localVars
  <2> QED
    BY <1>4, <2>1, <2>2, <2>3, <2>4 DEF Resetting
<1>5. ASSUME NEW t \in Offers, Expire(t)
      PROVE  AccountInv'
  BY <1>5 DEF Expire, AccountInv, accountVars, localVars
<1>6. CASE CooldownEnds
  BY <1>6 DEF CooldownEnds, AccountInv, localVars
<1>7. CASE Crash
  BY <1>7 DEF Crash, AccountInv, HoldsAccount
<1>8. CASE UNCHANGED vars
  BY <1>8 DEF vars, AccountInv, accountVars, localVars
<1> QED
  BY <1>1, <1>2, <1>3, <1>4, <1>5, <1>6, <1>7, <1>8 DEF Next, Works

\* The steps that write the account's row, IBSng's password or an offer.
LEMMA Writers ==
  ASSUME [Next]_vars
  PROVE  \/ UNCHANGED <<owner, cooling, chosenBy, offer, from, to>>
         \/ CooldownEnds
         \/ \E h \in Handlers :
              \/ \E t \in Offers : PostOffer(h, t)
              \/ Withdraw(h) \/ AcceptTooLate(h) \/ Accept(h) \/ Decline(h) \/ Cancel(h)
              \/ ResetFails(h) \/ ChangePassword(h) \/ Stamp(h)
<1> DEFINE Same == UNCHANGED <<owner, cooling, chosenBy, offer, from, to>>
<1> USE DEF accountVars, offerVars
<1>1. ASSUME NEW h \in Handlers, Taps(h)
      PROVE  Same
  BY <1>1 DEF Taps, AskOffer, AskReset, TapOffer, Begin
<1>2. ASSUME NEW h \in Handlers,
             \/ NotTheirs(h) \/ LockAccount(h) \/ SendOffer(h) \/ SendFails(h)
             \/ RecordOfferMessage(h) \/ FindPending(h) \/ LockOffer(h) \/ Refused(h)
             \/ DeadlockAbort(h) \/ StartReset(h) \/ CoolingDown(h)
      PROVE  Same
  BY <1>2 DEF NotTheirs, LockAccount, SendOffer, SendFails, RecordOfferMessage, FindPending,
     LockOffer, Refused, DeadlockAbort, StartReset, CoolingDown
<1>3. CASE Crash \/ \E t \in Offers : Expire(t)
  BY <1>3 DEF Crash, Expire
<1>4. CASE UNCHANGED vars
  BY <1>4 DEF vars
<1> QED
  BY <1>1, <1>2, <1>3, <1>4 DEF Next, Works, Offering, Settling, Resetting

LEMMA StandingStep ==
  ASSUME TypeInv, AccountInv, StandingOffer, [Next]_vars
  PROVE  StandingOffer'
<1> USE DEF TypeInv, TypeOK, StandingOffer, Pending
<1>1. CASE UNCHANGED <<owner, offer, from, to>>
  BY <1>1
<1>2. ASSUME NEW h \in Handlers, NEW t \in Offers, PostOffer(h, t)
      PROVE  StandingOffer'
  <2>1. who[h] = owner /\ aim[h] # owner
    BY <1>2 DEF PostOffer, AccountInv, HoldsAccount, LocalInv
  <2>2. \A x \in Offers : offer'[x] = "pending" <=> x = t
    BY <1>2 DEF PostOffer
  <2>3. from'[t] = who[h] /\ to'[t] = aim[h] /\ owner' = owner
    BY <1>2 DEF PostOffer, accountVars
  <2> QED
    BY <2>1, <2>2, <2>3
\* An offer that ends leaves none standing, whoever is the owner then.
<1>3. ASSUME NEW h \in Handlers, NEW status, status # "pending",
             offer' = [offer EXCEPT ![aim[h]] = status], UNCHANGED <<from, to>>,
             UNCHANGED owner \/ aim[h] \in Pending
      PROVE  StandingOffer'
  BY <1>3
<1>4. ASSUME NEW h \in Handlers,
             Withdraw(h) \/ AcceptTooLate(h) \/ Accept(h) \/ Decline(h) \/ Cancel(h)
      PROVE  StandingOffer'
  BY <1>3, <1>4 DEF Withdraw, AcceptTooLate, Accept, Decline, Cancel, Decides, Settle, accountVars
<1>5. ASSUME NEW h \in Handlers, ResetFails(h) \/ ChangePassword(h) \/ Stamp(h)
      PROVE  StandingOffer'
  BY <1>1, <1>5 DEF ResetFails, ChangePassword, Stamp, offerVars
<1>6. CASE CooldownEnds
  BY <1>1, <1>6 DEF CooldownEnds, offerVars
<1> QED
  BY <1>1, <1>2, <1>4, <1>5, <1>6, Writers

LEMMA CooldownStep ==
  ASSUME AccountInv, CooldownIsOwners, [Next]_vars
  PROVE  CooldownIsOwners'
<1> USE DEF CooldownIsOwners
<1>1. CASE UNCHANGED <<owner, cooling, chosenBy>>
  BY <1>1
<1>2. CASE CooldownEnds
  BY <1>2 DEF CooldownEnds
<1>3. ASSUME NEW h \in Handlers,
             \/ \E t \in Offers : PostOffer(h, t)
             \/ Withdraw(h) \/ AcceptTooLate(h) \/ Decline(h) \/ Cancel(h)
      PROVE  CooldownIsOwners'
  BY <1>1, <1>3 DEF PostOffer, Withdraw, AcceptTooLate, Decline, Cancel, accountVars
<1>4. ASSUME NEW h \in Handlers, Accept(h)
      PROVE  CooldownIsOwners'
  BY <1>4 DEF Accept
<1>5. ASSUME NEW h \in Handlers, ResetFails(h) \/ ChangePassword(h) \/ Stamp(h)
      PROVE  CooldownIsOwners'
  BY <1>5 DEF ResetFails, ChangePassword, Stamp, AccountInv, HoldsAccount
<1> QED
  BY <1>1, <1>2, <1>3, <1>4, <1>5, Writers

LEMMA Invariant == Spec => [](TypeInv /\ SafetyInv)
<1>1. Init => TypeInv /\ SafetyInv
  BY TypeInit, SafetyInit
<1>2. TypeInv /\ SafetyInv /\ [Next]_vars => (TypeInv /\ SafetyInv)'
  BY TypeStep, AccountStep, StandingStep, CooldownStep DEF SafetyInv
<1> QED
  BY <1>1, <1>2, PTL DEF Spec

\* One offer stands at most: the present owner's, to somebody else.
THEOREM StandingOfferAlways == Spec => []StandingOffer
<1>1. SafetyInv => StandingOffer
  BY DEF SafetyInv
<1> QED
  BY <1>1, Invariant, PTL

\* Nobody inherits a cooldown: the password of a cooling account was last
\* changed for its present owner.
THEOREM CooldownIsOwnersAlways == Spec => []CooldownIsOwners
<1>1. SafetyInv => CooldownIsOwners
  BY DEF SafetyInv
<1> QED
  BY <1>1, Invariant, PTL

\* What a reset checked still holds when it changes the password and stamps.
THEOREM ResetDecisionHoldsAlways == Spec => []ResetDecisionHolds
<1>1. SafetyInv => ResetDecisionHolds
  BY DEF SafetyInv, AccountInv, ResetDecisionHolds, HoldsAccount
<1> QED
  BY <1>1, Invariant, PTL

-----------------------------------------------------------------------------
(* Offers that could not be delivered.  Withdraw overwrites whatever the   *)
(* offer has become, so what follows needs the message of a failed send    *)
(* not to have arrived: TLC finds the counterexample otherwise.            *)

FailedIsUnsent == "send_timeout" \notin Faults

LEMMA PostInit == Init => PostInv
  BY DEF Init, PostInv, Posting

LEMMA PostStep ==
  ASSUME FailedIsUnsent, TypeInv, PostInv, [Next]_vars
  PROVE  PostInv'
<1> USE DEF TypeInv, TypeOK, PostInv, Posting
\* Steps that leave the offers and their messages alone, and put no handler
\* at a location PostInv speaks of.
<1>1. ASSUME NEW h \in Handlers, End(h), UNCHANGED <<offer, messageVars>>
      PROVE  PostInv'
  BY <1>1 DEF End, Goto, messageVars
<1>2. ASSUME NEW h \in Handlers, NEW label, Goto(h, label), UNCHANGED <<offer, messageVars, aim>>,
             \/ label \notin Posting \cup {"tap", "settle"}
             \/ label = "settle" /\ pc[h] = "tap"
             \/ label = "check" /\ pc[h] = "send"
             \/ label = "withdraw" /\ pc[h] = "check"
      PROVE  PostInv'
  BY <1>2 DEF Goto, messageVars
<1>3. ASSUME NEW h \in Handlers, Taps(h)
      PROVE  PostInv'
  <2>1. ASSUME NEW u \in Users, NEW recipient \in Users, AskOffer(h, u, recipient)
        PROVE  PostInv'
    BY <2>1 DEF AskOffer, Begin, Goto, offerVars, messageVars
  <2>2. ASSUME NEW u \in Users, AskReset(h, u)
        PROVE  PostInv'
    BY <2>2 DEF AskReset, Begin, Goto, offerVars, messageVars
  <2>3. ASSUME NEW u \in Users, NEW t \in Offers, NEW d, TapOffer(h, u, t, d)
        PROVE  PostInv'
    <3>1. t \in shown
      BY <2>3 DEF TapOffer
    <3> QED
      BY <2>3, <3>1 DEF TapOffer, Begin, Goto, offerVars, messageVars
  <2> QED
    BY <1>3, <2>1, <2>2, <2>3 DEF Taps
<1>4. ASSUME NEW h \in Handlers, NEW t \in Offers, PostOffer(h, t)
      PROVE  PostInv'
  <2>1. t \notin shown /\ \A g \in Handlers : pc[g] \in Posting \cup {"tap", "settle"} => aim[g] # t
    BY <1>4 DEF PostOffer, NextRow, RowInv, LocalInv
  <2>2. pc' = [pc EXCEPT ![h] = "send"] /\ aim' = [aim EXCEPT ![h] = t]
        /\ UNCHANGED <<shown, noted>>
    BY <1>4 DEF PostOffer, Goto, messageVars
  <2>3. \A x \in Offers : offer'[x] \in {offer[x], "pending", "cancelled"}
    BY <1>4 DEF PostOffer
  <2> QED
    BY <2>1, <2>2, <2>3
<1>5. ASSUME NEW h \in Handlers, SendOffer(h)
      PROVE  PostInv'
  BY <1>5 DEF SendOffer, Goto, offerVars, localVars
<1>6. ASSUME NEW h \in Handlers, SendFails(h)
      PROVE  PostInv'
  BY <1>2, <1>6 DEF SendFails, FailedIsUnsent, offerVars, messageVars, localVars
<1>7. ASSUME NEW h \in Handlers, RecordOfferMessage(h)
      PROVE  PostInv'
  BY <1>7 DEF RecordOfferMessage, End, Goto, offerVars
<1>8. ASSUME NEW h \in Handlers, FindPending(h)
      PROVE  PostInv'
  BY <1>1, <1>2, <1>8 DEF FindPending, offerVars, localVars
<1>9. ASSUME NEW h \in Handlers, NEW status, Settle(h, status),
             aim[h] \in shown \/ status = "cancelled"
      PROVE  PostInv'
  BY <1>9 DEF Settle, End, Goto, messageVars
<1>10. ASSUME NEW h \in Handlers, Withdraw(h)
       PROVE  PostInv'
  BY <1>9, <1>10 DEF Withdraw, Settle
<1>11. ASSUME NEW h \in Handlers, AcceptTooLate(h) \/ Accept(h) \/ Decline(h) \/ Cancel(h)
       PROVE  PostInv'
  BY <1>9, <1>11 DEF AcceptTooLate, Accept, Decline, Cancel, Decides
<1>12. ASSUME NEW h \in Handlers,
              NotTheirs(h) \/ Refused(h) \/ DeadlockAbort(h) \/ CoolingDown(h) \/ ResetFails(h)
              \/ Stamp(h)
       PROVE  PostInv'
  BY <1>1, <1>12 DEF NotTheirs, Refused, DeadlockAbort, CoolingDown, ResetFails, Stamp, offerVars
<1>13. ASSUME NEW h \in Handlers,
              LockAccount(h) \/ LockOffer(h) \/ StartReset(h) \/ ChangePassword(h)
       PROVE  PostInv'
  BY <1>2, <1>13 DEF LockAccount, LockOffer, StartReset, ChangePassword, offerVars, localVars
<1>14. CASE CooldownEnds \/ \E t \in Offers : Expire(t)
  BY <1>14 DEF CooldownEnds, Expire, offerVars, messageVars, localVars
<1>15. CASE Crash
  BY <1>15 DEF Crash, offerVars, messageVars
<1>16. CASE UNCHANGED vars
  BY <1>16 DEF vars, offerVars, messageVars, localVars
<1> QED
  BY <1>3, <1>4, <1>5, <1>6, <1>7, <1>8, <1>10, <1>11, <1>12, <1>13, <1>14, <1>15, <1>16
  DEF Next, Works, Offering, Settling, Resetting

LEMMA PostAlways == ASSUME FailedIsUnsent PROVE Spec => []PostInv
<1>1. TypeInv /\ PostInv /\ [Next]_vars => PostInv'
  BY PostStep
<1>2. Spec => []TypeInv
  BY Invariant, PTL
<1> QED
  BY <1>1, <1>2, PostInit, PTL DEF Spec

\* What Withdraw overwrites still stands, or was superseded.
LEMMA WithdrawsUnsettled ==
  ASSUME TypeInv, PostInv, NEW h \in Handlers, Withdraw(h)
  PROVE  aim[h] \in Offers /\ offer[aim[h]] \in {"pending", "cancelled"}
  BY DEF TypeInv, LocalInv, PostInv, Withdraw, Posting

LEMMA SettledStep ==
  ASSUME TypeInv, PostInv, [Next]_vars, NEW t \in Offers, offer[t] \notin {"none", "pending"}
  PROVE  offer'[t] = offer[t]
<1> USE DEF TypeInv, TypeOK
<1>1. ASSUME NEW h \in Handlers, NEW x \in Offers, PostOffer(h, x)
      PROVE  offer'[t] = offer[t]
  BY <1>1 DEF PostOffer, NextRow, Pending
<1>2. ASSUME NEW h \in Handlers, Withdraw(h)
      PROVE  offer'[t] = offer[t]
  BY <1>2, WithdrawsUnsettled DEF Withdraw
<1>3. ASSUME NEW h \in Handlers, AcceptTooLate(h) \/ Accept(h) \/ Decline(h) \/ Cancel(h)
      PROVE  offer'[t] = offer[t]
  BY <1>3 DEF AcceptTooLate, Accept, Decline, Cancel, Decides, Settle, Pending
<1>4. ASSUME NEW h \in Handlers, ResetFails(h) \/ ChangePassword(h) \/ Stamp(h)
      PROVE  offer'[t] = offer[t]
  BY <1>4 DEF ResetFails, ChangePassword, Stamp, offerVars
<1>5. CASE CooldownEnds
  BY <1>5 DEF CooldownEnds, offerVars
<1> QED
  BY <1>1, <1>2, <1>3, <1>4, <1>5, Writers

\* A settled offer is never settled again, by a tap or by the handler that
\* posted it - if the message of a failed send did not arrive.
THEOREM SettledStaysAlways == ASSUME FailedIsUnsent PROVE Spec => SettledStays
<1>1. TypeInv /\ PostInv /\ [Next]_vars
        => [\A t \in Offers : offer[t] \notin {"none", "pending"} => offer'[t] = offer[t]]_vars
  BY SettledStep
<1> QED
  BY <1>1, Invariant, PostAlways, PTL DEF Spec, SettledStays

-----------------------------------------------------------------------------
(* Ownership implements Custody *)

LEMMA CustodyInit == Init => Handover!Init
  BY OwnerAssumption DEF Init, Handover!Init

\* What Custody sees of an offer: whether it is open.
LEMMA OpenIsPending == Handover!Open = Pending
  BY DEF Handover!Open, Pending

LEMMA MapPostOffer ==
  ASSUME TypeInv, AccountInv, NEW h \in Handlers, NEW t \in Offers, PostOffer(h, t),
         NEW recipient, aim[h] = recipient
  PROVE  Handover!Make(t, recipient)
<1>1. who[h] = owner /\ aim[h] # owner
  BY DEF PostOffer, AccountInv, HoldsAccount, TypeInv, LocalInv
<1> QED
  BY <1>1, OpenIsPending DEF PostOffer, NextRow, Handover!Make, accountVars, Pending

\* A status that is neither open nor accepted closes an offer.
LEMMA MapClosing ==
  ASSUME NEW t \in Offers, t \in Pending, NEW status \in {"cancelled", "declined", "expired"},
         offer' = [offer EXCEPT ![t] = status], TypeInv, UNCHANGED <<owner, from, to, late>>
  PROVE  Handover!Close(t)
  BY OpenIsPending DEF Handover!Close, TypeInv, TypeOK, Pending

LEMMA MapSettle ==
  ASSUME TypeInv, NEW h \in Handlers, AcceptTooLate(h) \/ Decline(h) \/ Cancel(h)
  PROVE  Handover!Next
<1>1. aim[h] \in Offers /\ aim[h] \in Pending
  BY DEF AcceptTooLate, Decline, Cancel, Decides, Pending
<1>2. PICK status \in {"cancelled", "declined", "expired"} : offer' = [offer EXCEPT ![aim[h]] = status]
  BY DEF AcceptTooLate, Decline, Cancel, Settle
<1>3. UNCHANGED <<owner, from, to, late>>
  BY DEF AcceptTooLate, Decline, Cancel, Settle, accountVars
<1> QED
  BY <1>1, <1>2, <1>3, MapClosing DEF Handover!Next

LEMMA MapAccept ==
  ASSUME TypeInv, NEW h \in Handlers, Accept(h), NEW t \in Offers, aim[h] = t
  PROVE  Handover!Accept(t)
  BY OpenIsPending DEF Accept, Decides, Settle, Handover!Accept, TypeInv, TypeOK, Pending

LEMMA MapWithdraw ==
  ASSUME TypeInv, PostInv, NEW h \in Handlers, Withdraw(h)
  PROVE  Handover!Next \/ UNCHANGED Handover!vars
<1>1. aim[h] \in Offers /\ offer[aim[h]] \in {"pending", "cancelled"}
  BY WithdrawsUnsettled
<1>2. /\ offer' = [offer EXCEPT ![aim[h]] = "cancelled"]
      /\ UNCHANGED <<owner, from, to, late>>
  BY DEF Withdraw, accountVars
<1>3. CASE offer[aim[h]] = "pending"
  BY <1>1, <1>2, <1>3, MapClosing DEF Handover!Next, Pending
<1>4. CASE offer[aim[h]] = "cancelled"
  BY <1>2, <1>4 DEF Handover!vars, TypeInv, TypeOK
<1> QED
  BY <1>1, <1>3, <1>4

LEMMA MapExpire ==
  ASSUME TypeInv, NEW t \in Offers, Expire(t)
  PROVE  Handover!Expire(t)
  BY DEF Expire, Handover!Expire, Pending, accountVars, offerVars

LEMMA CustodyStep ==
  ASSUME TypeInv, AccountInv, PostInv, [Next]_vars
  PROVE  [Handover!Next]_(Handover!vars)
<1>1. CASE UNCHANGED <<owner, offer, from, to, late>>
  BY <1>1 DEF Handover!vars
<1>2. ASSUME NEW t \in Offers, Expire(t)
      PROVE  Handover!Next
  BY <1>2, MapExpire DEF Handover!Next
<1>3. ASSUME NEW h \in Handlers, NEW t \in Offers, PostOffer(h, t)
      PROVE  Handover!Next
  <2>1. PICK recipient \in Users : aim[h] = recipient
    BY <1>3 DEF PostOffer, TypeInv, LocalInv
  <2> QED
    BY <1>3, <2>1, MapPostOffer DEF Handover!Next
<1>4. ASSUME NEW h \in Handlers, AcceptTooLate(h) \/ Accept(h) \/ Decline(h) \/ Cancel(h)
      PROVE  Handover!Next
  <2>1. PICK t \in Offers : aim[h] = t
    BY <1>4 DEF AcceptTooLate, Accept, Decline, Cancel, Decides, Pending
  <2> QED
    BY <1>4, <2>1, MapSettle, MapAccept DEF Handover!Next
<1>5. ASSUME NEW h \in Handlers, Withdraw(h)
      PROVE  Handover!Next \/ UNCHANGED Handover!vars
  BY <1>5, MapWithdraw
<1>6. ASSUME NEW h \in Handlers, ResetFails(h) \/ ChangePassword(h) \/ Stamp(h)
      PROVE  UNCHANGED <<owner, offer, from, to, late>>
  BY <1>6 DEF ResetFails, ChangePassword, Stamp, offerVars
<1>7. CASE CooldownEnds
  BY <1>1, <1>7 DEF CooldownEnds, offerVars
<1>8. UNCHANGED late \/ \E t \in Offers : Expire(t)
  BY DEF Next, Taps, AskOffer, AskReset, TapOffer, Begin, Works, Offering, NotTheirs, LockAccount,
     PostOffer, SendOffer, SendFails, RecordOfferMessage, FindPending, Withdraw, Settling,
     LockOffer, Refused, AcceptTooLate, Accept, Decline, Cancel, DeadlockAbort, Settle, Resetting,
     StartReset, CoolingDown, ResetFails, ChangePassword, Stamp, CooldownEnds, Crash, vars
<1> QED
  BY <1>1, <1>2, <1>3, <1>4, <1>5, <1>6, <1>7, <1>8, Writers

\* The account moves by consent only: Ownership implements Custody, if the
\* message of a failed send did not arrive.
THEOREM Refinement == ASSUME FailedIsUnsent PROVE Spec => KeepsCustody
<1>1. TypeInv /\ SafetyInv /\ PostInv /\ [Next]_vars => [Handover!Next]_(Handover!vars)
  BY CustodyStep DEF SafetyInv
<1> QED
  BY <1>1, CustodyInit, Invariant, PostAlways, PTL DEF Spec, KeepsCustody, Handover!Spec

-----------------------------------------------------------------------------
(* What holds of the account also when a failed send did arrive *)

\* The account only moves when an offer of its owner that still stands and is
\* in time is accepted for the user it names (accept_transfer in
\* app/services/ownership.py); no offer stands afterwards, and no handler that
\* has locked the account to reset its password, or to offer it, is overtaken.
MovesByConsent ==
    [][owner' # owner =>
         /\ \E t \in Pending \ late :
              from[t] = owner /\ to[t] = owner' /\ offer'[t] = "accepted"
         /\ Pending' = {} /\ ~cooling'
         /\ \A h \in Handlers : pc[h] \notin HoldsAccount]_vars

THEOREM MovesByConsentAlways == Spec => MovesByConsent
<1>1. ASSUME TypeInv, SafetyInv, [Next]_vars, owner' # owner
      PROVE  /\ \E t \in Pending \ late :
                  from[t] = owner /\ to[t] = owner' /\ offer'[t] = "accepted"
             /\ Pending' = {} /\ ~cooling'
             /\ \A h \in Handlers : pc[h] \notin HoldsAccount
  <2>1. PICK h \in Handlers : Accept(h)
    BY <1>1, Writers DEF CooldownEnds, PostOffer, Withdraw, AcceptTooLate, Decline, Cancel,
       ResetFails, ChangePassword, Stamp, accountVars
  <2> DEFINE t == aim[h]
  <2>2. /\ t \in Pending \ late /\ from[t] = owner /\ accountLock = None
        /\ owner' = to[t] /\ offer' = [offer EXCEPT ![t] = "accepted"] /\ ~cooling'
    BY <2>1 DEF Accept, Decides, Settle
  <2>3. Pending = {t}
    BY <1>1, <2>2 DEF SafetyInv, StandingOffer
  <2>4. offer'[t] = "accepted" /\ \A x \in Offers \ {t} : offer'[x] = offer[x]
    BY <1>1, <2>2 DEF TypeInv, TypeOK, Pending
  <2>5. Pending' = {}
    BY <2>3, <2>4 DEF Pending
  <2>6. \A g \in Handlers : pc[g] \notin HoldsAccount
    BY <1>1, <2>2, LockAssumption DEF SafetyInv, AccountInv
  <2> QED
    BY <2>2, <2>4, <2>5, <2>6
<1>2. ASSUME TypeInv, SafetyInv, [Next]_vars
      PROVE  [owner' # owner =>
                /\ \E t \in Pending \ late :
                     from[t] = owner /\ to[t] = owner' /\ offer'[t] = "accepted"
                /\ Pending' = {} /\ ~cooling'
                /\ \A h \in Handlers : pc[h] \notin HoldsAccount]_vars
  BY <1>1, <1>2
<1> QED
  BY <1>2, Invariant, PTL DEF Spec, MovesByConsent
=============================================================================
