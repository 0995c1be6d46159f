----------------------------- MODULE Reminders -----------------------------
(***************************************************************************)
(* The expiry reminder job (send_due_reminders) and the renewals that run  *)
(* beside it (renew_and_change_group, from a paid order or from an admin). *)
(* Both write VPNUser.expiry_reminder_sent_at, neither locks the row.      *)
(*                                                                         *)
(* A renewal starts a new expiry cycle of an account in IBSng; the stamp   *)
(* is meant to say that the present cycle was dealt with.                  *)
(***************************************************************************)
EXTENDS Naturals, FiniteSets

CONSTANTS
    Accounts,     \* non-trial rows of vpn_users whose user is not blocked
    PaidRenewals, \* activations of renewal orders that may be in progress
    AdminRenewals,\* renewals an admin has confirmed
    Faults,       \* which failures the environment may inject
    MaxCycles,    \* bound: renewals of one account in one behaviour
    Renewable,    \* bound: the accounts that are renewed, one renewal of each at a time
    MaxLosses,    \* bound: restarts, lost answers and failed commits in one behaviour
    MaxTaps,      \* bound: taps and messages of the admin on the settings
    Near,         \* days left from which an account is "near" its end
    Days,         \* numbers of days the admin sends
    None

Renewals == PaidRenewals \cup AdminRenewals
DefaultDaysBefore == 2
FaultKinds == {"ibsng_down", "telegram_down", "reply_lost", "db_down", "crash"}

ASSUME RenewalAssumption == PaidRenewals \cap AdminRenewals = {}
ASSUME BoundAssumption ==
    /\ MaxCycles \in Nat /\ MaxLosses \in Nat /\ MaxTaps \in Nat
    /\ Renewable \subseteq Accounts /\ None \notin Accounts
ASSUME WindowAssumption == Near \in Nat /\ Near > DefaultDaysBefore /\ Days \subseteq Nat
ASSUME FaultAssumption == Faults \subseteq FaultKinds

ValidDays == {d \in Days : 1 <= d /\ d <= 365}

\* Bound: counting stops here, one above what OncePerCycle allows.
Cap == MaxLosses + 2

VARIABLES
    phase,        \* what IBSng's expiry date says of each account
    cycle,        \* which of its expiry cycles an account is in
    stamp,        \* expiry_reminder_sent_at is set
    reminded,     \* reminders sent for each cycle of each account, up to Cap
    \* app_config, and the admin who changes it
    enabled,      \* reminder_enabled
    daysBefore,   \* reminder_days_before
    asked,        \* the admin's chat waits for a number of days
    taps,
    \* the reminder job
    window,       \* the days this pass has read
    step, queue,  \* where the pass is, and the candidates it has left
    cur, about,   \* the account it is at, and the cycle its lookup saw
    \* local state of the renewals
    pc, target,
    loaded,       \* the stamp as the renewal's session has it in memory
    \* what came between a reminder and its stamp
    lost,         \* stamps of each account that were never committed
    losses        \* restarts, lost answers and failed commits so far

ibsngVars   == <<phase, cycle>>
settingVars == <<enabled, daysBefore, asked, taps>>
jobVars     == <<window, step, queue, cur, about>>
renewalVars == <<pc, target, loaded>>
lossVars    == <<lost, losses>>
vars == <<ibsngVars, stamp, reminded, settingVars, jobVars, renewalVars, lossVars>>

\* "unused" until the first connection starts the countdown; "near" within
\* Near days of the end, "due" within a day of it.
Phases == {"unused", "running", "near", "due", "expired"}

\* What a window of so many days before the expiry covers.
InWindow(p, days) == p = "due" \/ (p = "near" /\ days >= Near)

Init ==
    /\ phase = [a \in Accounts |-> "running"]
    /\ cycle = [a \in Accounts |-> 0]
    /\ stamp = [a \in Accounts |-> FALSE]
    /\ reminded = [a \in Accounts |-> [c \in 0..MaxCycles |-> 0]]
    /\ enabled = TRUE /\ daysBefore = DefaultDaysBefore /\ asked = FALSE /\ taps = 0
    /\ window = 0 /\ step = "idle" /\ queue = {} /\ cur = None /\ about = 0
    /\ pc = [r \in Renewals |-> "idle"]
    /\ target = [r \in Renewals |-> None]
    /\ loaded = [r \in Renewals |-> FALSE]
    /\ lost = [a \in Accounts |-> 0] /\ losses = 0

-----------------------------------------------------------------------------
(* Time.  Days pass between two phases: not while a renewal or the pass is *)
(* in the middle of that account.                                          *)

Quiet(a) == cur # a /\ \A r \in Renewals : target[r] # a

Moves(a, before, after) ==
    /\ phase[a] = before /\ Quiet(a)
    /\ phase' = [phase EXCEPT ![a] = after]
    /\ UNCHANGED <<cycle, stamp, reminded, settingVars, jobVars, renewalVars, lossVars>>

Connects(a)   == Moves(a, "unused", "running")
NearsEnd(a)   == Moves(a, "running", "near")
BecomesDue(a) == Moves(a, "near", "due")
Lapses(a)     == Moves(a, "due", "expired")

-----------------------------------------------------------------------------
(* One pass of send_due_reminders *)

\* The switch and the window are read once, and the candidates selected
\* once, by their stamp alone.
StartPass ==
    /\ step = "idle" /\ enabled
    /\ \E a \in Accounts : ~stamp[a]
    /\ queue' = {a \in Accounts : ~stamp[a]}
    /\ window' = daysBefore
    /\ step' = "next"
    /\ UNCHANGED <<ibsngVars, stamp, reminded, settingVars, cur, about, renewalVars, lossVars>>

\* get_service_status asks IBSng for the live expiry of one candidate.
LookUp(a) ==
    /\ step = "next" /\ a \in queue
    /\ queue' = queue \ {a}
    /\ IF phase[a] = "expired" \/ InWindow(phase[a], window)
         THEN /\ step' = IF phase[a] = "expired" THEN "stamp" ELSE "send"
              /\ cur' = a /\ about' = cycle[a]
         ELSE UNCHANGED <<step, cur, about>>
    /\ UNCHANGED <<ibsngVars, stamp, reminded, settingVars, window, renewalVars, lossVars>>

\* "unknown": the candidate is skipped, the batch goes on.
LookUpFails(a) ==
    /\ "ibsng_down" \in Faults
    /\ step = "next" /\ a \in queue
    /\ queue' = queue \ {a}
    /\ UNCHANGED <<ibsngVars, stamp, reminded, settingVars, window, step, cur, about, renewalVars, lossVars>>

NextCandidate == step' = "next" /\ cur' = None /\ about' = 0 /\ UNCHANGED <<window, queue>>

SendReminder ==
    /\ step = "send"
    /\ reminded' = [reminded EXCEPT ![cur][about] = IF @ < Cap THEN @ + 1 ELSE @]
    /\ step' = "stamp"
    /\ UNCHANGED <<ibsngVars, stamp, settingVars, window, queue, cur, about, renewalVars, lossVars>>

\* A mutant: a failed send is stamped like a sent one.
SendFailsStamps ==
    /\ "telegram_down" \in Faults /\ step = "send"
    /\ stamp' = [stamp EXCEPT ![cur] = TRUE]
    /\ NextCandidate
    /\ UNCHANGED <<ibsngVars, reminded, settingVars, renewalVars, lossVars>>

\* Nothing was delivered: the account stays a candidate.
SendFails ==
    /\ "telegram_down" \in Faults /\ step = "send"
    /\ NextCandidate
    /\ UNCHANGED <<ibsngVars, stamp, reminded, settingVars, renewalVars, lossVars>>

Loses(fault) == fault \in Faults /\ losses < MaxLosses /\ losses' = losses + 1

\* Telegram delivered and its answer was lost: the same exception, and the
\* same way on, as if it had not.
SendUnheard ==
    /\ Loses("reply_lost") /\ step = "send"
    /\ reminded' = [reminded EXCEPT ![cur][about] = IF @ < Cap THEN @ + 1 ELSE @]
    /\ lost' = [lost EXCEPT ![cur] = @ + 1]
    /\ NextCandidate
    /\ UNCHANGED <<ibsngVars, stamp, settingVars, renewalVars>>

\* A mutant: the commit after the send is missing.
StampAccountForgets ==
    /\ step = "stamp"
    /\ NextCandidate
    /\ UNCHANGED <<ibsngVars, stamp, reminded, settingVars, renewalVars, lossVars>>

\* Committed, whatever has happened to the row since it was selected.
StampAccount ==
    /\ step = "stamp"
    /\ stamp' = [stamp EXCEPT ![cur] = TRUE]
    /\ NextCandidate
    /\ UNCHANGED <<ibsngVars, reminded, settingVars, renewalVars, lossVars>>

StopPass == step' = "idle" /\ window' = 0 /\ queue' = {} /\ cur' = None /\ about' = 0

\* The commit raises, and with it the pass ends: run_reminder_loop makes the
\* next one.
StampFails ==
    /\ Loses("db_down") /\ step = "stamp"
    /\ lost' = [lost EXCEPT ![cur] = @ + 1]
    /\ StopPass
    /\ UNCHANGED <<ibsngVars, stamp, reminded, settingVars, renewalVars>>

EndPass ==
    /\ step = "next" /\ queue = {}
    /\ step' = "idle" /\ window' = 0
    /\ UNCHANGED <<ibsngVars, stamp, reminded, settingVars, queue, cur, about, renewalVars, lossVars>>

-----------------------------------------------------------------------------
(* The admin's settings: one admin, one tap at a time *)

Tap == taps < MaxTaps /\ taps' = taps + 1

LeavesRest == UNCHANGED <<ibsngVars, stamp, reminded, jobVars, renewalVars, lossVars>>

\* settings_reminders_status_cb ends what the chat was waiting for.
ShowSettings ==
    /\ Tap
    /\ asked /\ asked' = FALSE
    /\ LeavesRest /\ UNCHANGED <<enabled, daysBefore>>

AskDays ==
    /\ Tap
    /\ asked' = TRUE
    /\ LeavesRest /\ UNCHANGED <<enabled, daysBefore>>

\* Anything but a number from 1 to 365 is refused, and asked for again.
ReceiveDays(days) ==
    /\ Tap
    /\ asked
    /\ IF days \in ValidDays THEN daysBefore' = days /\ asked' = FALSE
                             ELSE UNCHANGED <<daysBefore, asked>>
    /\ LeavesRest /\ UNCHANGED enabled

ToggleReminders ==
    /\ Tap
    /\ enabled' = ~enabled
    /\ LeavesRest /\ UNCHANGED <<daysBefore, asked>>

-----------------------------------------------------------------------------
(* A renewal *)

\* One renewal of an account at a time; Payments has two at once.
StartRenewal(r, a) ==
    /\ pc[r] = "idle" /\ a \in Renewable /\ cycle[a] < MaxCycles
    /\ \A q \in Renewals : target[q] # a
    /\ pc' = [pc EXCEPT ![r] = "renew"]
    /\ target' = [target EXCEPT ![r] = a]
    \* A paid order's activation has the row in its session from the start.
    /\ loaded' = [loaded EXCEPT ![r] = r \in PaidRenewals /\ stamp[a]]
    /\ UNCHANGED <<ibsngVars, stamp, reminded, settingVars, jobVars, lossVars>>

\* client.renew_user: the account's validity starts again.
RenewUser(r) ==
    /\ pc[r] = "renew"
    /\ phase' = [phase EXCEPT ![target[r]] = "unused"]
    /\ cycle' = [cycle EXCEPT ![target[r]] = @ + 1]
    /\ pc' = [pc EXCEPT ![r] = "group"]
    /\ UNCHANGED <<stamp, reminded, settingVars, jobVars, target, loaded, lossVars>>

\* client.change_user_group, then the SELECT of the row: it refreshes
\* nothing that the session already holds.
ChangeUserGroup(r) ==
    /\ pc[r] = "group"
    /\ loaded' = [loaded EXCEPT ![r] = IF r \in PaidRenewals THEN @ ELSE stamp[target[r]]]
    /\ pc' = [pc EXCEPT ![r] = "clear"]
    /\ UNCHANGED <<ibsngVars, stamp, reminded, settingVars, jobVars, target, lossVars>>

EndRenewal(r) ==
    /\ pc' = [pc EXCEPT ![r] = "idle"]
    /\ target' = [target EXCEPT ![r] = None]
    /\ loaded' = [loaded EXCEPT ![r] = FALSE]

RenewalFails(r) ==
    /\ "ibsng_down" \in Faults /\ pc[r] \in {"renew", "group"}
    /\ EndRenewal(r)
    /\ UNCHANGED <<ibsngVars, stamp, reminded, settingVars, jobVars, lossVars>>

\* The attribute is set to None and the session committed; SQLAlchemy writes
\* the column only if the value it loaded was another one.
ClearStamp(r) ==
    /\ pc[r] = "clear"
    /\ stamp' = IF loaded[r] THEN [stamp EXCEPT ![target[r]] = FALSE] ELSE stamp
    /\ EndRenewal(r)
    /\ UNCHANGED <<ibsngVars, reminded, settingVars, jobVars, lossVars>>

\* The process restarts in the middle of a pass or of a renewal.
Crash ==
    /\ Loses("crash")
    /\ step # "idle" \/ \E r \in Renewals : pc[r] # "idle"
    /\ lost' = IF step = "stamp" THEN [lost EXCEPT ![cur] = @ + 1] ELSE lost
    /\ StopPass
    /\ pc' = [r \in Renewals |-> "idle"]
    /\ target' = [r \in Renewals |-> None]
    /\ loaded' = [r \in Renewals |-> FALSE]
    /\ UNCHANGED <<ibsngVars, stamp, reminded, settingVars>>

-----------------------------------------------------------------------------
Pass ==
    \/ StartPass \/ SendReminder \/ SendFails \/ SendUnheard
    \/ StampAccount \/ StampFails \/ EndPass
    \/ \E a \in Accounts : LookUp(a) \/ LookUpFails(a)

Renewal(r) ==
    \/ RenewUser(r) \/ ChangeUserGroup(r) \/ RenewalFails(r) \/ ClearStamp(r)
    \/ \E a \in Accounts : StartRenewal(r, a)

Time == \E a \in Accounts : Connects(a) \/ NearsEnd(a) \/ BecomesDue(a) \/ Lapses(a)

Settings ==
    \/ ShowSettings \/ AskDays \/ ToggleReminders
    \/ \E days \in Days : ReceiveDays(days)

Next == Pass \/ Settings \/ Time \/ Crash \/ \E r \in Renewals : Renewal(r)

Spec == Init /\ [][Next]_vars

\* run_reminder_loop keeps making passes; an outage of IBSng or Telegram
\* ends.  Nothing is assumed about time, about renewals or about the admin.
Fairness ==
    /\ WF_vars(Pass)
    /\ \A a \in Accounts : SF_vars(LookUp(a)) /\ SF_vars(cur = a /\ SendReminder)

FairSpec == Spec /\ Fairness

-----------------------------------------------------------------------------
(* Properties *)

\* The types of the variables.
TypeOK ==
    /\ phase \in [Accounts -> Phases]
    /\ cycle \in [Accounts -> 0..MaxCycles]
    /\ stamp \in [Accounts -> BOOLEAN]
    /\ reminded \in [Accounts -> [0..MaxCycles -> 0..Cap]]
    /\ enabled \in BOOLEAN /\ asked \in BOOLEAN /\ taps \in 0..MaxTaps
    /\ daysBefore \in 1..365 /\ window \in 0..365
    /\ step \in {"idle", "next", "send", "stamp"}
    /\ queue \subseteq Accounts
    /\ cur \in Accounts \cup {None}
    /\ about \in 0..MaxCycles
    /\ pc \in [Renewals -> {"idle", "renew", "group", "clear"}]
    /\ target \in [Renewals -> Accounts \cup {None}]
    /\ loaded \in [Renewals -> BOOLEAN]
    /\ losses \in 0..MaxLosses /\ lost \in [Accounts -> 0..losses]

\* "Safe to call repeatedly": an account is reminded once in each of its
\* cycles, whatever is renewed and whatever else fails meanwhile.  Only what
\* comes between a reminder of this account and its stamp costs one more: a
\* restart, a lost answer of Telegram, a failed commit.
OncePerCycle ==
    \A a \in Accounts, c \in 0..MaxCycles : reminded[a][c] <= 1 + lost[a]

\* A candidate is never lost: an account that comes into the window and is
\* not stamped is reminded before it lapses, if it is given the time - through
\* failed lookups, failed sends, restarts, and the window and the switch as
\* the admin changes them during a pass.
CandidateIsReminded ==
    \A a \in Accounts :
        InWindow(phase[a], daysBefore) /\ ~stamp[a] /\ enabled
            ~> \/ reminded[a][cycle[a]] > 0
               \/ ~InWindow(phase[a], daysBefore) \/ ~enabled
=============================================================================
