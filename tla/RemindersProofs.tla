-------------------------- MODULE RemindersProofs --------------------------
(***************************************************************************)
(* One reminder in each cycle, for every number of accounts, renewals,     *)
(* cycles, settings, restarts, lost answers and failed commits.            *)
(***************************************************************************)
EXTENDS Reminders, TLAPS

\* Where the pass is: the account it is at was taken from the queue, and its
\* lookup saw the cycle the account is in, or was in.
PassInv ==
    /\ IF step \in {"send", "stamp"} THEN cur \in Accounts /\ about <= cycle[cur]
                                      ELSE cur = None
    /\ cur \notin queue
    /\ \A a \in queue : ~stamp[a]

\* One renewal of an account at a time, and room for the cycle it starts.
RenewalInv ==
    \A r \in Renewals :
        /\ pc[r] # "idle" => target[r] \in Accounts
        /\ pc[r] = "renew" => cycle[target[r]] < MaxCycles
        /\ \A q \in Renewals : pc[r] # "idle" /\ pc[q] # "idle" /\ target[q] = target[r] => q = r

TypeInv == TypeOK /\ PassInv /\ RenewalInv

\* The pass has sent its reminder, and the stamp is still missing.
Unstamped(a) == step = "stamp" /\ cur = a /\ about = cycle[a]

\* Reminders of the present cycle that no stamp accounts for, a lost one does.
StampInv ==
    /\ \A a \in Accounts : ~stamp[a] /\ ~Unstamped(a) => reminded[a][cycle[a]] <= lost[a]
    /\ step = "send" => reminded[cur][about] <= lost[cur]

\* A cycle that a renewal has just started is new: nothing was sent in it,
\* and nothing will be before the renewal has cleared the stamp.
NewCycleInv ==
    /\ \A a \in Accounts, c \in 0..MaxCycles : c > cycle[a] => reminded[a][c] = 0
    /\ \A r \in Renewals : pc[r] \in {"group", "clear"} =>
          /\ phase[target[r]] = "unused"
          /\ reminded[target[r]][cycle[target[r]]] = 0
          /\ cur = target[r] => about < cycle[cur]

CycleInv == StampInv /\ NewCycleInv /\ OncePerCycle

-----------------------------------------------------------------------------
(* Type correctness *)

LEMMA WindowType == ValidDays \subseteq 1..365
<1> SUFFICES ASSUME NEW d \in ValidDays PROVE d \in 1..365
  OBVIOUS
<1> QED
  BY WindowAssumption DEF ValidDays

LEMMA CountType ==
  ASSUME NEW f \in [0..MaxCycles -> 0..Cap], NEW c \in 0..MaxCycles
  PROVE  [f EXCEPT ![c] = IF @ < Cap THEN @ + 1 ELSE @] \in [0..MaxCycles -> 0..Cap]
<1>1. Cap \in Nat /\ f[c] \in 0..Cap
  BY BoundAssumption DEF Cap
<1>2. (IF f[c] < Cap THEN f[c] + 1 ELSE f[c]) \in 0..Cap
  BY <1>1
<1> QED
  BY <1>2

LEMMA TypeInit == Init => TypeInv
<1> SUFFICES ASSUME Init PROVE TypeInv
  OBVIOUS
<1> USE BoundAssumption DEF Init
<1>1. reminded \in [Accounts -> [0..MaxCycles -> 0..Cap]]
  BY DEF Cap
<1>2. /\ phase \in [Accounts -> Phases] /\ cycle \in [Accounts -> 0..MaxCycles]
      /\ stamp \in [Accounts -> BOOLEAN]
  BY DEF Phases
<1>3. /\ pc \in [Renewals -> {"idle", "renew", "group", "clear"}]
      /\ target \in [Renewals -> Accounts \cup {None}]
      /\ loaded \in [Renewals -> BOOLEAN]
  OBVIOUS
<1>4. TypeOK
  <2>1. taps \in 0..MaxTaps /\ daysBefore \in 1..365 /\ window \in 0..365
    BY DEF DefaultDaysBefore
  <2>3. enabled \in BOOLEAN /\ asked \in BOOLEAN
    OBVIOUS
  <2>2. /\ step \in {"idle", "next", "send", "stamp"} /\ queue \subseteq Accounts
        /\ cur \in Accounts \cup {None} /\ about \in 0..MaxCycles
        /\ losses = 0 /\ losses \in 0..MaxLosses /\ lost \in [Accounts -> 0..losses]
    OBVIOUS
  <2> QED
    BY <1>1, <1>2, <1>3, <2>1, <2>2, <2>3 DEF TypeOK
<1>5. PassInv /\ RenewalInv
  BY DEF PassInv, RenewalInv
<1> QED
  BY <1>4, <1>5 DEF TypeInv

\* One more restart, lost answer or failed commit, with or without a stamp.
LEMMA LossType ==
  ASSUME TypeOK, NEW fault, Loses(fault),
         \/ lost' = lost
         \/ cur \in Accounts /\ lost' = [lost EXCEPT ![cur] = @ + 1]
  PROVE  losses' \in 0..MaxLosses /\ lost' \in [Accounts -> 0..losses']
<1>1. /\ losses' = losses + 1 /\ losses < MaxLosses
      /\ losses \in 0..MaxLosses /\ lost \in [Accounts -> 0..losses]
  BY DEF Loses, TypeOK
<1>2. losses' \in 0..MaxLosses
  BY <1>1, BoundAssumption
<1>3. \A n \in 0..losses : n \in 0..losses' /\ n + 1 \in 0..losses'
  BY <1>1, BoundAssumption
<1>4. lost' \in [Accounts -> 0..losses']
  BY <1>1, <1>3
<1> QED
  BY <1>2, <1>4

\* A step of the pass keeps the types of what it writes.
LEMMA PassKeepsType ==
  ASSUME TypeInv, UNCHANGED <<ibsngVars, settingVars, renewalVars>>,
         losses' \in 0..MaxLosses, lost' \in [Accounts -> 0..losses'],
         stamp' \in [Accounts -> BOOLEAN],
         reminded' \in [Accounts -> [0..MaxCycles -> 0..Cap]],
         window' \in 0..365, step' \in {"idle", "next", "send", "stamp"},
         queue' \subseteq Accounts, cur' \in Accounts \cup {None}, about' \in 0..MaxCycles,
         PassInv'
  PROVE  TypeInv'
<1>1. TypeOK'
  BY DEF TypeInv, TypeOK, ibsngVars, settingVars, renewalVars
<1>2. RenewalInv'
  BY DEF TypeInv, RenewalInv, ibsngVars, renewalVars
<1> QED
  BY <1>1, <1>2 DEF TypeInv

LEMMA PassType == ASSUME TypeInv, Pass PROVE TypeInv'
<1> DEFINE Rest == UNCHANGED <<ibsngVars, settingVars, renewalVars, lossVars>>
<1>9. losses \in 0..MaxLosses /\ lost \in [Accounts -> 0..losses]
  BY DEF TypeInv, TypeOK
<1>10. Rest => losses' \in 0..MaxLosses /\ lost' \in [Accounts -> 0..losses']
  BY <1>9 DEF lossVars
<1>0. /\ stamp \in [Accounts -> BOOLEAN] /\ reminded \in [Accounts -> [0..MaxCycles -> 0..Cap]]
      /\ window \in 0..365 /\ daysBefore \in 0..365 /\ queue \subseteq Accounts
      /\ step \in {"idle", "next", "send", "stamp"}
      /\ cur \in Accounts \cup {None} /\ about \in 0..MaxCycles
      /\ cycle \in [Accounts -> 0..MaxCycles] /\ PassInv
  BY DEF TypeInv, TypeOK
<1>1. CASE StartPass
  <2>1. Rest /\ UNCHANGED <<stamp, reminded, cur, about>> /\ window' = daysBefore
        /\ step' = "next" /\ queue' = {a \in Accounts : ~stamp[a]}
    BY <1>1 DEF StartPass
  <2>2. PassInv'
    <3>1. cur = None
      BY <1>1 DEF StartPass, TypeInv, PassInv
    <3> QED
      BY <2>1, <3>1, BoundAssumption DEF PassInv
  <2> QED
    BY <1>0, <2>1, <2>2, PassKeepsType, <1>10
<1>2. ASSUME NEW a \in Accounts, LookUp(a)
      PROVE  TypeInv'
  <2>1. Rest /\ UNCHANGED <<stamp, reminded, window>> /\ queue' \subseteq Accounts
    BY <1>0, <1>2 DEF LookUp
  <2>2. PassInv'
    BY <1>0, <1>2 DEF LookUp, PassInv, ibsngVars
  <2>3. about' \in 0..MaxCycles /\ cur' \in Accounts \cup {None}
        /\ step' \in {"idle", "next", "send", "stamp"}
    BY <1>0, <1>2 DEF LookUp
  <2> QED
    BY <1>0, <2>1, <2>2, <2>3, PassKeepsType, <1>10
<1>3. ASSUME NEW a \in Accounts, LookUpFails(a)
      PROVE  TypeInv'
  <2>1. Rest /\ UNCHANGED <<stamp, reminded, window, step, cur, about>> /\ queue' = queue \ {a}
    BY <1>3 DEF LookUpFails
  <2>2. PassInv'
    BY <1>0, <2>1 DEF PassInv, ibsngVars
  <2> QED
    BY <1>0, <2>1, <2>2, PassKeepsType, <1>10
<1>4. CASE SendReminder
  <2>1. Rest /\ UNCHANGED <<stamp, window, queue, cur, about>> /\ step = "send" /\ step' = "stamp"
    BY <1>4 DEF SendReminder
  <2>2. PassInv'
    BY <1>0, <2>1 DEF PassInv, ibsngVars
  <2>3. cur \in Accounts
    BY <1>0, <2>1 DEF PassInv
  <2> DEFINE counts == [reminded[cur] EXCEPT ![about] = IF @ < Cap THEN @ + 1 ELSE @]
  <2>4. counts \in [0..MaxCycles -> 0..Cap]
    BY <1>0, <2>3, CountType
  <2>5. reminded' = [reminded EXCEPT ![cur] = counts]
    BY <1>4 DEF SendReminder
  <2>6. reminded' \in [Accounts -> [0..MaxCycles -> 0..Cap]]
    BY <1>0, <2>4, <2>5
  <2> QED
    BY <1>0, <2>1, <2>2, <2>6, PassKeepsType, <1>10
<1>5. CASE SendFails \/ StampAccount
  <2>1. Rest /\ UNCHANGED <<reminded, window, queue>> /\ step' = "next" /\ cur' = None /\ about' = 0
    BY <1>5 DEF SendFails, StampAccount, NextCandidate
  <2>2. stamp' \in [Accounts -> BOOLEAN] /\ \A a \in queue : stamp'[a] = stamp[a]
    BY <1>0, <1>5 DEF SendFails, StampAccount, PassInv
  <2>3. PassInv'
    BY <1>0, <2>1, <2>2, BoundAssumption DEF PassInv
  <2> QED
    BY <1>0, <2>1, <2>2, <2>3, BoundAssumption, PassKeepsType, <1>10
<1>6. CASE EndPass
  <2>1. Rest /\ UNCHANGED <<stamp, reminded, queue, cur, about>> /\ window' = 0
        /\ step = "next" /\ step' = "idle"
    BY <1>6 DEF EndPass
  <2>2. PassInv'
    BY <1>0, <2>1 DEF PassInv, ibsngVars
  <2> QED
    BY <1>0, <2>1, <2>2, PassKeepsType, <1>10
<1>7. CASE SendUnheard
  <2>1. /\ UNCHANGED <<ibsngVars, settingVars, renewalVars, stamp, window, queue>>
        /\ step = "send" /\ step' = "next" /\ cur' = None /\ about' = 0
    BY <1>7 DEF SendUnheard, NextCandidate
  <2>2. cur \in Accounts
    BY <1>0, <2>1 DEF PassInv
  <2>3. losses' \in 0..MaxLosses /\ lost' \in [Accounts -> 0..losses']
    BY <1>7, <2>2, LossType DEF SendUnheard, TypeInv
  <2> DEFINE counts == [reminded[cur] EXCEPT ![about] = IF @ < Cap THEN @ + 1 ELSE @]
  <2>4. counts \in [0..MaxCycles -> 0..Cap]
    BY <1>0, <2>2, CountType
  <2>5. reminded' = [reminded EXCEPT ![cur] = counts]
    BY <1>7 DEF SendUnheard
  <2>6. reminded' \in [Accounts -> [0..MaxCycles -> 0..Cap]]
    BY <1>0, <2>4, <2>5
  <2>7. PassInv'
    BY <1>0, <2>1, BoundAssumption DEF PassInv
  <2> QED
    BY <1>0, <2>1, <2>3, <2>6, <2>7, BoundAssumption, PassKeepsType
<1>8. CASE StampFails
  <2>1. /\ UNCHANGED <<ibsngVars, settingVars, renewalVars, stamp, reminded>>
        /\ step = "stamp" /\ step' = "idle" /\ window' = 0 /\ queue' = {}
        /\ cur' = None /\ about' = 0
    BY <1>8 DEF StampFails, StopPass
  <2>2. cur \in Accounts
    BY <1>0, <2>1 DEF PassInv
  <2>3. losses' \in 0..MaxLosses /\ lost' \in [Accounts -> 0..losses']
    BY <1>8, <2>2, LossType DEF StampFails, TypeInv
  <2>4. PassInv'
    BY <2>1 DEF PassInv
  <2> QED
    BY <1>0, <2>1, <2>3, <2>4, BoundAssumption, PassKeepsType
<1> QED
  BY <1>1, <1>2, <1>3, <1>4, <1>5, <1>6, <1>7, <1>8 DEF Pass

LEMMA SettingsType == ASSUME TypeInv, Settings PROVE TypeInv'
<1>1. taps' \in 0..MaxTaps /\ enabled' \in BOOLEAN /\ asked' \in BOOLEAN /\ daysBefore' \in 1..365
  <2>1. /\ taps < MaxTaps /\ taps' = taps + 1
        /\ taps \in 0..MaxTaps /\ enabled \in BOOLEAN /\ asked \in BOOLEAN /\ daysBefore \in 1..365
    BY DEF Settings, ShowSettings, AskDays, ReceiveDays, ToggleReminders, Tap, TypeInv, TypeOK
  <2>2. taps' \in 0..MaxTaps
    BY <2>1, BoundAssumption
  <2>3. enabled' \in BOOLEAN /\ asked' \in BOOLEAN
    BY <2>1 DEF Settings, ShowSettings, AskDays, ReceiveDays, ToggleReminders
  <2>4. daysBefore' = daysBefore \/ daysBefore' \in ValidDays
    BY DEF Settings, ShowSettings, AskDays, ReceiveDays, ToggleReminders
  <2> QED
    BY <2>1, <2>2, <2>3, <2>4, WindowType
<1>2. UNCHANGED <<ibsngVars, stamp, reminded, jobVars, renewalVars, lossVars>>
  BY DEF Settings, ShowSettings, AskDays, ReceiveDays, ToggleReminders, LeavesRest
<1>3. TypeOK'
  BY <1>1, <1>2 DEF TypeInv, TypeOK, ibsngVars, jobVars, renewalVars, lossVars
<1>4. PassInv' /\ RenewalInv'
  BY <1>2 DEF TypeInv, PassInv, RenewalInv, ibsngVars, jobVars, renewalVars
<1> QED
  BY <1>3, <1>4 DEF TypeInv

LEMMA TimeType == ASSUME TypeInv, Time PROVE TypeInv'
<1>1. PICK a \in Accounts, after \in Phases :
        /\ phase' = [phase EXCEPT ![a] = after]
        /\ UNCHANGED <<cycle, stamp, reminded, settingVars, jobVars, renewalVars, lossVars>>
  BY DEF Time, Connects, NearsEnd, BecomesDue, Lapses, Moves, Phases
<1>2. TypeOK'
  BY <1>1 DEF TypeInv, TypeOK, settingVars, jobVars, renewalVars, lossVars
<1>3. PassInv' /\ RenewalInv'
  BY <1>1 DEF TypeInv, PassInv, RenewalInv, jobVars, renewalVars
<1> QED
  BY <1>2, <1>3 DEF TypeInv

\* A step of a renewal keeps the types of what it writes.
LEMMA RenewalKeepsType ==
  ASSUME TypeInv, UNCHANGED <<reminded, settingVars, jobVars, lossVars>>,
         phase' \in [Accounts -> Phases], cycle' \in [Accounts -> 0..MaxCycles],
         stamp' \in [Accounts -> BOOLEAN],
         pc' \in [Renewals -> {"idle", "renew", "group", "clear"}],
         target' \in [Renewals -> Accounts \cup {None}], loaded' \in [Renewals -> BOOLEAN],
         \A a \in Accounts : cycle[a] <= cycle'[a] /\ (stamp'[a] => stamp[a]),
         RenewalInv'
  PROVE  TypeInv'
<1>1. TypeOK'
  BY DEF TypeInv, TypeOK, settingVars, jobVars, lossVars
<1>2. PassInv'
  BY DEF TypeInv, TypeOK, PassInv, jobVars
<1> QED
  BY <1>1, <1>2 DEF TypeInv

LEMMA RenewalType == ASSUME TypeInv, NEW r \in Renewals, Renewal(r) PROVE TypeInv'
<1> DEFINE Rest == UNCHANGED <<reminded, settingVars, jobVars, lossVars>>
<1>0. /\ phase \in [Accounts -> Phases] /\ cycle \in [Accounts -> 0..MaxCycles]
      /\ stamp \in [Accounts -> BOOLEAN]
      /\ pc \in [Renewals -> {"idle", "renew", "group", "clear"}]
      /\ target \in [Renewals -> Accounts \cup {None}] /\ loaded \in [Renewals -> BOOLEAN]
      /\ RenewalInv
  BY DEF TypeInv, TypeOK
<1>1. ASSUME NEW a \in Accounts, StartRenewal(r, a)
      PROVE  TypeInv'
  <2>1. Rest /\ UNCHANGED <<phase, cycle, stamp>>
        /\ pc' = [pc EXCEPT ![r] = "renew"] /\ target' = [target EXCEPT ![r] = a]
        /\ cycle[a] < MaxCycles /\ \A q \in Renewals : target[q] # a
    BY <1>1 DEF StartRenewal, ibsngVars
  <2>2. RenewalInv'
    BY <1>0, <2>1 DEF RenewalInv
  <2>3. loaded' \in [Renewals -> BOOLEAN]
    BY <1>0, <1>1 DEF StartRenewal
  <2>4. pc' \in [Renewals -> {"idle", "renew", "group", "clear"}]
        /\ target' \in [Renewals -> Accounts \cup {None}]
    BY <1>0, <2>1
  <2> QED
    BY <1>0, <2>1, <2>2, <2>3, <2>4, RenewalKeepsType
<1>2. CASE RenewUser(r)
  <2>1. Rest /\ UNCHANGED <<stamp, target, loaded>> /\ pc[r] = "renew"
        /\ pc' = [pc EXCEPT ![r] = "group"] /\ phase' = [phase EXCEPT ![target[r]] = "unused"]
        /\ cycle' = [cycle EXCEPT ![target[r]] = @ + 1]
    BY <1>2 DEF RenewUser
  <2>2. target[r] \in Accounts /\ cycle[target[r]] < MaxCycles
    BY <2>1 DEF TypeInv, RenewalInv
  <2>3. cycle[target[r]] + 1 \in 0..MaxCycles
    BY <1>0, <2>2, BoundAssumption
  <2>4. /\ cycle' \in [Accounts -> 0..MaxCycles] /\ phase' \in [Accounts -> Phases]
        /\ pc' \in [Renewals -> {"idle", "renew", "group", "clear"}]
    BY <1>0, <2>1, <2>3 DEF Phases
  <2>5. RenewalInv'
    BY <1>0, <2>1, <2>2 DEF RenewalInv
  <2>6. \A a \in Accounts : cycle[a] <= cycle'[a]
    BY <1>0, <2>1, BoundAssumption
  <2> QED
    BY <1>0, <2>1, <2>4, <2>5, <2>6, RenewalKeepsType
<1>3. CASE ChangeUserGroup(r)
  <2>1. Rest /\ UNCHANGED <<phase, cycle, stamp, target>> /\ pc[r] = "group"
        /\ pc' = [pc EXCEPT ![r] = "clear"]
    BY <1>3 DEF ChangeUserGroup, ibsngVars
  <2>2. RenewalInv'
    BY <1>0, <2>1 DEF RenewalInv
  <2>3. target[r] \in Accounts
    BY <1>0, <2>1 DEF RenewalInv
  <2>4. loaded' \in [Renewals -> BOOLEAN]
    BY <1>0, <1>3, <2>3 DEF ChangeUserGroup
  <2>5. pc' \in [Renewals -> {"idle", "renew", "group", "clear"}]
    BY <1>0, <2>1
  <2> QED
    BY <1>0, <2>1, <2>2, <2>4, <2>5, RenewalKeepsType
<1>4. CASE RenewalFails(r) \/ ClearStamp(r)
  <2>1. Rest /\ UNCHANGED <<phase, cycle>> /\ pc' = [pc EXCEPT ![r] = "idle"]
        /\ target' = [target EXCEPT ![r] = None] /\ loaded' = [loaded EXCEPT ![r] = FALSE]
    BY <1>4 DEF RenewalFails, ClearStamp, EndRenewal, ibsngVars
  <2>2. RenewalInv'
    BY <1>0, <2>1 DEF RenewalInv
  <2>3. stamp' \in [Accounts -> BOOLEAN] /\ \A a \in Accounts : stamp'[a] => stamp[a]
    BY <1>0, <1>4 DEF RenewalFails, ClearStamp
  <2>4. /\ pc' \in [Renewals -> {"idle", "renew", "group", "clear"}]
        /\ target' \in [Renewals -> Accounts \cup {None}] /\ loaded' \in [Renewals -> BOOLEAN]
    BY <1>0, <2>1
  <2> QED
    BY <1>0, <2>1, <2>2, <2>3, <2>4, RenewalKeepsType
<1> QED
  BY <1>1, <1>2, <1>3, <1>4 DEF Renewal

LEMMA CrashType == ASSUME TypeInv, Crash PROVE TypeInv'
<1>1. losses' \in 0..MaxLosses /\ lost' \in [Accounts -> 0..losses']
  <2>1. lost' = lost \/ (cur \in Accounts /\ lost' = [lost EXCEPT ![cur] = @ + 1])
    BY DEF Crash, TypeInv, PassInv
  <2> QED
    BY <2>1, LossType DEF Crash, TypeInv
<1>2. /\ pc' \in [Renewals -> {"idle", "renew", "group", "clear"}]
      /\ target' \in [Renewals -> Accounts \cup {None}] /\ loaded' \in [Renewals -> BOOLEAN]
  BY DEF Crash
<1>3. /\ window' \in 0..365 /\ step' = "idle" /\ queue' = {} /\ cur' = None /\ about' \in 0..MaxCycles
  BY BoundAssumption DEF Crash, StopPass
<1>4. UNCHANGED <<ibsngVars, stamp, reminded, settingVars>>
  BY DEF Crash
<1>5. TypeOK'
  BY <1>1, <1>2, <1>3, <1>4 DEF TypeInv, TypeOK, ibsngVars, settingVars
<1>6. PassInv' /\ RenewalInv'
  BY DEF Crash, StopPass, PassInv, RenewalInv
<1> QED
  BY <1>5, <1>6 DEF TypeInv

LEMMA TypeStep == ASSUME TypeInv, [Next]_vars PROVE TypeInv'
<1>1. CASE UNCHANGED vars
  BY <1>1 DEF vars, TypeInv, TypeOK, PassInv, RenewalInv, ibsngVars, settingVars, jobVars,
     renewalVars, lossVars
<1> QED
  BY <1>1, PassType, SettingsType, TimeType, RenewalType, CrashType DEF Next

\* Every variable of the job and of the renewals beside it keeps its type.
THEOREM TypeCorrect == Spec => []TypeOK
<1>1. Spec => []TypeInv
  BY TypeInit, TypeStep, PTL DEF Spec
<1>2. TypeInv => TypeOK
  BY DEF TypeInv
<1> QED
  BY <1>1, <1>2, PTL

-----------------------------------------------------------------------------
(* One reminder in each cycle *)

LEMMA CycleInit == Init => CycleInv
<1> SUFFICES ASSUME Init PROVE CycleInv
  OBVIOUS
<1>1. \A a \in Accounts, c \in 0..MaxCycles : reminded[a][c] = 0
  BY DEF Init
<1>2. \A a \in Accounts : lost[a] = 0
  BY DEF Init
<1>4. \A a \in Accounts : cycle[a] = 0
  BY DEF Init
<1>3. 0 \in 0..MaxCycles
  BY BoundAssumption
<1> QED
  BY <1>1, <1>2, <1>3, <1>4 DEF Init, CycleInv, StampInv, NewCycleInv, OncePerCycle

\* The counts are numbers.
LEMMA Counts ==
  ASSUME TypeInv
  PROVE  /\ about \in Nat /\ \A a \in Accounts : lost[a] \in Nat /\ lost[a] <= MaxLosses
         /\ \A a \in Accounts : cycle[a] \in 0..MaxCycles
         /\ \A a \in Accounts, c \in 0..MaxCycles : reminded[a][c] \in Nat
<1>1. about \in Nat /\ \A a \in Accounts : lost[a] \in Nat /\ lost[a] <= MaxLosses
  BY BoundAssumption DEF TypeInv, TypeOK
<1>2. \A a \in Accounts : cycle[a] \in 0..MaxCycles
  BY DEF TypeInv, TypeOK
<1>3. ASSUME NEW a \in Accounts, NEW c \in 0..MaxCycles
      PROVE  reminded[a][c] \in Nat
  <2>1. reminded[a] \in [0..MaxCycles -> 0..Cap]
    BY <1>3 DEF TypeInv, TypeOK
  <2> QED
    BY <2>1, BoundAssumption DEF Cap
<1> QED
  BY <1>1, <1>2, <1>3

\* What a step that sends nothing must leave true.
LEMMA NothingSent ==
  ASSUME TypeInv, CycleInv, UNCHANGED reminded,
         \A a \in Accounts : lost'[a] \in Nat /\ lost[a] <= lost'[a]
  PROVE  OncePerCycle'
  BY Counts DEF CycleInv, OncePerCycle

LEMMA SendStep == ASSUME TypeInv, CycleInv, SendReminder PROVE CycleInv'
<1>1. /\ step = "send" /\ step' = "stamp" /\ UNCHANGED <<phase, cycle, stamp, cur, about, lost>>
      /\ UNCHANGED <<pc, target>>
  BY DEF SendReminder, lossVars, ibsngVars, renewalVars
<1>2. cur \in Accounts /\ about \in 0..MaxCycles /\ about <= cycle[cur]
  BY <1>1 DEF TypeInv, TypeOK, PassInv
<1>3. reminded[cur][about] <= lost[cur] /\ reminded[cur][about] < Cap
  BY <1>1, <1>2, Counts, BoundAssumption DEF CycleInv, StampInv, Cap
<1>4. ASSUME NEW a \in Accounts, NEW c \in 0..MaxCycles
      PROVE  reminded'[a][c] = IF a = cur /\ c = about THEN reminded[a][c] + 1 ELSE reminded[a][c]
  <2>1. reminded[a] \in [0..MaxCycles -> 0..Cap] /\ reminded \in [Accounts -> [0..MaxCycles -> 0..Cap]]
    BY DEF TypeInv, TypeOK
  <2> QED
    BY <1>2, <1>3, <2>1 DEF SendReminder
<1>5. OncePerCycle'
  BY <1>1, <1>2, <1>3, <1>4, Counts DEF CycleInv, OncePerCycle
<1>6. StampInv'
  BY <1>1, <1>2, <1>4, Counts DEF CycleInv, StampInv, Unstamped
<1>7. NewCycleInv'
  <2>1. \A a \in Accounts, c \in 0..MaxCycles : c > cycle'[a] => reminded'[a][c] = 0
    BY <1>1, <1>2, <1>4, Counts DEF CycleInv, NewCycleInv
  <2>2. ASSUME NEW r \in Renewals, pc'[r] \in {"group", "clear"}
        PROVE  /\ phase'[target'[r]] = "unused"
               /\ reminded'[target'[r]][cycle'[target'[r]]] = 0
               /\ cur' = target'[r] => about' < cycle'[cur']
    <3>1. target[r] \in Accounts
      BY <1>1, <2>2 DEF TypeInv, RenewalInv
    <3>2. /\ phase[target[r]] = "unused" /\ reminded[target[r]][cycle[target[r]]] = 0
          /\ cur = target[r] => about < cycle[cur]
      BY <1>1, <2>2 DEF CycleInv, NewCycleInv
    <3>3. reminded'[target[r]][cycle[target[r]]] = 0
      BY <1>2, <1>4, <3>1, <3>2, Counts
    <3> QED
      BY <1>1, <3>2, <3>3
  <2> QED
    BY <2>1, <2>2 DEF NewCycleInv
<1> QED
  BY <1>5, <1>6, <1>7 DEF CycleInv

\* The reminder was delivered, and the pass goes on as if it had not been.
LEMMA UnheardStep == ASSUME TypeInv, CycleInv, SendUnheard PROVE CycleInv'
<1>1. /\ step = "send" /\ step' = "next" /\ UNCHANGED <<phase, cycle, stamp, pc, target>>
      /\ cur' = None
  BY DEF SendUnheard, NextCandidate, ibsngVars, renewalVars
<1>2. cur \in Accounts /\ about \in 0..MaxCycles /\ about <= cycle[cur]
  BY <1>1 DEF TypeInv, TypeOK, PassInv
<1>3. reminded[cur][about] <= lost[cur] /\ reminded[cur][about] < Cap
  BY <1>1, <1>2, Counts, BoundAssumption DEF CycleInv, StampInv, Cap
<1>4. ASSUME NEW a \in Accounts, NEW c \in 0..MaxCycles
      PROVE  reminded'[a][c] = IF a = cur /\ c = about THEN reminded[a][c] + 1 ELSE reminded[a][c]
  <2>1. reminded[a] \in [0..MaxCycles -> 0..Cap] /\ reminded \in [Accounts -> [0..MaxCycles -> 0..Cap]]
    BY DEF TypeInv, TypeOK
  <2> QED
    BY <1>2, <1>3, <2>1 DEF SendUnheard
<1>5. \A a \in Accounts : lost'[a] = IF a = cur THEN lost[a] + 1 ELSE lost[a]
  BY <1>2 DEF SendUnheard, TypeInv, TypeOK
<1>6. OncePerCycle'
  BY <1>1, <1>2, <1>3, <1>4, <1>5, Counts DEF CycleInv, OncePerCycle
<1>7. StampInv'
  <2>1. ASSUME NEW a \in Accounts, ~stamp[a]
        PROVE  reminded'[a][cycle[a]] <= lost'[a]
    BY <1>1, <1>2, <1>4, <1>5, <2>1, Counts DEF CycleInv, StampInv, Unstamped
  <2> QED
    BY <1>1, <2>1 DEF StampInv
<1>8. NewCycleInv'
  <2>1. \A a \in Accounts, c \in 0..MaxCycles : c > cycle'[a] => reminded'[a][c] = 0
    BY <1>1, <1>2, <1>4, Counts DEF CycleInv, NewCycleInv
  <2>2. ASSUME NEW r \in Renewals, pc'[r] \in {"group", "clear"}
        PROVE  /\ phase'[target'[r]] = "unused"
               /\ reminded'[target'[r]][cycle'[target'[r]]] = 0
               /\ cur' # target'[r]
    <3>1. target[r] \in Accounts /\ None \notin Accounts
      BY <1>1, <2>2, BoundAssumption DEF TypeInv, RenewalInv
    <3>2. /\ phase[target[r]] = "unused" /\ reminded[target[r]][cycle[target[r]]] = 0
          /\ cur = target[r] => about < cycle[cur]
      BY <1>1, <2>2 DEF CycleInv, NewCycleInv
    <3>3. reminded'[target[r]][cycle[target[r]]] = 0
      BY <1>2, <1>4, <3>1, <3>2, Counts
    <3> QED
      BY <1>1, <3>1, <3>2, <3>3
  <2> QED
    BY <2>1, <2>2 DEF NewCycleInv
<1> QED
  BY <1>6, <1>7, <1>8 DEF CycleInv

LEMMA PassStep == ASSUME TypeInv, CycleInv, Pass PROVE CycleInv'
<1> USE DEF StampInv, NewCycleInv, Unstamped, ibsngVars, renewalVars, lossVars
<1>1. CASE StartPass
  <2>1. cur = None /\ None \notin Accounts
    BY <1>1, BoundAssumption DEF StartPass, TypeInv, PassInv
  <2>2. OncePerCycle'
    BY <1>1, NothingSent, Counts DEF StartPass
  <2> QED
    BY <1>1, <2>1, <2>2 DEF StartPass, CycleInv
<1>2. ASSUME NEW a \in Accounts, LookUp(a)
      PROVE  CycleInv'
  <2>1. OncePerCycle'
    BY <1>2, NothingSent, Counts DEF LookUp
  <2>2. ~stamp[a] /\ cur = None /\ step = "next" /\ None \notin Accounts
    BY <1>2, BoundAssumption DEF LookUp, TypeInv, PassInv
  <2>3. reminded[a][cycle[a]] <= lost[a]
    BY <2>2 DEF CycleInv
  <2>4. \A r \in Renewals : pc[r] \in {"group", "clear"} /\ cur' = target[r] => cur' = None
    BY <1>2, <2>2 DEF LookUp, InWindow, CycleInv
  <2>5. StampInv'
    BY <1>2, <2>2, <2>3 DEF LookUp, CycleInv
  <2>6. NewCycleInv'
    BY <1>2, <2>2, <2>4 DEF LookUp, CycleInv, TypeInv, RenewalInv
  <2> QED
    BY <2>1, <2>5, <2>6 DEF CycleInv
<1>3. ASSUME NEW a \in Accounts, LookUpFails(a)
      PROVE  CycleInv'
  BY <1>3, NothingSent, Counts DEF LookUpFails, CycleInv
<1>4. CASE SendReminder
  BY <1>4, SendStep
<1>5. CASE SendFails
  <2>1. OncePerCycle'
    BY <1>5, NothingSent, Counts DEF SendFails
  <2>2. None \notin Accounts
    BY BoundAssumption
  <2>3. \A r \in Renewals : pc[r] \in {"group", "clear"} => target[r] # None
    BY <2>2 DEF TypeInv, RenewalInv
  <2> QED
    BY <1>5, <2>1, <2>2, <2>3 DEF SendFails, NextCandidate, CycleInv
<1>6. CASE StampAccount
  <2>1. OncePerCycle'
    BY <1>6, NothingSent, Counts DEF StampAccount
  <2>2. cur \in Accounts /\ None \notin Accounts
    BY <1>6, BoundAssumption DEF StampAccount, TypeInv, PassInv
  <2>3. \A r \in Renewals : pc[r] \in {"group", "clear"} => target[r] # None
    BY <2>2 DEF TypeInv, RenewalInv
  <2>4. \A a \in Accounts : stamp'[a] <=> stamp[a] \/ a = cur
    BY <1>6, <2>2 DEF StampAccount, TypeInv, TypeOK
  <2> QED
    BY <1>6, <2>1, <2>2, <2>3, <2>4 DEF StampAccount, NextCandidate, CycleInv
<1>7. CASE EndPass
  BY <1>7, NothingSent, Counts DEF EndPass, CycleInv
<1>8. CASE SendUnheard
  BY <1>8, UnheardStep
<1>9. CASE StampFails
  <2>1. /\ UNCHANGED <<phase, cycle, stamp, reminded, pc, target>>
        /\ step = "stamp" /\ step' = "idle" /\ cur' = None
    BY <1>9 DEF StampFails, StopPass
  <2>2. cur \in Accounts /\ None \notin Accounts
    BY <2>1, BoundAssumption DEF TypeInv, PassInv
  <2>3. \A a \in Accounts : lost'[a] = IF a = cur THEN lost[a] + 1 ELSE lost[a]
    BY <1>9, <2>2 DEF StampFails, TypeInv, TypeOK
  <2>4. OncePerCycle'
    BY <2>1, <2>3, NothingSent, Counts
  <2>5. StampInv'
    BY <2>1, <2>3, Counts DEF CycleInv, OncePerCycle
  <2>6. \A r \in Renewals : pc[r] \in {"group", "clear"} => target[r] # None
    BY <2>2 DEF TypeInv, RenewalInv
  <2> QED
    BY <2>1, <2>4, <2>5, <2>6 DEF CycleInv
<1> QED
  BY <1>1, <1>2, <1>3, <1>4, <1>5, <1>6, <1>7, <1>8, <1>9 DEF Pass

LEMMA RenewalStep == ASSUME TypeInv, CycleInv, NEW r \in Renewals, Renewal(r) PROVE CycleInv'
<1> USE DEF StampInv, NewCycleInv, Unstamped, ibsngVars, jobVars, lossVars
<1>0. OncePerCycle' /\ UNCHANGED <<reminded, jobVars, lossVars>>
  <2>1. UNCHANGED <<reminded, jobVars, lossVars>>
    BY DEF Renewal, StartRenewal, RenewUser, ChangeUserGroup, RenewalFails, ClearStamp
  <2> QED
    BY <2>1, NothingSent, Counts
<1>1. ASSUME NEW a \in Accounts, StartRenewal(r, a)
      PROVE  CycleInv'
  BY <1>0, <1>1 DEF StartRenewal, CycleInv, TypeInv, TypeOK
<1>2. CASE RenewUser(r)
  <2>1. /\ pc[r] = "renew" /\ pc' = [pc EXCEPT ![r] = "group"]
        /\ phase' = [phase EXCEPT ![target[r]] = "unused"]
        /\ cycle' = [cycle EXCEPT ![target[r]] = @ + 1] /\ UNCHANGED <<stamp, target>>
    BY <1>2 DEF RenewUser
  <2>2. target[r] \in Accounts /\ cycle[target[r]] < MaxCycles
    BY <2>1 DEF TypeInv, RenewalInv
  <2>3. \A a \in Accounts : /\ phase'[a] = IF a = target[r] THEN "unused" ELSE phase[a]
                            /\ cycle'[a] = IF a = target[r] THEN cycle[a] + 1 ELSE cycle[a]
    BY <2>1, <2>2 DEF TypeInv, TypeOK
  <2>4. cycle[target[r]] + 1 \in 0..MaxCycles
    BY <2>2, Counts, BoundAssumption
  <2>5. reminded[target[r]][cycle[target[r]] + 1] = 0
    BY <2>2, <2>4, Counts DEF CycleInv
  <2>6. step \in {"send", "stamp"} => cur \in Accounts /\ about <= cycle[cur]
    BY DEF TypeInv, PassInv
  <2>7. StampInv'
    BY <1>0, <2>1, <2>2, <2>3, <2>5, <2>6, Counts DEF CycleInv
  <2>8. \A a \in Accounts, c \in 0..MaxCycles : c > cycle'[a] => reminded'[a][c] = 0
    BY <1>0, <2>3, Counts DEF CycleInv
  <2>9. ASSUME NEW q \in Renewals, pc'[q] \in {"group", "clear"}
        PROVE  /\ phase'[target'[q]] = "unused"
               /\ reminded'[target'[q]][cycle'[target'[q]]] = 0
               /\ cur' = target'[q] => about' < cycle'[cur']
    <3>1. target[q] \in Accounts /\ (q = r \/ pc[q] \in {"group", "clear"})
      BY <2>1, <2>2, <2>9 DEF TypeInv, TypeOK, RenewalInv
    <3>2. q = r \/ target[q] # target[r]
      BY <2>1, <3>1 DEF TypeInv, RenewalInv
    <3>3. CASE q = r
      <4>1. cur \in Accounts => about <= cycle[cur]
        BY BoundAssumption DEF TypeInv, PassInv
      <4> QED
        BY <1>0, <2>1, <2>2, <2>3, <2>5, <3>3, <4>1, Counts
    <3>4. CASE q # r
      BY <1>0, <2>1, <2>2, <2>3, <3>1, <3>2, <3>4 DEF CycleInv
    <3> QED
      BY <3>3, <3>4
  <2> QED
    BY <1>0, <2>7, <2>8, <2>9 DEF CycleInv
<1>3. CASE ChangeUserGroup(r)
  BY <1>0, <1>3 DEF ChangeUserGroup, CycleInv, TypeInv, TypeOK
<1>4. CASE RenewalFails(r)
  BY <1>0, <1>4 DEF RenewalFails, EndRenewal, CycleInv, TypeInv, TypeOK
<1>5. CASE ClearStamp(r)
  <2>1. target[r] \in Accounts
    BY <1>5 DEF ClearStamp, TypeInv, RenewalInv
  <2>2. reminded[target[r]][cycle[target[r]]] <= lost[target[r]]
    BY <1>5, <2>1, Counts DEF ClearStamp, CycleInv
  <2>3. \A a \in Accounts : stamp[a] => stamp'[a] \/ a = target[r]
    BY <1>5, <2>1 DEF ClearStamp, TypeInv, TypeOK
  <2>4. UNCHANGED <<phase, cycle>> /\ \A q \in Renewals \ {r} : pc'[q] = pc[q] /\ target'[q] = target[q]
    BY <1>5 DEF ClearStamp, EndRenewal, TypeInv, TypeOK
  <2>5. pc'[r] = "idle"
    BY <1>5 DEF ClearStamp, EndRenewal, TypeInv, TypeOK
  <2> QED
    BY <1>0, <2>2, <2>3, <2>4, <2>5 DEF CycleInv
<1> QED
  BY <1>1, <1>2, <1>3, <1>4, <1>5 DEF Renewal

LEMMA CycleStep == ASSUME TypeInv, CycleInv, [Next]_vars PROVE CycleInv'
<1> USE DEF StampInv, NewCycleInv, Unstamped, lossVars
<1>1. CASE Settings
  <2>1. UNCHANGED <<ibsngVars, stamp, reminded, jobVars, renewalVars, lossVars>>
    BY <1>1 DEF Settings, ShowSettings, AskDays, ReceiveDays, ToggleReminders, LeavesRest
  <2> QED
    BY <2>1, NothingSent, Counts DEF CycleInv, ibsngVars, jobVars, renewalVars
\* No day passes for an account while a renewal is at it.
<1>2. ASSUME NEW a \in Accounts, NEW before, NEW after, Moves(a, before, after)
      PROVE  CycleInv'
  <2>1. UNCHANGED <<cycle, stamp, reminded, jobVars, renewalVars, lossVars>>
    BY <1>2 DEF Moves
  <2>2. \A r \in Renewals : phase'[target[r]] = phase[target[r]]
    BY <1>2 DEF Moves, Quiet, TypeInv, TypeOK
  <2> QED
    BY <2>1, <2>2, NothingSent, Counts DEF CycleInv, jobVars, renewalVars
<1>3. CASE Crash
  <2>1. /\ UNCHANGED <<phase, cycle, stamp, reminded>>
        /\ step' = "idle" /\ \A r \in Renewals : pc'[r] = "idle"
    BY <1>3 DEF Crash, StopPass, ibsngVars
  <2>2. step = "stamp" => cur \in Accounts
    BY DEF TypeInv, PassInv
  <2>3. \A a \in Accounts : lost'[a] = IF step = "stamp" /\ a = cur THEN lost[a] + 1 ELSE lost[a]
    BY <1>3, <2>2 DEF Crash, TypeInv, TypeOK
  <2>4. OncePerCycle'
    BY <2>1, <2>3, NothingSent, Counts
  <2>5. StampInv'
    BY <2>1, <2>3, Counts DEF CycleInv, OncePerCycle
  <2> QED
    BY <2>1, <2>4, <2>5 DEF CycleInv
<1>4. CASE UNCHANGED vars
  BY <1>4, NothingSent, Counts DEF vars, CycleInv, ibsngVars, jobVars, renewalVars
<1> QED
  BY <1>1, <1>2, <1>3, <1>4, PassStep, RenewalStep
  DEF Next, Time, Connects, NearsEnd, BecomesDue, Lapses

\* An account is reminded once in each of its expiry cycles, and once more
\* at most for everything that came between a reminder of it and its stamp
\* (send_due_reminders in app/services/reminders.py).
THEOREM OncePerCycleAlways == Spec => []OncePerCycle
<1>1. Init => TypeInv /\ CycleInv
  BY TypeInit, CycleInit
<1>2. TypeInv /\ CycleInv /\ [Next]_vars => (TypeInv /\ CycleInv)'
  BY TypeStep, CycleStep
<1>3. CycleInv => OncePerCycle
  BY DEF CycleInv
<1> QED
  BY <1>1, <1>2, <1>3, PTL DEF Spec

\* A renewal that has started a new cycle and has not cleared the stamp yet
\* finds the cycle without a reminder (renew_and_change_group): the stamp it
\* clears belongs to a cycle before, and clearing it repeats no reminder.
ClearsAnOldStamp ==
    \A r \in Renewals :
      pc[r] \in {"group", "clear"} => reminded[target[r]][cycle[target[r]]] = 0

THEOREM ClearsAnOldStampAlways == Spec => []ClearsAnOldStamp
<1>1. Init => TypeInv /\ CycleInv
  BY TypeInit, CycleInit
<1>2. TypeInv /\ CycleInv /\ [Next]_vars => (TypeInv /\ CycleInv)'
  BY TypeStep, CycleStep
<1>3. CycleInv => ClearsAnOldStamp
  BY DEF CycleInv, NewCycleInv, ClearsAnOldStamp
<1> QED
  BY <1>1, <1>2, <1>3, PTL DEF Spec
=============================================================================
