----------------------------- MODULE Operations -----------------------------
(***************************************************************************)
(* The operational log group: entries posted by handlers and by the loops, *)
(* the forum topics they are filed under, and the hourly health pass that  *)
(* announces what changed (app/services/adminlog.py, logtopics.py,         *)
(* health.py, scheduled_reports.py, backup.py).                            *)
(*                                                                         *)
(* Every poster is a task of its own and runs log_event, which looks its   *)
(* topic up in the database, creates it the first time, and sends.  The    *)
(* database and Redis are themselves among the components that are         *)
(* watched: what fails is also what the watching needs.                    *)
(***************************************************************************)
EXTENDS Integers, Sequences, FiniteSets, Functions

CONSTANTS
    Components,  \* CHECKS, in their order
    Categories,  \* the topics of EVENTS, in their order
    Posters,     \* handlers and daily reports that post at once
    MaxTopic,    \* bound: how many topics the group may get
    Budgets,     \* bounds: how much of everything a behaviour has
    None

General == 0     \* message_thread_id None

ASSUME OperationsAssumption ==
    /\ {"Database", "Redis"} \subseteq Range(Components)
    /\ {"service", "server"} \subseteq Range(Categories)
    /\ Components \in Seq(Range(Components)) /\ Categories \in Seq(Range(Categories))
    /\ IsFiniteSet(Posters) /\ Posters \cap {"hourly", "setup"} = {}
    /\ MaxTopic \in Nat /\ None \notin Nat

VARIABLES
    healthy,  \* the components as they are
    known,    \* Redis: the state last stored for a component
    beat,     \* Redis: the heartbeat's key, which expires after a day
    topic,    \* app_config: the topic of a category, or None
    topics,   \* the group: how many topics were created
    gone,     \* the group: those deleted by hand
    job,      \* the tasks
    told,     \* history: what the last entry about a component said
    filed,    \* history: the topics that entries of a category went to
    slipped,  \* history: components of which an entry or a stored state was lost
    raced,    \* history: categories whose topic two tasks created at once
    budget

stored == <<healthy, known, beat, topic, topics, gone>>
seen == <<told, filed, slipped>>
vars == <<stored, job, seen, raced, budget>>

Jobs == {"hourly", "setup"} \cup Posters

NoJob == [pc |-> "idle", i |-> 0, found |-> <<>>, category |-> None, entry |-> <<>>,
          thread |-> General, then |-> "idle"]

Init ==
    /\ healthy = [c \in Range(Components) |-> TRUE]
    /\ known = [c \in Range(Components) |-> "none"]
    /\ beat = FALSE
    /\ topic = [k \in Range(Categories) |-> None]
    /\ topics = 0 /\ gone = {}
    /\ job = [j \in Jobs |-> NoJob]
    /\ told = [c \in Range(Components) |-> "none"]
    /\ filed = [k \in Range(Categories) |-> {}]
    /\ slipped = {} /\ raced = {}
    /\ budget \in Budgets

State(ok) == IF ok THEN "ok" ELSE "fail"

At(j, pc) == job[j].pc = pc

\* An exception, or the end: a loop's next pass is for later.
Ends(j) == job' = [job EXCEPT ![j] = NoJob]

\* What an entry, or a stored state, that is lost was about.
Loses(about) == slipped' = slipped \cup about

-----------------------------------------------------------------------------
(* log_event and resolve_thread_id *)

\* An entry of a category, what it says of which components, and where its
\* task goes on afterwards.
Post(j, category, entry, then) ==
    job' = [job EXCEPT ![j].pc = "lookup", ![j].category = category, ![j].entry = entry,
                       ![j].then = then]

\* /logtopics only wants the topic to exist.
Resolved(j, t) ==
    job' = [job EXCEPT ![j].pc = IF j = "setup" THEN "setup" ELSE "send", ![j].thread = t]

\* The session is outside the try block that lets log_event never raise.
Lookup(j) ==
    /\ At(j, "lookup")
    /\ IF ~healthy["Database"] THEN Ends(j) /\ Loses(DOMAIN job[j].entry)
       ELSE /\ IF topic[job[j].category] = None THEN job' = [job EXCEPT ![j].pc = "create"]
               ELSE Resolved(j, topic[job[j].category])
            /\ UNCHANGED slipped
    /\ UNCHANGED <<stored, told, filed>>

CreateTopic(j) ==
    /\ At(j, "create")
    /\ topics < MaxTopic
    /\ topics' = topics + 1
    /\ job' = [job EXCEPT ![j].pc = "store", ![j].thread = topics']
    /\ UNCHANGED <<healthy, known, beat, topic, gone, seen>>

\* The chat is no forum, the bot may not manage topics, or Telegram fails.
CreateRefused(j) ==
    /\ At(j, "create")
    /\ Resolved(j, General)
    /\ UNCHANGED <<stored, seen>>

\* A mutant: the new topic is only remembered for this entry.
KeepTopic(j) ==
    /\ At(j, "store")
    /\ Resolved(j, job[j].thread)
    /\ UNCHANGED <<stored, seen>>

\* Whoever stores last wins.
StoreTopic(j) ==
    /\ At(j, "store")
    /\ IF healthy["Database"]
       THEN /\ topic' = [topic EXCEPT ![job[j].category] = job[j].thread]
            /\ Resolved(j, job[j].thread)
            /\ UNCHANGED slipped
       ELSE /\ Ends(j) /\ Loses(DOMAIN job[j].entry)
            /\ UNCHANGED topic
    /\ UNCHANGED <<healthy, known, beat, topics, gone, told, filed>>

\* The caller goes on, whether its entry was sent or not.
Returns(j) ==
    IF job[j].then = "idle" THEN Ends(j)
    ELSE job' = [job EXCEPT ![j] = [NoJob EXCEPT !.pc = job[j].then, !.i = job[j].i,
                                                 !.found = job[j].found]]

Send(j) ==
    /\ At(j, "send")
    /\ job[j].thread \notin gone
    /\ told' = [c \in DOMAIN told |-> IF c \in DOMAIN job[j].entry THEN job[j].entry[c] ELSE told[c]]
    /\ filed' = IF job[j].thread = General THEN filed
                ELSE [filed EXCEPT ![job[j].category] = @ \cup {job[j].thread}]
    /\ Returns(j)
    /\ UNCHANGED <<stored, slipped>>

\* Telegram refuses a topic that was deleted, or fails: logged, and lost.
SendFails(j) ==
    /\ At(j, "send")
    /\ Loses(DOMAIN job[j].entry)
    /\ Returns(j)
    /\ UNCHANGED <<stored, told, filed>>

Logging(j) ==
    \/ Lookup(j) \/ CreateTopic(j) \/ CreateRefused(j) \/ StoreTopic(j) \/ Send(j)
    \/ job[j].thread \in gone /\ SendFails(j)

-----------------------------------------------------------------------------
(* run_hourly_health_loop *)

Component == Components[job["hourly"].i]

\* check_all asks the components one after the other.
StartPass ==
    /\ At("hourly", "idle")
    /\ job' = [job EXCEPT !["hourly"] = [NoJob EXCEPT !.pc = "check", !.i = 1,
                                                      !.found = [c \in Range(Components) |-> FALSE]]]
    /\ UNCHANGED <<stored, seen>>

\* A check that raises is a component that fails; none ends the pass.
Check ==
    /\ At("hourly", "check")
    /\ LET last == job["hourly"].i = Len(Components)
       IN job' = [job EXCEPT !["hourly"] =
                    [NoJob EXCEPT !.pc = IF last THEN "compare" ELSE "check",
                                  !.i = IF last THEN 1 ELSE job["hourly"].i + 1,
                                  !.found = [job["hourly"].found EXCEPT ![Component] = healthy[Component]]]]
    /\ UNCHANGED <<stored, seen>>

Found == job["hourly"].found[Component]
NextComponent ==
    job' = [job EXCEPT !["hourly"] = [NoJob EXCEPT !.pc = "compare", !.i = job["hourly"].i + 1,
                                                   !.found = job["hourly"].found]]

\* _previous_state: without Redis, nothing is known.
Compare ==
    /\ At("hourly", "compare") /\ job["hourly"].i <= Len(Components)
    /\ IF healthy["Redis"] /\ known[Component] = State(Found) THEN NextComponent
       ELSE job' = [job EXCEPT !["hourly"].pc = "remember",
                               !["hourly"].entry = [c \in {Component} |-> State(Found)],
                               !["hourly"].then =
                                  IF Found /\ (~healthy["Redis"] \/ known[Component] = "none")
                                  THEN "no news" ELSE "compare"]
    /\ IF healthy["Redis"] THEN UNCHANGED slipped ELSE Loses({Component})
    /\ UNCHANGED <<stored, told, filed>>

\* A mutant: only failures are stored.
RememberFailure ==
    /\ At("hourly", "remember")
    /\ known' = IF healthy["Redis"] /\ ~Found THEN [known EXCEPT ![Component] = "fail"] ELSE known
    /\ IF job["hourly"].then = "no news" THEN NextComponent
       ELSE job' = [job EXCEPT !["hourly"].pc = "lookup", !["hourly"].category = "service",
                               !["hourly"].i = @ + 1]
    /\ IF healthy["Redis"] THEN UNCHANGED slipped ELSE Loses({Component})
    /\ UNCHANGED <<healthy, beat, topic, topics, gone, told, filed>>

\* The state is stored before it is announced; the first sighting of a healthy
\* component is not.
Remember ==
    /\ At("hourly", "remember")
    /\ known' = IF healthy["Redis"] THEN [known EXCEPT ![Component] = State(Found)] ELSE known
    /\ IF job["hourly"].then = "no news" THEN NextComponent
       ELSE job' = [job EXCEPT !["hourly"].pc = "lookup", !["hourly"].category = "service",
                               !["hourly"].i = @ + 1]
    /\ IF healthy["Redis"] THEN UNCHANGED slipped ELSE Loses({Component})
    /\ UNCHANGED <<healthy, beat, topic, topics, gone, told, filed>>

\* _heartbeat_due: the key is set before the summary is sent.
Heartbeat ==
    /\ At("hourly", "compare") /\ job["hourly"].i > Len(Components)
    /\ IF healthy["Redis"] /\ ~beat
       THEN /\ beat' = TRUE
            /\ Post("hourly", "service",
                    [c \in Range(Components) |-> State(job["hourly"].found[c])], "server")
       ELSE /\ job' = [job EXCEPT !["hourly"].pc = "server"]
            /\ UNCHANGED beat
    /\ UNCHANGED <<healthy, known, topic, topics, gone, seen>>

\* post_server_health
ServerHealth ==
    /\ At("hourly", "server")
    /\ Post("hourly", "server", <<>>, "idle")
    /\ UNCHANGED <<stored, seen>>

HealthPass == StartPass \/ Check \/ Compare \/ Remember \/ Heartbeat \/ ServerHealth \/ Logging("hourly")

-----------------------------------------------------------------------------
(* The other posters, and what happens around them *)

\* A purchase, a trial, the nightly backup's report, the day's accounting: an
\* entry that is about no component.
PostEntry(j, k) ==
    /\ At(j, "idle")
    /\ Post(j, k, <<>>, "idle")
    /\ UNCHANGED <<stored, seen>>

\* /logtopics: ensure_all_topics
Setup ==
    /\ \/ At("setup", "idle") /\ healthy["Database"]
       \/ At("setup", "setup")
    /\ job' = [job EXCEPT !["setup"] = IF @.i = Len(Categories) THEN NoJob
                                       ELSE [NoJob EXCEPT !.pc = "lookup", !.i = job["setup"].i + 1,
                                                          !.category = Categories[job["setup"].i + 1]]]
    /\ UNCHANGED <<stored, seen>>

Change(c) ==
    /\ healthy' = [healthy EXCEPT ![c] = ~@]
    /\ UNCHANGED <<known, beat, topic, topics, gone, job, seen>>

\* A mutant: the key is set without an expiry.
NeverExpires ==
    /\ FALSE
    /\ UNCHANGED vars

\* ex=HEARTBEAT_INTERVAL_SECONDS
Expire ==
    /\ beat
    /\ beat' = FALSE
    /\ UNCHANGED <<healthy, known, topic, topics, gone, job, seen>>

DeleteTopic(t) ==
    /\ t \in (1..topics) \ gone
    /\ gone' = gone \cup {t}
    /\ UNCHANGED <<healthy, known, beat, topic, topics, job, seen>>

\* Tasks die; what is in Redis and in the database stays.
Restart ==
    /\ \E j \in Jobs : ~At(j, "idle")
    /\ job' = [j \in Jobs |-> NoJob]
    /\ Loses(IF job["hourly"].pc \in {"lookup", "create", "store", "send"}
             THEN DOMAIN job["hourly"].entry ELSE {})
    /\ UNCHANGED <<stored, told, filed>>

Spend(kind) ==
    /\ budget[kind] > 0
    /\ budget' = [budget EXCEPT ![kind] = @ - 1]

Creating(k) == {j \in Jobs : job[j].pc \in {"create", "store"} /\ job[j].category = k}

Next ==
    /\ \/ HealthPass /\ UNCHANGED budget
       \/ \E j \in Jobs \ {"hourly"} : Logging(j) /\ UNCHANGED budget
       \/ \E j \in Jobs : SendFails(j) /\ Spend("fails")
       \/ \E j \in Posters, k \in Range(Categories) \ {"service", "server"} :
            PostEntry(j, k) /\ Spend("posts")
       \/ Setup /\ (IF At("setup", "idle") THEN Spend("setups") ELSE UNCHANGED budget)
       \/ \E c \in Range(Components) : Change(c) /\ Spend("changes")
       \/ Expire /\ UNCHANGED budget
       \/ \E t \in 1..MaxTopic : DeleteTopic(t) /\ Spend("deletes")
       \/ Restart /\ Spend("restarts")
    /\ raced' = raced \cup {k \in Range(Categories) : Cardinality(Creating(k)') > 1}

\* The hourly loop survives every exception of a pass, and days go by.
Spec == /\ Init /\ [][Next]_vars
        /\ WF_vars(HealthPass /\ Next)
        /\ WF_vars(Expire /\ Next)

-----------------------------------------------------------------------------
(* Properties *)

\* An alert is news: the group was last told something else of the component,
\* across passes and restarts.  Except after an entry about it was lost, or
\* Redis, which holds the last state, failed in between.
ToldOnChange ==
    [][At("hourly", "send") /\ job["hourly"].then = "compare" /\ ~At("hourly", "send")'
         => \A c \in DOMAIN job["hourly"].entry \ slipped' : told[c] # job["hourly"].entry[c]]_vars

\* Where the alert needs the database for its topic, Redis for the last state,
\* and the topic itself.
Reachable(c) ==
    /\ healthy["Database"]
    /\ healthy["Redis"] \/ c = "Redis"
    /\ topic["service"] \notin gone

\* Whatever was lost or misled on the way - a failed send, a restart between
\* storing a state and announcing it, an outage of Redis or the database - the
\* group is in the end told each component's state, by an alert or by the
\* daily summary.
GroupLearns ==
    \A c \in Range(Components) :
      <>[]Reachable(c) => <>[](told[c] = State(healthy[c]))

\* The entries of a category are in one topic, unless two tasks found none and
\* both created one; those of the earlier are then in a topic of their own.
OneTopic == \A k \in Range(Categories) \ raced : Cardinality(filed[k]) <= 1
=============================================================================
