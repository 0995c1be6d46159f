-------------------------- MODULE OperationsProofs --------------------------
(***************************************************************************)
(* The log group for every number of components, categories and posters:  *)
(* one topic for each category, and alerts that are news.                  *)
(***************************************************************************)
EXTENDS Operations, FiniteSetTheorems, TLAPS

Watched == Range(Components)
Filed == Range(Categories)

Entries == {<<>>} \cup UNION {[S -> {"ok", "fail"}] : S \in SUBSET Watched}

JobTypes == [pc : {"idle", "lookup", "create", "store", "send", "setup", "check", "compare", "remember",
                   "server"},
             i : Nat, found : {<<>>} \cup [Watched -> BOOLEAN], category : Filed \cup {None},
             entry : Entries, thread : Nat, then : {"idle", "no news", "compare", "server"}]

IsPosting(t) == t.pc \in {"lookup", "create", "store", "send"}

\* What a task is, one by one: only the hourly pass says anything of components.
JobInv(j, t) ==
    /\ t \in JobTypes
    /\ IsPosting(t) => t.category \in Filed /\ t.then # "no news"
    /\ t.pc = "idle" => t = NoJob
    /\ j # "hourly" => t.entry = <<>> /\ t.then = "idle"
    /\ j = "setup" => t.i \in 0..Len(Categories)

TypeInv ==
    /\ healthy \in [Watched -> BOOLEAN]
    /\ known \in [Watched -> {"none", "ok", "fail"}]
    /\ told \in [Watched -> {"none", "ok", "fail"}]
    /\ topic \in [Filed -> Nat \cup {None}] /\ topics \in Nat
    /\ job \in [Jobs -> JobTypes] /\ \A j \in Jobs : JobInv(j, job[j])
    /\ filed \in [Filed -> SUBSET Nat]
    /\ slipped \subseteq Watched /\ raced \subseteq Filed

\* Unless they raced, one task creates a category's topic while it has none,
\* and all its entries go to the one that is stored.
TopicInv ==
    \A k \in Filed \ raced :
      /\ \A i, j \in Creating(k) : i = j
      /\ topic[k] # None => Creating(k) = {}
      /\ \A t \in filed[k] : t = topic[k]
      /\ \A j \in Jobs : At(j, "send") /\ job[j].category = k /\ job[j].thread # General =>
                           job[j].thread = topic[k]

\* The hourly pass, from what it found to what it posts.
Hourly == job["hourly"]
InPass == Hourly.pc \in {"compare", "remember"} \/ (IsPosting(Hourly) /\ Hourly.then # "idle")
Alerting == IsPosting(Hourly) /\ Hourly.then = "compare"
Summary == IsPosting(Hourly) /\ Hourly.then = "server"
Finding(c) == State(Hourly.found[c])
About(c) == [d \in {c} |-> Finding(c)]

HourlyInv ==
    /\ Hourly.pc # "setup"
    /\ Hourly.pc = "check" => Hourly.i \in 1..Len(Components) /\ Hourly.found \in [Watched -> BOOLEAN]
    /\ InPass => Hourly.found \in [Watched -> BOOLEAN]
    /\ Hourly.pc = "compare" => Hourly.i >= 1
    /\ Hourly.pc = "remember" =>
         /\ Hourly.i \in 1..Len(Components) /\ Hourly.then \in {"no news", "compare"}
         /\ Hourly.entry = About(Components[Hourly.i])
    /\ Alerting =>
         /\ Hourly.i \in 2..Len(Components) + 1
         /\ Hourly.entry = About(Components[Hourly.i - 1])
    /\ Summary => Hourly.entry = [c \in Watched |-> Finding(c)]
    /\ IsPosting(Hourly) /\ Hourly.then = "idle" => Hourly.entry = <<>>

\* Of a component about which nothing was lost, Redis knows what the pass has
\* found so far, and the group what Redis knows: but for an alert on its way,
\* and for a healthy component of which it has never heard.
Agree(c) == told[c] = known[c] \/ (told[c] = "none" /\ known[c] = "ok")

Compared(c) == \A m \in 1..Len(Components) : m < Hourly.i /\ Components[m] = c => known[c] = Finding(c)

News(c) ==
    /\ Hourly.pc \in {"compare", "remember"} \/ Alerting => Compared(c)
    /\ Summary => known[c] = Finding(c)
    /\ Hourly.pc = "remember" /\ c = Components[Hourly.i] =>
         /\ known[c] # Finding(c)
         /\ Hourly.then = "no news" => Hourly.found[c] /\ known[c] = "none"
         /\ Hourly.then = "compare" => ~(Hourly.found[c] /\ known[c] = "none")
    /\ IF Alerting /\ c = Components[Hourly.i - 1] THEN told[c] # Finding(c) ELSE Agree(c)

NewsInv == \A c \in Watched \ slipped : News(c)

\* One task goes on.
Goes(j) ==
    /\ job' \in [Jobs -> JobTypes] /\ JobInv(j, job'[j])
    /\ \A i \in Jobs \ {j} : job'[i] = job[i]

LEMMA JobGoes ==
  ASSUME TypeInv, NEW j \in Jobs, NEW t, JobInv(j, t), job' = [job EXCEPT ![j] = t]
  PROVE  Goes(j) /\ job'[j] = t
BY DEF TypeInv, Goes, JobInv

LEMMA NoJobInv == \A j : JobInv(j, NoJob)
<1>1. NoJob \in JobTypes
  BY DEF NoJob, JobTypes, Entries, General
<1> QED
  BY <1>1, OperationsAssumption DEF JobInv, NoJob, IsPosting

\* While nothing is created beside another: the tasks that race are marked.
Marks ==
    /\ raced \subseteq raced' /\ raced' \subseteq Filed
    /\ \A k \in Filed \ raced', i, j \in Jobs :
         /\ job'[i].pc \in {"create", "store"} /\ job'[i].category = k
         /\ job'[j].pc \in {"create", "store"} /\ job'[j].category = k
         => i = j

LEMMA Marked ==
  ASSUME TypeInv, raced' = raced \cup {k \in Range(Categories) : Cardinality(Creating(k)') > 1}
  PROVE  Marks
<1>1. SUFFICES ASSUME NEW k \in Filed \ raced', NEW i \in Jobs, NEW j \in Jobs, i # j,
                      job'[i].pc \in {"create", "store"} /\ job'[i].category = k,
                      job'[j].pc \in {"create", "store"} /\ job'[j].category = k
               PROVE  FALSE
  BY DEF Marks, TypeInv, Filed
<1>2. IsFiniteSet(Jobs)
  <2>1. IsFiniteSet({"hourly"} \cup {"setup"})
    BY FS_Singleton, FS_Union
  <2>2. Jobs = ({"hourly"} \cup {"setup"}) \cup Posters
    BY DEF Jobs
  <2> QED
    BY <2>1, <2>2, OperationsAssumption, FS_Union
<1>3. {i, j} \subseteq Creating(k)' /\ Creating(k)' \subseteq Jobs
  BY <1>1 DEF Creating
<1>4. Cardinality({i, j}) = 2 /\ IsFiniteSet({i, j})
  <2>1. Cardinality({i}) = 1 /\ IsFiniteSet({i})
    BY FS_Singleton
  <2>2. IsFiniteSet({i} \cup {j}) /\ Cardinality({i} \cup {j}) = Cardinality({i}) + 1
    BY <1>1, <2>1, FS_AddElement
  <2>3. {i, j} = {i} \cup {j}
    OBVIOUS
  <2> QED
    BY <2>1, <2>2, <2>3
<1>5. IsFiniteSet(Creating(k)')
  BY <1>2, <1>3, FS_Subset
<1>6. Cardinality({i, j}) <= Cardinality(Creating(k)') /\ Cardinality(Creating(k)') \in Nat
  BY <1>3, <1>5, FS_Subset, FS_CardinalityType
<1> QED
  BY <1>1, <1>4, <1>6 DEF Filed

-----------------------------------------------------------------------------
(* Where a task goes *)

\* What it posts, and for whom, stays.
Carries(j) ==
    /\ Goes(j)
    /\ job'[j].i = job[j].i /\ job'[j].found = job[j].found /\ job'[j].category = job[j].category
    /\ job'[j].entry = job[j].entry /\ job'[j].then = job[j].then

LEMMA Carrying ==
  ASSUME TypeInv, NEW j \in Jobs, IsPosting(job[j]), NEW thread \in Nat,
         NEW pc \in {"create", "store", "send", "setup"},
         job' = [job EXCEPT ![j].pc = pc, ![j].thread = thread]
  PROVE  Carries(j) /\ job'[j].pc = pc /\ job'[j].thread = thread
<1>1. PICK t : t = [job[j] EXCEPT !.pc = pc, !.thread = thread]
  OBVIOUS
<1>2. JobInv(j, job[j]) /\ job[j] \in JobTypes /\ job \in [Jobs -> JobTypes]
  BY DEF TypeInv
<1>3. t \in JobTypes /\ t.pc = pc /\ t.thread = thread /\ t.i = job[j].i /\ t.found = job[j].found
      /\ t.category = job[j].category /\ t.entry = job[j].entry /\ t.then = job[j].then
  BY <1>1, <1>2 DEF JobTypes
<1>4. JobInv(j, t)
  BY <1>2, <1>3 DEF JobInv, IsPosting
<1>5. job' = [job EXCEPT ![j] = t]
  BY <1>1, <1>2 DEF JobTypes
<1>6. Goes(j) /\ job'[j] = t
  BY <1>4, <1>5, JobGoes
<1> QED
  BY <1>3, <1>6 DEF Carries

LEMMA Ending ==
  ASSUME TypeInv, NEW j \in Jobs, Ends(j)
  PROVE  Goes(j) /\ job'[j] = NoJob
BY NoJobInv, JobGoes DEF Ends

LEMMA Resolving ==
  ASSUME TypeInv, NEW j \in Jobs, IsPosting(job[j]), NEW t \in Nat, Resolved(j, t)
  PROVE  Carries(j) /\ job'[j].pc = (IF j = "setup" THEN "setup" ELSE "send") /\ job'[j].thread = t
BY Carrying DEF Resolved

LEMMA Posted ==
  ASSUME TypeInv, NEW j \in Jobs, NEW k \in Filed, NEW entry \in Entries,
         NEW then \in {"idle", "server"}, Post(j, k, entry, then),
         j # "hourly" => entry = <<>> /\ then = "idle"
  PROVE  /\ Goes(j) /\ job'[j].pc = "lookup" /\ job'[j].category = k /\ job'[j].entry = entry
         /\ job'[j].then = then /\ job'[j].i = job[j].i /\ job'[j].found = job[j].found
<1>1. PICK t : t = [job[j] EXCEPT !.pc = "lookup", !.category = k, !.entry = entry, !.then = then]
  OBVIOUS
<1>2. JobInv(j, job[j]) /\ job[j] \in JobTypes /\ job \in [Jobs -> JobTypes]
  BY DEF TypeInv
<1>3. t \in JobTypes /\ t.pc = "lookup" /\ t.i = job[j].i /\ t.found = job[j].found
      /\ t.category = k /\ t.entry = entry /\ t.then = then
  BY <1>1, <1>2 DEF JobTypes
<1>4. JobInv(j, t)
  BY <1>2, <1>3 DEF JobInv, IsPosting
<1>5. job' = [job EXCEPT ![j] = t]
  BY <1>1, <1>2 DEF JobTypes, Post
<1> QED
  BY <1>3, <1>4, <1>5, JobGoes

\* The caller goes on: only the hourly pass has something left to do.
LEMMA Returning ==
  ASSUME TypeInv, NEW j \in Jobs, IsPosting(job[j]), Returns(j)
  PROVE  /\ Goes(j)
         /\ \/ job[j].then = "idle" /\ job'[j] = NoJob
            \/ /\ job[j].then \in {"compare", "server"} /\ job'[j].pc = job[j].then
               /\ job'[j].i = job[j].i /\ job'[j].found = job[j].found
<1>1. CASE job[j].then = "idle"
  BY <1>1, Ending DEF Returns
<1>2. CASE job[j].then # "idle"
  <2>1. PICK t : t = [NoJob EXCEPT !.pc = job[j].then, !.i = job[j].i, !.found = job[j].found]
    OBVIOUS
  <2>2. JobInv(j, job[j]) /\ job[j].then \in {"compare", "server"} /\ j = "hourly"
    BY <1>2 DEF TypeInv, JobInv, JobTypes
  <2>3. t = [pc |-> job[j].then, i |-> job[j].i, found |-> job[j].found, category |-> None,
             entry |-> <<>>, thread |-> General, then |-> "idle"]
    BY <2>1 DEF NoJob
  <2>4. t \in JobTypes
    <3>1. job[j].i \in Nat /\ job[j].found \in {<<>>} \cup [Watched -> BOOLEAN]
      BY <2>2 DEF JobInv, JobTypes
    <3>2. <<>> \in Entries /\ General \in Nat
      BY DEF Entries, General
    <3> QED
      BY <2>2, <2>3, <3>1, <3>2 DEF JobTypes
  <2>5. JobInv(j, t)
    BY <2>2, <2>3, <2>4 DEF JobInv, IsPosting
  <2>6. job' = [job EXCEPT ![j] = t]
    BY <1>2, <2>1 DEF Returns
  <2>7. Goes(j) /\ job'[j] = t
    BY <2>5, <2>6, JobGoes
  <2> QED
    BY <2>2, <2>3, <2>7
<1> QED
  BY <1>1, <1>2

\* An entry, or a stored state, that is lost on the way.
Lost(j) == Ends(j) /\ Loses(DOMAIN job[j].entry)

LEMMA EntryType == ASSUME TypeInv, NEW j \in Jobs PROVE DOMAIN job[j].entry \subseteq Watched
<1>1. job[j].entry \in Entries
  BY DEF TypeInv, JobTypes
<1>2. CASE job[j].entry = <<>>
  BY <1>2
<1>3. CASE job[j].entry # <<>>
  <2>1. PICK S \in SUBSET Watched : job[j].entry \in [S -> {"ok", "fail"}]
    BY <1>1, <1>3 DEF Entries
  <2> QED
    BY <2>1
<1> QED
  BY <1>2, <1>3

LEMMA Looking ==
  ASSUME TypeInv, NEW j \in Jobs, Lookup(j)
  PROVE  /\ UNCHANGED <<stored, told, filed>> /\ IsPosting(job[j])
         /\ \/ Lost(j) /\ Goes(j) /\ job'[j] = NoJob
            \/ /\ UNCHANGED slipped /\ Carries(j)
               /\ \/ job'[j].pc = "create" /\ topic[job[j].category] = None
                  \/ job'[j].pc = "setup" /\ j = "setup"
                  \/ job'[j].pc = "send" /\ job'[j].thread = topic[job[j].category]
<1>1. JobInv(j, job[j]) /\ job[j] \in JobTypes /\ job \in [Jobs -> JobTypes] /\ IsPosting(job[j])
  BY DEF TypeInv, Lookup, At, IsPosting
<1>2. CASE ~healthy["Database"]
  BY <1>1, <1>2, Ending DEF Lookup, Lost
<1>3. CASE healthy["Database"] /\ topic[job[j].category] = None
  <2>1. job' = [job EXCEPT ![j].pc = "create"]
    BY <1>3 DEF Lookup
  <2>2. job' = [job EXCEPT ![j].pc = "create", ![j].thread = job[j].thread] /\ job[j].thread \in Nat
    BY <1>1, <2>1 DEF JobTypes
  <2> QED
    BY <1>1, <1>3, <2>2, Carrying DEF Lookup
<1>4. CASE healthy["Database"] /\ topic[job[j].category] # None
  <2>1. Resolved(j, topic[job[j].category]) /\ topic[job[j].category] \in Nat
    BY <1>1, <1>4 DEF Lookup, TypeInv, JobInv
  <2> QED
    BY <1>1, <1>4, <2>1, Resolving DEF Lookup
<1> QED
  BY <1>2, <1>3, <1>4

LEMMA Creation ==
  ASSUME TypeInv, NEW j \in Jobs, CreateTopic(j)
  PROVE  /\ Carries(j) /\ IsPosting(job[j]) /\ job'[j].pc = "store" /\ job[j].pc = "create"
         /\ topics' \in Nat /\ UNCHANGED <<healthy, known, beat, topic, gone, seen>>
<1>1. IsPosting(job[j]) /\ topics' \in Nat /\ job' = [job EXCEPT ![j].pc = "store", ![j].thread = topics']
  BY DEF CreateTopic, At, IsPosting, TypeInv
<1> QED
  BY <1>1, Carrying DEF CreateTopic, At

LEMMA Refusing ==
  ASSUME TypeInv, NEW j \in Jobs, CreateRefused(j)
  PROVE  /\ Carries(j) /\ IsPosting(job[j]) /\ UNCHANGED <<stored, seen>>
         /\ \/ job'[j].pc = "setup" /\ j = "setup"
            \/ job'[j].pc = "send" /\ job'[j].thread = General
<1>1. IsPosting(job[j]) /\ Resolved(j, General) /\ General \in Nat
  BY DEF CreateRefused, At, IsPosting, General
<1> QED
  BY <1>1, Resolving DEF CreateRefused

LEMMA Storing ==
  ASSUME TypeInv, NEW j \in Jobs, StoreTopic(j)
  PROVE  /\ UNCHANGED <<healthy, known, beat, topics, gone, told, filed>>
         /\ IsPosting(job[j]) /\ job[j].pc = "store" /\ job[j].category \in Filed
         /\ \/ Lost(j) /\ Goes(j) /\ job'[j] = NoJob /\ UNCHANGED topic
            \/ /\ Carries(j) /\ UNCHANGED slipped
               /\ topic' = [topic EXCEPT ![job[j].category] = job[j].thread] /\ job[j].thread \in Nat
               /\ job'[j].pc = "send" \/ (job'[j].pc = "setup" /\ j = "setup")
               /\ job'[j].thread = job[j].thread
<1>1. JobInv(j, job[j]) /\ job[j] \in JobTypes /\ IsPosting(job[j]) /\ job[j].pc = "store"
  BY DEF TypeInv, StoreTopic, At, IsPosting
<1>2. job[j].category \in Filed /\ job[j].thread \in Nat
  BY <1>1 DEF JobInv, JobTypes
<1>3. CASE healthy["Database"]
  BY <1>1, <1>2, <1>3, Resolving DEF StoreTopic
<1>4. CASE ~healthy["Database"]
  BY <1>1, <1>2, <1>4, Ending DEF StoreTopic, Lost
<1> QED
  BY <1>1, <1>2, <1>3, <1>4 DEF StoreTopic

-----------------------------------------------------------------------------
(* Topics *)

LEMMA TopicKept ==
  ASSUME TypeInv, TopicInv, Marks, NEW j \in Jobs, Goes(j), UNCHANGED <<topic, filed>>,
         job'[j].pc \in {"create", "store"} =>
           job'[j].category \in Filed /\ (topic[job'[j].category] = None \/ job'[j].category \in raced),
         job'[j].pc = "send" => job'[j].thread \in {General, topic[job'[j].category]}
  PROVE  TopicInv'
<1>1. SUFFICES ASSUME NEW k \in Filed \ raced'
               PROVE  /\ \A i, l \in Creating(k)' : i = l
                      /\ topic[k] # None => Creating(k)' = {}
                      /\ \A t \in filed[k] : t = topic[k]
                      /\ \A i \in Jobs : job'[i].pc = "send" /\ job'[i].category = k
                                           /\ job'[i].thread # General => job'[i].thread = topic[k]
  BY DEF TopicInv, At
<1>2. k \in Filed \ raced
  BY <1>1 DEF Marks
<1>3. \A i, l \in Creating(k)' : i = l
  BY <1>1 DEF Marks, Creating
<1>4. topic[k] # None => Creating(k)' = {}
  BY <1>2 DEF Goes, Creating, TopicInv
<1>5. ASSUME NEW i \in Jobs, job'[i].pc = "send", job'[i].category = k, job'[i].thread # General
      PROVE  job'[i].thread = topic[k]
  BY <1>2, <1>5 DEF Goes, TopicInv, At
<1> QED
  BY <1>2, <1>3, <1>4, <1>5 DEF TopicInv

LEMMA StoreTopics ==
  ASSUME TypeInv, TopicInv, Marks, NEW j \in Jobs, StoreTopic(j)
  PROVE  TopicInv'
<1>1. CASE Goes(j) /\ job'[j] = NoJob /\ UNCHANGED <<topic, filed>>
  BY <1>1, TopicKept DEF NoJob
<1>2. ASSUME Carries(j), job[j].pc = "store", job'[j].pc \in {"setup", "send"}, filed' = filed,
             job'[j].thread = job[j].thread, job[j].category \in Filed, job[j].thread \in Nat,
             topic' = [topic EXCEPT ![job[j].category] = job[j].thread]
      PROVE  TopicInv'
  <2>1. SUFFICES ASSUME NEW k \in Filed \ raced'
                 PROVE  /\ \A i, l \in Creating(k)' : i = l
                        /\ topic'[k] # None => Creating(k)' = {}
                        /\ \A t \in filed[k] : t = topic'[k]
                        /\ \A i \in Jobs : job'[i].pc = "send" /\ job'[i].category = k
                                             /\ job'[i].thread # General => job'[i].thread = topic'[k]
    BY <1>2 DEF TopicInv, At
  <2>2. k \in Filed \ raced
    BY <2>1 DEF Marks
  <2>3. Creating(k)' = Creating(k) \ {j} /\ job'[j].category = job[j].category
    BY <1>2 DEF Carries, Goes, Creating
  <2>4. CASE k # job[j].category
    <3>1. topic'[k] = topic[k]
      BY <1>2, <2>4 DEF TypeInv
    <3>2. Creating(k)' = Creating(k)
      BY <2>3, <2>4 DEF Creating
    <3>3. \A i \in Jobs : job'[i].category = k => job'[i] = job[i]
      BY <1>2, <2>3, <2>4 DEF Carries, Goes
    <3> QED
      BY <2>2, <3>1, <3>2, <3>3 DEF TopicInv, At
  <2>5. CASE k = job[j].category
    <3>1. j \in Creating(k) /\ topic'[k] = job[j].thread
      BY <1>2, <2>5 DEF Creating, TypeInv
    <3>2. Creating(k) = {j} /\ topic[k] = None
      BY <2>2, <3>1 DEF TopicInv
    <3>3. filed[k] = {}
      BY <2>2, <3>2, OperationsAssumption DEF TopicInv, TypeInv
    <3>4. \A i \in Jobs \ {j} : job[i].pc = "send" /\ job[i].category = k => job[i].thread = General
      <4>1. SUFFICES ASSUME NEW i \in Jobs, job[i].pc = "send", job[i].category = k, job[i].thread # General
                     PROVE  FALSE
        OBVIOUS
      <4>2. job[i].thread = None /\ job[i].thread \in Nat
        BY <2>2, <3>2, <4>1 DEF TopicInv, At, TypeInv, JobTypes
      <4> QED
        BY <4>2, OperationsAssumption
    <3>5. Creating(k)' = {}
      BY <2>3, <3>2
    <3>6. \A i \in Jobs : job'[i].pc = "send" /\ job'[i].category = k /\ job'[i].thread # General
                            => job'[i].thread = topic'[k]
      BY <1>2, <3>1, <3>4 DEF Carries, Goes
    <3> QED
      BY <3>3, <3>5, <3>6
  <2> QED
    BY <2>4, <2>5
<1> QED
  BY <1>1, <1>2, Storing

LEMMA SendTopics ==
  ASSUME TypeInv, TopicInv, Marks, NEW j \in Jobs, Send(j)
  PROVE  TopicInv'
<1>1. job[j].pc = "send" /\ IsPosting(job[j]) /\ Returns(j)
  BY DEF Send, At, IsPosting
<1>2. job[j].category \in Filed /\ Goes(j) /\ job'[j].pc \in {"idle", "compare", "server"}
  <2>1. job[j].category \in Filed
    BY <1>1 DEF TypeInv, JobInv
  <2>2. NoJob.pc = "idle"
    BY DEF NoJob
  <2> QED
    BY <1>1, <2>1, <2>2, Returning
<1>3. CASE job[j].thread = General
  BY <1>2, <1>3, TopicKept DEF Send, stored
<1>4. CASE job[j].thread # General
  <2>1. filed' = [filed EXCEPT ![job[j].category] = filed[job[j].category] \cup {job[j].thread}]
        /\ topic' = topic
    BY <1>4 DEF Send, stored
  <2>2. SUFFICES ASSUME NEW k \in Filed \ raced'
                 PROVE  /\ \A i, l \in Creating(k)' : i = l
                        /\ topic[k] # None => Creating(k)' = {}
                        /\ \A t \in filed'[k] : t = topic[k]
                        /\ \A i \in Jobs : job'[i].pc = "send" /\ job'[i].category = k
                                             /\ job'[i].thread # General => job'[i].thread = topic[k]
    BY <2>1 DEF TopicInv, At
  <2>3. k \in Filed \ raced
    BY <2>2 DEF Marks
  <2>4. Creating(k)' = Creating(k)
    BY <1>1, <1>2 DEF Goes, Creating
  <2>5. \A t \in filed'[k] : t = topic[k]
    <3>1. CASE k = job[j].category
      <4>1. filed'[k] = filed[k] \cup {job[j].thread} /\ job[j].thread = topic[k]
        BY <1>1, <1>4, <2>1, <2>3, <3>1 DEF TopicInv, At, TypeInv
      <4> QED
        BY <2>3, <4>1 DEF TopicInv
    <3>2. CASE k # job[j].category
      BY <2>1, <2>3, <3>2 DEF TopicInv, TypeInv
    <3> QED
      BY <3>1, <3>2
  <2>6. ASSUME NEW i \in Jobs, job'[i].pc = "send", job'[i].category = k, job'[i].thread # General
        PROVE  job'[i].thread = topic[k]
    BY <1>2, <2>3, <2>6 DEF Goes, TopicInv, At
  <2> QED
    BY <2>3, <2>4, <2>5, <2>6 DEF TopicInv
<1> QED
  BY <1>3, <1>4

LEMMA LoggingTopics ==
  ASSUME TypeInv, TopicInv, Marks, NEW j \in Jobs, Logging(j) \/ SendFails(j)
  PROVE  TopicInv'
<1>1. CASE Lookup(j)
  <2>1. UNCHANGED <<topic, filed>> /\ Goes(j)
    BY <1>1, Looking DEF stored, Carries
  <2>2. CASE job'[j] = NoJob
    BY <2>1, <2>2, TopicKept DEF NoJob
  <2>3. CASE job'[j].pc = "create" /\ topic[job[j].category] = None /\ Carries(j)
    <3>1. job'[j].category = job[j].category /\ job[j].category \in Filed
      BY <1>1, <2>3, Looking DEF Carries, TypeInv, JobInv
    <3> QED
      BY <2>1, <2>3, <3>1, TopicKept
  <2>4. CASE job'[j].pc = "setup"
    BY <2>1, <2>4, TopicKept
  <2>5. CASE job'[j].pc = "send" /\ job'[j].thread = topic[job[j].category] /\ Carries(j)
    BY <2>1, <2>5, TopicKept DEF Carries
  <2> QED
    BY <1>1, <2>2, <2>3, <2>4, <2>5, Looking
<1>2. CASE CreateTopic(j)
  <2>1. /\ UNCHANGED <<topic, filed>> /\ Goes(j) /\ job[j].pc = "create" /\ job'[j].pc = "store"
        /\ job'[j].category = job[j].category /\ job[j].category \in Filed
    BY <1>2, Creation DEF seen, Carries, TypeInv, JobInv
  <2>2. topic[job[j].category] = None \/ job[j].category \in raced
    BY <2>1 DEF TopicInv, Creating
  <2> QED
    BY <2>1, <2>2, TopicKept
<1>3. CASE CreateRefused(j)
  BY <1>3, Refusing, TopicKept DEF stored, seen, Carries
<1>4. CASE SendFails(j)
  <2>1. IsPosting(job[j]) /\ Returns(j) /\ UNCHANGED <<topic, filed>>
    BY <1>4 DEF SendFails, At, IsPosting, stored
  <2>2. Goes(j) /\ job'[j].pc \in {"idle", "compare", "server"}
    BY <2>1, Returning DEF NoJob
  <2> QED
    BY <2>1, <2>2, TopicKept
<1> QED
  BY <1>1, <1>2, <1>3, <1>4, StoreTopics, SendTopics DEF Logging

-----------------------------------------------------------------------------
(* The hourly pass *)

LEMMA SameHourly ==
  ASSUME HourlyInv, NewsInv, job'["hourly"] = job["hourly"], UNCHANGED <<known, told>>, slipped \subseteq slipped'
  PROVE  HourlyInv' /\ NewsInv'
<1>1. Hourly' = Hourly /\ (\A c : Finding(c)' = Finding(c) /\ About(c)' = About(c) /\ Agree(c)' = Agree(c))
  BY DEF Hourly, Finding, About, Agree
<1>2. Alerting' = Alerting /\ Summary' = Summary /\ InPass' = InPass
  BY <1>1 DEF Alerting, Summary, InPass
<1>3. HourlyInv'
  BY <1>1, <1>2 DEF HourlyInv
<1>4. ASSUME NEW c \in Watched \ slipped' PROVE News(c)'
  <2>1. News(c)
    BY <1>4 DEF NewsInv
  <2>2. Compared(c)' = Compared(c)
    BY <1>1 DEF Compared
  <2> QED
    BY <1>1, <1>2, <2>1, <2>2 DEF News
<1> QED
  BY <1>3, <1>4 DEF NewsInv

LEMMA CarriedHourly ==
  ASSUME HourlyInv, NewsInv, Carries("hourly"), IsPosting(Hourly), IsPosting(Hourly'),
         UNCHANGED <<known, told>>, slipped \subseteq slipped'
  PROVE  HourlyInv' /\ NewsInv'
<1>1. /\ Hourly'.i = Hourly.i /\ Hourly'.found = Hourly.found /\ Hourly'.entry = Hourly.entry
      /\ Hourly'.then = Hourly.then
      /\ Hourly.pc \notin {"check", "compare", "remember", "setup"}
      /\ Hourly'.pc \notin {"check", "compare", "remember", "setup"}
  BY DEF Carries, Hourly, IsPosting
<1>2. /\ \A c : Finding(c)' = Finding(c) /\ About(c)' = About(c) /\ Agree(c)' = Agree(c)
      /\ Alerting' = Alerting /\ Summary' = Summary /\ InPass' = InPass
  BY <1>1 DEF Finding, About, Agree, Alerting, Summary, InPass
<1>3. HourlyInv'
  BY <1>1, <1>2 DEF HourlyInv
<1>4. ASSUME NEW c \in Watched \ slipped' PROVE News(c)'
  <2>1. News(c)
    BY <1>4 DEF NewsInv
  <2>2. Compared(c)' = Compared(c)
    BY <1>1, <1>2 DEF Compared
  <2> QED
    BY <1>1, <1>2, <2>1, <2>2 DEF News
<1> QED
  BY <1>3, <1>4 DEF NewsInv

\* The pass is over: what it had yet to tell is lost.
LEMMA LostHourly ==
  ASSUME TypeInv, HourlyInv, NewsInv, Hourly' = NoJob, UNCHANGED <<known, told>>, slipped \subseteq slipped',
         Alerting => DOMAIN Hourly.entry \subseteq slipped'
  PROVE  HourlyInv' /\ NewsInv'
<1>1. Hourly'.pc = "idle" /\ Hourly'.entry = <<>> /\ ~InPass' /\ ~Alerting' /\ ~Summary' /\ ~IsPosting(Hourly')
  BY DEF NoJob, InPass, Alerting, Summary, IsPosting
<1>2. HourlyInv'
  BY <1>1 DEF HourlyInv
<1>3. ASSUME NEW c \in Watched \ slipped' PROVE Agree(c)
  <2>1. c \in Watched \ slipped
    BY <1>3
  <2>2. Alerting => c # Components[Hourly.i - 1]
    BY <1>3 DEF HourlyInv, About
  <2> QED
    BY <2>1, <2>2 DEF NewsInv, News
<1>4. NewsInv'
  BY <1>1, <1>3 DEF NewsInv, News, Agree
<1> QED
  BY <1>2, <1>4

\* The entry is sent, or lost, and the pass goes on.
LEMMA ReturnedHourly ==
  ASSUME TypeInv, HourlyInv, NewsInv, IsPosting(Hourly), Hourly.then \in {"compare", "server"},
         Hourly'.pc = Hourly.then, Hourly'.i = Hourly.i, Hourly'.found = Hourly.found,
         known' = known, slipped \subseteq slipped',
         \/ told' = told /\ DOMAIN Hourly.entry \subseteq slipped'
         \/ told' = [c \in DOMAIN told |-> IF c \in DOMAIN Hourly.entry THEN Hourly.entry[c] ELSE told[c]]
  PROVE  HourlyInv' /\ NewsInv'
<1>1. /\ Hourly.then = "compare" <=> Alerting
      /\ Hourly.then = "server" <=> Summary
      /\ ~Alerting' /\ ~Summary' /\ ~IsPosting(Hourly') /\ \A c : Finding(c)' = Finding(c)
  BY DEF Alerting, Summary, IsPosting, Finding
<1>2. InPass /\ Len(Components) \in Nat
  BY OperationsAssumption DEF InPass
<1>3. HourlyInv'
  <2>1. Hourly.found \in [Watched -> BOOLEAN]
    BY <1>2 DEF HourlyInv
  <2>2. Hourly'.pc = "compare" => Hourly'.i >= 1
    BY <1>1, <1>2 DEF HourlyInv
  <2>3. Hourly'.pc \in {"compare", "server"}
    OBVIOUS
  <2> QED
    BY <1>1, <2>1, <2>2, <2>3 DEF HourlyInv
<1>4. ASSUME NEW c \in Watched \ slipped' PROVE News(c)'
  <2>1. News(c) /\ c \in DOMAIN told
    BY <1>4 DEF NewsInv, TypeInv
  <2>2. CASE Alerting
    <3>1. Compared(c) /\ Compared(c)'
      BY <1>1, <2>1, <2>2 DEF News, Compared
    <3>2. /\ Hourly.i \in 2..Len(Components) + 1
          /\ Hourly.entry = [d \in {Components[Hourly.i - 1]} |-> Finding(Components[Hourly.i - 1])]
      BY <2>2 DEF HourlyInv, About
    <3>3. CASE c = Components[Hourly.i - 1]
      <4>1. known[c] = Finding(c)
        BY <1>2, <3>1, <3>2, <3>3 DEF Compared
      <4>2. c \in DOMAIN Hourly.entry /\ Hourly.entry[c] = Finding(c)
        BY <3>2, <3>3
      <4>3. told'[c] = known'[c]
        BY <1>4, <2>1, <4>1, <4>2
      <4> QED
        BY <1>1, <2>2, <3>1, <4>3 DEF News, Agree
    <3>4. CASE c # Components[Hourly.i - 1]
      <4>1. told'[c] = told[c]
        BY <2>1, <3>2, <3>4
      <4> QED
        BY <1>1, <2>1, <2>2, <3>1, <3>4, <4>1 DEF News, Agree
    <3> QED
      BY <3>3, <3>4
  <2>3. CASE Summary
    <3>1. known[c] = Finding(c) /\ Hourly.entry = [d \in Watched |-> Finding(d)] /\ Hourly.then = "server"
      BY <1>1, <2>1, <2>3 DEF News, HourlyInv
    <3>2. told'[c] = known'[c]
      BY <1>4, <2>1, <3>1
    <3> QED
      BY <1>1, <3>1, <3>2 DEF News, Agree
  <2> QED
    BY <1>1, <2>2, <2>3
<1> QED
  BY <1>3, <1>4 DEF NewsInv

\* An entry of any other task says nothing of a component.
LEMMA OtherSends ==
  ASSUME TypeInv, NEW j \in Jobs \ {"hourly"}
  PROVE  [c \in DOMAIN told |-> IF c \in DOMAIN job[j].entry THEN job[j].entry[c] ELSE told[c]] = told
<1>1. job[j].entry = <<>>
  BY DEF TypeInv, JobInv
<1>2. DOMAIN job[j].entry = {} /\ told \in [Watched -> {"none", "ok", "fail"}]
  BY <1>1 DEF TypeInv
<1> QED
  BY <1>2

LEMMA LoggingHourly ==
  ASSUME TypeInv, HourlyInv, NewsInv, NEW j \in Jobs, Logging(j) \/ SendFails(j)
  PROVE  HourlyInv' /\ NewsInv' /\ slipped \subseteq slipped'
<1>1. slipped \subseteq slipped' /\ known' = known
  BY DEF Logging, Lookup, CreateTopic, CreateRefused, StoreTopic, Send, SendFails, stored, seen, Loses
<1>2. CASE j # "hourly"
  <2>1. told' = told
    BY <1>2, OtherSends DEF Logging, Lookup, CreateTopic, CreateRefused, StoreTopic, Send, SendFails, seen
  <2>2. "hourly" \in Jobs \ {j} /\ Goes(j)
    <3>1. IsPosting(job[j]) /\ Returns(j) => Goes(j)
      BY Returning
    <3> QED
      BY <1>2, <3>1, Looking, Creation, Refusing, Storing
         DEF Jobs, Logging, Carries, Send, SendFails, At, IsPosting
  <2>3. job'["hourly"] = job["hourly"]
    BY <2>2 DEF Goes
  <2> QED
    BY <1>1, <2>1, <2>3, SameHourly
<1>3. CASE j = "hourly"
  <2>1. Hourly = job[j] /\ Hourly' = job'[j] /\ j # "setup"
    BY <1>3 DEF Hourly
  <2>2. CASE Carries(j) /\ job'[j].pc \in {"create", "store", "send"} /\ IsPosting(job[j]) /\ told' = told
    BY <1>1, <1>3, <2>1, <2>2, CarriedHourly DEF IsPosting
  <2>3. CASE Lost(j) /\ job'[j] = NoJob /\ told' = told
    BY <1>1, <2>1, <2>3, LostHourly DEF Lost, Loses
  <2>4. CASE Send(j) \/ SendFails(j)
    <3>1. /\ IsPosting(job[j]) /\ Returns(j)
          /\ \/ told' = told /\ DOMAIN Hourly.entry \subseteq slipped'
             \/ told' = [c \in DOMAIN told |-> IF c \in DOMAIN Hourly.entry THEN Hourly.entry[c] ELSE told[c]]
      BY <2>1, <2>4 DEF Send, SendFails, At, IsPosting, Loses
    <3>2. CASE job[j].then = "idle" /\ job'[j] = NoJob
      <4>1. Hourly.entry = <<>> /\ ~Alerting
        BY <2>1, <3>1, <3>2 DEF HourlyInv, Alerting
      <4>2. told' = told
        BY <3>1, <4>1 DEF TypeInv
      <4> QED
        BY <1>1, <2>1, <3>2, <4>1, <4>2, LostHourly
    <3>3. CASE /\ job[j].then \in {"compare", "server"} /\ job'[j].pc = job[j].then
               /\ job'[j].i = job[j].i /\ job'[j].found = job[j].found
      BY <1>1, <2>1, <3>1, <3>3, ReturnedHourly
    <3> QED
      BY <3>1, <3>2, <3>3, Returning
  <2>5. CASE Lookup(j)
    BY <2>1, <2>2, <2>3, <2>5, Looking
  <2>6. CASE CreateTopic(j)
    BY <2>2, <2>6, Creation DEF seen
  <2>7. CASE CreateRefused(j)
    BY <2>1, <2>2, <2>7, Refusing DEF seen
  <2>8. CASE StoreTopic(j)
    BY <2>1, <2>2, <2>3, <2>8, Storing
  <2> QED
    BY <2>4, <2>5, <2>6, <2>7, <2>8 DEF Logging
<1> QED
  BY <1>1, <1>2, <1>3

LEMMA HourlyGoes ==
  ASSUME TypeInv, NEW t \in JobTypes, job' = [job EXCEPT !["hourly"] = t], t.pc # "idle",
         IsPosting(t) => t.category \in Filed /\ t.then # "no news"
  PROVE  Goes("hourly") /\ Hourly' = t
BY JobGoes DEF JobInv, Jobs, Hourly

LEMMA AtCompare ==
  ASSUME Hourly'.pc = "compare", Hourly'.i >= 1, Hourly'.found \in [Watched -> BOOLEAN]
  PROVE  HourlyInv' /\ ~Alerting' /\ ~Summary' /\ ~IsPosting(Hourly')
BY DEF HourlyInv, Alerting, Summary, IsPosting

LEMMA AtRemember ==
  ASSUME Hourly'.pc = "remember", Hourly'.i \in 1..Len(Components), Hourly'.then \in {"no news", "compare"},
         NEW w, w = Components[Hourly'.i], Hourly'.entry = About(w)', Hourly'.found \in [Watched -> BOOLEAN]
  PROVE  HourlyInv'
BY DEF HourlyInv, Alerting, Summary, IsPosting

\* A pass that has not compared anything yet.
LEMMA BeforeComparing ==
  ASSUME TypeInv, HourlyInv, NewsInv, ~Alerting, UNCHANGED <<stored, seen>>,
         NEW pc \in {"check", "compare"}, NEW i \in 1..Len(Components),
         pc = "compare" => i = 1, NEW found \in [Watched -> BOOLEAN],
         NEW t, t = [pc |-> pc, i |-> i, found |-> found, category |-> None, entry |-> <<>>,
                     thread |-> General, then |-> "idle"],
         job' = [job EXCEPT !["hourly"] = t]
  PROVE  /\ Goes("hourly") /\ Hourly'.pc \in {"check", "compare"}
         /\ HourlyInv' /\ NewsInv' /\ slipped \subseteq slipped'
<1>1. Len(Components) \in Nat
  BY OperationsAssumption
<1>2. t \in JobTypes
  BY <1>1 DEF JobTypes, Entries, General
<1>3. Goes("hourly") /\ Hourly' = t
  BY <1>2, HourlyGoes DEF IsPosting
<1>4. /\ Hourly'.pc = pc /\ Hourly'.i = i /\ Hourly'.found = found
      /\ ~Alerting' /\ ~Summary' /\ ~IsPosting(Hourly')
  BY <1>3 DEF Alerting, Summary, IsPosting
<1>5. HourlyInv'
  <2>1. CASE pc = "check"
    <3>1. Hourly'.pc = "check" /\ Hourly'.i \in 1..Len(Components) /\ ~InPass'
      BY <1>4, <2>1 DEF InPass
    <3> QED
      BY <1>4, <3>1 DEF HourlyInv
  <2>2. CASE pc = "compare"
    BY <1>4, <2>2, AtCompare
  <2> QED
    BY <2>1, <2>2
<1>6. ASSUME NEW c \in Watched \ slipped' PROVE News(c)'
  <2>1. Agree(c)'
    BY <1>6 DEF NewsInv, News, stored, seen, Agree
  <2>2. Hourly'.pc = "compare" => Compared(c)'
    BY <1>4 DEF Compared
  <2> QED
    BY <1>4, <2>1, <2>2 DEF News
<1> QED
  BY <1>3, <1>4, <1>5, <1>6 DEF NewsInv, seen

LEMMA Starting ==
  ASSUME TypeInv, HourlyInv, NewsInv, StartPass
  PROVE  /\ Goes("hourly") /\ Hourly'.pc \in {"check", "compare"}
         /\ HourlyInv' /\ NewsInv' /\ slipped \subseteq slipped'
<1>1. ~Alerting
  BY DEF StartPass, At, Alerting, IsPosting, Hourly
<1>2. 1 \in 1..Len(Components)
  BY OperationsAssumption DEF Range
<1>3. PICK t : t = [NoJob EXCEPT !.pc = "check", !.i = 1, !.found = [c \in Watched |-> FALSE]]
  OBVIOUS
<1>4. t = [pc |-> "check", i |-> 1, found |-> [c \in Watched |-> FALSE], category |-> None,
           entry |-> <<>>, thread |-> General, then |-> "idle"]
  BY <1>3 DEF NoJob
<1>5. job' = [job EXCEPT !["hourly"] = t]
  BY <1>3 DEF StartPass, Watched
<1>6. [c \in Watched |-> FALSE] \in [Watched -> BOOLEAN]
  OBVIOUS
<1> QED
  BY <1>1, <1>2, <1>4, <1>5, <1>6, BeforeComparing DEF StartPass

LEMMA Asking ==
  ASSUME TypeInv, HourlyInv, NewsInv, Check
  PROVE  /\ Goes("hourly") /\ Hourly'.pc \in {"check", "compare"}
         /\ HourlyInv' /\ NewsInv' /\ slipped \subseteq slipped'
<1>1. ~Alerting /\ Hourly.i \in 1..Len(Components) /\ Hourly.found \in [Watched -> BOOLEAN]
  BY DEF Check, At, Alerting, IsPosting, Hourly, HourlyInv
<1>2. PICK found : found = [Hourly.found EXCEPT ![Component] = healthy[Component]]
  OBVIOUS
<1>3. found \in [Watched -> BOOLEAN]
  <2>1. Component \in Watched
    BY <1>1, OperationsAssumption DEF Component, Hourly, Watched, Range
  <2> QED
    BY <1>1, <1>2, <2>1 DEF TypeInv
<1>4. Len(Components) \in Nat
  BY OperationsAssumption
<1>5. PICK pc : pc = IF Hourly.i = Len(Components) THEN "compare" ELSE "check"
  OBVIOUS
<1>6. PICK i : i = IF Hourly.i = Len(Components) THEN 1 ELSE Hourly.i + 1
  OBVIOUS
<1>7. pc \in {"check", "compare"} /\ i \in 1..Len(Components) /\ (pc = "compare" => i = 1)
  BY <1>1, <1>4, <1>5, <1>6
<1>8. PICK t : t = [NoJob EXCEPT !.pc = pc, !.i = i, !.found = found]
  OBVIOUS
<1>9. t = [pc |-> pc, i |-> i, found |-> found, category |-> None, entry |-> <<>>,
           thread |-> General, then |-> "idle"]
  BY <1>8 DEF NoJob
<1>10. job' = [job EXCEPT !["hourly"] = t]
  BY <1>2, <1>5, <1>6, <1>8 DEF Check, Hourly
<1> QED
  BY <1>1, <1>3, <1>7, <1>9, <1>10, BeforeComparing DEF Check

LEMMA Advancing ==
  ASSUME TypeInv, HourlyInv, NextComponent, InPass
  PROVE  /\ Goes("hourly") /\ Hourly'.pc = "compare" /\ Hourly'.i = Hourly.i + 1 /\ Hourly'.found = Hourly.found
         /\ ~Alerting' /\ ~Summary' /\ ~IsPosting(Hourly') /\ \A c : Finding(c)' = Finding(c)
         /\ HourlyInv'
<1>1. Hourly \in JobTypes /\ Hourly.found \in [Watched -> BOOLEAN] /\ Hourly.i \in Nat
  BY DEF HourlyInv, TypeInv, Jobs, Hourly, JobTypes
<1>2. PICK t : t = [NoJob EXCEPT !.pc = "compare", !.i = Hourly.i + 1, !.found = Hourly.found]
  OBVIOUS
<1>3. t = [pc |-> "compare", i |-> Hourly.i + 1, found |-> Hourly.found, category |-> None,
           entry |-> <<>>, thread |-> General, then |-> "idle"]
  BY <1>2 DEF NoJob
<1>4. t \in JobTypes /\ job' = [job EXCEPT !["hourly"] = t]
  <2>1. Hourly.i + 1 \in Nat /\ <<>> \in Entries /\ General \in Nat
    BY <1>1 DEF Entries, General
  <2>2. t \in JobTypes
    BY <1>1, <1>3, <2>1 DEF JobTypes
  <2> QED
    BY <1>2, <2>2 DEF NextComponent, Hourly
<1>5. Goes("hourly") /\ Hourly' = t
  BY <1>3, <1>4, HourlyGoes DEF IsPosting
<1>6. /\ Hourly'.pc = "compare" /\ Hourly'.i = Hourly.i + 1 /\ Hourly'.found = Hourly.found
      /\ ~Alerting' /\ ~Summary' /\ ~IsPosting(Hourly') /\ \A c : Finding(c)' = Finding(c)
  BY <1>3, <1>5 DEF Alerting, Summary, IsPosting, Finding
<1>7. HourlyInv'
  BY <1>1, <1>6, AtCompare
<1> QED
  BY <1>5, <1>6, <1>7

LEMMA Comparing ==
  ASSUME TypeInv, HourlyInv, NewsInv, Compare
  PROVE  /\ Goes("hourly") /\ Hourly'.pc \in {"compare", "remember"} /\ slipped \subseteq slipped'
         /\ slipped' \subseteq Watched /\ HourlyInv' /\ NewsInv'
<1>1. /\ Hourly.pc = "compare" /\ Hourly.i \in 1..Len(Components) /\ Len(Components) \in Nat
      /\ InPass /\ Hourly.found \in [Watched -> BOOLEAN] /\ Hourly \in JobTypes /\ ~Alerting
  <2>1. Hourly.pc = "compare" /\ Hourly.i <= Len(Components)
    BY DEF Compare, At, Hourly
  <2>2. Hourly \in JobTypes /\ Len(Components) \in Nat
    BY OperationsAssumption DEF TypeInv, Hourly, Jobs
  <2>3. InPass /\ ~Alerting
    BY <2>1 DEF InPass, Alerting, IsPosting
  <2>4. Hourly.i >= 1 /\ Hourly.i \in Nat
    BY <2>1, <2>2 DEF HourlyInv, JobTypes
  <2>5. Hourly.found \in [Watched -> BOOLEAN]
    BY <2>3 DEF HourlyInv
  <2> QED
    BY <2>1, <2>2, <2>3, <2>4, <2>5
<1>2. PICK w : w = Components[Hourly.i] /\ w \in Watched
  BY <1>1, OperationsAssumption DEF Watched, Range
<1>3. Component = w /\ Found = Hourly.found[w] /\ Found \in BOOLEAN /\ State(Found) = Finding(w)
      /\ Finding(w) \in {"ok", "fail"}
  BY <1>1, <1>2 DEF Component, Found, Hourly, Finding, State
<1>4. slipped' = (IF healthy["Redis"] THEN slipped ELSE slipped \cup {w}) /\ UNCHANGED <<known, told>>
  BY <1>3 DEF Compare, Loses, stored
<1>5. \A c \in Watched \ slipped' : c \in Watched \ slipped /\ Agree(c) /\ Agree(c)' /\ Compared(c)
  BY <1>1, <1>4 DEF NewsInv, News, Agree
<1>6. CASE healthy["Redis"] /\ known[w] = Finding(w)
  <2>1. NextComponent
    BY <1>3, <1>6 DEF Compare
  <2>2. ASSUME NEW c \in Watched \ slipped' PROVE News(c)'
    <3>1. /\ Hourly'.pc = "compare" /\ Hourly'.i = Hourly.i + 1 /\ ~Alerting' /\ ~Summary'
          /\ \A d : Finding(d)' = Finding(d)
      BY <1>1, <2>1, Advancing
    <3>2. Compared(c)'
      BY <1>1, <1>2, <1>4, <1>5, <1>6, <3>1, <2>2 DEF Compared
    <3> QED
      BY <1>5, <2>2, <3>1, <3>2 DEF News
  <2> QED
    BY <1>1, <1>2, <1>4, <2>1, <2>2, Advancing DEF NewsInv, TypeInv
<1>7. CASE ~(healthy["Redis"] /\ known[w] = Finding(w))
  <2>0. PICK entry, then : /\ entry = [c \in {Component} |-> State(Found)]
                           /\ then = IF Found /\ (~healthy["Redis"] \/ known[Component] = "none")
                                     THEN "no news" ELSE "compare"
    OBVIOUS
  <2>1. PICK t : t = [Hourly EXCEPT !.pc = "remember", !.entry = entry, !.then = then]
    OBVIOUS
  <2>2. entry \in Entries /\ entry = About(w)
    <3>1. entry = [c \in {w} |-> Finding(w)]
      BY <1>3, <2>0
    <3>2. entry \in [{w} -> {"ok", "fail"}] /\ {w} \in SUBSET Watched
      BY <1>2, <1>3, <3>1
    <3> QED
      BY <3>1, <3>2 DEF Entries, About
  <2>3. /\ t \in JobTypes /\ t.pc = "remember" /\ t.i = Hourly.i /\ t.found = Hourly.found
        /\ t.entry = About(w)
        /\ t.then = IF Found /\ (~healthy["Redis"] \/ known[w] = "none") THEN "no news" ELSE "compare"
    BY <1>1, <1>3, <2>0, <2>1, <2>2 DEF JobTypes
  <2>4. job' = [job EXCEPT !["hourly"] = t]
    <3>1. job' = [job EXCEPT !["hourly"].pc = "remember", !["hourly"].entry = entry,
                             !["hourly"].then = then]
      BY <1>3, <1>7, <2>0 DEF Compare
    <3>2. job \in [Jobs -> JobTypes] /\ "hourly" \in Jobs
      BY DEF TypeInv, Jobs
    <3> QED
      BY <2>1, <3>1, <3>2 DEF Hourly, JobTypes
  <2>5. Goes("hourly") /\ Hourly' = t
    BY <2>3, <2>4, HourlyGoes DEF IsPosting
  <2>6. ~Alerting' /\ ~Summary' /\ ~IsPosting(Hourly') /\ \A c : Finding(c)' = Finding(c)
    BY <2>3, <2>5 DEF Alerting, Summary, IsPosting, Finding
  <2>7. HourlyInv'
    <3>1. Hourly'.entry = About(w)' /\ Hourly'.then \in {"no news", "compare"}
      BY <2>3, <2>5, <2>6 DEF About
    <3> QED
      BY <1>1, <1>2, <2>3, <2>5, <3>1, AtRemember
  <2>8. ASSUME NEW c \in Watched \ slipped' PROVE News(c)'
    <3>1. Compared(c)'
      BY <1>4, <1>5, <2>3, <2>5, <2>6, <2>8 DEF Compared
    <3>2. ASSUME c = w
          PROVE  /\ known[c] # Finding(c)
                 /\ t.then = "no news" => Hourly.found[c] /\ known[c] = "none"
                 /\ t.then = "compare" => ~(Hourly.found[c] /\ known[c] = "none")
      BY <1>3, <1>4, <1>7, <2>3, <2>8, <3>2
    <3> QED
      BY <1>2, <1>4, <1>5, <2>3, <2>5, <2>6, <2>8, <3>1, <3>2 DEF News
  <2> QED
    BY <1>2, <1>4, <2>3, <2>5, <2>7, <2>8 DEF NewsInv, TypeInv
<1> QED
  BY <1>6, <1>7

LEMMA RememberedInv ==
  ASSUME Alerting', Hourly'.i \in 2..Len(Components) + 1, NEW w, Components[Hourly'.i - 1] = w,
         Hourly'.entry = About(w)', Hourly'.found \in [Watched -> BOOLEAN]
  PROVE  HourlyInv'
BY DEF HourlyInv, Alerting, Summary, IsPosting

LEMMA Remembering ==
  ASSUME TypeInv, HourlyInv, NewsInv, Remember
  PROVE  /\ Goes("hourly") /\ Hourly'.pc \in {"compare", "lookup"} /\ slipped \subseteq slipped'
         /\ slipped' \subseteq Watched /\ known' \in [Watched -> {"none", "ok", "fail"}]
         /\ HourlyInv' /\ NewsInv'
<1>1. Hourly.pc = "remember" /\ InPass /\ ~Alerting /\ ~Summary /\ Hourly \in JobTypes
  <2>1. Hourly.pc = "remember" /\ Hourly \in JobTypes
    BY DEF Remember, At, TypeInv, Hourly, Jobs
  <2> QED
    BY <2>1 DEF InPass, Alerting, Summary, IsPosting
<1>2. PICK w : w = Components[Hourly.i]
  OBVIOUS
<1>3. Hourly.i \in 1..Len(Components) /\ Hourly.i \in Nat /\ Len(Components) \in Nat
  <2>1. Len(Components) \in Nat
    BY OperationsAssumption
  <2>2. Hourly.i \in 1..Len(Components)
    BY <1>1 DEF HourlyInv
  <2> QED
    BY <2>1, <2>2
<1>4. /\ Hourly.then \in {"no news", "compare"} /\ Hourly.entry = About(w)
      /\ Hourly.found \in [Watched -> BOOLEAN]
  BY <1>1, <1>2 DEF HourlyInv
<1>5. w \in Watched
  BY <1>2, <1>3, OperationsAssumption DEF Watched, Range
<1>6. Component = w /\ State(Found) = Finding(w) /\ Finding(w) = (IF Hourly.found[w] THEN "ok" ELSE "fail")
      /\ Finding(w) \in {"ok", "fail"}
  BY <1>2, <1>4, <1>5 DEF Component, Found, Hourly, Finding, State
<1>7. /\ slipped' = (IF healthy["Redis"] THEN slipped ELSE slipped \cup {w}) /\ told' = told
      /\ known' = (IF healthy["Redis"] THEN [known EXCEPT ![w] = Finding(w)] ELSE known)
  BY <1>6 DEF Remember, Loses
<1>8. /\ known' \in [Watched -> {"none", "ok", "fail"}]
      /\ \A c \in Watched \ slipped' : known'[c] = IF c = w THEN Finding(w) ELSE known[c]
  BY <1>5, <1>6, <1>7 DEF TypeInv
<1>9. \A c \in Watched \ slipped' : News(c) /\ Agree(c) /\ Compared(c) /\ c \in Watched \ slipped
  BY <1>1, <1>7 DEF NewsInv, News
\* After this component, too, Redis knows what the pass has found.
<1>10. ASSUME Hourly'.i = Hourly.i + 1, \A c : Finding(c)' = Finding(c), NEW c \in Watched \ slipped'
      PROVE  Compared(c)'
  <2>1. SUFFICES ASSUME NEW m \in 1..Len(Components), m < Hourly.i + 1, Components[m] = c
                 PROVE  known'[c] = Finding(c)
    BY <1>10 DEF Compared
  <2>2. CASE c = w
    BY <1>8, <1>10, <2>2
  <2>3. CASE c # w
    <3>1. m < Hourly.i
      BY <1>2, <1>3, <2>1, <2>3
    <3> QED
      BY <1>8, <1>9, <1>10, <2>1, <2>3, <3>1 DEF Compared
  <2> QED
    BY <2>2, <2>3
<1>11. CASE Hourly.then = "no news"
  <2>1. NextComponent
    BY <1>11 DEF Remember, Hourly
  <2>2. /\ Goes("hourly") /\ Hourly'.pc = "compare" /\ Hourly'.i = Hourly.i + 1
        /\ ~Alerting' /\ ~Summary' /\ \A c : Finding(c)' = Finding(c)
        /\ HourlyInv'
    BY <1>1, <2>1, Advancing
  <2>3. ASSUME NEW c \in Watched \ slipped' PROVE News(c)'
    <3>1. Compared(c)'
      BY <1>10, <2>2, <2>3
    <3>2. CASE c = w
      <4>1. Hourly.found[w] /\ known[w] = "none"
        BY <1>1, <1>2, <1>9, <1>11, <2>3, <3>2 DEF News
      <4>2. told[w] = "none" /\ known'[w] = "ok"
        BY <1>6, <1>8, <1>9, <2>3, <3>2, <4>1 DEF Agree
      <4> QED
        BY <1>7, <2>2, <3>1, <3>2, <4>2 DEF News, Agree
    <3>3. CASE c # w
      <4>1. Agree(c)'
        BY <1>7, <1>8, <1>9, <2>3, <3>3 DEF Agree
      <4> QED
        BY <2>2, <3>1, <4>1 DEF News
    <3> QED
      BY <3>2, <3>3
  <2> QED
    BY <1>5, <1>7, <1>8, <2>2, <2>3 DEF NewsInv, TypeInv
<1>12. CASE Hourly.then = "compare"
  <2>1. PICK t : t = [Hourly EXCEPT !.pc = "lookup", !.category = "service", !.i = Hourly.i + 1]
    OBVIOUS
  <2>2. Hourly.i + 1 \in Nat /\ "service" \in Filed
    BY <1>3, OperationsAssumption DEF Filed
  <2>3. /\ t \in JobTypes /\ t.pc = "lookup" /\ t.category = "service" /\ t.i = Hourly.i + 1
        /\ t.found = Hourly.found /\ t.entry = Hourly.entry /\ t.then = "compare"
    BY <1>1, <1>12, <2>1, <2>2 DEF JobTypes
  <2>4. job' = [job EXCEPT !["hourly"] = t]
    <3>1. job' = [job EXCEPT !["hourly"].pc = "lookup", !["hourly"].category = "service",
                             !["hourly"].i = @ + 1]
      BY <1>12 DEF Remember, Hourly
    <3>2. job \in [Jobs -> JobTypes] /\ "hourly" \in Jobs
      BY DEF TypeInv, Jobs
    <3> QED
      BY <2>1, <3>1, <3>2 DEF Hourly, JobTypes
  <2>5. Goes("hourly") /\ Hourly' = t
    BY <2>2, <2>3, <2>4, HourlyGoes DEF IsPosting
  <2>6. Alerting' /\ ~Summary' /\ InPass' /\ \A c : Finding(c)' = Finding(c)
    BY <2>3, <2>5 DEF Alerting, Summary, InPass, IsPosting, Finding
  <2>7. Hourly'.i - 1 = Hourly.i /\ Hourly'.i \in 2..Len(Components) + 1 /\ Components[Hourly'.i - 1] = w
    BY <1>2, <1>3, <2>3, <2>5
  <2>8. HourlyInv'
    <3>1. Hourly'.entry = About(w)'
      BY <1>4, <2>3, <2>5, <2>6 DEF About
    <3> QED
      BY <1>4, <2>3, <2>5, <2>6, <2>7, <3>1, RememberedInv
  <2>9. ASSUME NEW c \in Watched \ slipped' PROVE News(c)'
    <3>1. Compared(c)'
      BY <1>10, <2>3, <2>5, <2>6, <2>9
    <3>2. CASE c = w
      <4>1. known[w] # Finding(w) /\ told[w] # Finding(w)
        BY <1>1, <1>2, <1>6, <1>9, <1>12, <2>9, <3>2 DEF News, Agree
      <4> QED
        BY <1>2, <1>7, <2>3, <2>5, <2>6, <2>7, <3>1, <3>2, <4>1 DEF News
    <3>3. CASE c # w
      <4>1. Agree(c)'
        BY <1>7, <1>8, <1>9, <2>9, <3>3 DEF Agree
      <4> QED
        BY <1>2, <2>3, <2>5, <2>6, <2>7, <3>1, <3>3, <4>1 DEF News
    <3> QED
      BY <3>2, <3>3
  <2> QED
    BY <1>5, <1>7, <1>8, <2>3, <2>5, <2>8, <2>9 DEF NewsInv, TypeInv
<1> QED
  BY <1>4, <1>11, <1>12

LEMMA Summarising ==
  ASSUME TypeInv, HourlyInv, NewsInv, Heartbeat
  PROVE  Goes("hourly") /\ Hourly'.pc \in {"lookup", "server"} /\ HourlyInv' /\ NewsInv'
<1>1. Hourly.pc = "compare" /\ Hourly.i > Len(Components) /\ Hourly \in JobTypes
  BY DEF Heartbeat, At, Hourly, TypeInv, Jobs
<1>2. InPass /\ ~Alerting /\ Hourly.found \in [Watched -> BOOLEAN]
  <2>1. InPass /\ ~Alerting
    BY <1>1 DEF InPass, Alerting, IsPosting
  <2> QED
    BY <2>1 DEF HourlyInv
<1>3. ASSUME NEW c \in Watched \ slipped' PROVE known[c] = Finding(c) /\ Agree(c) /\ Agree(c)'
  <2>1. News(c) /\ Agree(c)'  = Agree(c)
    BY <1>3 DEF NewsInv, Heartbeat, seen, Agree
  <2>2. Compared(c) /\ Agree(c)
    BY <1>1, <1>2, <2>1 DEF News
  <2>3. PICK m \in 1..Len(Components) : Components[m] = c
    BY OperationsAssumption DEF Watched, Range
  <2>4. m < Hourly.i
    <3>1. Hourly.i \in Nat
      BY <1>1 DEF JobTypes
    <3>2. Len(Components) \in Nat
      BY OperationsAssumption
    <3> QED
      BY <1>1, <3>1, <3>2
  <2> QED
    BY <2>1, <2>2, <2>3, <2>4 DEF Compared
<1>4. UNCHANGED <<known, told, slipped>>
  BY DEF Heartbeat, seen
<1>5. CASE healthy["Redis"] /\ ~beat
  <2>0. PICK entry : entry = [c \in Watched |-> Finding(c)]
    OBVIOUS
  <2>1. Post("hourly", "service", entry, "server")
    BY <1>5, <2>0 DEF Heartbeat, Watched, Finding, Hourly
  <2>2. entry \in Entries /\ "service" \in Filed
    <3>1. entry \in [Watched -> {"ok", "fail"}]
      <4>1. \A c \in Watched : Finding(c) \in {"ok", "fail"}
        BY DEF Finding, State
      <4> QED
        BY <2>0, <4>1
    <3>2. Watched \in SUBSET Watched
      OBVIOUS
    <3> QED
      BY <3>1, <3>2, OperationsAssumption DEF Entries, Filed
  <2>3. /\ Goes("hourly") /\ Hourly'.pc = "lookup" /\ Hourly'.entry = entry /\ Hourly'.then = "server"
        /\ Hourly'.found = Hourly.found
    BY <2>1, <2>2, Posted DEF Jobs, Hourly
  <2>4. ~Alerting' /\ Summary' /\ \A c : Finding(c)' = Finding(c)
    BY <2>3 DEF Alerting, Summary, IsPosting, Finding
  <2>5. Hourly'.entry = [c \in Watched |-> Finding(c)']
    BY <2>0, <2>3, <2>4
  <2>6. HourlyInv'
    BY <1>2, <2>3, <2>4, <2>5 DEF HourlyInv
  <2>7. \A c \in Watched \ slipped' : News(c)'
    BY <1>3, <1>4, <2>3, <2>4 DEF News
  <2> QED
    BY <2>3, <2>6, <2>7 DEF NewsInv
<1>6. CASE ~(healthy["Redis"] /\ ~beat)
  <2>1. PICK t : t = [Hourly EXCEPT !.pc = "server"]
    OBVIOUS
  <2>2. t \in JobTypes /\ t.pc = "server"
    BY <1>1, <2>1 DEF JobTypes
  <2>3. job' = [job EXCEPT !["hourly"] = t]
    BY <1>6, <2>1 DEF Heartbeat, Hourly
  <2>4. Goes("hourly") /\ Hourly' = t
    BY <2>2, <2>3, HourlyGoes DEF IsPosting
  <2>5. ~Alerting' /\ ~Summary' /\ ~InPass' /\ ~IsPosting(Hourly')
    BY <2>2, <2>4 DEF Alerting, Summary, InPass, IsPosting
  <2>6. HourlyInv'
    BY <2>2, <2>4, <2>5 DEF HourlyInv
  <2>7. \A c \in Watched \ slipped' : News(c)'
    BY <1>3, <2>2, <2>4, <2>5 DEF News
  <2> QED
    BY <2>2, <2>4, <2>6, <2>7 DEF NewsInv
<1> QED
  BY <1>5, <1>6

LEMMA Reporting ==
  ASSUME TypeInv, HourlyInv, NewsInv, ServerHealth
  PROVE  Goes("hourly") /\ Hourly'.pc = "lookup" /\ HourlyInv' /\ NewsInv'
<1>1. Hourly.pc = "server" /\ ~Alerting
  BY DEF ServerHealth, At, Hourly, Alerting, IsPosting
<1>2. Goes("hourly") /\ Hourly'.pc = "lookup" /\ Hourly'.entry = <<>> /\ Hourly'.then = "idle"
  BY Posted, OperationsAssumption DEF ServerHealth, Jobs, Hourly, Entries, Filed
<1>3. ~Alerting' /\ ~Summary' /\ ~InPass'
  BY <1>2 DEF Alerting, Summary, InPass, IsPosting
<1>4. HourlyInv'
  BY <1>2, <1>3 DEF HourlyInv
<1>5. ASSUME NEW c \in Watched \ slipped' PROVE News(c)'
  <2>1. Agree(c)'
    BY <1>1, <1>5 DEF NewsInv, News, ServerHealth, stored, seen, Agree
  <2> QED
    BY <1>2, <1>3, <2>1 DEF News
<1> QED
  BY <1>2, <1>4, <1>5 DEF NewsInv

-----------------------------------------------------------------------------
(* The other posters, and what happens around them *)

LEMMA PostingEntry ==
  ASSUME TypeInv, NEW j \in Posters, NEW k \in Filed, PostEntry(j, k)
  PROVE  Goes(j) /\ job'[j].pc = "lookup" /\ UNCHANGED <<stored, seen>> /\ j \in Jobs \ {"hourly"}
<1>1. j \in Jobs \ {"hourly"} /\ <<>> \in Entries
  BY OperationsAssumption DEF Jobs, Entries
<1> QED
  BY <1>1, Posted DEF PostEntry

LEMMA SettingUp ==
  ASSUME TypeInv, Setup
  PROVE  Goes("setup") /\ job'["setup"].pc \in {"idle", "lookup"} /\ UNCHANGED <<stored, seen>>
<1>1. /\ job \in [Jobs -> JobTypes] /\ "setup" \in Jobs /\ job["setup"].i \in 0..Len(Categories)
      /\ Len(Categories) \in Nat
  <2>1. Len(Categories) \in Nat
    BY OperationsAssumption
  <2>2. "setup" \in Jobs
    BY DEF Jobs
  <2>3. job["setup"].i \in 0..Len(Categories)
    BY <2>2 DEF TypeInv, JobInv
  <2> QED
    BY <2>1, <2>2, <2>3 DEF TypeInv
<1>2. CASE job["setup"].i = Len(Categories)
  <2>1. Ends("setup")
    BY <1>1, <1>2 DEF Setup, Ends
  <2> QED
    BY <1>1, <2>1, Ending DEF Setup, NoJob
<1>3. CASE job["setup"].i # Len(Categories)
  <2>1. PICK t : t = [NoJob EXCEPT !.pc = "lookup", !.i = job["setup"].i + 1,
                                   !.category = Categories[job["setup"].i + 1]]
    OBVIOUS
  <2>2. t = [pc |-> "lookup", i |-> job["setup"].i + 1, found |-> <<>>,
             category |-> Categories[job["setup"].i + 1], entry |-> <<>>, thread |-> General,
             then |-> "idle"]
    BY <2>1 DEF NoJob
  <2>3. job["setup"].i + 1 \in 1..Len(Categories) /\ job["setup"].i + 1 \in 0..Len(Categories)
        /\ job["setup"].i + 1 \in Nat
    BY <1>1, <1>3
  <2>4. Categories[job["setup"].i + 1] \in Filed
    BY <2>3, OperationsAssumption DEF Filed, Range
  <2>5. t \in JobTypes
    BY <2>2, <2>3, <2>4 DEF JobTypes, Entries, General
  <2>6. job' = [job EXCEPT !["setup"] = t]
    BY <1>1, <1>3, <2>1 DEF Setup
  <2>7. JobInv("setup", t)
    BY <2>2, <2>3, <2>4, <2>5 DEF JobInv
  <2>8. Goes("setup") /\ job'["setup"] = t
    BY <1>1, <2>6, <2>7, JobGoes
  <2> QED
    BY <2>2, <2>8 DEF Setup
<1> QED
  BY <1>2, <1>3

\* Nothing but the logging itself, and the heartbeat's key, is concerned.
Around ==
    /\ job' = job /\ healthy' \in [Watched -> BOOLEAN]
    /\ UNCHANGED <<known, topic, topics, seen>>

LEMMA Surrounding ==
  ASSUME TypeInv, \/ \E c \in Watched : Change(c)
                  \/ Expire
                  \/ \E t \in 1..MaxTopic : DeleteTopic(t)
                  \/ UNCHANGED vars
  PROVE  Around
BY DEF TypeInv, Around, Change, Expire, DeleteTopic, vars, stored, seen

LEMMA Restarting ==
  ASSUME TypeInv, HourlyInv, NewsInv, Restart
  PROVE  /\ job' \in [Jobs -> JobTypes] /\ \A j \in Jobs : job'[j] = NoJob
         /\ UNCHANGED <<stored, told, filed>> /\ slipped \subseteq slipped' /\ slipped' \subseteq Watched
         /\ HourlyInv' /\ NewsInv'
<1>1. /\ job' = [j \in Jobs |-> NoJob] /\ UNCHANGED <<stored, told, filed>>
      /\ slipped \subseteq slipped' /\ (IsPosting(Hourly) => DOMAIN Hourly.entry \subseteq slipped')
  BY DEF Restart, Loses, Hourly, IsPosting
<1>2. slipped' \subseteq Watched
  BY EntryType DEF Restart, Loses, TypeInv, Jobs
<1>3. Hourly' = NoJob /\ \A j \in Jobs : NoJob \in JobTypes
  BY <1>1, NoJobInv DEF Hourly, Jobs, JobInv
<1>4. HourlyInv' /\ NewsInv'
  BY <1>1, <1>3, LostHourly DEF stored, Alerting
<1> QED
  BY <1>1, <1>2, <1>3, <1>4

-----------------------------------------------------------------------------
(* Types *)

LEMMA GoesTypes ==
  ASSUME TypeInv, NEW j \in Jobs, Goes(j), healthy' = healthy,
         known' \in [Watched -> {"none", "ok", "fail"}], told' \in [Watched -> {"none", "ok", "fail"}],
         topic' \in [Filed -> Nat \cup {None}], topics' \in Nat, filed' \in [Filed -> SUBSET Nat],
         slipped' \subseteq Watched, raced' \subseteq Filed
  PROVE  TypeInv'
<1>1. \A i \in Jobs : JobInv(i, job'[i])
  BY DEF TypeInv, Goes
<1>2. \A i \in Jobs : JobInv(i, job[i])'
  BY <1>1 DEF JobInv
<1> QED
  BY <1>2 DEF TypeInv, Goes

LEMMA LoggingTypes ==
  ASSUME TypeInv, Marks, NEW j \in Jobs, Logging(j) \/ SendFails(j)
  PROVE  TypeInv'
<1>1. raced' \subseteq Filed /\ DOMAIN job[j].entry \subseteq Watched
  BY EntryType DEF Marks
<1>2. CASE Lookup(j)
  BY <1>1, <1>2, Looking, GoesTypes DEF TypeInv, Carries, stored, Lost, Loses
<1>3. CASE CreateTopic(j)
  BY <1>1, <1>3, Creation, GoesTypes DEF TypeInv, Carries, seen
<1>4. CASE CreateRefused(j)
  BY <1>1, <1>4, Refusing, GoesTypes DEF TypeInv, Carries, stored, seen
<1>5. CASE StoreTopic(j)
  BY <1>1, <1>5, Storing, GoesTypes DEF TypeInv, Carries, Lost, Loses
<1>6. CASE SendFails(j)
  BY <1>1, <1>6, Returning, GoesTypes DEF TypeInv, SendFails, stored, Loses, At, IsPosting
<1>7. CASE Send(j)
  <2>1. IsPosting(job[j]) /\ job[j].category \in Filed /\ job[j].thread \in Nat /\ job[j].entry \in Entries
    BY <1>7 DEF Send, At, IsPosting, TypeInv, JobInv, JobTypes
  <2>2. told' \in [Watched -> {"none", "ok", "fail"}]
    <3>1. \A c \in DOMAIN job[j].entry : job[j].entry[c] \in {"none", "ok", "fail"}
      <4>1. CASE job[j].entry = <<>>
        BY <4>1
      <4>2. CASE job[j].entry # <<>>
        BY <2>1, <4>2 DEF Entries
      <4> QED
        BY <4>1, <4>2
    <3> QED
      BY <1>7, <3>1 DEF Send, TypeInv
  <2>3. filed' \in [Filed -> SUBSET Nat]
    BY <1>7, <2>1 DEF Send, TypeInv
  <2> QED
    BY <1>1, <1>7, <2>1, <2>2, <2>3, Returning, GoesTypes DEF Send, TypeInv, stored
<1> QED
  BY <1>2, <1>3, <1>4, <1>5, <1>6, <1>7 DEF Logging

-----------------------------------------------------------------------------
(* Theorems *)

Inv == TypeInv /\ TopicInv /\ HourlyInv /\ NewsInv

LEMMA Initially == ASSUME Init PROVE Inv
<1>1. \A j \in Jobs : job[j] = NoJob /\ JobInv(j, job[j])
  BY NoJobInv DEF Init
<1>2. TypeInv
  BY <1>1, OperationsAssumption DEF Init, TypeInv, JobInv, Watched, Filed
<1>3. TopicInv
  BY <1>1 DEF Init, TopicInv, Creating, At, NoJob, Filed
<1>4. Hourly = NoJob
  BY <1>1 DEF Hourly, Jobs
<1>5. ~Alerting /\ ~Summary /\ ~InPass /\ ~IsPosting(Hourly) /\ Hourly.pc = "idle"
  BY <1>4 DEF NoJob, Alerting, Summary, InPass, IsPosting
<1>6. HourlyInv
  BY <1>5 DEF HourlyInv
<1>7. NewsInv
  BY <1>5 DEF NewsInv, News, Init, Agree, Watched
<1> QED
  BY <1>2, <1>3, <1>6, <1>7 DEF Inv

\* A step of the hourly pass that is not part of an entry.
LEMMA PassStep ==
  ASSUME Inv, Marks, StartPass \/ Check \/ Compare \/ Remember \/ Heartbeat \/ ServerHealth
  PROVE  Inv' /\ slipped \subseteq slipped'
<1>1. /\ Goes("hourly") /\ job'["hourly"].pc \notin {"create", "store", "send"}
      /\ HourlyInv' /\ NewsInv' /\ slipped \subseteq slipped' /\ slipped' \subseteq Watched
      /\ known' \in [Watched -> {"none", "ok", "fail"}]
  <2>1. CASE StartPass
    BY <2>1, Starting DEF Inv, Hourly, StartPass, stored, seen, TypeInv
  <2>6. CASE Check
    BY <2>6, Asking DEF Inv, Hourly, Check, stored, seen, TypeInv
  <2>2. CASE Compare
    BY <2>2, Comparing DEF Inv, Hourly, Compare, stored, TypeInv
  <2>3. CASE Remember
    BY <2>3, Remembering DEF Inv, Hourly
  <2>4. CASE Heartbeat
    BY <2>4, Summarising DEF Inv, Hourly, Heartbeat, seen, TypeInv
  <2>5. CASE ServerHealth
    BY <2>5, Reporting DEF Inv, Hourly, ServerHealth, stored, seen, TypeInv
  <2> QED
    BY <2>1, <2>2, <2>3, <2>4, <2>5, <2>6
<1>2. UNCHANGED <<healthy, topic, topics, told, filed>>
  BY DEF StartPass, Check, Compare, Remember, Heartbeat, ServerHealth, stored, seen
<1>3. "hourly" \in Jobs /\ raced' \subseteq Filed
  BY DEF Jobs, Marks
<1>4. TypeInv'
  BY <1>1, <1>2, <1>3, GoesTypes DEF Inv, TypeInv
<1>5. TopicInv'
  BY <1>1, <1>2, <1>3, TopicKept DEF Inv
<1> QED
  BY <1>1, <1>4, <1>5 DEF Inv

LEMMA OtherStep ==
  ASSUME Inv, Marks, NEW j \in Jobs \ {"hourly"}, Goes(j), job'[j].pc \in {"idle", "lookup"},
         UNCHANGED <<stored, seen>>
  PROVE  Inv' /\ slipped \subseteq slipped'
<1>1. UNCHANGED <<healthy, known, topic, topics, told, filed, slipped>> /\ raced' \subseteq Filed
  BY DEF stored, seen, Marks
<1>2. TypeInv'
  BY <1>1, GoesTypes DEF Inv, TypeInv
<1>3. TopicInv'
  BY <1>1, TopicKept DEF Inv
<1>4. job'["hourly"] = job["hourly"]
  BY DEF Goes, Jobs
<1> QED
  BY <1>1, <1>2, <1>3, <1>4, SameHourly DEF Inv

LEMMA SurroundingStep ==
  ASSUME Inv, raced \subseteq raced', raced' \subseteq Filed, Around
  PROVE  Inv' /\ slipped \subseteq slipped'
<1>1. /\ UNCHANGED <<job, known, topic, topics, told, filed, slipped>>
      /\ healthy' \in [Watched -> BOOLEAN]
  BY DEF Around, seen
<1>2. TypeInv'
  <2>1. \A j \in Jobs : JobInv(j, job[j])'
    BY <1>1 DEF Inv, TypeInv, JobInv
  <2> QED
    BY <1>1, <2>1 DEF Inv, TypeInv
<1>3. TopicInv'
  <2>1. \A k : Creating(k)' = Creating(k)
    BY <1>1 DEF Creating
  <2> QED
    BY <1>1, <2>1 DEF Inv, TopicInv, At
<1> QED
  BY <1>1, <1>2, <1>3, SameHourly DEF Inv

LEMMA RestartStep ==
  ASSUME Inv, Marks, Restart
  PROVE  Inv' /\ slipped \subseteq slipped'
<1>1. /\ job' \in [Jobs -> JobTypes] /\ \A j \in Jobs : job'[j] = NoJob
      /\ UNCHANGED <<stored, told, filed>> /\ slipped \subseteq slipped' /\ slipped' \subseteq Watched
      /\ HourlyInv' /\ NewsInv'
  BY Restarting DEF Inv
<1>2. \A j \in Jobs : JobInv(j, job'[j])
  BY <1>1, NoJobInv
<1>3. TypeInv'
  <2>1. \A j \in Jobs : JobInv(j, job[j])'
    BY <1>2 DEF JobInv
  <2> QED
    BY <1>1, <2>1 DEF Inv, TypeInv, stored, Marks
<1>4. TopicInv'
  BY <1>1 DEF Inv, TopicInv, Creating, At, NoJob, stored, Marks
<1> QED
  BY <1>1, <1>3, <1>4 DEF Inv

LEMMA Step == ASSUME Inv, [Next]_vars PROVE Inv' /\ slipped \subseteq slipped'
<1>1. CASE UNCHANGED vars
  BY <1>1, Surrounding, SurroundingStep DEF vars, Inv, TypeInv
<1>2. CASE Next
  <2>1. Marks
    BY <1>2, Marked DEF Next, Inv
  <2>2. ASSUME NEW j \in Jobs, Logging(j) \/ SendFails(j) PROVE Inv' /\ slipped \subseteq slipped'
    BY <2>1, <2>2, LoggingTypes, LoggingTopics, LoggingHourly DEF Inv
  <2>3. CASE HealthPass
    BY <2>1, <2>2, <2>3, PassStep DEF HealthPass, Jobs
  <2>4. CASE \E j \in Posters, k \in Filed : PostEntry(j, k)
    <3>1. PICK j \in Posters, k \in Filed : PostEntry(j, k)
      BY <2>4
    <3>2. Goes(j) /\ job'[j].pc = "lookup" /\ UNCHANGED <<stored, seen>> /\ j \in Jobs \ {"hourly"}
      BY <3>1, PostingEntry DEF Inv
    <3> QED
      BY <2>1, <3>2, OtherStep
  <2>5. CASE Setup
    <3>1. Goes("setup") /\ job'["setup"].pc \in {"idle", "lookup"} /\ UNCHANGED <<stored, seen>>
          /\ "setup" \in Jobs \ {"hourly"}
      BY <2>5, SettingUp DEF Inv, Jobs
    <3> QED
      BY <2>1, <3>1, OtherStep
  <2>6. CASE \/ \E c \in Watched : Change(c)
             \/ Expire
             \/ \E t \in 1..MaxTopic : DeleteTopic(t)
    BY <2>1, <2>6, Surrounding, SurroundingStep DEF Marks, Inv
  <2>7. CASE Restart
    BY <2>1, <2>7, RestartStep
  <2> QED
    BY <1>2, <2>2, <2>3, <2>4, <2>5, <2>6, <2>7 DEF Next, Watched, Filed
<1> QED
  BY <1>1, <1>2

LEMMA Invariant == Spec => []Inv
<1>1. Init => Inv
  BY Initially
<1>2. Inv /\ [Next]_vars => Inv'
  BY Step
<1> QED
  BY <1>1, <1>2, PTL DEF Spec

\* A category's entries are all in one topic, whoever posts them and whenever
\* the database fails or the bot restarts, unless two tasks created one at once.
THEOREM OneTopicAlways == Spec => []OneTopic
<1>1. Inv => OneTopic
  <2>1. SUFFICES ASSUME Inv, NEW k \in Filed \ raced PROVE Cardinality(filed[k]) <= 1
    BY DEF OneTopic, Filed
  <2>2. filed[k] = {} \/ filed[k] = {topic[k]}
    BY <2>1 DEF Inv, TopicInv
  <2>3. CASE filed[k] = {}
    BY <2>3, FS_EmptySet
  <2>4. CASE filed[k] = {topic[k]}
    <3>1. Cardinality({topic[k]}) = 1
      BY FS_Singleton
    <3> QED
      BY <2>4, <3>1
  <2> QED
    BY <2>2, <2>3, <2>4
<1> QED
  BY <1>1, Invariant, PTL

\* An alert tells the group something else than it was last told, through
\* passes, summaries, restarts and failures of everything else: unless an entry
\* about that component was lost, or Redis was down when it was looked at.
THEOREM ToldOnChangeAlways == Spec => ToldOnChange
<1>1. Inv /\ [Next]_vars =>
        [At("hourly", "send") /\ job["hourly"].then = "compare" /\ ~At("hourly", "send")'
           => \A c \in DOMAIN job["hourly"].entry \ slipped' : told[c] # job["hourly"].entry[c]]_vars
  <2>1. SUFFICES ASSUME Inv, [Next]_vars, At("hourly", "send"), job["hourly"].then = "compare",
                        NEW c \in DOMAIN job["hourly"].entry \ slipped'
                 PROVE  told[c] # job["hourly"].entry[c]
    OBVIOUS
  <2>2. Alerting
    BY <2>1 DEF Alerting, IsPosting, At, Hourly
  <2>3. c = Components[Hourly.i - 1] /\ job["hourly"].entry[c] = Finding(c)
    BY <2>1, <2>2 DEF Inv, HourlyInv, Hourly, About
  <2>4. c \in Watched \ slipped
    BY <2>1, Step, EntryType DEF Inv, Jobs
  <2>5. News(c)
    BY <2>1, <2>4 DEF Inv, NewsInv
  <2> QED
    BY <2>2, <2>3, <2>5 DEF News
<1> QED
  BY <1>1, Invariant, PTL DEF Spec, ToldOnChange

\* What the group was last told of a component, or that it was told nothing of
\* one that is well.
ToldAsFound(c) == told[c] = Finding(c) \/ (told[c] = "none" /\ Finding(c) = "ok")

\* By the time a pass posts its daily summary every failure it found has been
\* told, and no alarm that is over still stands (run_health_check in
\* app/services/health.py posts the changes first): unless an entry about that component was lost, or Redis was
\* down when it was looked at.
THEOREM AlertedBeforeSummaryAlways ==
  Spec => [](Summary => \A c \in Watched \ slipped : ToldAsFound(c))
<1>1. Inv => (Summary => \A c \in Watched \ slipped : ToldAsFound(c))
  <2>1. SUFFICES ASSUME Inv, Summary, NEW c \in Watched \ slipped PROVE ToldAsFound(c)
    OBVIOUS
  <2>2. News(c) /\ ~Alerting
    BY <2>1 DEF Inv, NewsInv, Summary, Alerting
  <2> QED
    BY <2>1, <2>2 DEF News, Agree, ToldAsFound
<1> QED
  BY <1>1, Invariant, PTL
=============================================================================
