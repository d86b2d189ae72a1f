------------------------------ MODULE WorkerProofs ------------------------------
(* What holds of Worker for every set of processes, every code they load and    *)
(* every bound.                                                                 *)
EXTENDS Worker, TLAPS, SequenceTheorems, WellFoundedInduction

-------------------------------------------------------------------------------
(* The inductive invariant, process by process.                                 *)

(* A job that goes with a handler is for a predefined queue: where its task is. *)
GoodEntry == {e \in Entry : e.task # None => e.queue \in Predefined}
Registry == [jobs : [Names -> GoodEntry \cup {None}], crons : [Names -> GoodEntry \cup {None}],
             tasks : [Names -> Handlers \cup {None}], subs : [Executions -> SUBSET Queues]]

(* The registrations made so far are those of the code that are not left to do. *)
Made(p) == DOMAIN program[p] \ todo[p]

ProcTypes ==
    /\ stage \in [Procs -> {"off", "loading", "starting", "up"}]
    /\ provider \in [Procs -> {"none", "opening", "configured"}]
    /\ program \in [Procs -> Programs \cup {<<>>}] /\ todo \in [Procs -> SUBSET Nat]
    /\ registry \in [Procs -> Registry]
    /\ consumes \in [Procs -> SUBSET Queues]

StageOK(p) ==
    /\ todo[p] \subseteq DOMAIN program[p] /\ (stage[p] # "loading" => todo[p] = {})
    /\ provider[p] # "none" => stage[p] \in {"starting", "up"}
    /\ provider[p] # "none" /\ p \in Threads => stage[p] = "up"
    /\ stage[p] = "starting" => Execution[p] # "main-process"
    /\ consumes[p] # {} => provider[p] = "configured"
    /\ consumes[p] \subseteq declared

(* The handlers: any of those registered so far for the name, if there is one.  *)
HandlersAmong(v, made, n) ==
    {v[i].handler : i \in {o \in made : v[o].kind # "sub" /\ v[o].name = n}} \ {None}

TasksMade(p) ==
    stage[p] # "off" =>
      \A n \in Names :
        LET handlers == HandlersAmong(program[p], Made(p), n)
        IN IF handlers = {} THEN registry[p].tasks[n] = None ELSE registry[p].tasks[n] \in handlers

(* The subscribers: that of a queue is the first one registered, and the        *)
(* predefined queues of a worker come before the code. What has been read by    *)
(* then is lost neither to the cleanup nor to a thread.                         *)
PredefinedOf(p) == IF Execution[p] = "extra-process" THEN Predefined ELSE {}
FirstMade(p, e, q, made) ==
    \E i \in made : IsFirst(program[p], i) /\ program[p][i].queue = q /\ program[p][i].execution = e
Belongs(p, e, q, made) ==
    \/ e = "extra-process" /\ q \in PredefinedOf(p)
    \/ q \notin PredefinedOf(p) /\ FirstMade(p, e, q, made)

SubscribersOf(p, subs, made) ==
    \A e \in Executions, q \in Queues : q \in subs[e] <=> Belongs(p, e, q, made)

SubsMade(p) ==
    /\ p \notin Threads /\ stage[p] = "loading" =>
         /\ SubscribersOf(p, registry[p].subs, Made(p))
         /\ \A i \in Made(p), o \in todo[p] : i < o
    /\ p \notin Threads /\ stage[p] \in {"starting", "up"} /\ provider[p] = "opening" =>
         \A q \in Queues :
            q \in registry[p].subs[Execution[p]] <=> Belongs(p, Execution[p], q, DOMAIN program[p])
    /\ p \notin Threads /\ stage[p] \in {"starting", "up"} => provider[p] # "none"
    /\ p \in Threads /\ stage[p] = "up" => \A e \in Executions : registry[p].subs[e] = {}
    /\ provider[p] = "configured" => consumes[p] = IF p \in Threads THEN {} ELSE OwnQueues(p)

ProcOK(p) == StageOK(p) /\ TasksMade(p) /\ SubsMade(p)

(* Calls. A call that is pending with arguments will find them in the registry, *)
(* unless another call of the job has left its own there.                       *)
CallRecords == [pc : {"pending", "sent", "refused", "lost"}, by : Procs, name : Names,
                given : Args \cup {None}, held : Args \cup {None}, mixed : BOOLEAN]

GivenBy(p, n, args) ==
    \E d \in DOMAIN call : call[d].by = p /\ call[d].name = n /\ call[d].given = args

PendingOK(c) ==
    LET p == call[c].by job == registry[p].jobs[call[c].name] IN
    /\ stage[p] = "up" /\ provider[p] # "none" /\ job \in GoodEntry
    /\ call[c].given # None =>
         /\ call[c].held = call[c].given
         /\ job.args = call[c].given \/ (call[c].mixed /\ GivenBy(p, call[c].name, job.args))

WCallsOK ==
    /\ call \in Seq(CallRecords) /\ Len(call) <= MaxCalls
    /\ \A c \in DOMAIN call : call[c].pc = "pending" => PendingOK(c)

(* Messages, in a queue or handled.                                             *)
MessageOK(m) ==
    /\ m \in Message /\ m.call \in 0 .. Len(call)
    /\ m.task # None => m.queue \in Predefined \cup Threads
    /\ m.call # 0 /\ call[m.call].given # None =>
         \/ m.args = call[m.call].given
         \/ /\ call[m.call].mixed /\ m.task # None
            /\ GivenBy(call[m.call].by, call[m.call].name, m.args)

BoxOK == /\ \A m \in box : MessageOK(m)
         /\ \A e \in ended : MessageOK(e.msg)

WorkerInv ==
    /\ ProcTypes
    /\ \A p \in Procs : ProcOK(p)
    /\ WCallsOK /\ BoxOK /\ RunsItsHandler
    /\ boots \in 0 .. MaxBoots

-------------------------------------------------------------------------------
(* The code: its registrations.                                                 *)
LEMMA ProgramTypes ==
  ASSUME NEW v \in Programs \cup {<<>>}
  PROVE  /\ v \in Seq(Job \cup Sub) /\ DOMAIN v = 1 .. Len(v) /\ Len(v) \in Nat
         /\ \A i \in DOMAIN v :
               /\ i \in Nat /\ v[i] \in Job \cup Sub
               /\ v[i] \in Job => (v[i].handler # None <=> v[i].queue \in Predefined)
               /\ v[i].kind = "sub" => v[i] \in Sub
               /\ v[i].kind # "sub" => v[i] \in Job
  <1>1. v \in Seq(Job \cup Sub)
    BY WorkerAssumption, EmptySeq
  <1>2. DOMAIN v = 1 .. Len(v) /\ Len(v) \in Nat /\ \A i \in DOMAIN v : v[i] \in Job \cup Sub
    BY <1>1
  <1>3. \A i \in DOMAIN v : v[i] \in Job => (v[i].handler # None <=> v[i].queue \in Predefined)
    BY <1>2, WorkerAssumption
  <1>4. (\A r \in Job : r.kind # "sub") /\ (\A r \in Sub : r.kind = "sub")
    BY DEF Job, Sub
  <1> QED BY <1>1, <1>2, <1>3, <1>4

(* A set of positions that is not empty has a first one.                        *)
LEMMA FirstExists ==
  ASSUME NEW S, S \subseteq Nat, S # {}
  PROVE  \E i \in S : \A o \in S : i <= o
  <1> DEFINE R == {ss \in Nat \X Nat : ss[1] < ss[2]}
  <1>1. IsWellFoundedOn(R, Nat)
    BY NatLessThanWellFounded DEF OpToRel
  <1> HIDE DEF R
  <1>2. \E i \in S : \A o \in S : ~(<<o, i>> \in R)
    BY <1>1, WFMin
  <1>3. PICK i \in S : \A o \in S : ~(<<o, i>> \in R)
    BY <1>2
  <1>4. ASSUME NEW o \in S PROVE i <= o
    <2>1. ~(<<o, i>> \in R) /\ o \in Nat /\ i \in Nat
      BY <1>3
    <2>2. ~(o < i)
      BY <2>1 DEF R
    <2> QED BY <2>1, <2>2
  <1> QED BY <1>4

-------------------------------------------------------------------------------
(* Registrations. What one of them makes of a registry.                         *)
LEMMA NoRegistryOK == NoRegistry \in Registry
  BY DEF NoRegistry, Registry

GoodRegistration(r) ==
    \/ r \in Job /\ (r.handler # None <=> r.queue \in Predefined)
    \/ r \in Sub

SubsWith(reg, r) ==
    IF r.kind = "sub" /\ ~Conflict(reg, r) THEN [reg.subs EXCEPT ![r.execution] = @ \cup {r.queue}]
    ELSE reg.subs

LEMMA WithTaskOK ==
  ASSUME NEW reg \in Registry, NEW r \in Job
  PROVE  /\ WithTask(reg, r) \in Registry
         /\ WithTask(reg, r).subs = reg.subs
         /\ WithTask(reg, r).tasks = IF r.handler = None THEN reg.tasks
                                     ELSE [reg.tasks EXCEPT ![r.name] = r.handler]
  BY DEF WithTask, Registry, Job

LEMMA EntryOK ==
  ASSUME NEW r \in Job, r.handler # None <=> r.queue \in Predefined
  PROVE  EntryOf(r) \in GoodEntry
  BY DEF EntryOf, TaskOf, GoodEntry, Entry, Job

LEMMA RegisteredOK ==
  ASSUME NEW reg \in Registry, NEW r, GoodRegistration(r)
  PROVE  /\ Registered(reg, r) \in Registry
         /\ Registered(reg, r).tasks = IF r.kind = "sub" \/ r.handler = None THEN reg.tasks
                                       ELSE [reg.tasks EXCEPT ![r.name] = r.handler]
         /\ Registered(reg, r).subs = SubsWith(reg, r)
  <1>1. CASE r \in Job /\ r.kind = "job"
    <2>1. Registered(reg, r) = JobRegistered(reg, r)
      BY <1>1 DEF Registered
    <2>2. EntryOf(r) \in GoodEntry /\ r.name \in Names
      BY <1>1, EntryOK DEF GoodRegistration, Job, Sub
    <2>3. \A k \in Registry : LET n == [k EXCEPT !.jobs[r.name] = EntryOf(r)]
                              IN n \in Registry /\ n.tasks = k.tasks /\ n.subs = k.subs
      BY <2>2 DEF Registry
    <2> QED BY <1>1, <2>1, <2>3, WithTaskOK DEF JobRegistered, SubsWith
  <1>2. CASE r \in Job /\ r.kind = "cron"
    <2>1. Registered(reg, r) = CronRegistered(reg, r)
      BY <1>2 DEF Registered
    <2>2. EntryOf(r) \in GoodEntry /\ r.name \in Names
      BY <1>2, EntryOK DEF GoodRegistration, Job, Sub
    <2>3. \A k \in Registry : LET n == [k EXCEPT !.crons[r.name] = EntryOf(r)]
                              IN n \in Registry /\ n.tasks = k.tasks /\ n.subs = k.subs
      BY <2>2 DEF Registry
    <2> QED BY <1>2, <2>1, <2>3, WithTaskOK DEF CronRegistered, SubsWith
  <1>3. CASE r \in Sub
    <2>1. r.kind = "sub" /\ r.execution \in Executions /\ r.queue \in Queues
      BY <1>3 DEF Sub
    <2>2. Registered(reg, r) = SubRegistered(reg, r)
      BY <2>1 DEF Registered
    <2> QED BY <2>1, <2>2 DEF SubRegistered, SubsWith, Registry
  <1>4. \A j \in Job : j.kind \in {"job", "cron"}
    BY DEF Job
  <1> QED BY <1>1, <1>2, <1>3, <1>4 DEF GoodRegistration

-------------------------------------------------------------------------------
(* A process that a step leaves alone.                                          *)
SameProc(p) ==
    /\ stage'[p] = stage[p] /\ program'[p] = program[p] /\ todo'[p] = todo[p]
    /\ registry'[p] = registry[p] /\ provider'[p] = provider[p] /\ consumes'[p] = consumes[p]

LEMMA ProcKept ==
  ASSUME NEW p \in Procs, ProcOK(p), SameProc(p), declared \subseteq declared'
  PROVE  ProcOK(p)'
  <1>1. StageOK(p)'
    BY DEF ProcOK, SameProc, StageOK
  <1>2. TasksMade(p)'
    BY DEF ProcOK, SameProc, TasksMade, Made
  <1>3. SubsMade(p)'
    BY DEF ProcOK, SameProc, SubsMade, SubscribersOf, Made, Belongs, FirstMade, OwnQueues
  <1> QED BY <1>1, <1>2, <1>3 DEF ProcOK

-------------------------------------------------------------------------------
(* The start of a process, and of a thread.                                     *)
LEMMA NothingMade ==
  ASSUME NEW v \in Programs \cup {<<>>}, NEW made, made \cap Jobs(v) = {},
         made \subseteq DOMAIN v, NEW n
  PROVE  HandlersAmong(v, made, n) = {}
  BY DEF HandlersAmong, Jobs

LEMMA StartsOK ==
  ASSUME ProcTypes, NEW p \in Procs, ProcOK(p), stage[p] = "off",
         NEW v \in Programs \cup {<<>>}, NEW load \in {DOMAIN v, Jobs(v)},
         p \notin Threads => load = DOMAIN v,
         Starts(p, v, load)
  PROVE  ProcTypes' /\ ProcOK(p)' /\ (\A o \in Procs \ {p} : SameProc(o))
  <1>1. /\ stage' = [stage EXCEPT ![p] = "loading"] /\ program' = [program EXCEPT ![p] = v]
        /\ todo' = [todo EXCEPT ![p] = load] /\ UNCHANGED <<provider, consumes, declared>>
    BY DEF Starts
  <1>2. PICK reg : /\ registry' = [registry EXCEPT ![p] = reg]
                   /\ reg = IF Execution[p] = "extra-process"
                            THEN [NoRegistry EXCEPT !.subs["extra-process"] = Predefined]
                            ELSE NoRegistry
    BY DEF Starts
  <1>3. /\ reg \in Registry /\ (\A n \in Names : reg.tasks[n] = None)
        /\ \A e \in Executions : reg.subs[e] = IF e = "extra-process" THEN PredefinedOf(p) ELSE {}
    BY <1>2, NoRegistryOK, WorkerAssumption DEF NoRegistry, Registry, PredefinedOf, Executions
  <1>4. DOMAIN v \subseteq Nat /\ load \subseteq DOMAIN v
    BY ProgramTypes DEF Jobs
  <1>5. ProcTypes'
    BY <1>1, <1>2, <1>3, <1>4 DEF ProcTypes
  <1>6. /\ stage'[p] = "loading" /\ program'[p] = v /\ todo'[p] = load /\ registry'[p] = reg
        /\ provider'[p] = "none" /\ consumes'[p] = {}
    BY <1>1, <1>2 DEF ProcTypes, ProcOK, StageOK
  <1>7. Made(p)' = DOMAIN v \ load
    BY <1>6 DEF Made
  <1>8. StageOK(p)'
    BY <1>4, <1>6 DEF StageOK
  <1>9. TasksMade(p)'
    <2> SUFFICES ASSUME NEW n \in Names PROVE HandlersAmong(v, DOMAIN v \ load, n) = {}
      BY <1>3, <1>6, <1>7 DEF TasksMade
    <2>1. (DOMAIN v \ load) \cap Jobs(v) = {}
      BY DEF Jobs
    <2> QED BY <2>1, NothingMade
  <1>10. SubsMade(p)'
    <2>1. CASE p \in Threads
      BY <1>6, <2>1 DEF SubsMade
    <2>2. CASE p \notin Threads
      <3>1. Made(p)' = {}
        BY <1>7, <2>2
      <3>2. SubscribersOf(p, reg.subs, {})'
        BY <1>3 DEF Belongs, FirstMade, PredefinedOf, SubscribersOf
      <3> QED BY <1>6, <3>1, <3>2 DEF SubsMade
    <2> QED BY <2>1, <2>2
  <1>11. \A o \in Procs \ {p} : SameProc(o)
    BY <1>1, <1>2 DEF SameProc, ProcTypes
  <1> QED BY <1>5, <1>8, <1>9, <1>10, <1>11 DEF ProcOK

-------------------------------------------------------------------------------
(* The registrations that have been made, when the next one is.                 *)
LEMMA OneMoreHandler ==
  ASSUME NEW v, NEW made, NEW i, NEW n
  PROVE  HandlersAmong(v, made \cup {i}, n) =
           HandlersAmong(v, made, n)
           \cup (IF v[i].kind # "sub" /\ v[i].name = n THEN {v[i].handler} \ {None} ELSE {})
  BY DEF HandlersAmong

(* The subscriber to be registered next is the first of its queue just when none*)
(* of those registered so far is for that queue.                                *)
LEMMA FirstIsFree ==
  ASSUME NEW p \in Procs, NEW v \in Programs \cup {<<>>}, program[p] = v,
         NEW made, NEW i \in DOMAIN v, made = 1 .. i - 1, NEW q
  PROVE  /\ v[i].kind = "sub" /\ v[i].queue = q =>
              (IsFirst(v, i) <=> ~\E e \in Executions : FirstMade(p, e, q, made))
  <1>1. /\ DOMAIN v = 1 .. Len(v) /\ Len(v) \in Nat
        /\ \A o \in DOMAIN v : o \in Nat /\ (v[o].kind = "sub" => v[o] \in Sub)
    BY ProgramTypes
  <1>2. ASSUME v[i].kind = "sub", v[i].queue = q, IsFirst(v, i), NEW e \in Executions,
               FirstMade(p, e, q, made)
        PROVE  FALSE
    BY <1>2 DEF FirstMade, IsFirst
  <1>3. ASSUME v[i].kind = "sub", v[i].queue = q, ~IsFirst(v, i)
        PROVE  \E e \in Executions : FirstMade(p, e, q, made)
    <2> DEFINE S == {o \in 1 .. i - 1 : v[o].kind = "sub" /\ v[o].queue = q}
    <2>1. S \subseteq Nat /\ S # {}
      BY <1>1, <1>3 DEF IsFirst
    <2>2. PICK f \in S : \A o \in S : f <= o
      BY <2>1, FirstExists
    <2>3. f \in made /\ f \in DOMAIN v /\ v[f].kind = "sub" /\ v[f].queue = q
      BY <1>1
    <2>4. v[f].execution \in Executions
      BY <1>1, <2>3 DEF Sub
    <2>5. ASSUME NEW o \in 1 .. f - 1, v[o].kind = "sub" PROVE v[o].queue # q
      <3>1. o \in 1 .. i - 1 /\ ~(f <= o)
        BY <1>1, <2>3
      <3> QED BY <2>2, <2>5, <3>1
    <2>6. IsFirst(v, f)
      BY <2>3, <2>5 DEF IsFirst
    <2> QED BY <2>3, <2>4, <2>6 DEF FirstMade
  <1> QED BY <1>2, <1>3

(* A registration that is made: the set of those made grows by the next one.    *)
LEMMA UpcomingIsNext ==
  ASSUME ProcTypes, NEW p \in Procs, ProcOK(p), todo[p] # {}
  PROVE  /\ Upcoming(p) \in todo[p] /\ Upcoming(p) \in DOMAIN program[p]
         /\ p \notin Threads /\ stage[p] = "loading" => Made(p) = 1 .. Upcoming(p) - 1
         /\ DOMAIN program[p] \ (todo[p] \ {Upcoming(p)}) = Made(p) \cup {Upcoming(p)}
         /\ \A o \in todo[p] \ {Upcoming(p)} : Upcoming(p) < o
  <1>1. program[p] \in Programs \cup {<<>>} /\ todo[p] \subseteq DOMAIN program[p] /\ todo[p] \subseteq Nat
    BY DEF ProcTypes, ProcOK, StageOK
  <1>2. PICK i : i = Upcoming(p)
    OBVIOUS
  <1>3. i \in todo[p] /\ \A o \in todo[p] : i <= o
    BY <1>1, <1>2, FirstExists DEF Upcoming
  <1>4. PICK v : v = program[p]
    OBVIOUS
  <1>5. DOMAIN v = 1 .. Len(v) /\ Len(v) \in Nat
    BY <1>1, <1>4, ProgramTypes
  <1>6. ASSUME p \notin Threads, stage[p] = "loading" PROVE Made(p) = 1 .. i - 1
    <2>1. Made(p) = DOMAIN v \ todo[p] /\ \A n \in Made(p), o \in todo[p] : n < o
      BY <1>4, <1>6 DEF Made, ProcOK, SubsMade
    <2>2. i \in 1 .. Len(v)
      BY <1>1, <1>3, <1>4, <1>5
    <2>3. ASSUME NEW n \in Made(p) PROVE n \in 1 .. i - 1
      BY <1>3, <1>5, <2>1, <2>2, <2>3
    <2>4. ASSUME NEW n \in 1 .. i - 1 PROVE n \in Made(p)
      <3>1. n \in DOMAIN v /\ ~(i <= n)
        BY <1>5, <2>2
      <3> QED BY <1>3, <2>1, <3>1
    <2> QED BY <2>3, <2>4
  <1>7. \A o \in todo[p] \ {i} : i < o
    BY <1>1, <1>3
  <1> QED BY <1>1, <1>2, <1>3, <1>6, <1>7 DEF Made

LEMMA OneMoreSubscriber ==
  ASSUME NEW p \in Procs, NEW v \in Programs \cup {<<>>}, program[p] = v, NEW i \in DOMAIN v,
         NEW reg \in Registry, SubscribersOf(p, reg.subs, 1 .. i - 1)
  PROVE  SubscribersOf(p, SubsWith(reg, v[i]), (1 .. i - 1) \cup {i})
  <1> DEFINE subs == SubsWith(reg, v[i])
  <1>0. PICK made : made = 1 .. i - 1
    OBVIOUS
  <1>1. \A e, q : FirstMade(p, e, q, made \cup {i}) <=>
             FirstMade(p, e, q, made) \/ (IsFirst(v, i) /\ v[i].queue = q /\ v[i].execution = e)
    BY DEF FirstMade
  <1>2. CASE v[i].kind # "sub"
    BY <1>0, <1>1, <1>2 DEF Belongs, IsFirst, SubscribersOf, SubsWith
  <1>3. CASE v[i].kind = "sub"
    <2>1. v[i].queue \in Queues /\ v[i].execution \in Executions
      BY <1>3, ProgramTypes DEF Sub
    <2>2. IsFirst(v, i) <=> ~\E e \in Executions : FirstMade(p, e, v[i].queue, made)
      BY <1>0, <1>3, FirstIsFree
    <2>3. Conflict(reg, v[i]) <=> v[i].queue \in PredefinedOf(p) \/ ~IsFirst(v, i)
      BY <1>0, <2>1, <2>2 DEF Conflict, Belongs, Executions, SubscribersOf
    <2>4. CASE Conflict(reg, v[i])
      <3>1. \A e \in Executions, q \in Queues : Belongs(p, e, q, made \cup {i}) <=> Belongs(p, e, q, made)
        BY <1>1, <2>3, <2>4 DEF Belongs
      <3> QED BY <1>0, <2>4, <3>1 DEF SubscribersOf, SubsWith
    <2>5. CASE ~Conflict(reg, v[i])
      <3>1. reg.subs \in [Executions -> SUBSET Queues]
        BY DEF Registry
      <3>2. \A e \in Executions : subs[e] = reg.subs[e] \cup (IF e = v[i].execution THEN {v[i].queue} ELSE {})
        BY <1>3, <2>1, <2>5, <3>1 DEF SubsWith
      <3>3. \A e \in Executions, q \in Queues : Belongs(p, e, q, made \cup {i}) <=>
               Belongs(p, e, q, made) \/ (e = v[i].execution /\ q = v[i].queue)
        BY <1>1, <2>3, <2>5 DEF Belongs
      <3>4. ASSUME NEW e \in Executions, NEW q \in Queues
            PROVE  q \in subs[e] <=> Belongs(p, e, q, made \cup {i})
        <4>1. q \in subs[e] <=> q \in reg.subs[e] \/ (e = v[i].execution /\ q = v[i].queue)
          BY <3>2
        <4>2. q \in reg.subs[e] <=> Belongs(p, e, q, made)
          BY <1>0 DEF SubscribersOf
        <4> QED BY <3>3, <4>1, <4>2
      <3> QED BY <1>0, <3>4 DEF SubscribersOf
    <2> QED BY <2>4, <2>5
  <1> QED BY <1>2, <1>3

LEMMA LoadOK ==
  ASSUME ProcTypes, NEW p \in Procs, ProcOK(p), stage[p] = "loading", todo[p] # {},
         registry' = [registry EXCEPT ![p] = Registered(@, program[p][Upcoming(p)])],
         todo' = [todo EXCEPT ![p] = @ \ {Upcoming(p)}],
         UNCHANGED <<stage, program, provider, consumes, declared>>
  PROVE  ProcTypes' /\ ProcOK(p)' /\ (\A o \in Procs \ {p} : SameProc(o))
  <1>1. PICK v, i, reg, made : v = program[p] /\ i = Upcoming(p) /\ reg = registry[p] /\ made = Made(p)
    OBVIOUS
  <1>2. /\ v \in Programs \cup {<<>>} /\ i \in DOMAIN v /\ reg \in Registry /\ todo[p] \subseteq DOMAIN v
        /\ i \in todo[p] /\ (p \notin Threads => made = 1 .. i - 1)
        /\ \A o \in todo[p] \ {i} : i < o
    BY <1>1, UpcomingIsNext DEF ProcTypes, ProcOK, StageOK
  <1>3. GoodRegistration(v[i])
    BY <1>2, ProgramTypes DEF GoodRegistration
  <1>4. PICK new : new = Registered(reg, v[i])
    OBVIOUS
  <1>5. /\ new \in Registry
        /\ new.tasks = IF v[i].kind = "sub" \/ v[i].handler = None THEN reg.tasks
                       ELSE [reg.tasks EXCEPT ![v[i].name] = v[i].handler]
        /\ new.subs = SubsWith(reg, v[i])
    BY <1>2, <1>3, <1>4, RegisteredOK
  <1>6. /\ stage'[p] = "loading" /\ program'[p] = v /\ todo'[p] = todo[p] \ {i} /\ registry'[p] = new
        /\ provider'[p] = provider[p] /\ consumes'[p] = consumes[p] /\ declared' = declared
        /\ \A o \in Procs \ {p} : SameProc(o)
    BY <1>1, <1>4 DEF ProcTypes, SameProc
  <1>7. ProcTypes'
    BY <1>1, <1>4, <1>5 DEF ProcTypes
  <1>8. StageOK(p)'
    BY <1>1, <1>2, <1>6 DEF StageOK, ProcOK
  <1>9. Made(p)' = made \cup {i}
    BY <1>1, <1>2, <1>6, UpcomingIsNext DEF Made
  <1>10. TasksMade(p)'
    <2> SUFFICES ASSUME NEW n \in Names
                 PROVE  LET handlers == HandlersAmong(v, made \cup {i}, n)
                        IN IF handlers = {} THEN new.tasks[n] = None ELSE new.tasks[n] \in handlers
      BY <1>6, <1>9 DEF TasksMade
    <2>1. LET handlers == HandlersAmong(v, made, n)
          IN IF handlers = {} THEN reg.tasks[n] = None ELSE reg.tasks[n] \in handlers
      BY <1>1 DEF ProcOK, TasksMade
    <2>2. HandlersAmong(v, made \cup {i}, n) =
             HandlersAmong(v, made, n)
             \cup (IF v[i].kind # "sub" /\ v[i].name = n THEN {v[i].handler} \ {None} ELSE {})
      BY ZenonT(60), OneMoreHandler
    <2>3. CASE v[i].kind # "sub" /\ v[i].name = n /\ v[i].handler # None
      <3>1. new.tasks[n] = v[i].handler
        BY <1>2, <1>5, <2>3 DEF Registry
      <3> QED BY <2>2, <2>3, <3>1
    <2>4. CASE ~(v[i].kind # "sub" /\ v[i].name = n /\ v[i].handler # None)
      <3>1. new.tasks[n] = reg.tasks[n]
        BY <1>2, <1>5, <2>4 DEF Registry
      <3>2. HandlersAmong(v, made \cup {i}, n) = HandlersAmong(v, made, n)
        BY <2>2, <2>4
      <3> QED BY <2>1, <3>1, <3>2
    <2> QED BY <2>3, <2>4
  <1>11. SubsMade(p)'
    <2>1. CASE p \in Threads
      BY <1>6, <2>1 DEF SubsMade, ProcOK, StageOK
    <2>2. CASE p \notin Threads
      <3>1. SubscribersOf(p, reg.subs, made) /\ (\A n \in made, o \in todo[p] : n < o)
        BY <1>1, <2>2 DEF ProcOK, SubsMade
      <3>2. SubscribersOf(p, new.subs, made \cup {i})
        <4>1. SubscribersOf(p, SubsWith(reg, v[i]), (1 .. i - 1) \cup {i})
          BY <1>1, <1>2, <2>2, <3>1, OneMoreSubscriber
        <4> QED BY <1>2, <1>5, <2>2, <4>1
      <3>3. ASSUME NEW e \in Executions, NEW q \in Queues
            PROVE  Belongs(p, e, q, made \cup {i})' <=> Belongs(p, e, q, made \cup {i})
        <4>1. program'[p] = program[p]
          BY <1>1, <1>6
        <4>2. FirstMade(p, e, q, made \cup {i})' <=> FirstMade(p, e, q, made \cup {i})
          BY <4>1 DEF FirstMade
        <4> QED BY <4>2 DEF Belongs
      <3>4. \A n \in made \cup {i}, o \in todo[p] \ {i} : n < o
        BY <1>2, <3>1
      <3>5. provider[p] # "configured" /\ provider[p] # "none" => FALSE
        BY DEF ProcOK, StageOK
      <3> QED BY ZenonT(60), <1>6, <1>9, <2>2, <3>2, <3>3, <3>4 DEF SubsMade, SubscribersOf, ProcOK, StageOK
    <2> QED BY <2>1, <2>2
  <1> QED BY <1>6, <1>7, <1>8, <1>10, <1>11 DEF ProcOK

-------------------------------------------------------------------------------
(* The other steps of a process.                                                *)
LEMMA GoneOK ==
  ASSUME ProcTypes, \A p \in Procs : ProcOK(p), NEW ps, Gone(ps)
  PROVE  ProcTypes' /\ \A p \in Procs : ProcOK(p)'
  <1>1. ProcTypes'
    <2>1. stage' \in [Procs -> {"off", "loading", "starting", "up"}]
      BY DEF Gone, ProcTypes
    <2>2. provider' \in [Procs -> {"none", "opening", "configured"}]
      BY DEF Gone, ProcTypes
    <2>3. todo' \in [Procs -> SUBSET Nat] /\ consumes' \in [Procs -> SUBSET Queues]
      BY DEF Gone, ProcTypes
    <2>4. registry' \in [Procs -> Registry]
      BY NoRegistryOK DEF Gone, ProcTypes
    <2> QED BY <2>1, <2>2, <2>3, <2>4 DEF Gone, ProcTypes
  <1>2. ASSUME NEW p \in Procs PROVE ProcOK(p)'
    <2>1. CASE p \in ps
      <3>1. /\ stage'[p] = "off" /\ todo'[p] = {} /\ provider'[p] = "none" /\ consumes'[p] = {}
        BY <2>1 DEF Gone
      <3>2. StageOK(p)'
        BY <3>1 DEF StageOK
      <3>3. TasksMade(p)'
        BY <3>1 DEF TasksMade
      <3>4. SubsMade(p)'
        BY <3>1 DEF SubsMade
      <3> QED BY <3>2, <3>3, <3>4 DEF ProcOK
    <2>2. CASE p \notin ps
      <3>1. SameProc(p) /\ declared \subseteq declared'
        BY <2>2 DEF Gone, SameProc
      <3> QED BY <3>1, ProcKept
    <2> QED BY <2>1, <2>2
  <1> QED BY <1>1, <1>2

LEMMA InitializeOK ==
  ASSUME ProcTypes, NEW p \in Procs, ProcOK(p), Initialize(p)
  PROVE  ProcTypes' /\ ProcOK(p)' /\ (\A o \in Procs \ {p} : SameProc(o))
  <1>1. stage[p] = "loading" /\ todo[p] = {} /\ provider[p] = "none" /\ consumes[p] = {}
    BY DEF Initialize, Loaded, ProcOK, StageOK
  <1>2. /\ stage'[p] = (IF Execution[p] = "main-process" THEN "up" ELSE "starting")
        /\ provider'[p] = (IF p \in Threads THEN "none" ELSE "opening") /\ todo'[p] = {}
        /\ program' = program /\ registry' = registry /\ consumes' = consumes /\ declared' = declared
        /\ \A o \in Procs \ {p} : SameProc(o)
    BY DEF Initialize, ProcTypes, SameProc
  <1>3. ProcTypes'
    <2>1. stage' \in [Procs -> {"off", "loading", "starting", "up"}]
      BY DEF Initialize, ProcTypes
    <2>2. provider' \in [Procs -> {"none", "opening", "configured"}]
      BY DEF Initialize, ProcTypes
    <2>3. todo' \in [Procs -> SUBSET Nat]
      BY DEF Initialize, ProcTypes
    <2> QED BY <1>2, <2>1, <2>2, <2>3 DEF ProcTypes
  <1>4. StageOK(p)'
    BY <1>1, <1>2 DEF StageOK
  <1>5. Made(p) = DOMAIN program[p] /\ Made(p)' = Made(p)
    BY <1>1, <1>2 DEF Made
  <1>6. TasksMade(p)'
    BY <1>1, <1>2, <1>5 DEF TasksMade, ProcOK
  <1>7. SubsMade(p)'
    <2>1. CASE p \in Threads
      BY <1>2, <2>1 DEF SubsMade, Threads
    <2>2. CASE p \notin Threads
      <3>1. Execution[p] \in Executions
        BY <2>2, WorkerAssumption DEF Threads
      <3>2. \A q \in Queues : q \in registry[p].subs[Execution[p]]
                               <=> Belongs(p, Execution[p], q, DOMAIN program[p])
        BY <1>1, <1>5, <2>2, <3>1 DEF ProcOK, SubsMade, SubscribersOf
      <3>3. ASSUME NEW q \in Queues
            PROVE  Belongs(p, Execution[p], q, DOMAIN program[p])'
                   <=> Belongs(p, Execution[p], q, DOMAIN program[p])
        BY <1>2 DEF Belongs, FirstMade
      <3> QED BY <1>2, <2>2, <3>2, <3>3 DEF SubsMade
    <2> QED BY <2>1, <2>2
  <1> QED BY <1>2, <1>3, <1>4, <1>6, <1>7 DEF ProcOK

LEMMA CleanupOK ==
  ASSUME ProcTypes, NEW p \in Procs, ProcOK(p), Cleanup(p)
  PROVE  ProcTypes' /\ ProcOK(p)' /\ (\A o \in Procs \ {p} : SameProc(o))
  <1>1. PICK subs : /\ registry' = [registry EXCEPT ![p].subs = subs]
                    /\ subs = [e \in Executions |-> IF e \in Clean(p) THEN {} ELSE registry[p].subs[e]]
    BY DEF Cleanup
  <1>2. /\ stage[p] = "starting" /\ Execution[p] # "main-process" /\ todo[p] = {}
        /\ registry[p] \in Registry
    BY DEF Cleanup, ProcOK, StageOK, ProcTypes
  <1>3. subs \in [Executions -> SUBSET Queues]
    BY <1>1, <1>2 DEF Registry
  <1>4. [registry[p] EXCEPT !.subs = subs] \in Registry
    BY <1>2, <1>3 DEF Registry
  <1>5. registry'[p].subs = subs /\ registry'[p].tasks = registry[p].tasks
    BY <1>1, <1>2 DEF Registry, ProcTypes
  <1>6. /\ stage'[p] = "up" /\ provider' = provider /\ todo' = todo /\ program' = program
        /\ consumes' = consumes /\ declared' = declared /\ \A o \in Procs \ {p} : SameProc(o)
    BY <1>1 DEF Cleanup, ProcTypes, SameProc
  <1>7. ProcTypes'
    <2>1. stage' \in [Procs -> {"off", "loading", "starting", "up"}]
      BY DEF Cleanup, ProcTypes
    <2>2. registry' \in [Procs -> Registry]
      BY <1>1, <1>4 DEF ProcTypes
    <2> QED BY <1>6, <2>1, <2>2 DEF ProcTypes
  <1>8. StageOK(p)'
    BY <1>2, <1>6 DEF StageOK, ProcOK
  <1>9. TasksMade(p)'
    BY <1>2, <1>5, <1>6 DEF TasksMade, ProcOK, Made
  <1>10. SubsMade(p)'
    <2>1. CASE p \in Threads
      <3>1. \A e \in Executions : subs[e] = {}
        BY <1>1, <2>1 DEF Clean
      <3>2. provider[p] # "configured"
        BY <1>2, <2>1 DEF ProcOK, StageOK
      <3> QED BY <1>5, <1>6, <2>1, <3>1, <3>2 DEF SubsMade
    <2>2. CASE p \notin Threads
      <3>1. Execution[p] \in Executions
        BY <2>2, WorkerAssumption DEF Threads
      <3>2. subs[Execution[p]] = registry[p].subs[Execution[p]]
        BY <1>1, <1>2, <2>2, <3>1 DEF Clean
      <3>3. ASSUME NEW q \in Queues
            PROVE  Belongs(p, Execution[p], q, DOMAIN program[p])'
                   <=> Belongs(p, Execution[p], q, DOMAIN program[p])
        BY <1>6 DEF Belongs, FirstMade
      <3>4. OwnQueues(p)' = OwnQueues(p)
        BY <1>6 DEF OwnQueues
      <3> QED BY <1>2, <1>5, <1>6, <2>2, <3>2, <3>3, <3>4 DEF SubsMade, ProcOK
    <2> QED BY <2>1, <2>2
  <1> QED BY <1>6, <1>7, <1>8, <1>9, <1>10 DEF ProcOK

(* What is found in the bucket of an execution when all is registered.          *)
LEMMA BelongsToOwn ==
  ASSUME ProcTypes, NEW p \in Procs, p \notin Threads
  PROVE  /\ OwnQueues(p) \subseteq Queues
         /\ \A q \in Queues : Belongs(p, Execution[p], q, DOMAIN program[p]) <=> q \in OwnQueues(p)
  <1>1. program[p] \in Programs \cup {<<>>} /\ Execution[p] \in Executions
    BY WorkerAssumption DEF ProcTypes, Threads
  <1>2. \A i \in DOMAIN program[p] : IsFirst(program[p], i) => program[p][i].queue \in Queues
    BY <1>1, ProgramTypes DEF IsFirst, Sub
  <1>3. OwnQueues(p) \subseteq Queues
    BY <1>2, WorkerAssumption DEF OwnQueues
  <1>4. ASSUME NEW q \in Queues
        PROVE  Belongs(p, Execution[p], q, DOMAIN program[p]) <=> q \in OwnQueues(p)
    BY <1>1 DEF Belongs, FirstMade, PredefinedOf, OwnQueues, Executions
  <1> QED BY <1>3, <1>4

LEMMA SetupOK ==
  ASSUME ProcTypes, NEW p \in Procs, ProcOK(p), Setup(p)
  PROVE  ProcTypes' /\ ProcOK(p)' /\ (\A o \in Procs \ {p} : SameProc(o)) /\ declared \subseteq declared'
  <1>1. PICK e : e = Bucket(Execution[p])
    OBVIOUS
  <1>2. /\ consumes' = [consumes EXCEPT ![p] = registry[p].subs[e]]
        /\ declared' = declared \cup registry[p].subs[e]
        /\ registry' = [registry EXCEPT ![p].subs[e] = {}]
        /\ provider' = [provider EXCEPT ![p] = "configured"]
        /\ stage' = stage /\ program' = program /\ todo' = todo /\ provider[p] = "opening"
    BY <1>1 DEF Setup, SetupDue
  <1>3. /\ e \in Executions /\ registry[p] \in Registry /\ registry[p].subs[e] \subseteq Queues
        /\ (p \notin Threads => e = Execution[p])
    BY <1>1, WorkerAssumption DEF Bucket, Executions, Threads, ProcTypes, Registry
  <1>4. [registry[p] EXCEPT !.subs[e] = {}] \in Registry
    BY <1>3 DEF Registry
  <1>5. /\ registry'[p].tasks = registry[p].tasks
        /\ \A b \in Executions : registry'[p].subs[b] = IF b = e THEN {} ELSE registry[p].subs[b]
    BY <1>2, <1>3 DEF Registry, ProcTypes
  <1>6. consumes'[p] = registry[p].subs[e] /\ provider'[p] = "configured"
    BY <1>2 DEF ProcTypes
  <1>7. \A o \in Procs \ {p} : SameProc(o)
    BY <1>2 DEF SameProc, ProcTypes
  <1>8. ProcTypes'
    <2>1. provider' \in [Procs -> {"none", "opening", "configured"}]
      BY <1>2 DEF ProcTypes
    <2>2. registry' \in [Procs -> Registry] /\ consumes' \in [Procs -> SUBSET Queues]
      BY <1>2, <1>3, <1>4 DEF ProcTypes
    <2> QED BY <1>2, <2>1, <2>2 DEF ProcTypes
  <1>9. stage[p] \in {"starting", "up"} /\ (p \in Threads => stage[p] = "up")
    BY <1>2 DEF ProcOK, StageOK
  <1>10. StageOK(p)'
    BY <1>2, <1>6, <1>9 DEF StageOK, ProcOK
  <1>11. TasksMade(p)'
    BY <1>2, <1>5 DEF TasksMade, ProcOK, Made
  <1>12. SubsMade(p)'
    <2>1. CASE p \in Threads
      <3>1. \A b \in Executions : registry[p].subs[b] = {}
        BY <1>9, <2>1 DEF ProcOK, SubsMade
      <3> QED BY <1>2, <1>3, <1>5, <1>6, <1>9, <2>1, <3>1 DEF SubsMade
    <2>2. CASE p \notin Threads
      <3>1. \A q \in Queues : q \in registry[p].subs[e] <=> Belongs(p, e, q, DOMAIN program[p])
        BY <1>2, <1>3, <1>9, <2>2 DEF ProcOK, SubsMade
      <3>2. registry[p].subs[e] = OwnQueues(p)
        BY <1>3, <2>2, <3>1, BelongsToOwn
      <3>3. OwnQueues(p)' = OwnQueues(p)
        BY <1>2 DEF OwnQueues
      <3> QED BY <1>2, <1>6, <1>9, <2>2, <3>2, <3>3 DEF SubsMade
    <2> QED BY <2>1, <2>2
  <1> QED BY <1>2, <1>7, <1>8, <1>10, <1>11, <1>12 DEF ProcOK

-------------------------------------------------------------------------------
(* Calls: their fields are constants but for pc, and for mixed, which is set.   *)
CallsGrow ==
    /\ DOMAIN call \subseteq DOMAIN call' /\ Len(call) <= Len(call')
    /\ \A c \in DOMAIN call :
         /\ call'[c].by = call[c].by /\ call'[c].name = call[c].name
         /\ call'[c].given = call[c].given /\ call'[c].held = call[c].held
         /\ call[c].mixed => call'[c].mixed

LEMMA FunctionIsSeq ==
  ASSUME NEW S, NEW n \in Nat, NEW f \in [1 .. n -> S]
  PROVE  f \in Seq(S) /\ Len(f) = n
  <1>1. f \in Seq(S)
    BY SeqDef
  <1>2. DOMAIN f = 1 .. Len(f) /\ Len(f) \in Nat
    BY <1>1, LenProperties
  <1> QED BY <1>1, <1>2

LEMMA CallTypes ==
  ASSUME WCallsOK
  PROVE  /\ DOMAIN call = 1 .. Len(call) /\ Len(call) \in Nat /\ call \in [1 .. Len(call) -> CallRecords]
         /\ \A c \in DOMAIN call : call[c] \in CallRecords
  BY LenProperties DEF WCallsOK

LEMMA GivenKept ==
  ASSUME CallsGrow, NEW p, NEW n, NEW args, GivenBy(p, n, args)
  PROVE  GivenBy(p, n, args)'
  BY DEF CallsGrow, GivenBy

LEMMA MessageKept ==
  ASSUME WCallsOK, CallsGrow, Len(call') \in Nat, NEW m, MessageOK(m)
  PROVE  MessageOK(m)'
  <1>1. m.call \in 0 .. Len(call) /\ DOMAIN call = 1 .. Len(call) /\ Len(call) \in Nat
    BY CallTypes DEF MessageOK
  <1>2. m.call \in 0 .. Len(call')
    BY <1>1 DEF CallsGrow
  <1>3. PICK by, name : by = call[m.call].by /\ name = call[m.call].name
    OBVIOUS
  <1>4. ASSUME m.call # 0
        PROVE  /\ m.call \in DOMAIN call /\ call'[m.call].by = by /\ call'[m.call].name = name
               /\ call'[m.call].given = call[m.call].given /\ (call[m.call].mixed => call'[m.call].mixed)
    BY <1>1, <1>3, <1>4 DEF CallsGrow
  <1>5. GivenBy(by, name, m.args) => GivenBy(by, name, m.args)'
    BY GivenKept
  <1>6. ASSUME m.call # 0, call'[m.call].given # None
        PROVE  \/ m.args = call'[m.call].given
               \/ /\ call'[m.call].mixed /\ m.task # None
                  /\ GivenBy(by, name, m.args)'
    BY <1>3, <1>4, <1>5, <1>6 DEF MessageOK
  <1>7. ASSUME m.call # 0
        PROVE  GivenBy(call[m.call].by, call[m.call].name, m.args)' = GivenBy(by, name, m.args)'
    BY <1>4, <1>7
  <1> QED BY <1>2, <1>6, <1>7 DEF MessageOK

LEMMA BoxKept ==
  ASSUME WCallsOK, BoxOK, CallsGrow, Len(call') \in Nat, box' \subseteq box, ended' = ended
  PROVE  BoxOK'
  BY MessageKept DEF BoxOK

LEMMA SameCallsGrow ==
  ASSUME WCallsOK, call' = call
  PROVE  CallsGrow /\ Len(call') \in Nat
  BY CallTypes DEF CallsGrow

(* A call that waits in a process that is up is not concerned by the others.    *)
LEMMA PendingKept ==
  ASSUME CallsGrow, NEW c \in DOMAIN call, PendingOK(c), NEW p, p = call[c].by,
         stage'[p] = stage[p], provider[p] # "none" => provider'[p] # "none",
         registry'[p].jobs[call[c].name] = registry[p].jobs[call[c].name]
  PROVE  PendingOK(c)'
  <1>1. PICK n, job : n = call[c].name /\ job = registry[p].jobs[n]
    OBVIOUS
  <1>2. /\ stage[p] = "up" /\ provider[p] # "none" /\ job \in GoodEntry
        /\ call[c].given # None =>
             /\ call[c].held = call[c].given
             /\ job.args = call[c].given \/ (call[c].mixed /\ GivenBy(p, n, job.args))
    BY <1>1 DEF PendingOK
  <1>3. /\ call'[c].by = p /\ call'[c].name = n /\ call'[c].given = call[c].given
        /\ call'[c].held = call[c].held /\ (call[c].mixed => call'[c].mixed)
    BY <1>1 DEF CallsGrow
  <1>4. GivenBy(p, n, job.args) => GivenBy(p, n, job.args)'
    BY GivenKept
  <1>5. registry'[call'[c].by].jobs[call'[c].name] = job
    BY <1>1, <1>3
  <1>6. stage'[call'[c].by] = "up" /\ provider'[call'[c].by] # "none"
    BY <1>2, <1>3
  <1>7. ASSUME call'[c].given # None
        PROVE  job.args = call'[c].given \/ (call'[c].mixed /\ GivenBy(p, n, job.args)')
    BY <1>2, <1>3, <1>4, <1>7
  <1>8. GivenBy(call[c].by, call[c].name, registry[call[c].by].jobs[call[c].name].args)' = GivenBy(p, n, job.args)'
    BY <1>3, <1>5
  <1> QED BY <1>2, <1>3, <1>5, <1>6, <1>7, <1>8 DEF PendingOK

LEMMA CallsIdle ==
  ASSUME WCallsOK, call' = call,
         \A p \in Procs : stage[p] = "up" =>
            /\ stage'[p] = "up" /\ registry'[p].jobs = registry[p].jobs
            /\ provider[p] # "none" => provider'[p] # "none"
  PROVE  WCallsOK'
  <1>1. ASSUME NEW c \in DOMAIN call, call[c].pc = "pending" PROVE PendingOK(c)'
    <2>1. CallsGrow /\ PendingOK(c) /\ call[c].by \in Procs /\ stage[call[c].by] = "up"
      BY <1>1, SameCallsGrow, CallTypes DEF WCallsOK, PendingOK, CallRecords
    <2>2. PICK p \in Procs : p = call[c].by
      BY <2>1
    <2>3. stage'[p] = "up" /\ stage[p] = "up" /\ registry'[p].jobs = registry[p].jobs
          /\ (provider[p] # "none" => provider'[p] # "none")
      BY <2>1, <2>2
    <2>4. registry'[p].jobs[call[c].name] = registry[p].jobs[call[c].name] /\ stage'[p] = stage[p]
      BY <2>3
    <2> QED BY <1>1, <2>1, <2>2, <2>3, <2>4, PendingKept
  <1> QED BY <1>1 DEF WCallsOK

(* Processes that end take their pending calls with them.                       *)
LEMMA GoneCalls ==
  ASSUME ProcTypes, WCallsOK, BoxOK, NEW ps, Gone(ps)
  PROVE  WCallsOK' /\ BoxOK'
  <1>1. call' = [c \in DOMAIN call |-> IF call[c].pc = "pending" /\ call[c].by \in ps
                                     THEN [call[c] EXCEPT !.pc = "lost"] ELSE call[c]]
    BY DEF Gone
  <1>2. \A r \in CallRecords :
          LET l == [r EXCEPT !.pc = "lost"]
          IN /\ l \in CallRecords /\ l.pc = "lost" /\ l.by = r.by /\ l.name = r.name
             /\ l.given = r.given /\ l.held = r.held /\ l.mixed = r.mixed
    BY DEF CallRecords
  <1>3. \A c \in DOMAIN call :
          /\ call'[c] \in CallRecords /\ call'[c].by = call[c].by /\ call'[c].name = call[c].name
          /\ call'[c].given = call[c].given /\ call'[c].held = call[c].held /\ call'[c].mixed = call[c].mixed
          /\ call'[c].pc = "pending" => call[c].pc = "pending" /\ call[c].by \notin ps
    BY <1>1, <1>2, CallTypes
  <1>4. call' \in [1 .. Len(call) -> CallRecords]
    BY <1>1, <1>3, CallTypes
  <1>5. call' \in Seq(CallRecords) /\ Len(call') = Len(call)
    BY <1>4, CallTypes, FunctionIsSeq
  <1>6. CallsGrow
    <2>1. DOMAIN call' = DOMAIN call
      BY <1>1
    <2> QED BY <1>3, <1>5, <2>1, CallTypes DEF CallsGrow
  <1>7. ASSUME NEW c \in DOMAIN call', call'[c].pc = "pending" PROVE PendingOK(c)'
    <2>1. c \in DOMAIN call /\ call[c].pc = "pending" /\ call[c].by \in Procs /\ call[c].by \notin ps
      BY <1>1, <1>3, <1>7, CallTypes DEF CallRecords
    <2>2. PICK p \in Procs : p = call[c].by
      BY <2>1
    <2>3. stage'[p] = stage[p] /\ provider'[p] = provider[p] /\ registry'[p] = registry[p]
      BY <2>1, <2>2 DEF Gone
    <2>4. PendingOK(c)
      BY <2>1 DEF WCallsOK
    <2> QED BY <1>6, <2>1, <2>2, <2>3, <2>4, PendingKept
  <1>8. WCallsOK'
    BY <1>5, <1>7 DEF WCallsOK
  <1>9. box' \subseteq box /\ ended' = ended
    BY DEF Gone
  <1>10. BoxOK'
    BY <1>5, <1>6, <1>9, CallTypes, BoxKept
  <1> QED BY <1>8, <1>10

(* A call that is sent.                                                         *)
LEMMA SendOK ==
  ASSUME ProcTypes, WCallsOK, BoxOK, NEW c \in DOMAIN call, Send(c)
  PROVE  WCallsOK' /\ BoxOK'
  <1>1. PICK p, n, job, given :
           p = call[c].by /\ n = call[c].name /\ job = registry[p].jobs[n] /\ given = call[c].given
    OBVIOUS
  <1>2. /\ call[c].pc = "pending" /\ call' = [call EXCEPT ![c].pc = "sent"]
        /\ UNCHANGED <<stage, provider, registry, ended>>
        /\ box' = IF job.queue \in declared THEN box \cup {MessageOf(c, n, job, job.queue, Payload(c))} ELSE box
    BY <1>1 DEF Send, procVars
  <1>3. /\ p \in Procs /\ n \in Names /\ given \in Args \cup {None} /\ call[c].held \in Args \cup {None}
        /\ call[c] \in CallRecords
    BY <1>1, CallTypes DEF CallRecords
  <1>4. [call[c] EXCEPT !.pc = "sent"] \in CallRecords
    BY <1>3 DEF CallRecords
  <1>5. call' \in [1 .. Len(call) -> CallRecords] /\ DOMAIN call' = DOMAIN call
    BY <1>2, <1>4, CallTypes
  <1>6. call' \in Seq(CallRecords) /\ Len(call') = Len(call)
    BY <1>5, CallTypes, FunctionIsSeq
  <1>7. \A d \in DOMAIN call :
          /\ call'[d].by = call[d].by /\ call'[d].name = call[d].name /\ call'[d].given = call[d].given
          /\ call'[d].held = call[d].held /\ call'[d].mixed = call[d].mixed
          /\ call'[d].pc = IF d = c THEN "sent" ELSE call[d].pc
    BY <1>2, <1>3, CallTypes DEF CallRecords
  <1>8. CallsGrow
    BY <1>5, <1>6, <1>7, CallTypes DEF CallsGrow
  <1>9. ASSUME NEW d \in DOMAIN call', call'[d].pc = "pending" PROVE PendingOK(d)'
    <2>1. d \in DOMAIN call /\ call[d].pc = "pending"
      BY <1>5, <1>7, <1>9
    <2>2. PendingOK(d)
      BY <2>1 DEF WCallsOK
    <2>3. PICK o : o = call[d].by
      OBVIOUS
    <2> QED BY <1>2, <1>8, <2>1, <2>2, <2>3, PendingKept
  <1>10. WCallsOK'
    BY <1>6, <1>9 DEF WCallsOK
  <1>11. PendingOK(c)
    BY <1>2 DEF WCallsOK
  <1>12. /\ job \in GoodEntry
         /\ given # None =>
              /\ call[c].held = given
              /\ job.args = given \/ (call[c].mixed /\ GivenBy(p, n, job.args))
    BY <1>1, <1>11 DEF PendingOK
  <1>13. PICK args : args = Payload(c)
    OBVIOUS
  <1>14. args = IF job.task # None THEN job.args ELSE call[c].held
    BY <1>1, <1>13 DEF Payload, PayloadShared
  <1>15. MessageOK(MessageOf(c, n, job, job.queue, args))'
    <2>1. PICK m : m = MessageOf(c, n, job, job.queue, args)
      OBVIOUS
    <2>2. m.call = c /\ m.name = n /\ m.queue = job.queue /\ m.task = job.task /\ m.args = args
      BY <2>1 DEF MessageOf
    <2>3. /\ job.queue \in Queues /\ job.task \in Names \cup {None} /\ job.args \in Args \cup {None}
          /\ (job.task # None => job.queue \in Predefined)
      BY <1>12 DEF GoodEntry, Entry
    <2>4. args \in Args \cup {None}
      BY <1>3, <1>14, <2>3
    <2>5. c \in 1 .. Len(call) /\ Len(call) <= MaxCalls /\ MaxCalls \in Nat
      BY CallTypes, WorkerAssumption DEF WCallsOK
    <2>6. m \in Message
      BY <1>3, <2>1, <2>3, <2>4, <2>5, CallTypes DEF Message, MessageOf
    <2>7. m.call \in 0 .. Len(call)' /\ m.call # 0
      BY <1>6, <2>2, <2>5, CallTypes
    <2>8. /\ call'[m.call].given = given /\ call'[m.call].by = p /\ call'[m.call].name = n
          /\ (call[c].mixed => call'[m.call].mixed)
      BY <1>1, <1>7, <2>2
    <2>9. GivenBy(p, n, job.args) => GivenBy(p, n, job.args)'
      BY <1>8, GivenKept
    <2>10. GivenBy(call[m.call].by, call[m.call].name, m.args)' = GivenBy(p, n, args)'
      BY <2>2, <2>8
    <2>11. given # None => args = given \/ (call'[m.call].mixed /\ m.task # None /\ GivenBy(p, n, args)')
      <3>1. CASE job.task # None
        <4>1. args = job.args
          BY <1>14, <3>1
        <4> QED BY <1>12, <2>2, <2>8, <2>9, <3>1, <4>1
      <3>2. CASE job.task = None
        BY <1>12, <1>14, <3>2
      <3> QED BY <3>1, <3>2
    <2>12. MessageOK(m)'
      BY <2>2, <2>3, <2>6, <2>7, <2>8, <2>10, <2>11 DEF MessageOK
    <2> QED BY <2>1, <2>12
  <1>16. \A m : MessageOK(m) => MessageOK(m)'
    BY <1>6, <1>8, CallTypes, MessageKept
  <1>17. BoxOK'
    BY <1>2, <1>13, <1>15, <1>16 DEF BoxOK
  <1> QED BY <1>10, <1>17

(* A call that is made: the registered arguments are its own when it has any,   *)
(* and the calls of the same job that wait are mixed with it.                   *)
LEMMA SetArgsOK ==
  ASSUME ProcTypes, NEW p \in Procs, NEW n \in Names, NEW given \in Args \cup {None},
         registry[p].jobs[n] \in GoodEntry, SetArgs(p, n, given)
  PROVE  /\ registry' \in [Procs -> Registry] /\ JobArgs(p, n, given) \in Args \cup {None}
         /\ \A o \in Procs : /\ registry'[o].tasks = registry[o].tasks
                             /\ registry'[o].subs = registry[o].subs
                             /\ o # p => registry'[o] = registry[o]
         /\ \A m \in Names : m # n => registry'[p].jobs[m] = registry[p].jobs[m]
         /\ registry'[p].jobs[n] = [registry[p].jobs[n] EXCEPT !.args = JobArgs(p, n, given)]
         /\ registry'[p].jobs[n] \in GoodEntry /\ registry'[p].jobs[n].args = JobArgs(p, n, given)
  <1>1. PICK args, reg, job : args = JobArgs(p, n, given) /\ reg = registry[p] /\ job = registry[p].jobs[n]
    OBVIOUS
  <1>2. args \in Args \cup {None} /\ reg \in Registry /\ job \in GoodEntry
    BY <1>1 DEF JobArgs, GoodEntry, Entry, ProcTypes
  <1>3. registry' = [registry EXCEPT ![p].jobs[n].args = args]
    BY <1>1 DEF SetArgs
  <1>4. PICK new : new = [job EXCEPT !.args = args]
    OBVIOUS
  <1>5. new \in GoodEntry /\ new.args = args
    BY <1>2, <1>4 DEF GoodEntry, Entry
  <1>6. PICK after : after = [reg EXCEPT !.jobs[n] = new]
    OBVIOUS
  <1>7. /\ after \in Registry /\ after.tasks = reg.tasks /\ after.subs = reg.subs
        /\ after.jobs[n] = new /\ \A m \in Names : m # n => after.jobs[m] = reg.jobs[m]
    BY <1>2, <1>5, <1>6 DEF Registry
  <1>8. registry' = [registry EXCEPT ![p] = after]
    BY <1>1, <1>3, <1>4, <1>6
  <1>9. registry' \in [Procs -> Registry] /\ registry'[p] = after /\ \A o \in Procs : o # p => registry'[o] = registry[o]
    BY <1>7, <1>8 DEF ProcTypes
  <1> QED BY <1>1, <1>2, <1>4, <1>5, <1>7, <1>9

(* The process of the call is as it was, but for the arguments; a thread that   *)
(* runs its first job opens its provider.                                       *)
LEMMA CallerOK ==
  ASSUME ProcTypes, NEW p \in Procs, ProcOK(p), stage[p] = "up",
         registry'[p].tasks = registry[p].tasks, registry'[p].subs = registry[p].subs,
         provider'[p] = IF provider[p] = "none" THEN "opening" ELSE provider[p],
         UNCHANGED <<stage, program, todo, consumes, declared>>
  PROVE  ProcOK(p)'
  <1>1. StageOK(p)'
    BY DEF ProcOK, StageOK
  <1>2. TasksMade(p)'
    BY DEF ProcOK, TasksMade, Made
  <1>3. SubsMade(p)'
    <2>1. CASE p \in Threads
      <3>1. consumes[p] = {} \/ provider[p] = "configured"
        BY DEF ProcOK, StageOK
      <3> QED BY <2>1 DEF ProcOK, SubsMade
    <2>2. CASE p \notin Threads
      <3>1. provider'[p] = provider[p]
        BY <2>2 DEF ProcOK, SubsMade
      <3>2. OwnQueues(p)' = OwnQueues(p)
        BY DEF OwnQueues
      <3>3. ASSUME NEW q \in Queues
            PROVE  Belongs(p, Execution[p], q, DOMAIN program[p])'
                   <=> Belongs(p, Execution[p], q, DOMAIN program[p])
        BY DEF Belongs, FirstMade
      <3> QED BY <2>2, <3>1, <3>2, <3>3 DEF ProcOK, SubsMade
    <2> QED BY <2>1, <2>2
  <1> QED BY <1>1, <1>2, <1>3 DEF ProcOK

LEMMA MixedOK ==
  ASSUME WCallsOK, NEW p \in Procs, NEW n \in Names, NEW given \in Args \cup {None}
  PROVE  /\ Mixed(p, n, given) \in Seq(CallRecords) /\ Len(Mixed(p, n, given)) = Len(call)
         /\ \A c \in DOMAIN call :
              LET m == Mixed(p, n, given)[c]
              IN /\ m.pc = call[c].pc /\ m.by = call[c].by /\ m.name = call[c].name
                 /\ m.given = call[c].given /\ m.held = call[c].held /\ (call[c].mixed => m.mixed)
                 /\ call[c].pc = "pending" /\ call[c].by = p /\ call[c].name = n /\ given # None => m.mixed
  <1>1. PICK s : s = Mixed(p, n, given)
    OBVIOUS
  <1>2. s = [c \in DOMAIN call |->
                IF call[c].pc = "pending" /\ call[c].by = p /\ call[c].name = n /\ given # None
                THEN [call[c] EXCEPT !.mixed = TRUE] ELSE call[c]]
    BY <1>1 DEF Mixed
  <1>3. ASSUME NEW r \in CallRecords
        PROVE  LET x == [r EXCEPT !.mixed = TRUE]
               IN /\ x \in CallRecords /\ x.pc = r.pc /\ x.by = r.by /\ x.name = r.name
                  /\ x.given = r.given /\ x.held = r.held /\ x.mixed = TRUE
    BY DEF CallRecords
  <1>4. \A c \in DOMAIN call :
          /\ s[c] \in CallRecords
          /\ s[c].pc = call[c].pc /\ s[c].by = call[c].by /\ s[c].name = call[c].name
          /\ s[c].given = call[c].given /\ s[c].held = call[c].held
    BY <1>2, <1>3, CallTypes
  <1>5. ASSUME NEW c \in DOMAIN call
        PROVE  /\ call[c].mixed => s[c].mixed
               /\ call[c].pc = "pending" /\ call[c].by = p /\ call[c].name = n /\ given # None => s[c].mixed
    BY <1>2, <1>3, CallTypes
  <1>6. s \in [1 .. Len(call) -> CallRecords]
    BY <1>2, <1>4, CallTypes
  <1>7. s \in Seq(CallRecords) /\ Len(s) = Len(call)
    BY <1>6, CallTypes, FunctionIsSeq
  <1> QED BY <1>1, <1>4, <1>5, <1>7

NewCall(pc, p, n, given, held) ==
    [pc |-> pc, by |-> p, name |-> n, given |-> given, held |-> held, mixed |-> FALSE]

LEMMA CalledOK ==
  ASSUME ProcTypes, WCallsOK, NEW p \in Procs, NEW n \in Names, NEW given \in Args \cup {None},
         NEW pc \in {"pending", "sent", "refused"}, NEW held \in Args \cup {None},
         Called(p), registry[p].jobs[n] \in GoodEntry, SetArgs(p, n, given),
         call' = Append(Mixed(p, n, given), NewCall(pc, p, n, given, held)),
         pc = "pending" => held = JobArgs(p, n, given),
         stage' = stage, pc = "pending" => provider'[p] # "none",
         \A o \in Procs : provider[o] # "none" => provider'[o] # "none"
  PROVE  WCallsOK' /\ CallsGrow /\ Len(call') = Len(call) + 1 /\ call'[Len(call')] = NewCall(pc, p, n, given, held)
  <1>1. PICK s, new, L : s = Mixed(p, n, given) /\ new = NewCall(pc, p, n, given, held) /\ L = Len(call)
    OBVIOUS
  <1>2. /\ s \in Seq(CallRecords) /\ Len(s) = L /\ L \in Nat /\ DOMAIN call = 1 .. L
        /\ \A c \in DOMAIN call :
              /\ s[c].pc = call[c].pc /\ s[c].by = call[c].by /\ s[c].name = call[c].name
              /\ s[c].given = call[c].given /\ s[c].held = call[c].held /\ (call[c].mixed => s[c].mixed)
              /\ call[c].pc = "pending" /\ call[c].by = p /\ call[c].name = n /\ given # None => s[c].mixed
    BY <1>1, MixedOK, CallTypes
  <1>3. new \in CallRecords
    BY <1>1 DEF NewCall, CallRecords
  <1>4. /\ call' = Append(s, new) /\ call' \in Seq(CallRecords) /\ Len(call') = L + 1
        /\ call'[L + 1] = new /\ DOMAIN call' = 1 .. L + 1
        /\ \A c \in 1 .. L : call'[c] = s[c]
    BY <1>1, <1>2, <1>3
  <1>5. CallsGrow
    BY <1>1, <1>2, <1>4 DEF CallsGrow
  <1>6. PICK job, after, args : job = registry[p].jobs[n] /\ after = registry'[p].jobs[n] /\ args = JobArgs(p, n, given)
    OBVIOUS
  <1>7. after \in GoodEntry /\ after.args = args /\ args = (IF given # None THEN given ELSE job.args)
    BY <1>6, SetArgsOK DEF JobArgs
  <1>8. ASSUME NEW c \in DOMAIN call', call'[c].pc = "pending" PROVE PendingOK(c)'
    <2>1. CASE c = L + 1
      <3>1. /\ new.pc = pc /\ new.by = p /\ new.name = n /\ new.given = given /\ new.held = held
        BY <1>1 DEF NewCall
      <3>2. pc = "pending" /\ held = args /\ provider'[p] # "none" /\ stage'[p] = "up"
        BY <1>4, <1>6, <1>8, <2>1, <3>1 DEF Called
      <3>3. /\ call'[c].by = p /\ call'[c].name = n /\ call'[c].given = given /\ call'[c].held = args
        BY <1>4, <2>1, <3>1, <3>2
      <3> QED BY <1>6, <1>7, <3>2, <3>3 DEF PendingOK
    <2>2. CASE c # L + 1
      <3>1. c \in DOMAIN call /\ call[c].pc = "pending" /\ call'[c] = s[c]
        BY <1>2, <1>4, <1>8, <2>2
      <3>2. PendingOK(c) /\ call[c] \in CallRecords
        BY <3>1, CallTypes DEF WCallsOK
      <3>3. PICK o, m : o = call[c].by /\ m = call[c].name
        OBVIOUS
      <3>4. o \in Procs /\ m \in Names /\ stage'[o] = stage[o] /\ (provider[o] # "none" => provider'[o] # "none")
        BY <3>2, <3>3 DEF CallRecords
      <3>5. CASE o # p \/ m # n \/ given = None
        <4>1. registry'[o].jobs[m] = registry[o].jobs[m]
          <5>1. CASE o # p \/ m # n
            <6>1. /\ \A x \in Procs : x # p => registry'[x] = registry[x]
                  /\ \A x \in Names : x # n => registry'[p].jobs[x] = registry[p].jobs[x]
              BY SetArgsOK
            <6> QED BY <3>4, <5>1, <6>1
          <5>2. CASE o = p /\ m = n /\ given = None
            <6>1. after = [job EXCEPT !.args = args]
              BY <1>6, SetArgsOK
            <6>2. job \in GoodEntry /\ args = job.args
              BY <1>6, <1>7, <5>2
            <6>3. after = job
              BY <6>1, <6>2 DEF GoodEntry, Entry
            <6> QED BY <1>6, <5>2, <6>3
          <5> QED BY <3>5, <5>1, <5>2
        <4> QED BY <1>5, <3>1, <3>2, <3>3, <3>4, <4>1, PendingKept
      <3>6. CASE o = p /\ m = n /\ given # None
        <4>1. /\ call'[c].by = p /\ call'[c].name = n /\ call'[c].given = call[c].given
              /\ call'[c].held = call[c].held /\ call'[c].mixed
          BY <1>2, <3>1, <3>3, <3>6
        <4>2. GivenBy(p, n, given)'
          <5>1. call'[L + 1].by = p /\ call'[L + 1].name = n /\ call'[L + 1].given = given
            BY <1>1, <1>4 DEF NewCall
          <5>2. L + 1 \in DOMAIN call'
            BY <1>2, <1>4
          <5> QED BY <5>1, <5>2 DEF GivenBy
        <4>3. after.args = given
          BY <1>7, <3>6
        <4>4. GivenBy(call[c].by, call[c].name, registry[call[c].by].jobs[call[c].name].args)' = GivenBy(p, n, given)'
          BY <1>6, <4>1, <4>3
        <4>5. stage'[p] = "up" /\ provider'[p] # "none" /\ (call[c].given # None => call[c].held = call[c].given)
          BY <3>2, <3>3, <3>4, <3>6 DEF PendingOK
        <4>6. registry'[call'[c].by].jobs[call'[c].name] \in GoodEntry
          BY <1>6, <1>7, <4>1
        <4> QED BY <4>1, <4>2, <4>4, <4>5, <4>6 DEF PendingOK
      <3> QED BY <3>5, <3>6
    <2> QED BY <2>1, <2>2
  <1>9. Len(call') <= MaxCalls
    BY <1>1, <1>2, <1>4, WorkerAssumption DEF Called
  <1>10. WCallsOK'
    BY <1>4, <1>8, <1>9 DEF WCallsOK
  <1> QED BY <1>1, <1>4, <1>5, <1>10

-------------------------------------------------------------------------------
(* The steps.                                                                   *)
LEMMA OthersKept ==
  ASSUME \A q \in Procs : ProcOK(q), NEW p \in Procs, ProcOK(p)',
         \A o \in Procs \ {p} : SameProc(o), declared \subseteq declared'
  PROVE  \A q \in Procs : ProcOK(q)'
  <1>1. ASSUME NEW q \in Procs PROVE ProcOK(q)'
    <2>1. CASE q = p
      BY <2>1
    <2>2. CASE q # p
      BY <2>2, ProcKept
    <2> QED BY <2>1, <2>2
  <1> QED BY <1>1

(* A step of a process that makes no call and handles nothing.                  *)
LEMMA QuietOK ==
  ASSUME WorkerInv, call' = call, ended' = ended, box' = box, ProcTypes',
         NEW p \in Procs, ProcOK(p)', \A o \in Procs \ {p} : SameProc(o), declared \subseteq declared',
         stage[p] = "up" =>
            /\ stage'[p] = "up" /\ registry'[p].jobs = registry[p].jobs
            /\ provider[p] # "none" => provider'[p] # "none",
         boots' \in 0 .. MaxBoots
  PROVE  WorkerInv'
  <1>1. \A q \in Procs : ProcOK(q)'
    BY OthersKept DEF WorkerInv
  <1>2. WCallsOK'
    <2>1. \A q \in Procs : stage[q] = "up" =>
            /\ stage'[q] = "up" /\ registry'[q].jobs = registry[q].jobs
            /\ provider[q] # "none" => provider'[q] # "none"
      BY DEF SameProc
    <2> QED BY <2>1, CallsIdle DEF WorkerInv
  <1>3. BoxOK'
    BY SameCallsGrow, BoxKept DEF WorkerInv
  <1>4. RunsItsHandler'
    BY DEF WorkerInv, RunsItsHandler
  <1> QED BY <1>1, <1>2, <1>3, <1>4 DEF WorkerInv

LEMMA StartStep ==
  ASSUME WorkerInv, NEW p \in Procs, Start(p) \/ StartThread(p)
  PROVE  WorkerInv'
  <1>1. PICK v, load :
           v \in Programs \cup {<<>>} /\ load \in {DOMAIN v, Jobs(v)} /\ Starts(p, v, load) /\ (p \notin Threads => load = DOMAIN v)
    <2>1. CASE Start(p)
      BY <2>1 DEF Start
    <2>2. CASE StartThread(p)
      <3>1. p \in Threads /\ Host[p] \in Procs
        BY <2>2, WorkerAssumption DEF StartThread
      <3> QED BY <2>2, <3>1 DEF StartThread, WorkerInv, ProcTypes
    <2> QED BY <2>1, <2>2
  <1>2. stage[p] = "off" /\ boots' \in 0 .. MaxBoots
    BY WorkerAssumption DEF Start, StartThread, WorkerInv
  <1>3. ProcTypes' /\ ProcOK(p)' /\ \A o \in Procs \ {p} : SameProc(o)
    BY <1>1, <1>2, StartsOK DEF WorkerInv
  <1>4. UNCHANGED <<call, ended, box, declared>>
    BY <1>1 DEF Starts
  <1> QED BY <1>2, <1>3, <1>4, QuietOK

LEMMA GoneStep ==
  ASSUME WorkerInv, NEW ps, Gone(ps)
  PROVE  WorkerInv'
  <1>1. ProcTypes' /\ (\A q \in Procs : ProcOK(q)') /\ WCallsOK' /\ BoxOK'
    BY GoneOK, GoneCalls DEF WorkerInv
  <1>2. RunsItsHandler' /\ boots' \in 0 .. MaxBoots
    BY DEF Gone, WorkerInv, RunsItsHandler
  <1> QED BY <1>1, <1>2 DEF WorkerInv

LEMMA ProcStepOK ==
  ASSUME WorkerInv, NEW p \in Procs, ProcStep(p)
  PROVE  WorkerInv'
  <1>1. CASE Load(p)
    <2>1. stage[p] = "loading" /\ todo[p] # {}
      BY <1>1 DEF Load
    <2>2. CASE /\ registry' = [registry EXCEPT ![p] = Registered(@, program[p][Upcoming(p)])]
               /\ todo' = [todo EXCEPT ![p] = @ \ {Upcoming(p)}]
               /\ UNCHANGED <<stage, program, provider, consumes, declared, call, box, ended, boots>>
      <3>1. ProcTypes' /\ ProcOK(p)' /\ \A o \in Procs \ {p} : SameProc(o)
        BY <2>1, <2>2, LoadOK DEF WorkerInv
      <3>2. boots' \in 0 .. MaxBoots
        BY <2>2 DEF WorkerInv
      <3> QED BY <2>1, <2>2, <3>1, <3>2, QuietOK
    <2>3. CASE Gone(Family(p))
      BY <2>3, GoneStep
    <2> QED BY <1>1, <2>2, <2>3 DEF Load
  <1>2. CASE Initialize(p)
    <2>1. ProcTypes' /\ ProcOK(p)' /\ \A o \in Procs \ {p} : SameProc(o)
      BY <1>2, InitializeOK DEF WorkerInv
    <2>2. stage[p] # "up" /\ UNCHANGED <<call, ended, box, declared, boots>>
      BY <1>2 DEF Initialize, Loaded
    <2>3. boots' \in 0 .. MaxBoots
      BY <2>2 DEF WorkerInv
    <2> QED BY <2>1, <2>2, <2>3, QuietOK
  <1>3. CASE Cleanup(p)
    <2>1. ProcTypes' /\ ProcOK(p)' /\ \A o \in Procs \ {p} : SameProc(o)
      BY <1>3, CleanupOK DEF WorkerInv
    <2>2. stage[p] # "up" /\ UNCHANGED <<call, ended, box, declared, boots>>
      BY <1>3 DEF Cleanup
    <2>3. boots' \in 0 .. MaxBoots
      BY <2>2 DEF WorkerInv
    <2> QED BY <2>1, <2>2, <2>3, QuietOK
  <1>4. CASE Setup(p)
    <2>1. ProcTypes' /\ ProcOK(p)' /\ (\A o \in Procs \ {p} : SameProc(o)) /\ declared \subseteq declared'
      BY <1>4, SetupOK DEF WorkerInv
    <2>2. /\ UNCHANGED <<call, ended, box, boots, stage>>
          /\ provider' = [provider EXCEPT ![p] = "configured"]
          /\ registry' = [registry EXCEPT ![p].subs[Bucket(Execution[p])] = {}]
      BY <1>4 DEF Setup
    <2>3. registry'[p].jobs = registry[p].jobs /\ provider'[p] = "configured"
      BY <2>2 DEF WorkerInv, ProcTypes, Registry
    <2>4. boots' \in 0 .. MaxBoots
      BY <2>2 DEF WorkerInv
    <2> QED BY <2>1, <2>2, <2>3, <2>4, QuietOK
  <1> QED BY <1>1, <1>2, <1>3, <1>4 DEF ProcStep

LEMMA SendStep ==
  ASSUME WorkerInv, NEW c \in DOMAIN call, Send(c)
  PROVE  WorkerInv'
  <1>1. UNCHANGED <<stage, program, todo, provider, consumes, registry, declared, ended, boots>>
    BY DEF Send, procVars
  <1>2. ProcTypes'
    BY <1>1 DEF WorkerInv, ProcTypes
  <1>3. \A q \in Procs : ProcOK(q)'
    BY <1>1, ProcKept DEF WorkerInv, SameProc
  <1>4. WCallsOK' /\ BoxOK'
    BY SendOK DEF WorkerInv
  <1>5. RunsItsHandler' /\ boots' \in 0 .. MaxBoots
    BY <1>1 DEF WorkerInv, RunsItsHandler
  <1> QED BY <1>2, <1>3, <1>4, <1>5 DEF WorkerInv

(* A message that is handled, in a process whose code is all loaded.            *)
LEMMA HandleStep ==
  ASSUME WorkerInv, NEW p \in Procs, NEW m \in box, Handle(p, m)
  PROVE  WorkerInv'
  <1>1. /\ UNCHANGED <<stage, program, todo, provider, consumes, registry, declared, call, boots>>
        /\ box' \subseteq box
        /\ ended' = ended \cup {[msg |-> m, version |-> program[p], ran |-> TaskFound(p, m)]}
        /\ m.queue \in consumes[p] \/ stage[p] = "up"
    BY DEF Handle, procVars
  <1>2. ProcTypes'
    BY <1>1 DEF WorkerInv, ProcTypes
  <1>3. \A q \in Procs : ProcOK(q)'
    BY <1>1, ProcKept DEF WorkerInv, SameProc
  <1>4. WCallsOK'
    BY <1>1, CallsIdle DEF WorkerInv
  <1>5. MessageOK(m) /\ CallsGrow /\ Len(call') \in Nat
    BY <1>1, SameCallsGrow DEF WorkerInv, BoxOK
  <1>6. \A x : MessageOK(x) => MessageOK(x)'
    BY <1>5, MessageKept DEF WorkerInv
  <1>7. PICK e : e = [msg |-> m, version |-> program[p], ran |-> TaskFound(p, m)]
    OBVIOUS
  <1>8. e.msg = m /\ e.version = program[p] /\ e.ran = TaskFound(p, m) /\ ended' = ended \cup {e}
    BY <1>1, <1>7
  <1>9. BoxOK'
    <2>1. \A x \in box' : MessageOK(x)'
      BY <1>1, <1>6 DEF WorkerInv, BoxOK
    <2>2. ASSUME NEW x \in ended' PROVE MessageOK(x.msg)'
      <3>1. MessageOK(x.msg)
        BY <1>5, <1>8 DEF WorkerInv, BoxOK
      <3>2. PICK y : y = x.msg
        OBVIOUS
      <3> QED BY <1>6, <3>1
    <2> QED BY <2>1, <2>2 DEF BoxOK
  <1>10. stage[p] \in {"starting", "up"}
    BY <1>1 DEF WorkerInv, ProcOK, StageOK
  <1>11. Made(p) = DOMAIN program[p]
    BY <1>10 DEF WorkerInv, ProcOK, StageOK, Made
  <1>12. ASSUME m.task # None
         PROVE  LET handlers == HandlersOf(program[p], m.task)
                IN IF handlers = {} THEN e.ran = None ELSE e.ran \in handlers
    <2>1. m.task \in Names
      BY <1>5, <1>12 DEF MessageOK, Message
    <2>2. e.ran = registry[p].tasks[m.task]
      BY <1>8, <1>12 DEF TaskFound
    <2>3. HandlersOf(program[p], m.task) = HandlersAmong(program[p], Made(p), m.task)
      BY <1>11 DEF HandlersOf, HandlersAmong
    <2> QED BY <1>10, <2>1, <2>2, <2>3 DEF WorkerInv, ProcOK, TasksMade
  <1>13. RunsItsHandler'
    BY <1>8, <1>12 DEF RunsItsHandler, WorkerInv
  <1> QED BY <1>1, <1>2, <1>3, <1>4, <1>9, <1>13 DEF WorkerInv

LEMMA CronStep ==
  ASSUME WorkerInv, NEW p \in Procs, NEW n \in Names, ScheduleCron(p, n)
  PROVE  WorkerInv'
  <1>1. PICK cron : cron = registry[p].crons[n]
    OBVIOUS
  <1>2. PICK m : m = MessageOf(0, n, cron, cron.queue, cron.args)
    OBVIOUS
  <1>3. /\ UNCHANGED <<stage, program, todo, provider, consumes, registry, declared, call, ended, boots>>
        /\ box' \subseteq box \cup {m} /\ cron # None
    BY <1>1, <1>2 DEF ScheduleCron, procVars
  <1>4. ProcTypes'
    BY <1>3 DEF WorkerInv, ProcTypes
  <1>5. \A q \in Procs : ProcOK(q)'
    BY <1>3, ProcKept DEF WorkerInv, SameProc
  <1>6. WCallsOK'
    BY <1>3, CallsIdle DEF WorkerInv
  <1>7. \A x : MessageOK(x) => MessageOK(x)'
    BY <1>3, SameCallsGrow, MessageKept DEF WorkerInv
  <1>8. cron \in GoodEntry
    BY <1>1, <1>3 DEF WorkerInv, ProcTypes, Registry
  <1>9. m.call = 0 /\ m.task = cron.task /\ m.queue = cron.queue
    BY <1>2 DEF MessageOf
  <1>10. m \in Message
    BY <1>2, <1>8, WorkerAssumption DEF MessageOf, Message, GoodEntry, Entry
  <1>11. MessageOK(m)
    <2>1. Len(call) \in Nat
      BY CallTypes DEF WorkerInv
    <2> QED BY <1>8, <1>9, <1>10, <2>1 DEF MessageOK, GoodEntry
  <1>12. BoxOK'
    BY <1>3, <1>7, <1>11 DEF WorkerInv, BoxOK
  <1>13. RunsItsHandler'
    BY <1>3 DEF WorkerInv, RunsItsHandler
  <1> QED BY <1>3, <1>4, <1>5, <1>6, <1>12, <1>13 DEF WorkerInv

LEMMA RunJobStep ==
  ASSUME WorkerInv, NEW p \in Procs, NEW n \in Names, NEW given \in Args \cup {None}, RunJob(p, n, given)
  PROVE  WorkerInv'
  <1>1. /\ Called(p) /\ registry[p].jobs[n] \in GoodEntry /\ SetArgs(p, n, given)
        /\ provider' = [provider EXCEPT ![p] = IF @ = "none" THEN "opening" ELSE @]
        /\ UNCHANGED <<stage, program, todo, consumes, declared, box, ended, boots>>
    BY DEF RunJob, WorkerInv, ProcTypes, Registry
  <1>2. PICK held : held = JobArgs(p, n, given)
    OBVIOUS
  <1>3. call' = Append(Mixed(p, n, given), NewCall("pending", p, n, given, held))
    BY <1>2 DEF RunJob, NewCall
  <1>4. /\ registry' \in [Procs -> Registry] /\ held \in Args \cup {None}
        /\ \A o \in Procs : /\ registry'[o].tasks = registry[o].tasks
                            /\ registry'[o].subs = registry[o].subs
                            /\ o # p => registry'[o] = registry[o]
    BY <1>1, <1>2, SetArgsOK DEF WorkerInv
  <1>5. /\ provider'[p] = IF provider[p] = "none" THEN "opening" ELSE provider[p]
        /\ \A o \in Procs : o # p => provider'[o] = provider[o]
    BY <1>1 DEF WorkerInv, ProcTypes
  <1>6. provider' \in [Procs -> {"none", "opening", "configured"}]
    BY <1>1 DEF WorkerInv, ProcTypes
  <1>7. ProcTypes'
    BY <1>1, <1>4, <1>6 DEF WorkerInv, ProcTypes
  <1>8. ProcOK(p)'
    BY <1>1, <1>4, <1>5, CallerOK DEF WorkerInv, Called
  <1>9. \A o \in Procs \ {p} : SameProc(o)
    BY <1>1, <1>4, <1>5 DEF SameProc
  <1>10. \A q \in Procs : ProcOK(q)'
    BY <1>1, <1>8, <1>9, OthersKept DEF WorkerInv
  <1>11. \A o \in Procs : provider[o] # "none" => provider'[o] # "none"
    BY <1>5
  <1>12. WCallsOK' /\ CallsGrow
    BY <1>1, <1>2, <1>3, <1>4, <1>5, <1>11, CalledOK DEF WorkerInv
  <1>13. BoxOK'
    BY <1>1, <1>12, BoxKept DEF WorkerInv, WCallsOK
  <1>14. RunsItsHandler'
    BY <1>1 DEF WorkerInv, RunsItsHandler
  <1> QED BY <1>1, <1>7, <1>10, <1>12, <1>13, <1>14 DEF WorkerInv

LEMMA RunTaskStep ==
  ASSUME WorkerInv, NEW p \in Procs, NEW t \in Threads, NEW n \in Names, NEW given \in Args \cup {None},
         RunTask(p, t, n, given)
  PROVE  WorkerInv'
  <1>1. PICK job, args : job = registry[p].jobs[n] /\ args = JobArgs(p, n, given)
    OBVIOUS
  <1>2. /\ Called(p) /\ job \in GoodEntry /\ SetArgs(p, n, given)
        /\ UNCHANGED <<stage, program, todo, provider, consumes, declared, ended, boots>>
    BY <1>1 DEF RunTask, procVars, WorkerInv, ProcTypes, Registry
  <1>3. PICK pc \in {"sent", "refused"} : pc = IF job.task = None THEN "refused" ELSE "sent"
    OBVIOUS
  <1>4. call' = Append(Mixed(p, n, given), NewCall(pc, p, n, given, None))
    BY <1>1, <1>3 DEF RunTask, NewCall
  <1>5. /\ registry' \in [Procs -> Registry] /\ args \in Args \cup {None}
        /\ \A o \in Procs : /\ registry'[o].tasks = registry[o].tasks
                            /\ registry'[o].subs = registry[o].subs
                            /\ o # p => registry'[o] = registry[o]
    BY <1>1, <1>2, SetArgsOK DEF WorkerInv
  <1>6. ProcTypes'
    BY <1>2, <1>5 DEF WorkerInv, ProcTypes
  <1>7. provider[p] # "none" \/ p \in Threads
    BY <1>2 DEF WorkerInv, ProcOK, SubsMade, Called
  <1>8. ASSUME NEW o \in Procs PROVE ProcOK(o)'
    <2>1. ProcOK(o) /\ registry'[o].tasks = registry[o].tasks /\ registry'[o].subs = registry[o].subs
      BY <1>5 DEF WorkerInv
    <2>2. StageOK(o)'
      BY <1>2, <2>1 DEF ProcOK, StageOK
    <2>3. TasksMade(o)'
      BY <1>2, <2>1 DEF ProcOK, TasksMade, Made
    <2>4. SubsMade(o)'
      BY <1>2, <2>1 DEF ProcOK, SubsMade, SubscribersOf, Belongs, FirstMade, Made, OwnQueues
    <2> QED BY <2>2, <2>3, <2>4 DEF ProcOK
  <1>9. /\ WCallsOK' /\ CallsGrow /\ Len(call') = Len(call) + 1
        /\ call'[Len(call')] = NewCall(pc, p, n, given, None)
    BY <1>1, <1>2, <1>3, <1>4, CalledOK DEF WorkerInv
  <1>10. PICK L, m : L = Len(call) + 1 /\ m = MessageOf(L, n, job, t, args)
    OBVIOUS
  <1>11. /\ box' \subseteq box \cup {m}
         /\ m.call = L /\ m.task = job.task /\ m.queue = t /\ m.args = args
    BY <1>1, <1>9, <1>10 DEF RunTask, MessageOf
  <1>12. L \in 1 .. MaxCalls /\ Len(call') = L /\ Len(call') \in Nat
    BY <1>2, <1>9, <1>10, CallTypes, WorkerAssumption DEF Called, WorkerInv
  <1>13. MessageOK(m)'
    <2>1. m \in Message
      BY <1>2, <1>5, <1>10, <1>12 DEF MessageOf, Message, GoodEntry, Entry
    <2>2. call'[m.call].given = given
      BY <1>9, <1>11, <1>12 DEF NewCall
    <2>3. given # None => args = given
      BY <1>1 DEF JobArgs
    <2> QED BY <1>11, <1>12, <2>1, <2>2, <2>3 DEF MessageOK
  <1>14. \A x : MessageOK(x) => MessageOK(x)'
    BY <1>9, <1>12, MessageKept DEF WorkerInv
  <1>15. BoxOK'
    BY <1>2, <1>11, <1>13, <1>14 DEF WorkerInv, BoxOK
  <1>16. RunsItsHandler'
    BY <1>2 DEF WorkerInv, RunsItsHandler
  <1> QED BY <1>2, <1>6, <1>8, <1>9, <1>15, <1>16 DEF WorkerInv

-------------------------------------------------------------------------------
(* The invariant.                                                               *)
LEMMA WorkerInvInit == Init => WorkerInv
  <1> SUFFICES ASSUME Init PROVE WorkerInv
    OBVIOUS
  <1> USE DEF Init
  <1>1. ProcTypes
    BY NoRegistryOK DEF ProcTypes
  <1>2. ASSUME NEW p \in Procs PROVE ProcOK(p)
    BY DEF ProcOK, StageOK, TasksMade, SubsMade
  <1>3. WCallsOK
    BY EmptySeq, WorkerAssumption DEF WCallsOK
  <1>4. BoxOK /\ RunsItsHandler /\ boots \in 0 .. MaxBoots
    BY WorkerAssumption DEF BoxOK, RunsItsHandler
  <1> QED BY <1>1, <1>2, <1>3, <1>4 DEF WorkerInv

LEMMA WorkerInvStep == WorkerInv /\ [Next]_vars => WorkerInv'
  <1> SUFFICES ASSUME WorkerInv, [Next]_vars PROVE WorkerInv'
    OBVIOUS
  <1>1. ASSUME NEW p \in Procs, Start(p) \/ StartThread(p) PROVE WorkerInv'
    BY <1>1, StartStep
  <1>2. ASSUME NEW p \in Procs, ProcStep(p) PROVE WorkerInv'
    BY <1>2, ProcStepOK
  <1>3. ASSUME NEW p \in Procs, Stop(p) PROVE WorkerInv'
    BY <1>3, GoneStep DEF Stop
  <1>4. ASSUME NEW p \in Procs, NEW m \in box, Handle(p, m) PROVE WorkerInv'
    BY <1>4, HandleStep
  <1>5. ASSUME NEW p \in Procs, NEW n \in Names, ScheduleCron(p, n) PROVE WorkerInv'
    BY <1>5, CronStep
  <1>6. ASSUME NEW p \in Procs, NEW n \in Names, NEW given \in Args \cup {None}, RunJob(p, n, given)
        PROVE  WorkerInv'
    BY <1>6, RunJobStep
  <1>7. ASSUME NEW p \in Procs, NEW n \in Names, NEW given \in Args \cup {None}, NEW t \in Threads,
               RunTask(p, t, n, given)
        PROVE  WorkerInv'
    BY <1>7, RunTaskStep
  <1>8. ASSUME NEW c \in DOMAIN call, Send(c) PROVE WorkerInv'
    BY <1>8, SendStep
  <1>9. CASE UNCHANGED vars
    <2>1. UNCHANGED <<stage, program, todo, provider, consumes, registry, declared, call, box, ended, boots>>
      BY <1>9 DEF vars, procVars
    <2>2. ProcTypes' /\ RunsItsHandler' /\ boots' \in 0 .. MaxBoots
      BY <2>1 DEF WorkerInv, ProcTypes, RunsItsHandler
    <2>3. \A p \in Procs : ProcOK(p)'
      BY <2>1, ProcKept DEF WorkerInv, SameProc
    <2>4. WCallsOK' /\ BoxOK'
      BY <2>1, CallsIdle, SameCallsGrow, BoxKept DEF WorkerInv
    <2> QED BY <2>2, <2>3, <2>4 DEF WorkerInv
  <1> QED BY <1>1, <1>2, <1>3, <1>4, <1>5, <1>6, <1>7, <1>8, <1>9 DEF Next

LEMMA WorkerInvMeans ==
  ASSUME WorkerInv
  PROVE  WorkerTypeOK /\ ArgsDelivered /\ RunsItsHandler /\ ConsumesOwn
  <1>1. ASSUME NEW p \in Procs
        PROVE  /\ program[p] \in Programs \cup {<<>>} /\ todo[p] \subseteq DOMAIN program[p]
               /\ stage[p] # "loading" => todo[p] = {}
               /\ \A n \in Names : /\ registry[p].jobs[n] \in Entry \cup {None}
                                   /\ registry[p].crons[n] \in Entry \cup {None}
                                   /\ registry[p].tasks[n] \in Handlers \cup {None}
               /\ registry[p].subs \in [Executions -> SUBSET Queues]
               /\ consumes[p] # {} => provider[p] = "configured" /\ consumes[p] \subseteq declared
    <2>1. registry[p] \in Registry /\ program[p] \in Programs \cup {<<>>} /\ StageOK(p)
      BY DEF WorkerInv, ProcTypes, ProcOK
    <2>2. GoodEntry \subseteq Entry
      BY DEF GoodEntry
    <2>3. /\ registry[p].jobs \in [Names -> GoodEntry \cup {None}]
          /\ registry[p].crons \in [Names -> GoodEntry \cup {None}]
          /\ registry[p].tasks \in [Names -> Handlers \cup {None}]
          /\ registry[p].subs \in [Executions -> SUBSET Queues]
      BY <2>1 DEF Registry
    <2> QED BY <2>1, <2>2, <2>3 DEF StageOK
  <1>2. \A c \in DOMAIN call : call[c].pc = "pending" => stage[call[c].by] = "up" /\ provider[call[c].by] # "none"
    BY DEF WorkerInv, WCallsOK, PendingOK
  <1>3. box \subseteq Message /\ \A m \in box : m.task # None => m.queue \in Predefined \cup Threads
    BY DEF WorkerInv, BoxOK, MessageOK
  <1>4. WorkerTypeOK
    BY <1>1, <1>2, <1>3 DEF WorkerTypeOK, WorkerInv, ProcTypes, WCallsOK
  <1>5. ArgsDelivered
    <2> SUFFICES ASSUME NEW m \in Messages, m.call # 0, call[m.call].given # None
                 PROVE  \/ m.args = call[m.call].given
                        \/ /\ call[m.call].mixed /\ m.task # None
                           /\ \E c \in DOMAIN call : /\ call[c].by = call[m.call].by
                                                     /\ call[c].name = call[m.call].name
                                                     /\ call[c].given = m.args
      BY DEF ArgsDelivered
    <2>1. MessageOK(m)
      BY DEF WorkerInv, BoxOK, Messages
    <2> QED BY <2>1 DEF MessageOK, GivenBy
  <1>6. ConsumesOwn
    BY DEF WorkerInv, ProcOK, SubsMade, ConsumesOwn
  <1> QED BY <1>4, <1>5, <1>6 DEF WorkerInv

LEMMA WorkerInvAlways == Spec => []WorkerInv
  BY WorkerInvInit, WorkerInvStep, PTL DEF Spec

-------------------------------------------------------------------------------
(* The types of a process, of its registry, of the calls and of the messages.   *)
THEOREM WorkerTypeCorrect == Spec => []WorkerTypeOK
  BY WorkerInvAlways, WorkerInvMeans, PTL

(* #getJobArgs and enqueue: a message carries the arguments of its own call, or *)
(* those of a later call of the same job that left them in the shared entry     *)
(* before they were encoded.                                                    *)
THEOREM OwnArgsOrMixed == Spec => []ArgsDelivered
  BY WorkerInvAlways, WorkerInvMeans, PTL

(* loadDependencies and getTask: a message of a job with a handler runs one that*)
(* the code of the process registers for its name, whatever version that is.    *)
THEOREM HandlerOfTheCode == Spec => []RunsItsHandler
  BY WorkerInvAlways, WorkerInvMeans, PTL

(* The subscriber decorator, cleanupSubscribersMetadata and #setup: a process   *)
(* consumes the queues of its own execution and no other.                       *)
THEOREM OwnSubscribersOnly == Spec => []ConsumesOwn
  BY WorkerInvAlways, WorkerInvMeans, PTL
===============================================================================
