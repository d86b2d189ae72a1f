--------------------------------- MODULE Worker ---------------------------------
(* The registries of a process, from the import of its code to the setup of its  *)
(* provider: jobs, crons, tasks and subscribers; and the jobs and tasks that are *)
(* run by name, from runJob and runTask to the handler in another process or in  *)
(* a thread, each of which has loaded the code, or a version of it, for itself.  *)
(* Provider has the connection, Subscriber the delivery of a message.            *)
EXTENDS Naturals, Sequences, FiniteSets

CONSTANTS
    Procs, Execution,  \* ZANIX_WORKER_EXECUTION of a process
    Host,              \* of a thread, the process that starts it
    Queues, Predefined, Names, Handlers, Args, None,
    Programs,          \* versions of the code: their registrations in order
    MaxBoots, MaxCalls

Executions == {"main-process", "extra-process"}
Threads == {p \in Procs : Execution[p] = "internal-process"}

Job == [kind : {"job", "cron"}, name : Names, queue : Queues, handler : Handlers \cup {None},
        args : Args \cup {None}]
Sub == [kind : {"sub"}, queue : Queues, execution : Executions]

(* JobProcess: a handler goes with a predefined queue, and only with one.        *)
ASSUME WorkerAssumption ==
    /\ Execution \in [Procs -> Executions \cup {"internal-process"}]
    /\ Host \in [Threads -> Procs \ Threads] /\ Predefined \subseteq Queues
    /\ None \notin Handlers \cup Args \cup Names /\ Procs \cap Queues = {}
    /\ {MaxBoots, MaxCalls} \subseteq Nat
    /\ \A v \in Programs :
         v \in Seq(Job \cup Sub)
         /\ \A i \in DOMAIN v : v[i] \in Job => (v[i].handler # None <=> v[i].queue \in Predefined)

VARIABLES
    stage,     \* of a process: off, loading, starting, up
    program,   \* the version of the code it was started with
    todo,      \* the registrations it has not made yet: their positions in the code
    registry,  \* ProgramModule.registry
    provider,  \* its asyncmq provider: none, opening, configured
    consumes,  \* the queues it consumes
    declared,  \* the queues at the broker
    call,      \* the calls of runJob and runTask, in order
    box,       \* what is in the queues, or sent to a thread
    ended,     \* what was handled, with the handler that ran and its version
    boots

procVars == <<stage, program, todo, provider, consumes>>
vars == <<procVars, registry, declared, call, box, ended, boots>>

NoRegistry ==
    [jobs |-> [n \in Names |-> None], crons |-> [n \in Names |-> None],
     tasks |-> [n \in Names |-> None], subs |-> [e \in Executions |-> {}]]
Entry == [queue : Queues, task : Names \cup {None}, args : Args \cup {None}]
Message == [call : 0 .. MaxCalls, name : Names, queue : Queues \cup Threads,
            task : Names \cup {None}, args : Args \cup {None}]

WorkerTypeOK ==
    /\ stage \in [Procs -> {"off", "loading", "starting", "up"}]
    /\ provider \in [Procs -> {"none", "opening", "configured"}]
    /\ \A p \in Procs :
         /\ program[p] \in Programs \cup {<<>>} /\ todo[p] \subseteq DOMAIN program[p]
         /\ stage[p] # "loading" => todo[p] = {}
         /\ \A n \in Names : /\ registry[p].jobs[n] \in Entry \cup {None}
                             /\ registry[p].crons[n] \in Entry \cup {None}
                             /\ registry[p].tasks[n] \in Handlers \cup {None}
         /\ registry[p].subs \in [Executions -> SUBSET Queues]
         /\ consumes[p] # {} => provider[p] = "configured" /\ consumes[p] \subseteq declared
    /\ Len(call) <= MaxCalls
    /\ \A c \in DOMAIN call : call[c].pc = "pending" => stage[call[c].by] = "up" /\ provider[call[c].by] # "none"
    /\ box \subseteq Message
    /\ \A m \in box : m.task # None => m.queue \in Predefined \cup Threads
    /\ boots \in 0 .. MaxBoots

Init ==
    /\ stage = [p \in Procs |-> "off"] /\ program = [p \in Procs |-> <<>>]
    /\ todo = [p \in Procs |-> {}] /\ registry = [p \in Procs |-> NoRegistry]
    /\ provider = [p \in Procs |-> "none"] /\ consumes = [p \in Procs |-> {}]
    /\ declared = {} /\ call = <<>> /\ box = {} /\ ended = {} /\ boots = 0

-------------------------------------------------------------------------------
(* The start of a process.                                                       *)

(* The bucket of subscribers that an execution reads: resolveSubscribersMetadataKey. *)
Bucket(execution) == IF execution = "internal-process" THEN "main-process" ELSE execution

Jobs(v) == {i \in DOMAIN v : v[i].kind # "sub"}

(* The process marks its execution; a worker imports the predefined queues first.*)
Starts(p, v, load) ==
    /\ stage' = [stage EXCEPT ![p] = "loading"]
    /\ program' = [program EXCEPT ![p] = v] /\ todo' = [todo EXCEPT ![p] = load]
    /\ registry' = [registry EXCEPT ![p] =
         IF Execution[p] = "extra-process" THEN [NoRegistry EXCEPT !.subs["extra-process"] = Predefined]
         ELSE NoRegistry]
    /\ UNCHANGED <<provider, consumes, declared, call, box, ended>>

Start(p) ==
    /\ p \notin Threads /\ stage[p] = "off" /\ boots < MaxBoots
    /\ boots' = boots + 1
    /\ \E v \in Programs : Starts(p, v, DOMAIN v)

(* A thread is started for a task. It has a registry of its own; its loader may  *)
(* leave the handlers out (workerFileTypes).                                     *)
StartThread(t) ==
    /\ t \in Threads /\ stage[t] = "off" /\ \E m \in box : m.queue = t
    /\ \E load \in {DOMAIN program[Host[t]], Jobs(program[Host[t]])} : Starts(t, program[Host[t]], load)
    /\ UNCHANGED boots

(* registerTask, which comes first: it replaces what is there.                   *)
WithTask(reg, r) == IF r.handler = None THEN reg ELSE [reg EXCEPT !.tasks[r.name] = r.handler]

(* The $taskId of a job with a handler. (As a bug: of every job.)                *)
TaskAlways(r) == r.name
TaskOf(r) == IF r.handler = None THEN None ELSE r.name
EntryOf(r) == [queue |-> r.queue, task |-> TaskOf(r), args |-> r.args]

(* defineSubscriberDecorator: one subscriber of a queue, whatever its execution. *)
(* (As a bug: one in each execution.)                                            *)
ConflictOwn(reg, r) == r.queue \in reg.subs[r.execution]
Conflict(reg, r) == \E e \in Executions : r.queue \in reg.subs[e]

(* registerJob, registerCronJob and the subscriber decorator. The first two check *)
(* for a duplicate when the handler is in place already.                         *)
JobRegistered(reg, r) ==
    LET known == WithTask(reg, r)
    IN IF reg.jobs[r.name] # None THEN known ELSE [known EXCEPT !.jobs[r.name] = EntryOf(r)]
CronRegistered(reg, r) ==
    LET known == WithTask(reg, r)
    IN IF reg.crons[r.name] # None THEN known ELSE [known EXCEPT !.crons[r.name] = EntryOf(r)]
SubRegistered(reg, r) ==
    IF Conflict(reg, r) THEN reg ELSE [reg EXCEPT !.subs[r.execution] = @ \cup {r.queue}]

Registered(reg, r) ==
    CASE r.kind = "job" -> JobRegistered(reg, r)
      [] r.kind = "cron" -> CronRegistered(reg, r)
      [] r.kind = "sub" -> SubRegistered(reg, r)

Throws(reg, r) ==
    CASE r.kind = "job" -> reg.jobs[r.name] # None
      [] r.kind = "cron" -> reg.crons[r.name] # None
      [] r.kind = "sub" -> Conflict(reg, r)

(* What is left of processes that end: their pending calls and tasks are lost.   *)
Gone(ps) ==
    /\ stage' = [p \in Procs |-> IF p \in ps THEN "off" ELSE stage[p]]
    /\ todo' = [p \in Procs |-> IF p \in ps THEN {} ELSE todo[p]]
    /\ registry' = [p \in Procs |-> IF p \in ps THEN NoRegistry ELSE registry[p]]
    /\ provider' = [p \in Procs |-> IF p \in ps THEN "none" ELSE provider[p]]
    /\ consumes' = [p \in Procs |-> IF p \in ps THEN {} ELSE consumes[p]]
    /\ call' = [c \in DOMAIN call |-> IF call[c].pc = "pending" /\ call[c].by \in ps
                                THEN [call[c] EXCEPT !.pc = "lost"] ELSE call[c]]
    /\ box' = {m \in box : m.queue \notin {t \in Threads : Host[t] \in ps}}
    /\ UNCHANGED <<program, declared, ended, boots>>

Family(p) == {p} \cup {t \in Threads : Host[t] = p}

(* One registration of the code. One that throws ends the process, or is caught. *)
Upcoming(p) == CHOOSE i \in todo[p] : \A j \in todo[p] : i <= j

Load(p) ==
    LET r == program[p][Upcoming(p)] IN
    /\ stage[p] = "loading" /\ todo[p] # {}
    /\ \/ /\ registry' = [registry EXCEPT ![p] = Registered(@, r)]
          /\ todo' = [todo EXCEPT ![p] = @ \ {Upcoming(p)}]
          /\ UNCHANGED <<stage, program, provider, consumes, declared, call, box, ended, boots>>
       \/ Throws(registry[p], r) /\ Gone(Family(p))

(* initWorkerEntrypoint: the providers are created when all is loaded; that of a *)
(* thread is lazy. (As a bug: loadDependencies is not awaited.)                  *)
LoadedAnyway(p) == stage[p] = "loading"
Loaded(p) == stage[p] = "loading" /\ todo[p] = {}

Initialize(p) ==
    /\ Loaded(p)
    /\ stage' = [stage EXCEPT ![p] = IF Execution[p] = "main-process" THEN "up" ELSE "starting"]
    /\ provider' = [provider EXCEPT ![p] = IF p \in Threads THEN "none" ELSE "opening"]
    /\ todo' = [todo EXCEPT ![p] = {}]
    /\ UNCHANGED <<program, registry, consumes, declared, call, box, ended, boots>>

(* cleanupSubscribersMetadata. (As a bug: of every execution.)                   *)
CleanAll(p) == Executions
Clean(p) == IF p \in Threads THEN Executions ELSE {"main-process"}

Cleanup(p) ==
    /\ stage[p] = "starting"
    /\ stage' = [stage EXCEPT ![p] = "up"]
    /\ registry' = [registry EXCEPT ![p].subs = [e \in Executions |-> IF e \in Clean(p) THEN {} ELSE @[e]]]
    /\ UNCHANGED <<program, todo, provider, consumes, declared, call, box, ended, boots>>

(* #setup of the provider: the subscribers are read when the channel is open,    *)
(* before or after the cleanup. (As a bug: without any it does not resolve.)     *)
SetupSubscribed(p) == provider[p] = "opening" /\ registry[p].subs[Bucket(Execution[p])] # {}
SetupDue(p) == provider[p] = "opening"

Setup(p) ==
    LET e == Bucket(Execution[p]) IN
    /\ SetupDue(p)
    /\ consumes' = [consumes EXCEPT ![p] = registry[p].subs[e]]
    /\ declared' = declared \cup registry[p].subs[e]
    /\ registry' = [registry EXCEPT ![p].subs[e] = {}]
    /\ provider' = [provider EXCEPT ![p] = "configured"]
    /\ UNCHANGED <<stage, program, todo, call, box, ended, boots>>

-------------------------------------------------------------------------------
(* runJob and runTask.                                                           *)

(* #getJobArgs: the arguments given replace those of the registered job, which   *)
(* is all that later calls without arguments, and pending calls of a job with a  *)
(* handler, will find.                                                           *)
JobArgs(p, n, given) == IF given # None THEN given ELSE registry[p].jobs[n].args
SetArgs(p, n, given) ==
    registry' = [registry EXCEPT ![p].jobs[n].args = JobArgs(p, n, given)]

(* Called again with arguments while c is pending.                               *)
Mixed(p, n, given) ==
    [c \in DOMAIN call |-> IF call[c].pc = "pending" /\ call[c].by = p /\ call[c].name = n /\ given # None
                     THEN [call[c] EXCEPT !.mixed = TRUE] ELSE call[c]]

Called(p) == stage[p] = "up" /\ Len(call) < MaxCalls

(* A thread creates its provider with its first job.                             *)
RunJob(p, n, given) ==
    /\ Called(p) /\ registry[p].jobs[n] # None
    /\ SetArgs(p, n, given)
    /\ call' = Append(Mixed(p, n, given),
         [pc |-> "pending", by |-> p, name |-> n, given |-> given, held |-> JobArgs(p, n, given),
          mixed |-> FALSE])
    /\ provider' = [provider EXCEPT ![p] = IF @ = "none" THEN "opening" ELSE @]
    /\ UNCHANGED <<stage, program, todo, consumes, declared, box, ended, boots>>

(* What enqueue encodes after its awaits: of a job with a handler, the object    *)
(* that is shared with the registry. (As a bug: of every job.)                   *)
PayloadShared(c) == registry[call[c].by].jobs[call[c].name].args
Payload(c) ==
    IF registry[call[c].by].jobs[call[c].name].task # None THEN PayloadShared(c) ELSE call[c].held

MessageOf(c, n, job, queue, args) ==
    [call |-> c, name |-> n, queue |-> queue, task |-> job.task, args |-> args]

(* Published with mandatory: without the queue it is returned, and confirmed.    *)
Send(c) ==
    LET p == call[c].by n == call[c].name job == registry[p].jobs[n] IN
    /\ call[c].pc = "pending" /\ provider[p] = "configured"
    /\ call' = [call EXCEPT ![c].pc = "sent"]
    /\ box' = IF job.queue \in declared THEN box \cup {MessageOf(c, n, job, job.queue, Payload(c))}
              ELSE box
    /\ UNCHANGED <<procVars, registry, declared, ended, boots>>

(* A task goes to a thread, its arguments with it; a job without handler is      *)
(* refused, when its arguments are replaced already. (A name that is not         *)
(* registered: false, and nothing changes.)                                      *)
RunTask(p, t, n, given) ==
    LET job == registry[p].jobs[n] IN
    /\ Called(p) /\ t \in Threads /\ Host[t] = p /\ job # None
    /\ SetArgs(p, n, given)
    /\ call' = Append(Mixed(p, n, given),
         [pc |-> IF job.task = None THEN "refused" ELSE "sent", by |-> p, name |-> n,
          given |-> given, held |-> None, mixed |-> FALSE])
    /\ box' = IF job.task = None THEN box
              ELSE box \cup {MessageOf(Len(call'), n, job, t, JobArgs(p, n, given))}
    /\ UNCHANGED <<procVars, declared, ended, boots>>

(* The first execution of a cron, published at the boot of a server.             *)
ScheduleCron(p, n) ==
    LET cron == registry[p].crons[n] IN
    /\ Execution[p] = "main-process" /\ provider[p] = "configured" /\ cron # None
    /\ \A m \in box \cup {e.msg : e \in ended} : m.call # 0 \/ m.name # n
    /\ box' = IF cron.queue \in declared
              THEN box \cup {MessageOf(0, n, cron, cron.queue, cron.args)} ELSE box
    /\ UNCHANGED <<procVars, registry, declared, call, ended, boots>>

(* getTask, in the registry of the process that handles the message; one that is *)
(* not found fails. Other queues have a subscriber of their own.                 *)
TaskFound(p, m) == IF m.task = None THEN None ELSE registry[p].tasks[m.task]

(* The message, retries included, as far as processor: Subscriber has the rest.  *)
Handle(p, m) ==
    /\ m \in box /\ (m.queue \in consumes[p] \/ (m.queue = p /\ stage[p] = "up"))
    /\ box' = box \ {m}
    /\ ended' = ended \cup {[msg |-> m, version |-> program[p], ran |-> TaskFound(p, m)]}
    /\ UNCHANGED <<procVars, registry, declared, call, boots>>

(* A process stops or crashes, and its threads with it; or a thread does.        *)
Stop(p) == stage[p] # "off" /\ Gone(Family(p))

ProcStep(p) == Load(p) \/ Initialize(p) \/ Cleanup(p) \/ Setup(p)

Next ==
    \/ \E p \in Procs : \/ Start(p) \/ StartThread(p) \/ ProcStep(p) \/ Stop(p)
                        \/ \E m \in box : Handle(p, m)
                        \/ \E n \in Names : ScheduleCron(p, n)
                        \/ \E n \in Names, given \in Args \cup {None} :
                             RunJob(p, n, given) \/ \E t \in Threads : RunTask(p, t, n, given)
    \/ \E c \in DOMAIN call : Send(c)

Spec == Init /\ [][Next]_vars

(* A process that is not stopped goes on, and so does a publication.             *)
FairSpec ==
    /\ Spec
    /\ \A p \in Procs : WF_vars(ProcStep(p))
    /\ \A c \in 1 .. MaxCalls : WF_vars(c \in DOMAIN call /\ Send(c))

-------------------------------------------------------------------------------
(* Properties.                                                                   *)

Messages == box \cup {e.msg : e \in ended}

(* #getJobArgs and enqueue: the arguments of a message are those of its call     *)
(* unless the job has a handler and was called again, with others, before they   *)
(* were encoded; then those are the arguments of a call of the same job.         *)
ArgsDelivered ==
    \A m \in Messages :
      m.call # 0 /\ call[m.call].given # None =>
        LET own == call[m.call] IN
        \/ m.args = own.given
        \/ /\ own.mixed /\ m.task # None
           /\ \E c \in DOMAIN call : call[c].by = own.by /\ call[c].name = own.name /\ call[c].given = m.args

(* provider.ts: args is the "Payload sent to the job".                           *)
OwnArgs ==
    \A m \in Messages : m.call # 0 /\ call[m.call].given # None => m.args = call[m.call].given

(* A message runs a handler that the code of the process registers for its name, *)
(* and is not found only where that code has none: nothing is consumed before    *)
(* all of it is loaded.                                                          *)
HandlersOf(v, n) ==
    {v[i].handler : i \in {j \in DOMAIN v : v[j].kind # "sub" /\ v[j].name = n}} \ {None}
RunsItsHandler ==
    \A e \in ended : e.msg.task # None =>
      LET handlers == HandlersOf(e.version, e.msg.task)
      IN IF handlers = {} THEN e.ran = None ELSE e.ran \in handlers

(* A process consumes the queues whose (first) subscriber has its execution, and *)
(* a thread none; whatever the order of the cleanup and of the setup.            *)
IsFirst(v, i) == v[i].kind = "sub" /\ \A j \in 1 .. i - 1 : v[j].kind = "sub" => v[j].queue # v[i].queue
OwnQueues(p) ==
    LET v == program[p]
        predefined == IF Execution[p] = "extra-process" THEN Predefined ELSE {}
    IN predefined \cup {v[i].queue : i \in {j \in DOMAIN v : /\ IsFirst(v, j) /\ v[j].execution = Execution[p]
                                                            /\ v[j].queue \notin predefined}}
ConsumesOwn ==
    \A p \in Procs : provider[p] = "configured" =>
      consumes[p] = IF p \in Threads THEN {} ELSE OwnQueues(p)

(* A call of runJob ends: every provider is configured, with subscribers or not. *)
Pending(c) == c \in DOMAIN call /\ call[c].pc = "pending"
CallsEnd == \A c \in 1 .. MaxCalls : Pending(c) ~> ~Pending(c)
===============================================================================
