--------------------------------- MODULE Crons ---------------------------------
(* The crons of one processing queue: the scheduler queue they share, the server *)
(* that rewrites them on its boot, the workers that repair them after theirs     *)
(* (#executeCrons, #scheduleCrons) and that run them, each execution scheduling  *)
(* the next. One action is one answer of the broker or one turn of a process. A  *)
(* worker's cache is its own (no REDIS_URI); Subscriber has the shared lock and  *)
(* the rest of the handler.                                                      *)
EXTENDS Naturals, Sequences, FiniteSets, FiniteSetsExt

CONSTANTS
    Servers, Workers,
    Crons,        \* the crons of the processing queue
    Order,        \* ... in the order they were registered
    Active,       \* isActive
    Period,       \* schedule: a cron is due at each multiple of its period
    MaxTime, MaxBoots,
    MaxFaults,    \* bound on crashes and failures
    MaxMeanwhile  \* bound on the messages that expire while a drain counts on them

(* registerCronJob refuses a name that is registered; a group has one cron at    *)
(* least.                                                                        *)
ASSUME CronsAssumption ==
    /\ Servers \cap Workers = {} /\ Servers \cup Workers # {}
    /\ Crons # {} /\ Active \subseteq Crons /\ Period \in [Crons -> Nat \ {0}]
    /\ Order \in Seq(Crons) /\ Range(Order) = Crons /\ IsInjective(Order)
    /\ {MaxTime, MaxBoots, MaxFaults, MaxMeanwhile} \subseteq Nat

VARIABLES
    now,
    declared,  \* the scheduler queue exists and is bound
    routed,    \* the processing queue exists: what expires goes there
    queue,     \* messages that wait in the scheduler queue
    held,      \* ... that were delivered to a channel of a process and not answered
    work,      \* messages in the processing queue
    run,       \* what a worker's consumer is at: the default prefetch of one
    proc,      \* where the boot of a process is in #scheduleCrons
    boots,
    locks,     \* publish locks in the cache of a worker
    spent      \* faults so far

vars == <<now, declared, routed, queue, held, work, run, proc, boots, locks, spent>>

Procs == Servers \cup Workers
Dates == Nat \ {0}
Faults == [fault |-> MaxFaults, meanwhile |-> MaxMeanwhile]

(* pos: the position in the scheduler queue, which a returned message takes      *)
(* again; by: the process that published it, and in which of its lives; send: 2  *)
(* for what #publish sent again.                                                 *)
Messages == [cron : Crons, due : Dates, pos : Nat, by : Procs \X (0 .. MaxBoots), send : 1 .. 2]

Booting == {"ensure", "count", "drain", "closing", "empty", "peek", "get", "missing",
            "publish", "resend"}
Off == [pc |-> "off", at |-> 0, left |-> 0, due |-> 0]
Waiting == [pc |-> "idle", msg |-> {}, due |-> 0]

Cron(p) == Order[proc[p].at]
Running == UNION {run[w].msg : w \in Workers}
Pending == queue \cup (UNION {held[p] : p \in Procs}) \cup work \cup Running

(* nextCronDate                                                                  *)
NextDate(c) == Period[c] * (now \div Period[c] + 1)

CronsTypeOK ==
    /\ now \in 0 .. MaxTime /\ declared \in BOOLEAN /\ routed \in BOOLEAN
    /\ Pending \subseteq Messages /\ \A m \in Pending : m.due <= NextDate(m.cron)
    /\ \A w \in Workers : /\ run[w].pc \in {"idle", "publish", "running"}
                          /\ Cardinality(run[w].msg) = IF run[w].pc = "idle" THEN 0 ELSE 1
    /\ \A p \in Procs : /\ proc[p].pc \in Booting \cup {"off", "timer", "failed", "up"}
                        /\ proc[p].pc \in Booting => proc[p].at \in 1 .. Len(Order)
                        /\ proc[p].left \in Nat
                        /\ proc[p].pc \notin {"drain", "closing", "get"} => held[p] = {}
                        /\ proc[p].pc = "off" /\ p \in Workers => run[p] = Waiting
    /\ boots \in [Procs -> 0 .. MaxBoots]
    /\ locks \in [Workers -> SUBSET (Crons \X Dates)]
    /\ \A f \in DOMAIN Faults : spent[f] \in 0 .. Faults[f]

(* Before the first deploy, or after one in which an inactive cron was active.   *)
Leftover(c) ==
    [cron |-> c, due |-> Period[c], pos |-> 1, by |-> <<CHOOSE p \in Procs : TRUE, 0>>, send |-> 1]

Init ==
    /\ now = 0 /\ work = {}
    /\ queue \in {{}} \cup {{Leftover(c)} : c \in Crons \ Active}
    /\ declared = (queue # {}) /\ routed = (queue # {})
    /\ held = [p \in Procs |-> {}] /\ run = [w \in Workers |-> Waiting]
    /\ proc = [p \in Procs |-> Off] /\ boots = [p \in Procs |-> 0]
    /\ locks = [w \in Workers |-> {}] /\ spent = [f \in DOMAIN Faults |-> 0]

-------------------------------------------------------------------------------
(* Helpers.                                                                      *)

First(q) == CHOOSE m \in q : \A n \in q : m.pos <= n.pos
Position == 1 + Max({m.pos : m \in Pending} \cup {0})

(* A publish: without the binding the broker has nowhere to put the message.     *)
Put(p, c, due, send) ==
    IF declared
    THEN queue \cup {[cron |-> c, due |-> due, pos |-> Position, by |-> <<p, boots[p]>>,
                      send |-> send]}
    ELSE queue

(* The crons of one queue go one after the other.                                *)
Entry(p, i) ==
    IF i > Len(Order) THEN [Off EXCEPT !.pc = "up"]
    ELSE [Off EXCEPT !.pc = IF p \in Servers THEN "count" ELSE "peek", !.at = i]
NextCron(p) == Entry(p, proc[p].at + 1)

Goes(p, state) == proc' = [proc EXCEPT ![p] = state]
Spend(f) == spent[f] < Faults[f] /\ spent' = [spent EXCEPT ![f] = @ + 1]

-------------------------------------------------------------------------------
(* Boots.                                                                        *)

BootServer(s) ==
    /\ proc[s].pc = "off" /\ boots[s] < MaxBoots
    /\ boots' = [boots EXCEPT ![s] = @ + 1]
    /\ Goes(s, [Off EXCEPT !.pc = "ensure", !.at = 1])
    /\ UNCHANGED <<now, declared, routed, queue, held, work, run, locks, spent>>

(* #ensureSchedulerQueue: once per process and queue.                            *)
Ensure(s) ==
    /\ proc[s].pc = "ensure"
    /\ declared' = TRUE
    /\ Goes(s, Entry(s, 1))
    /\ UNCHANGED <<now, routed, queue, held, work, run, boots, locks, spent>>

(* setup declares the queues it processes and consumes them; the repair comes    *)
(* CRON_REPAIR_DELAY_MS later.                                                   *)
BootWorker(w) ==
    /\ proc[w].pc = "off" /\ boots[w] < MaxBoots
    /\ boots' = [boots EXCEPT ![w] = @ + 1]
    /\ declared' = TRUE /\ routed' = TRUE
    /\ Goes(w, [Off EXCEPT !.pc = "timer"])
    /\ UNCHANGED <<now, queue, held, work, run, locks, spent>>

RepairBegins(w) ==
    /\ proc[w].pc = "timer"
    /\ Goes(w, Entry(w, 1))
    /\ UNCHANGED <<now, declared, routed, queue, held, work, run, boots, locks, spent>>

SkipInactive(w) ==
    /\ proc[w].pc = "peek" /\ Cron(w) \notin Active
    /\ Goes(w, NextCron(w))
    /\ UNCHANGED <<now, declared, routed, queue, held, work, run, boots, locks, spent>>

-------------------------------------------------------------------------------
(* The rewrite of a server: consumeAllMessages with a filter, and a publish.     *)

Count(s) ==
    /\ proc[s].pc = "count"
    /\ Goes(s, IF queue = {} THEN [proc[s] EXCEPT !.pc = "empty"]
               ELSE [proc[s] EXCEPT !.pc = "drain", !.left = Cardinality(queue)])
    /\ UNCHANGED <<now, declared, routed, queue, held, work, run, boots, locks, spent>>

(* What the consumer leaves unanswered. (As a bug would have it: the drain of one*)
(* cron takes the messages of all; a drain waits for one more than it counted.)  *)
KeptNone(s, m) == held[s]
Kept(s, m) == IF m.cron = Cron(s) THEN held[s] ELSE held[s] \cup {m}
OneMore(s) == proc[s].left = 0
LastCounted(s) == proc[s].left = 1

Receive(s) ==
    /\ proc[s].pc = "drain" /\ queue # {}
    /\ queue' = queue \ {First(queue)}
    /\ held' = [held EXCEPT ![s] = Kept(s, First(queue))]
    /\ Goes(s, [proc[s] EXCEPT !.left = @ - 1, !.pc = IF LastCounted(s) THEN "closing" ELSE "drain"])
    /\ UNCHANGED <<now, declared, routed, work, run, boots, locks, spent>>

(* Until the channel is closed the broker goes on delivering to it.              *)
Push(s) ==
    /\ proc[s].pc = "closing" /\ queue # {}
    /\ queue' = queue \ {First(queue)}
    /\ held' = [held EXCEPT ![s] = @ \cup {First(queue)}]
    /\ UNCHANGED <<now, declared, routed, work, run, proc, boots, locks, spent>>

(* The close of the channel; then nextCronDate.                                  *)
Closed(s) ==
    /\ proc[s].pc \in {"closing", "empty"}
    /\ queue' = queue \cup held[s]
    /\ held' = [held EXCEPT ![s] = {}]
    /\ Goes(s, IF Cron(s) \in Active
               THEN [proc[s] EXCEPT !.pc = "publish", !.due = NextDate(Cron(s))]
               ELSE NextCron(s))
    /\ UNCHANGED <<now, declared, routed, work, run, boots, locks, spent>>

-------------------------------------------------------------------------------
(* The repair of a worker: peekMessages, the publish lock, and a publish.        *)

Peek(w) ==
    /\ proc[w].pc = "peek" /\ Cron(w) \in Active
    /\ Goes(w, [proc[w] EXCEPT !.pc = "get", !.left = Cardinality(queue)])
    /\ UNCHANGED <<now, declared, routed, queue, held, work, run, boots, locks, spent>>

Get(w) ==
    /\ proc[w].pc = "get" /\ proc[w].left > 0 /\ queue # {}
    /\ queue' = queue \ {First(queue)}
    /\ held' = [held EXCEPT ![w] = @ \cup {First(queue)}]
    /\ Goes(w, [proc[w] EXCEPT !.left = @ - 1])
    /\ UNCHANGED <<now, declared, routed, work, run, boots, locks, spent>>

Found(w) == \E m \in held[w] : m.cron = Cron(w)

(* nackAll, the close of the channel, and #hasCronMessage.                       *)
Read(w) ==
    /\ proc[w].pc = "get" /\ (proc[w].left = 0 \/ queue = {})
    /\ queue' = queue \cup held[w]
    /\ held' = [held EXCEPT ![w] = {}]
    /\ Goes(w, IF Found(w) THEN NextCron(w) ELSE [proc[w] EXCEPT !.pc = "missing"])
    /\ UNCHANGED <<now, declared, routed, work, run, boots, locks, spent>>

(* A queue that cannot be read reads as empty.                                   *)
PeekFails(w) ==
    /\ proc[w].pc \in {"peek", "get"} /\ Cron(w) \in Active /\ Spend("fault")
    /\ queue' = queue \cup held[w]
    /\ held' = [held EXCEPT ![w] = {}]
    /\ Goes(w, [proc[w] EXCEPT !.pc = "missing"])
    /\ UNCHANGED <<now, declared, routed, work, run, boots, locks>>

(* lockMessage, in the cache of the worker. (As a bug: no publish lock.)         *)
LockedNever(w, c, due) == FALSE
Locked(w, c, due) == <<c, due>> \in locks[w]
Locks(w, c, due) == locks' = [locks EXCEPT ![w] = @ \cup {<<c, due>>}]

LockRepair(w) ==
    LET c == Cron(w) IN
    /\ proc[w].pc = "missing"
    /\ IF Locked(w, c, NextDate(c))
       THEN Goes(w, NextCron(w)) /\ UNCHANGED locks
       ELSE /\ Goes(w, [proc[w] EXCEPT !.pc = "publish", !.due = NextDate(c)])
            /\ Locks(w, c, NextDate(c))
    /\ UNCHANGED <<now, declared, routed, queue, held, work, run, boots, spent>>

(* #publish: a publish that is not confirmed, be it stored or not, is sent once  *)
(* more when the connection is back; the call rejects if that is not confirmed   *)
(* either, which is logged with the rest of the group left as it is.             *)
Sending(p) == Put(p, Cron(p), proc[p].due, IF proc[p].pc = "publish" THEN 1 ELSE 2)

Publish(p) ==
    /\ proc[p].pc \in {"publish", "resend"}
    /\ queue' = Sending(p)
    /\ Goes(p, NextCron(p))
    /\ UNCHANGED <<now, declared, routed, held, work, run, boots, locks, spent>>

Unconfirmed(p) ==
    /\ proc[p].pc = "publish" /\ Spend("fault")
    /\ queue' \in {queue, Sending(p)}
    /\ Goes(p, [proc[p] EXCEPT !.pc = "resend"])
    /\ UNCHANGED <<now, declared, routed, held, work, run, boots, locks>>

UnconfirmedAgain(p) ==
    /\ proc[p].pc = "resend"
    /\ queue' \in {queue, Sending(p)}
    /\ Goes(p, [Off EXCEPT !.pc = "failed"])
    /\ UNCHANGED <<now, declared, routed, held, work, run, boots, locks, spent>>

(* Any other call to the broker that rejects.                                    *)
Fails(p) ==
    /\ proc[p].pc \in {"ensure", "count", "empty", "drain", "closing"} /\ Spend("fault")
    /\ queue' = queue \cup held[p]
    /\ held' = [held EXCEPT ![p] = {}]
    /\ Goes(p, [Off EXCEPT !.pc = "failed"])
    /\ UNCHANGED <<now, declared, routed, work, run, boots, locks>>

-------------------------------------------------------------------------------
(* The chain: the broker dead-letters what expires at the head of the queue, and *)
(* the consumer of a worker schedules the next execution before it runs this one.*)

Draining == \E s \in Servers : proc[s].pc = "drain"
Due == queue # {} /\ First(queue).due <= now

Expire ==
    /\ Due
    /\ queue' = queue \ {First(queue)}
    /\ work' = IF routed THEN work \cup {[First(queue) EXCEPT !.pos = 0]} ELSE work
    /\ IF Draining THEN Spend("meanwhile") ELSE UNCHANGED spent
    /\ UNCHANGED <<now, declared, routed, held, run, proc, boots, locks>>

(* From the delivery to the publish lock: the stretch is seen by nobody.         *)
Handle(w) ==
    /\ proc[w].pc # "off" /\ run[w].pc = "idle"
    /\ \E m \in work :
         LET due == NextDate(m.cron) IN
         /\ work' = work \ {m}
         /\ \/ /\ m.cron \notin Active
               /\ UNCHANGED <<run, locks>>
            \/ /\ m.cron \in Active /\ Locked(w, m.cron, due)
               /\ run' = [run EXCEPT ![w] = [Waiting EXCEPT !.pc = "running", !.msg = {m}]]
               /\ UNCHANGED locks
            \/ /\ m.cron \in Active /\ ~Locked(w, m.cron, due)
               /\ run' = [run EXCEPT ![w] = [pc |-> "publish", msg |-> {m}, due |-> due]]
               /\ Locks(w, m.cron, due)
    /\ UNCHANGED <<now, declared, routed, queue, held, proc, boots, spent>>

PublishNext(w) ==
    /\ run[w].pc = "publish"
    /\ \E m \in run[w].msg : queue' = Put(w, m.cron, run[w].due, 1)
    /\ run' = [run EXCEPT ![w].pc = "running", ![w].due = 0]
    /\ UNCHANGED <<now, declared, routed, held, work, proc, boots, locks, spent>>

Ends(w) ==
    /\ run[w].pc = "running"
    /\ run' = [run EXCEPT ![w] = Waiting]
    /\ UNCHANGED <<now, declared, routed, queue, held, work, proc, boots, locks, spent>>

-------------------------------------------------------------------------------
(* The environment.                                                              *)

(* Time does not pass the head of the queue by, nor between the choice of a date *)
(* and its first publication; it does while a publish waits to be sent again. A  *)
(* lock is of no use once its date has come.                                     *)
Tick ==
    /\ now < MaxTime /\ ~Due
    /\ \A p \in Procs : proc[p].pc # "publish"
    /\ \A w \in Workers : run[w].pc # "publish"
    /\ now' = now + 1
    /\ locks' = [w \in Workers |-> {l \in locks[w] : l[2] > now'}]
    /\ UNCHANGED <<declared, routed, queue, held, work, run, proc, boots, spent>>

Crash(p) ==
    /\ proc[p].pc # "off" /\ Spend("fault")
    /\ queue' = queue \cup held[p]
    /\ held' = [held EXCEPT ![p] = {}]
    /\ Goes(p, Off)
    /\ IF p \in Workers
       THEN /\ work' = work \cup run[p].msg
            /\ run' = [run EXCEPT ![p] = Waiting]
            /\ locks' = [locks EXCEPT ![p] = {}]
       ELSE UNCHANGED <<work, run, locks>>
    /\ UNCHANGED <<now, declared, routed, boots>>

BootStep(p) ==
    \/ Publish(p)
    \/ p \in Servers /\ (Ensure(p) \/ Count(p) \/ Receive(p) \/ Closed(p))
    \/ p \in Workers /\ (RepairBegins(p) \/ SkipInactive(p) \/ Peek(p) \/ Get(p) \/ Read(p)
                         \/ LockRepair(p))

Next ==
    \/ Expire \/ Tick
    \/ \E s \in Servers : BootServer(s) \/ Push(s)
    \/ \E w \in Workers : \/ BootWorker(w) \/ PeekFails(w)
                          \/ Handle(w) \/ PublishNext(w) \/ Ends(w)
    \/ \E p \in Procs : \/ BootStep(p) \/ Unconfirmed(p) \/ UnconfirmedAgain(p)
                        \/ Fails(p) \/ Crash(p)

Spec == Init /\ [][Next]_vars

(* The broker answers and the timer of the repair fires.                         *)
FairSpec == Spec /\ \A p \in Procs : WF_vars(BootStep(p))

-------------------------------------------------------------------------------
(* Properties.                                                                   *)

(* scheduling-and-cron.md: a lost link is repaired by the worker and rewritten   *)
(* by the server. Once a worker has gone through its repair, and no process is in*)
(* the middle of its boot, has failed in it, or has crashed and not come back,   *)
(* every active cron has an execution that is scheduled or has still to schedule *)
(* the next one. (Not so while a worker repairs: it holds the publish lock, so   *)
(* its consumer schedules nothing, and its publish may yet fail.)                *)
ChainAlive ==
    /\ \E w \in Workers : proc[w].pc = "up"
    /\ \A p \in Procs : proc[p].pc = "up" \/ boots[p] = 0
    => \A c \in Active : \E m \in Pending :
          m.cron = c /\ \A w \in Workers : run[w].pc = "running" => m \notin run[w].msg

(* provider/mod.ts: whoever gets the publish lock first is the only one that     *)
(* publishes. No process decides twice in its life to publish one execution, be  *)
(* it the repair and the consumer of one worker, or two rewrites of a server: if *)
(* two of its copies are about, they are the first and the second sending of one *)
(* #publish that was not confirmed.                                              *)
PublishedOnce ==
    \A m, n \in Pending :
        m.cron = n.cron /\ m.due = n.due /\ m.by = n.by /\ m # n
        => {m.send, n.send} = {1, 2} /\ spent["fault"] > 0

(* A drain that waits for what it has counted and nobody has any more: another   *)
(* server took it, or it expired meanwhile.                                      *)
Starved(p) ==
    /\ proc[p].pc = "drain" /\ queue = {} /\ \A o \in Procs \ {p} : held[o] = {}
    /\ spent["meanwhile"] > 0 \/ \E o \in Servers \ {p} : boots[o] > 0

(* A boot ends, or its drain is starved of a message that it counted.            *)
BootEnds ==
    \A p \in Procs :
        proc[p].pc # "off" ~> proc[p].pc \in {"off", "failed", "up"} \/ Starved(p)

(* scheduling-and-cron.md: scheduled messages are "delivered exactly once at     *)
(* execution time": none is left waiting when its time has passed.               *)
OnTime == \A m \in queue : m.due >= now
===============================================================================
