------------------------------ MODULE Subscriber ------------------------------
(* The consumer side of asyncmq: processorHandler (handler.ts) on the consumer  *)
(* channel of each process, the job lock of utils/queues.ts, and as much of the *)
(* broker as the handler meets. An invocation of the handler is a process of    *)
(* its own: it outlives the channel that delivered its message, while the       *)
(* broker delivers that message again. One action runs it to its next await.    *)
EXTENDS Naturals, FiniteSets

CONSTANTS
    Procs,        \* the processes that consume the queue, one channel each
    Listening,    \* those whose application listens to unhandled rejections
    Msgs,         \* messageIds
    Crons,        \* those that identify a cron (its name is its messageId)
    Inactive,     \* the crons that are registered inactive, or no longer registered
    Undecodable,  \* messages whose content or context does not decrypt
    Copies,       \* the copies of messages that may be in the broker at once
    Tasks,        \* the invocations of the handler that may be under way at once
    Nil,
    Prefetch,     \* channel.prefetch
    MaxRetries,   \* retryConfig.maxRetries
    UseRedis,     \* REDIS_URI is set
    LastTick,     \* the last execution time of every cron schedule
    MaxPublish,   \* bound on the publications of a message
    MaxDrops, MaxTorn, MaxCrashes, MaxExpiries, MaxRedisErrors  \* bounds on the faults

ASSUME ConstantsAssumption ==
    /\ Crons \subseteq Msgs /\ Inactive \subseteq Crons /\ Undecodable \subseteq Msgs
    /\ Listening \subseteq Procs
    /\ Nil \notin Procs \union Msgs \union Copies
    /\ UseRedis \in BOOLEAN
    /\ {Prefetch, MaxRetries, LastTick, MaxPublish} \subseteq Nat
    /\ {MaxDrops, MaxTorn, MaxCrashes, MaxExpiries, MaxRedisErrors} \subseteq Nat
    /\ Crons # {} => LastTick > 0

VARIABLES
    copy,       \* the broker's copies: where each is, and what it carries
    inv,        \* the invocations of the handler
    chan,       \* the consumer channel of each process
    local,      \* cache.local of each process: the lock keys it holds
    redis,      \* cache.redis
    now,        \* the last execution time that has passed
    published,  \* how many times each ordinary message was published
    ended,      \* the messages that had a successful run or were dead-lettered
    spent       \* how much of each fault's bound is used

vars == <<copy, inv, chan, local, redis, now, published, ended, spent>>

Ordinary == Msgs \ Crons
Ticks == 0 .. LastTick
Faults == {"drops", "torn", "crashes", "expiries", "redisErrors"}

(* zanix:job:<messageId>, and publish:cron:<messageId>:<execution time>.       *)
Keys == [id : Msgs, at : Ticks]
MsgKey(m) == [id |-> m, at |-> 0]

Places == {"out", "ready", "unacked", "schq", "cronq"}

CopyType == [at : Places, id : Msgs \union {Nil}, attempt : Nat,
             due : Ticks, holder : Procs \union {Nil}]

Out == [at |-> "out", id |-> Nil, attempt |-> 0, due |-> 0, holder |-> Nil]

Pcs == {"idle", "has", "set", "locked", "decode", "next", "publish", "freed",
        "ackSkipped", "run", "onerror", "onerrorLast", "unlockRun", "requeue", "unlockLast"}

(* current: the invocation's channel is still the one its process consumes on. *)
(* skip: scheduleNextCron runs for handleLockedMessage, not for the execution. *)
(* next: the execution scheduleNextCron is about to publish, 0 for none.       *)
(* settled: this invocation acked or nacked its delivery.                      *)
InvType == [pc : Pcs, proc : Procs \union {Nil}, copy : Copies \union {Nil},
            id : Msgs \union {Nil}, attempt : Nat, next : Ticks, skip : BOOLEAN,
            current : BOOLEAN, settled : BOOLEAN]

Idle == [pc |-> "idle", proc |-> Nil, copy |-> Nil, id |-> Nil, attempt |-> 0,
         next |-> 0, skip |-> FALSE, current |-> FALSE, settled |-> FALSE]

(* lost: the broker dropped the connection and the client has not noticed;     *)
(* closed: it has; refused: the broker closed the channel for a protocol error *)
(* and, as setup.ts only logs that, nothing opens it again.                    *)
ChanStates == {"open", "lost", "closed", "refused"}

TypeOK ==
    /\ copy \in [Copies -> CopyType]
    /\ \A c \in Copies : copy[c].at # "out" => copy[c].id \in Msgs
    /\ inv \in [Tasks -> InvType]
    /\ \A t \in Tasks :
          inv[t].pc # "idle"
          => inv[t].proc \in Procs /\ inv[t].copy \in Copies /\ inv[t].id \in Msgs
    /\ chan \in [Procs -> ChanStates]
    /\ local \in [Procs -> SUBSET Keys]
    /\ redis \in SUBSET Keys
    /\ now \in Ticks
    /\ published \in [Ordinary -> Nat]
    /\ ended \in SUBSET Msgs
    /\ spent \in [Faults -> Nat]

(* Every cron starts with its first execution pending in its scheduler queue.  *)
Init ==
    /\ \E slot \in [Crons -> Copies] :
          /\ \A m, n \in Crons : slot[m] = slot[n] => m = n
          /\ copy = [c \in Copies |->
                       IF \E m \in Crons : slot[m] = c
                       THEN [Out EXCEPT !.at = "cronq", !.due = 1,
                                        !.id = CHOOSE m \in Crons : slot[m] = c]
                       ELSE Out]
    /\ inv = [t \in Tasks |-> Idle]
    /\ chan = [p \in Procs |-> "open"]
    /\ local = [p \in Procs |-> {}]
    /\ redis = {}
    /\ now = 0
    /\ published = [m \in Ordinary |-> 0]
    /\ ended = {}
    /\ spent = [f \in Faults |-> 0]

-------------------------------------------------------------------------------
(* The broker, as the handler meets it.                                        *)

(* Deliveries that end without an answer go back to the queue.                 *)
Requeued(p) ==
    [c \in Copies |-> IF copy[c].at = "unacked" /\ copy[c].holder = p
                      THEN [copy[c] EXCEPT !.at = "ready", !.holder = Nil]
                      ELSE copy[c]]

(* The invocations of a process lose its channel.                              *)
Orphaned(p) ==
    [t \in Tasks |-> IF inv[t].proc = p THEN [inv[t] EXCEPT !.current = FALSE] ELSE inv[t]]

(* A publisher's message; a messageId may be published again, by the retry of  *)
(* an unconfirmed publish or by the caller.                                    *)
Publish(m) ==
    /\ published[m] < MaxPublish
    /\ \E c \in Copies : /\ copy[c].at = "out"
                         /\ copy' = [copy EXCEPT ![c] = [Out EXCEPT !.at = "ready", !.id = m]]
    /\ published' = [published EXCEPT ![m] = @ + 1]
    /\ UNCHANGED <<inv, chan, local, redis, now, ended, spent>>

(* The TTL of a scheduled message ends and it is dead-lettered to its queue: a *)
(* retry's at any time, a cron execution's at its tick.                        *)
Expire(c) ==
    /\ copy[c].at = "schq" \/ (copy[c].at = "cronq" /\ copy[c].due <= now)
    /\ copy' = [copy EXCEPT ![c].at = "ready"]
    /\ UNCHANGED <<inv, chan, local, redis, now, published, ended, spent>>

Tick ==
    /\ now < LastTick
    /\ now' = now + 1
    /\ UNCHANGED <<copy, inv, chan, local, redis, published, ended, spent>>

-------------------------------------------------------------------------------
(* channelOp: a write on a closed channel throws, which is caught (CanWrite is *)
(* its result); it reaches the broker if the connection is still there. The    *)
(* broker answers a second ack or nack of a delivery by closing the channel.   *)
CanWrite(t) == inv[t].current /\ chan[inv[t].proc] \in {"open", "lost"}
Reaches(t) == inv[t].current /\ chan[inv[t].proc] = "open"
Refused(t) == Reaches(t) /\ inv[t].settled

(* An ack, a nack or an ack and requeue, which leaves the copy as c; in the    *)
(* same turn the invocation becomes i.                                         *)
Answer(t, i, c) ==
    IF Refused(t)
    THEN /\ copy' = Requeued(inv[t].proc)
         /\ chan' = [chan EXCEPT ![inv[t].proc] = "refused"]
         /\ inv' = [Orphaned(inv[t].proc) EXCEPT ![t] = [i EXCEPT !.current = FALSE]]
    ELSE /\ copy' = IF Reaches(t) THEN [copy EXCEPT ![inv[t].copy] = c] ELSE copy
         /\ inv' = [inv EXCEPT ![t] = i]
         /\ UNCHANGED chan

(* The invocation becomes i, and nothing else changes.                         *)
Become(t, i) ==
    /\ inv' = [inv EXCEPT ![t] = i]
    /\ UNCHANGED <<copy, chan, local, redis, now, published, ended, spent>>

-------------------------------------------------------------------------------
(* lockMessage: the local check and, without Redis, the acquisition take one   *)
(* turn; with Redis they surround an await. Lock(i) is the invocation i after  *)
(* the first turn, LockLocal(i) the local caches.                              *)
Key(i) == [id |-> i.id, at |-> i.next]

HeldNever(i) == FALSE  \* mutant: the local cache is not asked
Held(i) == Key(i) \in local[i.proc]

AfterLock(i) == IF i.next = 0 THEN "decode" ELSE "publish"
AfterSchedule(i) == IF i.skip THEN "ackSkipped" ELSE "run"

AfterRefusalAnyway(i) == IF i.next = 0 THEN "locked" ELSE "publish"  \* mutant: no canPublish
AfterRefusal(i) == IF i.next = 0 THEN "locked" ELSE AfterSchedule(i)

Lock(i) ==
    [i EXCEPT !.pc = IF Held(i) THEN AfterRefusal(i)
                     ELSE IF UseRedis THEN "has" ELSE AfterLock(i)]

LockLocal(i) ==
    IF UseRedis \/ Held(i) THEN local ELSE [local EXCEPT ![i.proc] = @ \union {Key(i)}]

(* unlockMessage: cache.local.delete in this turn, redis.delete after it.      *)
Unlock(p, key) == [local EXCEPT ![p] = @ \ {key}]

(* A ready copy goes to a channel with room, and the handler starts on it.     *)
Deliver(p, c, t) ==
    /\ chan[p] = "open"
    /\ copy[c].at = "ready"
    /\ Cardinality({d \in Copies : copy[d].at = "unacked" /\ copy[d].holder = p}) < Prefetch
    /\ inv[t].pc = "idle"
    /\ copy' = [copy EXCEPT ![c].at = "unacked", ![c].holder = p]
    /\ LET i == [Idle EXCEPT !.proc = p, !.copy = c, !.id = copy[c].id,
                             !.attempt = copy[c].attempt, !.current = TRUE]
       IN  inv' = [inv EXCEPT ![t] = Lock(i)] /\ local' = LockLocal(i)
    /\ UNCHANGED <<chan, redis, now, published, ended, spent>>

(* redis.has answers; if the key is free, local.set follows in the same turn.  *)
RedisHas(t) ==
    /\ inv[t].pc = "has"
    /\ LET free == Key(inv[t]) \notin redis
       IN  /\ inv' = [inv EXCEPT ![t].pc = IF free THEN "set" ELSE AfterRefusal(inv[t])]
           /\ local' = IF free THEN [local EXCEPT ![inv[t].proc] = @ \union {Key(inv[t])}]
                       ELSE local
    /\ UNCHANGED <<copy, chan, redis, now, published, ended, spent>>

RedisSet(t) ==
    /\ inv[t].pc = "set"
    /\ redis' = redis \union {Key(inv[t])}
    /\ inv' = [inv EXCEPT ![t].pc = AfterLock(inv[t])]
    /\ UNCHANGED <<copy, chan, local, now, published, ended, spent>>

-------------------------------------------------------------------------------
(* handleLockedMessage: the lock of the message is held. An active cron skips  *)
(* this execution but schedules the next; a retry goes to the scheduler queue  *)
(* as it is, unless the channel is closed; a duplicate is acked.               *)
IsActive(m) == m \in Crons \ Inactive

SkipCronOnly(t) ==  \* mutant: the next execution is not scheduled
    /\ inv[t].pc = "locked" /\ IsActive(inv[t].id)
    /\ Become(t, [inv[t] EXCEPT !.pc = "ackSkipped"])

SkipCron(t) ==
    /\ inv[t].pc = "locked" /\ IsActive(inv[t].id)
    /\ Become(t, [inv[t] EXCEPT !.pc = "next", !.skip = TRUE])

LockedRetry(t) == inv[t].pc = "locked" /\ ~IsActive(inv[t].id) /\ inv[t].attempt > 0

RequeueLocked(t) ==
    /\ LockedRetry(t)
    /\ Answer(t, Idle, [copy[inv[t].copy] EXCEPT !.at = "schq", !.holder = Nil])
    /\ UNCHANGED <<local, redis, now, published, ended, spent>>

IgnoreDuplicate(t) ==  \* mutant: returns without the ack
    /\ inv[t].pc = "locked" /\ ~IsActive(inv[t].id) /\ inv[t].attempt = 0
    /\ Become(t, Idle)

DuplicateGoesOn(t) ==  \* mutant: no return after handleLockedMessage
    /\ inv[t].pc = "locked" /\ ~IsActive(inv[t].id) /\ inv[t].attempt = 0
    /\ Answer(t, [inv[t] EXCEPT !.pc = "decode", !.settled = TRUE], Out)
    /\ UNCHANGED <<local, redis, now, published, ended, spent>>

DropDuplicate(t) ==
    /\ inv[t].pc = "locked" /\ ~IsActive(inv[t].id) /\ inv[t].attempt = 0
    /\ Answer(t, Idle, Out)
    /\ UNCHANGED <<local, redis, now, published, ended, spent>>

-------------------------------------------------------------------------------
(* The body of the handler.                                                    *)

FinishIfWritten(t, pc) ==  \* mutant: unlocks only when the channel was open
    /\ Answer(t, [inv[t] EXCEPT !.pc = pc, !.settled = TRUE], Out)
    /\ local' = IF CanWrite(t) THEN Unlock(inv[t].proc, MsgKey(inv[t].id)) ELSE local

FinishUnanswered(t, pc) ==  \* mutant: no ack
    /\ inv' = [inv EXCEPT ![t].pc = pc]
    /\ local' = Unlock(inv[t].proc, MsgKey(inv[t].id))
    /\ UNCHANGED <<copy, chan>>

(* An ack or nack that ends the delivery, then the unlock.                     *)
Finish(t, pc) ==
    /\ Answer(t, [inv[t] EXCEPT !.pc = pc, !.settled = TRUE], Out)
    /\ local' = Unlock(inv[t].proc, MsgKey(inv[t].id))

NotDeadLettered(t) == ended  \* mutant: the last failure is acked, not nacked
DeadLettered(t) == IF Reaches(t) /\ ~Refused(t) THEN ended \union {inv[t].id} ELSE ended

(* decode throws outside the try. If the process goes on, the delivery stays   *)
(* unanswered and the lock held; if not, see EndedByRejection.                 *)
DecodeFails(t) ==
    /\ inv[t].pc = "decode" /\ inv[t].id \in Undecodable
    /\ inv[t].proc \in Listening
    /\ Become(t, Idle)

RejectInactive(t) ==
    /\ inv[t].pc = "decode" /\ inv[t].id \in Inactive \ Undecodable
    /\ Finish(t, "unlockLast")
    /\ ended' = DeadLettered(t)
    /\ UNCHANGED <<redis, now, published, spent>>

Decode(t) ==
    /\ inv[t].pc = "decode" /\ inv[t].id \notin Undecodable \union Inactive
    /\ Become(t, [inv[t] EXCEPT !.pc = IF inv[t].id \in Crons THEN "next" ELSE "run"])

(* scheduleNextCron: nextCronDate resolves, and the publish lock is tried. Once*)
(* the publish has run that lock is never released: it expires.                *)
NextCron(t) ==
    /\ inv[t].pc = "next" /\ now < LastTick
    /\ LET i == [inv[t] EXCEPT !.next = now + 1]
       IN  inv' = [inv EXCEPT ![t] = Lock(i)] /\ local' = LockLocal(i)
    /\ UNCHANGED <<copy, chan, redis, now, published, ended, spent>>

(* The schedule has no execution left: the delivery ends, and this one is not  *)
(* run either.                                                                 *)
NoNextCron(t) ==
    /\ inv[t].pc = "next" /\ now = LastTick
    /\ IF inv[t].skip
       THEN Answer(t, Idle, Out) /\ UNCHANGED local
       ELSE Finish(t, "unlockLast")
    /\ UNCHANGED <<redis, now, published, ended, spent>>

(* The next execution carries the properties of this message, its x-attempt    *)
(* header included.                                                            *)
NextExecution(i) ==
    [Out EXCEPT !.at = "cronq", !.id = i.id, !.attempt = i.attempt, !.due = i.next]

PublishNext(t) ==
    /\ inv[t].pc = "publish"
    /\ IF Reaches(t)
       THEN \E c \in Copies : /\ copy[c].at = "out"
                              /\ copy' = [copy EXCEPT ![c] = NextExecution(inv[t])]
       ELSE UNCHANGED copy
    /\ inv' = [inv EXCEPT ![t].pc = IF CanWrite(t) THEN AfterSchedule(inv[t]) ELSE "freed"]
    /\ local' = IF CanWrite(t) THEN local ELSE Unlock(inv[t].proc, Key(inv[t]))
    /\ UNCHANGED <<chan, redis, now, published, ended, spent>>

FreePublishLock(t) ==
    /\ inv[t].pc = "freed"
    /\ redis' = redis \ {Key(inv[t])}
    /\ inv' = [inv EXCEPT ![t].pc = AfterSchedule(inv[t])]
    /\ UNCHANGED <<copy, chan, local, now, published, ended, spent>>

AckSkipped(t) ==
    /\ inv[t].pc = "ackSkipped"
    /\ Answer(t, Idle, Out)
    /\ UNCHANGED <<local, redis, now, published, ended, spent>>

Succeed(t) ==
    /\ inv[t].pc = "run"
    /\ Finish(t, "unlockRun")
    /\ ended' = ended \union {inv[t].id}
    /\ UNCHANGED <<redis, now, published, spent>>

Catch(i) == IF i.attempt < MaxRetries THEN "onerror" ELSE "onerrorLast"

Fail(t) ==
    /\ inv[t].pc = "run"
    /\ Become(t, [inv[t] EXCEPT !.pc = Catch(inv[t])])

ReleaseLater(t) ==  \* mutant: the lock is still held when the retry is published
    /\ inv[t].pc = "onerror"
    /\ Become(t, [inv[t] EXCEPT !.pc = "requeue"])

(* safeOnError returns; the lock is released before the retry is published.    *)
ReleaseForRetry(t) ==
    /\ inv[t].pc = "onerror"
    /\ inv' = [inv EXCEPT ![t].pc = "requeue"]
    /\ local' = Unlock(inv[t].proc, MsgKey(inv[t].id))
    /\ UNCHANGED <<copy, chan, redis, now, published, ended, spent>>

RetryNever(c, q) == Out  \* mutant: the ack runs, the retry is not sent
RetryBefore(c, q) == [c EXCEPT !.at = q, !.attempt = @ - 1, !.holder = Nil]  \* mutant
RetryOf(c, q) == [c EXCEPT !.at = q, !.attempt = @ + 1, !.holder = Nil]

(* redis.delete returns: ack and, if the ack ran, send the retry.              *)
Requeue(t) ==
    /\ inv[t].pc = "requeue"
    /\ redis' = redis \ {MsgKey(inv[t].id)}
    /\ \E q \in {"schq", "ready"} : Answer(t, Idle, RetryOf(copy[inv[t].copy], q))
    /\ UNCHANGED <<local, now, published, ended, spent>>

(* safeOnError returns; no retries are left.                                   *)
DeadLetter(t) ==
    /\ inv[t].pc = "onerrorLast"
    /\ Finish(t, "unlockLast")
    /\ ended' = DeadLettered(t)
    /\ UNCHANGED <<redis, now, published, spent>>

EndLocalOnly(t) ==  \* mutant: the shared lock is not deleted
    /\ inv[t].pc \in {"unlockRun", "unlockLast"}
    /\ Become(t, Idle)

(* The last redis.delete returns.                                              *)
EndUnlock(t) ==
    /\ inv[t].pc \in {"unlockRun", "unlockLast"}
    /\ redis' = redis \ {MsgKey(inv[t].id)}
    /\ inv' = [inv EXCEPT ![t] = Idle]
    /\ UNCHANGED <<copy, chan, local, now, published, ended, spent>>

-------------------------------------------------------------------------------
(* Faults, each within its bound.                                              *)
Spend(f, bound) == spent[f] < bound /\ spent' = [spent EXCEPT ![f] = @ + 1]

(* What rejects outside the try: a decode that fails, and a Redis command that *)
(* does. Nothing awaits the consumer callback (setup.ts), so the rejection is  *)
(* an unhandled one.                                                           *)
OutsideTry == {"has", "set", "freed", "requeue", "unlockLast"}
Escapes(i) ==
    \/ i.pc = "decode" /\ i.id \in Undecodable
    \/ i.pc \in OutsideTry /\ UseRedis

(* A Redis command rejects. After a successful run that lands in the catch of  *)
(* the run; anywhere else it escapes and, in a process that goes on, ends the  *)
(* invocation.                                                                 *)
RedisError(t) ==
    /\ UseRedis
    /\ \/ inv[t].pc = "unlockRun"
       \/ inv[t].pc \in OutsideTry /\ inv[t].proc \in Listening
    /\ Spend("redisErrors", MaxRedisErrors)
    /\ inv' = IF inv[t].pc = "unlockRun" THEN [inv EXCEPT ![t].pc = Catch(inv[t])]
              ELSE [inv EXCEPT ![t] = Idle]
    /\ UNCHANGED <<copy, chan, local, redis, now, published, ended>>

(* The broker loses the connection of a process, which may notice later.       *)
Drop(p) ==
    /\ chan[p] \in {"open", "refused"}
    /\ Spend("drops", MaxDrops)
    /\ copy' = Requeued(p)
    /\ chan' = [chan EXCEPT ![p] = "lost"]
    /\ UNCHANGED <<inv, local, redis, now, published, ended>>

(* ... or between two frames: the ack arrives, the retry sent after it does not.*)
DropBeforeRetry(t) ==
    /\ inv[t].pc = "requeue" \/ LockedRetry(t)
    /\ Reaches(t) /\ ~Refused(t)
    /\ Spend("torn", MaxTorn)
    /\ redis' = IF inv[t].pc = "requeue" THEN redis \ {MsgKey(inv[t].id)} ELSE redis
    /\ copy' = [Requeued(inv[t].proc) EXCEPT ![inv[t].copy] = Out]
    /\ chan' = [chan EXCEPT ![inv[t].proc] = "lost"]
    /\ inv' = [inv EXCEPT ![t] = Idle]
    /\ UNCHANGED <<local, now, published, ended>>

Notice(p) ==
    /\ chan[p] = "lost"
    /\ chan' = [chan EXCEPT ![p] = "closed"]
    /\ inv' = Orphaned(p)
    /\ UNCHANGED <<copy, local, redis, now, published, ended, spent>>

(* The reconnection, or the restart, sets the consumer up on a new channel.    *)
Reconnect(p) ==
    /\ chan[p] = "closed"
    /\ chan' = [chan EXCEPT ![p] = "open"]
    /\ UNCHANGED <<copy, inv, local, redis, now, published, ended, spent>>

(* A process ends, with all its invocations and its local cache, and restarts. *)
Crash(p) ==
    /\ Spend("crashes", MaxCrashes)
    /\ copy' = Requeued(p)
    /\ inv' = [t \in Tasks |-> IF inv[t].proc = p THEN Idle ELSE inv[t]]
    /\ chan' = [chan EXCEPT ![p] = "closed"]
    /\ local' = [local EXCEPT ![p] = {}]
    /\ UNCHANGED <<redis, now, published, ended>>

(* That is also what an escaping rejection does to a process whose application *)
(* does not listen; the bound on crashes covers both.                          *)
EndedByRejection(t) ==
    /\ inv[t].proc \notin Listening
    /\ Escapes(inv[t])
    /\ Crash(inv[t].proc)

(* A lock reaches the end of its 300 s, in one cache or the other.             *)
LockExpires ==
    /\ Spend("expiries", MaxExpiries)
    /\ \/ \E p \in Procs : \E key \in local[p] : local' = Unlock(p, key) /\ UNCHANGED redis
       \/ \E key \in redis : redis' = redis \ {key} /\ UNCHANGED local
    /\ UNCHANGED <<copy, inv, chan, now, published, ended>>

-------------------------------------------------------------------------------
Handle(t) ==
    \/ RedisHas(t) \/ RedisSet(t)
    \/ SkipCron(t) \/ RequeueLocked(t) \/ DropDuplicate(t)
    \/ DecodeFails(t) \/ RejectInactive(t) \/ Decode(t)
    \/ NextCron(t) \/ NoNextCron(t) \/ PublishNext(t) \/ FreePublishLock(t) \/ AckSkipped(t)
    \/ Succeed(t) \/ Fail(t) \/ ReleaseForRetry(t) \/ Requeue(t) \/ DeadLetter(t)
    \/ EndUnlock(t)

Next ==
    \/ \E m \in Ordinary : Publish(m)
    \/ \E c \in Copies : Expire(c)
    \/ Tick
    \/ \E p \in Procs, c \in Copies, t \in Tasks : Deliver(p, c, t)
    \/ \E t \in Tasks : \/ Handle(t) \/ RedisError(t)
                       \/ EndedByRejection(t) \/ DropBeforeRetry(t)
    \/ \E p \in Procs : Drop(p) \/ Notice(p) \/ Reconnect(p) \/ Crash(p)
    \/ LockExpires

Spec == Init /\ [][Next]_vars

(* Weak fairness: an invocation goes on (Redis, decode and onmessage answer), a*)
(* TTL ends, a lost connection is noticed and set up again. Strong fairness per*)
(* copy: the queue is first in, first out, so no copy is passed over for ever  *)
(* by a channel that keeps having room. Publishers and faults owe nothing.     *)
Fairness ==
    /\ \A t \in Tasks : WF_vars(Handle(t))
    /\ \A c \in Copies : /\ WF_vars(Expire(c))
                         /\ SF_vars(\E p \in Procs, t \in Tasks : Deliver(p, c, t))
    /\ \A p \in Procs : WF_vars(Notice(p)) /\ WF_vars(Reconnect(p))

FairSpec == Spec /\ Fairness

-------------------------------------------------------------------------------
(* Properties.                                                                 *)

(* The invocations that hold the lock of their message.                        *)
Holds(i) ==
    \/ i.pc \in {"decode", "run", "onerror", "onerrorLast"}
    \/ i.pc \in {"next", "publish", "freed"} /\ ~i.skip
    \/ i.pc \in {"has", "set"} /\ i.next # 0 /\ ~i.skip

Running(t, u) == t # u /\ inv[t].pc = "run" /\ inv[u].pc = "run" /\ inv[t].id = inv[u].id

InBroker(m) == \E c \in Copies : copy[c].id = m
UnderWay(m) == \E t \in Tasks : inv[t].id = m /\ Holds(inv[t])

(* lockMessage (queues.ts) in one process: two invocations never run onmessage *)
(* for the same messageId at once, whatever is redelivered, retried or         *)
(* published twice.                                                            *)
OneRunPerProcess == \A t, u \in Tasks : Running(t, u) => inv[t].proc # inv[u].proc

(* The same across processes, which is what the shared cache is for.           *)
OneRunAnywhere == \A t, u \in Tasks : ~Running(t, u)

(* No path of the handler loses work: a published message is in the broker, or *)
(* its run is still going, until a run succeeds or it is dead-lettered. (One   *)
(* that does not decode is not covered: delivered again, it meets its own lock *)
(* and is dropped.)                                                            *)
NoWorkLost ==
    \A m \in Ordinary \ Undecodable :
        published[m] > 0 => InBroker(m) \/ UnderWay(m) \/ m \in ended

(* In a cluster with Redis too, but for two causes. A channel that the broker  *)
(* has refused: its deliveries meet the locks of the runs that go on, and those*)
(* cannot retry. A process that ended, be it by a rejection that escaped: its  *)
(* locks stay in Redis, and its deliveries meet them. The local cache ends with*)
(* its process, so without Redis only the first is left.                       *)
LostOnlyOnRefusalOrEnd ==
    (\A p \in Procs : chan[p] # "refused") /\ (UseRedis => spent["crashes"] = 0)
    => NoWorkLost

(* Every path out of the handler ends the delivery: a delivery on an open      *)
(* channel that nobody answered yet has an invocation that will.               *)
DeliveryAnswered ==
    \A c \in Copies :
        copy[c].at = "unacked" /\ chan[copy[c].holder] = "open"
        => \E t \in Tasks : /\ inv[t].pc # "idle" /\ ~inv[t].settled /\ inv[t].current
                            /\ inv[t].copy = c /\ inv[t].proc = copy[c].holder

(* The lock of a message is held only while an invocation of it is under way in*)
(* that process: no path leaks it, and a retry never meets the lock of the     *)
(* attempt that published it.                                                  *)
LockOwned ==
    \A p \in Procs, m \in Msgs :
        MsgKey(m) \in local[p]
        => \E t \in Tasks : inv[t].proc = p /\ inv[t].id = m /\ Holds(inv[t])

(* The shared lock too, but for the time its last redis.delete takes. The end  *)
(* of a process, or a Redis command that fails in one that goes on, does leave *)
(* one behind, until it expires.                                               *)
SharedLockOwned ==
    \A m \in Msgs \ Undecodable :
        MsgKey(m) \in redis /\ spent["crashes"] = 0 /\ spent["redisErrors"] = 0
        => \E t \in Tasks :
              /\ inv[t].id = m
              /\ Holds(inv[t]) \/ inv[t].pc \in {"requeue", "unlockRun", "unlockLast"}

(* The chain of an active cron never ends before its schedule does: whichever  *)
(* way an execution goes (skipped, retried, failed), the next one is scheduled.*)
(* A dropped connection can end it: the publish is written to a connection the *)
(* broker no longer has, or the invocation with the publish lock fails to      *)
(* publish after the redelivered message was refused that lock.                *)
ChainUnbroken ==
    \A m \in Crons \ (Inactive \union Undecodable) :
        now < LastTick /\ spent["drops"] + spent["torn"] = 0 => InBroker(m)

(* Each execution time is pending once: an execution, its retries and the ones *)
(* that overlap it all try to publish it.                                      *)
OneNextExecution ==
    \A c, d \in Copies :
        /\ c # d /\ copy[c].at = "cronq" /\ copy[d].at = "cronq"
        /\ copy[c].id = copy[d].id
        => copy[c].due # copy[d].due

(* A scheduled execution starts with all of its retries.                       *)
FreshNextExecution == \A c \in Copies : copy[c].at = "cronq" => copy[c].attempt = 0

(* No delivery is acked or nacked twice, which would close the channel for good*)
(* (setup.ts only logs it), whatever the lock, an expiry and other processes   *)
(* do; but a Redis command that fails after a run does that: the ack of the run*)
(* is followed by the one of its catch.                                        *)
RefusedByRedisError ==
    \A p \in Procs : chan[p] = "refused" => spent["redisErrors"] > 0

(* Every delivery ends, so that it does not keep its prefetch slot.            *)
DeliveryEnds == \A c \in Copies : copy[c].at = "unacked" ~> copy[c].at # "unacked"

(* The consumer side implements AtLeastOnce: a message is owed while the broker*)
(* has a copy of it, and settled by a successful run or by the dead letters.   *)
(* Executions of a cron are not owed: those that overlap are skipped.          *)
Stage(m) == IF m \in ended THEN "settled" ELSE IF InBroker(m) THEN "owed" ELSE "none"
stage == [m \in Ordinary |-> Stage(m)]

Promise == INSTANCE AtLeastOnce WITH Msgs <- Ordinary

KeepsPromise == Promise!Spec
===============================================================================
