-------------------------- MODULE SubscriberWorkProofs --------------------------
(* What the handler of Subscriber does not lose, for every value of its         *)
(* constants: the work of a message, and the next execution of a cron.          *)
EXTENDS SubscriberLockProofs, Integers

-------------------------------------------------------------------------------
(* The inductive invariants. Only a Redis command that fails after a run makes  *)
(* the handler answer twice.                                                    *)
NoError ==
    spent["redisErrors"] = 0
    => /\ \A p \in Procs : chan[p] # "refused"
       /\ \A t \in Tasks : inv[t].settled => inv[t].pc \in {"unlockRun", "unlockLast"}

(* While no connection is lost, every invocation has its channel, unless the    *)
(* broker has refused it.                                                       *)
Calm == (\A p \in Procs : chan[p] # "refused") /\ (UseRedis => spent["crashes"] = 0)
NoDrops == spent["drops"] = 0 /\ spent["torn"] = 0
Attached ==
    NoDrops => /\ \A p \in Procs : chan[p] # "lost"
               /\ \A t \in Tasks : inv[t].pc # "idle" /\ chan[inv[t].proc] # "refused"
                                   => inv[t].current /\ chan[inv[t].proc] = "open"

WithoutRedis ==
    ~UseRedis => redis = {} /\ spent["redisErrors"] = 0 /\ \A t \in Tasks : inv[t].pc \notin {"has", "set"}

(* The steps that only crons take.                                              *)
CronPcs == {"next", "publish", "freed", "ackSkipped"}
CronsOnly ==
    \A t \in Tasks : inv[t].pc \in CronPcs \/ (inv[t].pc \in {"has", "set"} /\ inv[t].next # 0)
                     => inv[t].id \in Crons

-------------------------------------------------------------------------------
(* The steps of an invocation, while its channel is not refused.                *)

Ending == {"unlockRun", "unlockLast"}

(* The invocation ends, or goes on with its delivery.                           *)
GoesOn(t, i) ==
    /\ i.pc # "idle" /\ i.proc = inv[t].proc /\ i.copy = inv[t].copy /\ i.id = inv[t].id
    /\ i.attempt = inv[t].attempt /\ i.current = inv[t].current
    /\ i.settled => inv[t].settled \/ i.pc \in Ending
    /\ inv[t].settled => i.settled

LEMMA Busy ==
  ASSUME Sound, NEW t \in Tasks, inv[t].pc # "idle"
  PROVE  /\ InvOK(inv[t]) /\ inv[t] \in InvType /\ inv \in [Tasks -> InvType]
         /\ inv[t].proc \in Procs /\ inv[t].copy \in Copies /\ inv[t].id \in Msgs
  BY DEF Sound, Typed, InvsOK, InvOK

LEMMA OneMoves ==
  ASSUME Sound, NEW t \in Tasks, NEW i, inv' = [inv EXCEPT ![t] = i]
  PROVE  inv'[t] = i /\ \A u \in Tasks : u # t => inv'[u] = inv[u]
  BY DEF Sound, Typed, InvsOK

LEMMA Locked ==
  ASSUME NEW i \in InvType
  PROVE  /\ Lock(i).proc = i.proc /\ Lock(i).copy = i.copy /\ Lock(i).id = i.id
         /\ Lock(i).attempt = i.attempt /\ Lock(i).current = i.current /\ Lock(i).settled = i.settled
         /\ Lock(i).next = i.next /\ Lock(i).skip = i.skip /\ Lock(i).pc # "idle"
         /\ Lock(i).pc = IF Held(i) THEN AfterRefusal(i) ELSE IF UseRedis THEN "has" ELSE AfterLock(i)
  BY DEF InvType, Lock, AfterRefusal, AfterLock, AfterSchedule

(* An action that only moves the invocation.                                    *)
LEMMA PcMoves ==
  ASSUME Sound, NEW t \in Tasks, inv[t].pc # "idle", NEW pc, pc # "idle",
         inv' = [inv EXCEPT ![t].pc = pc] \/ inv' = [inv EXCEPT ![t] = [inv[t] EXCEPT !.pc = pc]]
  PROVE  /\ GoesOn(t, inv'[t]) /\ inv'[t].pc = pc /\ inv'[t].next = inv[t].next
         /\ inv'[t].skip = inv[t].skip /\ inv'[t].settled = inv[t].settled
         /\ \A u \in Tasks : u # t => inv'[u] = inv[u]
  <1>1. inv' = [inv EXCEPT ![t] = [inv[t] EXCEPT !.pc = pc]]
    OBVIOUS
  <1>2. PICK i : i = [inv[t] EXCEPT !.pc = pc]
    OBVIOUS
  <1>3. /\ GoesOn(t, i) /\ i.pc = pc /\ i.next = inv[t].next
        /\ i.skip = inv[t].skip /\ i.settled = inv[t].settled
    BY <1>2, Busy DEF InvType, GoesOn
  <1>4. inv'[t] = i /\ \A u \in Tasks : u # t => inv'[u] = inv[u]
    BY <1>1, <1>2, OneMoves
  <1> QED BY <1>3, <1>4

LEMMA PlainAnswer ==
  ASSUME Sound, NEW t \in Tasks, NEW i, NEW c, inv[t].pc # "idle", Answer(t, i, c), chan' = chan
  PROVE  /\ ~Refused(t) /\ inv'[t] = i /\ \A u \in Tasks : u # t => inv'[u] = inv[u]
         /\ copy' = IF Reaches(t) THEN [copy EXCEPT ![inv[t].copy] = c] ELSE copy
  <1>1. ~Refused(t)
    BY Busy DEF Answer, Refused, Reaches, Sound, Typed
  <1>2. inv' = [inv EXCEPT ![t] = i]
    BY <1>1 DEF Answer
  <1> QED BY <1>1, <1>2, OneMoves DEF Answer

LEMMA PlainFinish ==
  ASSUME Sound, NEW t \in Tasks, inv[t].pc # "idle", NEW pc \in Ending, Finish(t, pc), chan' = chan
  PROVE  /\ ~Refused(t) /\ GoesOn(t, inv'[t]) /\ inv'[t].pc = pc /\ inv'[t].settled
         /\ inv'[t].next = inv[t].next /\ inv'[t].skip = inv[t].skip
         /\ \A u \in Tasks : u # t => inv'[u] = inv[u]
         /\ copy' = IF Reaches(t) THEN [copy EXCEPT ![inv[t].copy] = Out] ELSE copy
         /\ local' = Unlock(inv[t].proc, MsgKey(inv[t].id))
  <1>1. PICK i : i = [inv[t] EXCEPT !.pc = pc, !.settled = TRUE]
    OBVIOUS
  <1>2. Answer(t, i, Out) /\ local' = Unlock(inv[t].proc, MsgKey(inv[t].id))
    BY <1>1 DEF Finish
  <1>3. GoesOn(t, i) /\ i.pc = pc /\ i.settled /\ i.next = inv[t].next /\ i.skip = inv[t].skip
    BY <1>1, Busy DEF InvType, GoesOn, Ending
  <1> QED BY <1>2, <1>3, PlainAnswer

LEMMA Schedules ==
  ASSUME Sound, NEW t \in Tasks, NextCron(t)
  PROVE  \E i \in InvType :
           /\ i.proc = inv[t].proc /\ i.copy = inv[t].copy /\ i.id = inv[t].id
           /\ i.attempt = inv[t].attempt /\ i.current = inv[t].current /\ i.settled = inv[t].settled
           /\ i.next = now + 1 /\ i.skip = inv[t].skip /\ i.pc = "next" /\ now + 1 \in Ticks \ {0}
           /\ inv'[t] = Lock(i) /\ local' = LockLocal(i)
           /\ \A u \in Tasks : u # t => inv'[u] = inv[u]
  <1>1. inv[t].pc = "next" /\ now < LastTick
    BY DEF NextCron
  <1>2. now + 1 \in Ticks \ {0}
    BY <1>1, ConstantsAssumption DEF Sound, Typed, Ticks
  <1>3. PICK i : i = [inv[t] EXCEPT !.next = now + 1]
    OBVIOUS
  <1>4. /\ i \in InvType /\ i.proc = inv[t].proc /\ i.copy = inv[t].copy /\ i.id = inv[t].id
        /\ i.attempt = inv[t].attempt /\ i.current = inv[t].current /\ i.settled = inv[t].settled
        /\ i.next = now + 1 /\ i.skip = inv[t].skip /\ i.pc = "next"
    BY <1>1, <1>2, <1>3, Busy DEF InvType
  <1>5. inv' = [inv EXCEPT ![t] = Lock(i)] /\ local' = LockLocal(i)
    BY <1>3 DEF NextCron
  <1>6. inv'[t] = Lock(i) /\ \A u \in Tasks : u # t => inv'[u] = inv[u]
    BY <1>5, OneMoves
  <1> QED BY <1>2, <1>4, <1>5, <1>6

LEMMA Delivered ==
  ASSUME Sound, NEW p \in Procs, NEW c \in Copies, NEW t \in Tasks, Deliver(p, c, t)
  PROVE  /\ copy[c].at = "ready" /\ chan[p] = "open" /\ inv[t].pc = "idle" /\ copy[c].id \in Msgs
         /\ UNCHANGED <<chan, redis, now, published, ended, spent>>
         /\ \A d \in Copies : d # c => copy'[d] = copy[d]
         /\ copy'[c].at = "unacked" /\ copy'[c].holder = p /\ copy'[c].id = copy[c].id
         /\ copy'[c].attempt = copy[c].attempt
         /\ \A u \in Tasks : u # t => inv'[u] = inv[u]
         /\ \E i \in InvType : /\ i.proc = p /\ i.copy = c /\ i.id = copy[c].id
                               /\ i.attempt = copy[c].attempt /\ i.current /\ ~i.settled
                               /\ i.next = 0 /\ ~i.skip /\ inv'[t] = Lock(i) /\ local' = LockLocal(i)
  <1>1. PICK i : i = [Idle EXCEPT !.proc = p, !.copy = c, !.id = copy[c].id,
                                  !.attempt = copy[c].attempt, !.current = TRUE]
    OBVIOUS
  <1>2. copy[c].at = "ready" /\ copy[c].id \in Msgs /\ copy[c].attempt \in Nat /\ copy \in [Copies -> CopyType]
    BY DEF Deliver, Sound, Typed, CopyOK, CopyType
  <1>3. /\ i \in InvType /\ i.proc = p /\ i.copy = c /\ i.id = copy[c].id
        /\ i.attempt = copy[c].attempt /\ i.current /\ ~i.settled /\ i.next = 0 /\ ~i.skip
    BY <1>1, <1>2, IdleOK DEF InvOK, InvType, Idle
  <1>4. inv' = [inv EXCEPT ![t] = Lock(i)] /\ local' = LockLocal(i)
    BY <1>1 DEF Deliver
  <1>5. inv'[t] = Lock(i) /\ \A u \in Tasks : u # t => inv'[u] = inv[u]
    BY <1>4, OneMoves
  <1>6. /\ \A d \in Copies : d # c => copy'[d] = copy[d]
        /\ copy'[c].at = "unacked" /\ copy'[c].holder = p /\ copy'[c].id = copy[c].id
        /\ copy'[c].attempt = copy[c].attempt
    BY <1>2 DEF Deliver, CopyType
  <1>7. /\ chan[p] = "open" /\ inv[t].pc = "idle"
        /\ UNCHANGED <<chan, redis, now, published, ended, spent>>
    BY DEF Deliver
  <1> QED BY <1>2, <1>3, <1>4, <1>5, <1>6, <1>7

LEMMA Plain ==
  ASSUME Sound, NEW t \in Tasks, Handle(t), chan' = chan
  PROVE  /\ UNCHANGED spent
         /\ inv'[t] = Idle \/ GoesOn(t, inv'[t])
         /\ \A u \in Tasks : u # t => inv'[u] = inv[u]
  <1>0. inv[t].pc # "idle"
    BY BusyHandle
  <1>1. UNCHANGED spent
    BY DEF Handle, RedisHas, RedisSet, SkipCron, RequeueLocked, DropDuplicate, DecodeFails, RejectInactive,
           Decode, NextCron, NoNextCron, PublishNext, FreePublishLock, AckSkipped, Succeed, Fail,
           ReleaseForRetry, Requeue, DeadLetter, EndUnlock, Become
  <1>2. CASE \E pc : pc # "idle" /\ chan' = chan /\ inv' = [inv EXCEPT ![t].pc = pc]
    BY <1>0, <1>1, <1>2, PcMoves
  <1>3. CASE \E c : Answer(t, Idle, c)
    BY <1>0, <1>1, <1>3, PlainAnswer
  <1>4. CASE \E pc \in Ending : Finish(t, pc)
    BY <1>0, <1>1, <1>4, PlainFinish
  <1>5. CASE chan' = chan /\ inv' = [inv EXCEPT ![t] = Idle]
    BY <1>1, <1>5, OneMoves
  <1>6. CASE RedisHas(t) \/ RedisSet(t) \/ PublishNext(t) \/ FreePublishLock(t)
    <2>1. chan' = chan
      BY <1>6 DEF RedisHas, RedisSet, PublishNext, FreePublishLock
    <2>2. \E pc : pc # "idle" /\ inv' = [inv EXCEPT ![t].pc = pc]
      BY <1>6 DEF RedisHas, RedisSet, PublishNext, FreePublishLock, AfterLock, AfterRefusal, AfterSchedule
    <2> QED BY <1>2, <2>1, <2>2
  <1>7. CASE SkipCron(t)
    <2>1. PICK i : i = [inv[t] EXCEPT !.pc = "next", !.skip = TRUE]
      OBVIOUS
    <2>2. inv' = [inv EXCEPT ![t] = i] /\ chan' = chan
      BY <1>7, <2>1 DEF SkipCron, Become
    <2>3. GoesOn(t, i)
      BY <1>0, <2>1, Busy DEF GoesOn, InvType
    <2> QED BY <1>1, <2>2, <2>3, OneMoves
  <1>8. CASE Decode(t) \/ Fail(t) \/ ReleaseForRetry(t)
    <2>1. chan' = chan
      BY <1>8 DEF Decode, Fail, ReleaseForRetry, Become
    <2>2. PICK pc : pc # "idle" /\ (inv' = [inv EXCEPT ![t].pc = pc]
                                    \/ inv' = [inv EXCEPT ![t] = [inv[t] EXCEPT !.pc = pc]])
      BY <1>8 DEF Decode, Fail, ReleaseForRetry, Become, Catch
    <2> QED BY <1>0, <1>1, <2>1, <2>2, PcMoves
  <1>9. CASE NextCron(t)
    <2>1. PICK i \in InvType :
           /\ i.proc = inv[t].proc /\ i.copy = inv[t].copy /\ i.id = inv[t].id
           /\ i.attempt = inv[t].attempt /\ i.current = inv[t].current /\ i.settled = inv[t].settled
           /\ inv'[t] = Lock(i) /\ \A u \in Tasks : u # t => inv'[u] = inv[u]
      BY <1>9, Schedules
    <2>2. GoesOn(t, Lock(i))
      BY <2>1, Locked DEF GoesOn
    <2>3. chan' = chan
      BY <1>9 DEF NextCron
    <2> QED BY <1>1, <2>1, <2>2, <2>3
  <1>10. CASE RequeueLocked(t) \/ DropDuplicate(t) \/ AckSkipped(t) \/ Requeue(t)
    <2>1. \E c : Answer(t, Idle, c)
      BY <1>10 DEF RequeueLocked, DropDuplicate, AckSkipped, Requeue
    <2> QED BY <1>3, <2>1
  <1>11. CASE RejectInactive(t) \/ DeadLetter(t) \/ Succeed(t)
    <2>1. \E pc \in Ending : Finish(t, pc)
      BY <1>11 DEF RejectInactive, DeadLetter, Succeed, Ending
    <2> QED BY <1>4, <2>1
  <1>12. CASE NoNextCron(t)
    <2>1. (\E c : Answer(t, Idle, c)) \/ \E pc \in Ending : Finish(t, pc)
      BY <1>12 DEF NoNextCron, Ending
    <2> QED BY <1>3, <1>4, <2>1
  <1>13. CASE DecodeFails(t) \/ EndUnlock(t)
    <2>1. chan' = chan /\ inv' = [inv EXCEPT ![t] = Idle]
      BY <1>13 DEF DecodeFails, EndUnlock, Become
    <2> QED BY <1>5, <2>1
  <1> QED BY <1>6, <1>7, <1>8, <1>9, <1>10, <1>11, <1>12, <1>13 DEF Handle

(* The broker closes the channel on a second answer, and on nothing else.       *)
LEMMA SameChannel ==
  ASSUME Sound, NEW t \in Tasks, Handle(t), chan' # chan
  PROVE  /\ inv[t].settled /\ inv[t].pc \notin Ending /\ chan'[inv[t].proc] = "refused"
         /\ inv[t].proc \in Procs
  <1>1. inv[t].pc # "idle" /\ inv[t].proc \in Procs
    BY BusyHandle, Busy
  <1>2. ASSUME NEW i, NEW c, Answer(t, i, c) PROVE inv[t].settled /\ chan'[inv[t].proc] = "refused"
    BY <1>1, <1>2 DEF Answer, Refused, Sound, Typed
  <1>3. CASE RequeueLocked(t) \/ DropDuplicate(t) \/ AckSkipped(t) \/ Requeue(t)
    <2>1. (\E c : Answer(t, Idle, c)) /\ inv[t].pc \notin Ending
      BY <1>3 DEF RequeueLocked, LockedRetry, DropDuplicate, AckSkipped, Requeue, Ending
    <2> QED BY <1>1, <1>2, <2>1
  <1>4. CASE RejectInactive(t) \/ DeadLetter(t) \/ Succeed(t)
    <2>1. (\E i : Answer(t, i, Out)) /\ inv[t].pc \notin Ending
      BY <1>4 DEF RejectInactive, DeadLetter, Succeed, Finish, Ending
    <2> QED BY <1>1, <1>2, <2>1
  <1>5. CASE NoNextCron(t)
    <2>1. (\E i : Answer(t, i, Out)) /\ inv[t].pc \notin Ending
      BY <1>5 DEF NoNextCron, Finish, Ending
    <2> QED BY <1>1, <1>2, <2>1
  <1>6. RequeueLocked(t) \/ DropDuplicate(t) \/ AckSkipped(t) \/ Requeue(t) \/ RejectInactive(t)
        \/ DeadLetter(t) \/ Succeed(t) \/ NoNextCron(t)
    BY DEF Handle, RedisHas, RedisSet, SkipCron, DecodeFails, Decode, NextCron, PublishNext,
           FreePublishLock, Fail, ReleaseForRetry, EndUnlock, Become
  <1> QED BY <1>3, <1>4, <1>5, <1>6

-------------------------------------------------------------------------------
(* The channel that the broker refuses.                                         *)
LEMMA NoErrorHandle ==
  ASSUME Sound, NoError, NEW t \in Tasks, Handle(t)
  PROVE  NoError'
  <1> SUFFICES ASSUME spent'["redisErrors"] = 0
               PROVE  /\ \A p \in Procs : chan'[p] # "refused"
                      /\ \A u \in Tasks : inv'[u].settled => inv'[u].pc \in Ending
    BY DEF NoError, Ending
  <1>1. UNCHANGED spent
    BY DEF Handle, RedisHas, RedisSet, SkipCron, RequeueLocked, DropDuplicate, DecodeFails, RejectInactive,
           Decode, NextCron, NoNextCron, PublishNext, FreePublishLock, AckSkipped, Succeed, Fail,
           ReleaseForRetry, Requeue, DeadLetter, EndUnlock, Become
  <1>2. /\ \A p \in Procs : chan[p] # "refused"
        /\ \A u \in Tasks : inv[u].settled => inv[u].pc \in Ending
    BY <1>1 DEF NoError, Ending
  <1>3. chan' = chan
    BY <1>2, SameChannel
  <1>4. inv'[t] = Idle \/ GoesOn(t, inv'[t])
    BY <1>3, Plain
  <1>5. \A u \in Tasks : u # t => inv'[u] = inv[u]
    BY <1>3, Plain
  <1>6. ASSUME inv'[t].settled PROVE inv'[t].pc \in Ending
    <2>1. GoesOn(t, inv'[t])
      BY <1>4, <1>6 DEF Idle
    <2>2. CASE inv[t].settled
      <3>1. inv[t].pc \in Ending
        BY <1>2, <2>2
      <3>2. EndUnlock(t)
        BY <3>1 DEF Ending, Handle, RedisHas, RedisSet, SkipCron, RequeueLocked, LockedRetry, DropDuplicate,
             DecodeFails, RejectInactive, Decode, NextCron, NoNextCron, PublishNext, FreePublishLock,
             AckSkipped, Succeed, Fail, ReleaseForRetry, Requeue, DeadLetter
      <3>3. inv'[t] = Idle
        BY <3>2, OneMoves DEF EndUnlock
      <3> QED BY <1>6, <3>3 DEF Idle
    <2> QED BY <1>6, <2>1, <2>2 DEF GoesOn
  <1> QED BY <1>2, <1>3, <1>5, <1>6

LEMMA NoErrorFault ==
  ASSUME Sound, NoError, NEW p \in Procs, Drop(p) \/ Notice(p) \/ Reconnect(p) \/ Crash(p)
  PROVE  NoError'
  <1> SUFFICES ASSUME spent'["redisErrors"] = 0
               PROVE  /\ \A q \in Procs : chan'[q] # "refused"
                      /\ \A u \in Tasks : inv'[u].settled => inv'[u].pc \in Ending
    BY DEF NoError, Ending
  <1>1. spent'["redisErrors"] = spent["redisErrors"]
    BY DEF Drop, Notice, Reconnect, Crash, Spend, Sound, Typed, Faults
  <1>2. /\ \A q \in Procs : chan[q] # "refused"
        /\ \A u \in Tasks : inv[u].settled => inv[u].pc \in Ending
    BY <1>1 DEF NoError, Ending
  <1>3. \A q \in Procs : chan'[q] # "refused"
    BY <1>2 DEF Drop, Notice, Reconnect, Crash, Sound, Typed
  <1>4. ASSUME NEW u \in Tasks PROVE inv'[u].settled => inv'[u].pc \in Ending
    <2>1. inv[u] \in InvType
      BY DEF Sound, Typed, InvsOK
    <2>2. inv'[u] = inv[u] \/ inv'[u] = [inv[u] EXCEPT !.current = FALSE] \/ inv'[u] = Idle
      BY DEF Drop, Notice, Reconnect, Crash, Orphaned
    <2>3. CASE inv'[u] = inv[u]
      BY <1>2, <2>3
    <2>4. CASE inv'[u] = [inv[u] EXCEPT !.current = FALSE]
      <3>1. inv'[u].settled = inv[u].settled /\ inv'[u].pc = inv[u].pc
        BY <2>1, <2>4 DEF InvType
      <3> QED BY <1>2, <3>1
    <2>5. CASE inv'[u] = Idle
      BY <2>5 DEF Idle
    <2> QED BY <2>2, <2>3, <2>4, <2>5
  <1> QED BY <1>3, <1>4

LEMMA NoErrorNext == Sound /\ NoError /\ [Next]_vars => NoError'
  <1> SUFFICES ASSUME Sound, NoError, [Next]_vars PROVE NoError'
    OBVIOUS
  <1>1. CASE UNCHANGED <<inv, chan>> /\ spent'["redisErrors"] = spent["redisErrors"]
    BY <1>1 DEF NoError
  <1>2. ASSUME NEW t \in Tasks, RedisError(t) PROVE NoError'
    <2>1. spent'["redisErrors"] # 0
      BY <1>2 DEF RedisError, Spend, Sound, Typed, Faults
    <2> QED BY <2>1 DEF NoError
  <1>3. ASSUME NEW t \in Tasks, DropBeforeRetry(t) PROVE NoError'
    <2>1. spent'["redisErrors"] = spent["redisErrors"]
      BY <1>3 DEF DropBeforeRetry, Spend, Sound, Typed, Faults
    <2>2. inv' = [inv EXCEPT ![t] = Idle] /\ \A p \in Procs : chan'[p] = chan[p] \/ chan'[p] = "lost"
      BY <1>3 DEF DropBeforeRetry, Sound, Typed
    <2>3. inv'[t] = Idle /\ \A u \in Tasks : u # t => inv'[u] = inv[u]
      BY <2>2, OneMoves
    <2> QED BY <2>1, <2>2, <2>3 DEF NoError, Idle
  <1>4. ASSUME NEW p \in Procs, NEW c \in Copies, NEW t \in Tasks, Deliver(p, c, t) PROVE NoError'
    <2>1. UNCHANGED <<chan, spent>> /\ \A u \in Tasks : u # t => inv'[u] = inv[u]
      BY <1>4, Delivered
    <2>2. PICK i \in InvType : ~i.settled /\ inv'[t] = Lock(i)
      BY <1>4, Delivered
    <2>3. ~inv'[t].settled
      BY <2>2, Locked
    <2> QED BY <2>1, <2>3 DEF NoError
  <1>5. CASE UNCHANGED vars
    BY <1>1, <1>5 DEF vars
  <1>6. CASE \E m \in Ordinary : Publish(m)
    BY <1>1, <1>6 DEF Publish
  <1>7. CASE (\E c \in Copies : Expire(c)) \/ Tick
    BY <1>1, <1>7 DEF Expire, Tick
  <1>8. CASE LockExpires
    BY <1>1, <1>8 DEF LockExpires, Spend, Sound, Typed, Faults
  <1> QED BY <1>2, <1>3, <1>4, <1>5, <1>6, <1>7, <1>8, NoErrorHandle, NoErrorFault, NextMoves
      DEF Moves

(* No delivery is acked or nacked twice, which the broker answers by closing    *)
(* the channel: only a Redis command that fails makes the handler do that, when *)
(* the catch of the run follows its own ack.                                    *)
THEOREM RefusedOnlyByRedis == Spec => []RefusedByRedisError
  <1>1. Init => NoError
    <2>1. Init => (\A p \in Procs : chan[p] = "open") /\ (\A t \in Tasks : inv[t] = Idle)
      BY ZenonT(60) DEF Init
    <2> QED BY <2>1 DEF NoError, Idle
  <1>2. Sound /\ NoError => RefusedByRedisError
    BY DEF Sound, Typed, NoError, RefusedByRedisError, Faults
  <1> QED BY <1>1, <1>2, InitSound, NextSound, NoErrorNext, PTL DEF Spec

-------------------------------------------------------------------------------
(* The steps that only some invocations take.                                   *)
OnlyCrons(i) == i.pc \in CronPcs \/ (i.pc \in {"has", "set"} /\ i.next # 0) => i.id \in Crons

LEMMA SameOnly == ASSUME NEW i, NEW j, SameLock(i, j), OnlyCrons(j) PROVE OnlyCrons(i)
  BY DEF SameLock, OnlyCrons

LEMMA HandleOnly ==
  ASSUME Sound, CronsOnly, NEW t \in Tasks, Handle(t)
  PROVE  /\ Others(t) /\ OnlyCrons(inv'[t])
         /\ ~UseRedis /\ inv[t].pc \notin {"has", "set"} => inv'[t].pc \notin {"has", "set"} /\ redis' \subseteq redis
  <1>1. /\ InvOK(inv[t]) /\ inv[t] \in InvType /\ inv[t].pc # "idle" /\ inv \in [Tasks -> InvType]
        /\ inv[t].proc \in Procs /\ inv[t].id \in Msgs /\ OnlyCrons(inv[t])
    BY BusyHandle, Busy DEF CronsOnly, OnlyCrons
  <1>2. ASSUME NEW i, inv' = [inv EXCEPT ![t] = i] PROVE Others(t) /\ inv'[t] = i
    BY <1>1, <1>2 DEF Others, SameLock
  <1>3. ASSUME NEW pc, inv' = [inv EXCEPT ![t].pc = pc] \/ inv' = [inv EXCEPT ![t] = [inv[t] EXCEPT !.pc = pc]]
        PROVE  /\ Others(t) /\ inv'[t].pc = pc /\ inv'[t].id = inv[t].id /\ inv'[t].next = inv[t].next
    <2>1. PICK i : i = [inv[t] EXCEPT !.pc = pc]
      OBVIOUS
    <2>2. i.pc = pc /\ i.id = inv[t].id /\ i.next = inv[t].next
      BY <1>1, <2>1 DEF InvType
    <2>3. inv' = [inv EXCEPT ![t] = i]
      BY <1>3, <2>1
    <2> QED BY <1>2, <2>2, <2>3
  <1>4. Idle.pc = "idle" /\ InvOK(Idle) /\ OnlyCrons(Idle)
    BY IdleOK DEF Idle, OnlyCrons, CronPcs
  <1>5. ASSUME NEW c, Answer(t, Idle, c) PROVE Others(t) /\ inv'[t].pc = "idle"
    <2>1. SameLock(inv'[t], Idle)
      BY <1>1, <1>4, <1>5, AnswerLock
    <2>2. Others(t)
      BY <1>1, <1>4, <1>5, AnswerLock
    <2> QED BY <1>4, <2>1, <2>2 DEF SameLock
  <1>6. ASSUME NEW pc \in {"unlockRun", "unlockLast"}, Finish(t, pc) PROVE Others(t) /\ inv'[t].pc = pc
    <2>1. PICK i : i = [inv[t] EXCEPT !.pc = pc, !.settled = TRUE]
      OBVIOUS
    <2>2. InvOK(i) /\ i.pc = pc
      BY <1>1, <2>1 DEF InvOK, InvType, Pcs
    <2>3. Answer(t, i, Out)
      BY <1>6, <2>1 DEF Finish
    <2>4. SameLock(inv'[t], i) /\ Others(t)
      BY <1>1, <2>2, <2>3, AnswerLock
    <2> QED BY <2>2, <2>4 DEF SameLock
  <1>7. CASE RedisHas(t)
    <2>1. PICK pc \in {"set", AfterRefusal(inv[t])} : inv' = [inv EXCEPT ![t].pc = pc]
      BY <1>7 DEF RedisHas
    <2>2. inv[t].pc = "has"
      BY <1>7 DEF RedisHas
    <2> QED BY <1>1, <1>3, <2>1, <2>2 DEF OnlyCrons, CronPcs, AfterRefusal, AfterSchedule
  <1>8. CASE RedisSet(t)
    <2>1. inv[t].pc = "set" /\ inv' = [inv EXCEPT ![t].pc = AfterLock(inv[t])]
      BY <1>8 DEF RedisSet
    <2> QED BY ZenonT(60), <1>1, <1>3, <2>1 DEF OnlyCrons, CronPcs, AfterLock
  <1>9. CASE SkipCron(t)
    <2>1. PICK i : i = [inv[t] EXCEPT !.pc = "next", !.skip = TRUE]
      OBVIOUS
    <2>2. inv' = [inv EXCEPT ![t] = i] /\ redis' = redis /\ inv[t].id \in Crons
      BY <1>9, <2>1 DEF SkipCron, Become, IsActive
    <2>3. i.pc = "next" /\ i.id = inv[t].id
      BY <1>1, <2>1 DEF InvType
    <2>4. Others(t) /\ inv'[t] = i
      BY <1>2, <2>2
    <2> QED BY <2>2, <2>3, <2>4 DEF OnlyCrons
  <1>10. CASE RequeueLocked(t) \/ DropDuplicate(t) \/ AckSkipped(t) \/ Requeue(t)
    <2>1. (\E c : Answer(t, Idle, c)) /\ redis' \subseteq redis
      BY <1>10 DEF RequeueLocked, DropDuplicate, AckSkipped, Requeue
    <2> QED BY <1>5, <2>1 DEF OnlyCrons, CronPcs
  <1>11. CASE DecodeFails(t) \/ EndUnlock(t)
    <2>1. inv' = [inv EXCEPT ![t] = Idle] /\ redis' \subseteq redis
      BY <1>11 DEF DecodeFails, EndUnlock, Become
    <2> QED BY <1>2, <1>4, <2>1
  <1>12. CASE RejectInactive(t) \/ DeadLetter(t) \/ Succeed(t)
    <2>1. (\E pc \in {"unlockRun", "unlockLast"} : Finish(t, pc)) /\ redis' = redis
      BY <1>12 DEF RejectInactive, DeadLetter, Succeed
    <2> QED BY <1>6, <2>1 DEF OnlyCrons, CronPcs
  <1>13. CASE Decode(t) \/ Fail(t)
    <2>1. redis' = redis
      BY <1>13 DEF Decode, Fail, Become
    <2>2. PICK pc \in {"next", "run", "onerror", "onerrorLast"} :
              /\ inv' = [inv EXCEPT ![t] = [inv[t] EXCEPT !.pc = pc]]
              /\ pc = "next" => inv[t].id \in Crons
      BY <1>13 DEF Decode, Fail, Become, Catch
    <2> QED BY <1>1, <1>3, <2>1, <2>2 DEF OnlyCrons, CronPcs
  <1>14. CASE ReleaseForRetry(t)
    <2>1. redis' = redis /\ inv' = [inv EXCEPT ![t].pc = "requeue"]
      BY <1>14 DEF ReleaseForRetry
    <2>2. Others(t) /\ inv'[t].pc = "requeue"
      BY <1>3, <2>1
    <2> QED BY <2>1, <2>2 DEF OnlyCrons, CronPcs
  <1>15. CASE NextCron(t)
    <2>0. inv[t].pc = "next" /\ now < LastTick /\ redis' = redis
      BY <1>15 DEF NextCron
    <2>1. PICK i : i = [inv[t] EXCEPT !.next = now + 1]
      OBVIOUS
    <2>2. now + 1 # 0 /\ now + 1 \in Ticks
      BY <2>0, ConstantsAssumption DEF Sound, Typed, Ticks
    <2>3. i \in InvType /\ i.id = inv[t].id /\ i.next # 0
      BY <1>1, <2>0, <2>1, <2>2 DEF InvType
    <2>4. PICK j : j = Lock(i)
      OBVIOUS
    <2>5. j.id = i.id /\ j.next = i.next /\ j.pc \in {AfterRefusal(i), AfterLock(i), IF UseRedis THEN "has" ELSE AfterLock(i)}
      BY <2>3, <2>4, Locked
    <2>6. inv' = [inv EXCEPT ![t] = j]
      BY <1>15, <2>1, <2>4 DEF NextCron
    <2>7. Others(t) /\ inv'[t] = j
      BY <1>2, <2>6
    <2>8. inv[t].id \in Crons
      BY <1>1, <2>0 DEF OnlyCrons, CronPcs
    <2> QED BY <2>0, <2>3, <2>5, <2>7, <2>8 DEF OnlyCrons, AfterRefusal, AfterLock, AfterSchedule
  <1>16. CASE NoNextCron(t)
    <2>1. inv[t].pc = "next" /\ redis' = redis
      BY <1>16 DEF NoNextCron
    <2>2. (Others(t) /\ inv'[t].pc = "idle") \/ (Others(t) /\ inv'[t].pc = "unlockLast")
      BY <1>5, <1>6, <1>16 DEF NoNextCron
    <2> QED BY <2>1, <2>2 DEF OnlyCrons, CronPcs
  <1>17. CASE PublishNext(t) \/ FreePublishLock(t)
    <2>1. redis' \subseteq redis /\ inv[t].pc \in {"publish", "freed"}
      BY <1>17 DEF PublishNext, FreePublishLock
    <2>2. PICK pc \in {AfterSchedule(inv[t]), "freed"} : inv' = [inv EXCEPT ![t].pc = pc]
      BY <1>17 DEF PublishNext, FreePublishLock
    <2>3. inv[t].id \in Crons
      BY <1>1, <2>1 DEF OnlyCrons, CronPcs
    <2> QED BY <1>3, <2>1, <2>2, <2>3 DEF OnlyCrons, AfterSchedule
  <1> QED BY <1>7, <1>8, <1>9, <1>10, <1>11, <1>12, <1>13, <1>14, <1>15, <1>16, <1>17
          DEF Handle

LEMMA OnlyNext ==
  Sound /\ CronsOnly /\ WithoutRedis /\ [Next]_vars => CronsOnly' /\ WithoutRedis'
  <1> SUFFICES ASSUME Sound, CronsOnly, WithoutRedis, [Next]_vars PROVE CronsOnly' /\ WithoutRedis'
    OBVIOUS
  <1>0. inv \in [Tasks -> InvType] /\ spent \in [Faults -> Nat]
    BY DEF Sound, Typed, InvsOK
  <1>1. ASSUME NEW t \in Tasks, Others(t), OnlyCrons(inv'[t]),
               ~UseRedis => /\ inv'[t].pc \notin {"has", "set"} /\ redis' \subseteq redis
                            /\ spent'["redisErrors"] = spent["redisErrors"]
        PROVE  CronsOnly' /\ WithoutRedis'
    <2>1. \A u \in Tasks : u # t => SameLock(inv'[u], inv[u])
      BY <1>1 DEF Others
    <2>2. \A u \in Tasks : OnlyCrons(inv'[u])
      BY <1>1, <2>1, SameOnly DEF CronsOnly, OnlyCrons
    <2>3. CronsOnly'
      BY <2>2 DEF CronsOnly, OnlyCrons
    <2>4. WithoutRedis'
      BY <1>1, <2>1 DEF WithoutRedis, SameLock
    <2> QED BY <2>3, <2>4
  <1>2. ASSUME \A u \in Tasks : SameLock(inv'[u], inv[u]) \/ inv'[u] = Idle,
               redis' \subseteq redis, spent'["redisErrors"] = spent["redisErrors"]
        PROVE  CronsOnly' /\ WithoutRedis'
    <2>1. CronsOnly'
      BY <1>2 DEF CronsOnly, SameLock, Idle, CronPcs
    <2>2. WithoutRedis'
      BY <1>2 DEF WithoutRedis, SameLock, Idle
    <2> QED BY <2>1, <2>2
  <1>3. CASE UNCHANGED vars
    BY <1>2, <1>3 DEF vars, SameLock
  <1>4. CASE \E m \in Ordinary : Publish(m)
    BY <1>2, <1>4 DEF Publish, SameLock
  <1>5. CASE (\E c \in Copies : Expire(c)) \/ Tick
    BY <1>2, <1>5 DEF Expire, Tick, SameLock
  <1>6. CASE LockExpires
    BY <1>0, <1>2, <1>6 DEF LockExpires, Spend, Faults, SameLock
  <1>7. ASSUME NEW p \in Procs, Drop(p) \/ Notice(p) \/ Reconnect(p) \/ Crash(p) PROVE CronsOnly' /\ WithoutRedis'
    <2>1. redis' = redis /\ spent'["redisErrors"] = spent["redisErrors"]
      BY <1>0, <1>7 DEF Drop, Notice, Reconnect, Crash, Spend, Faults
    <2>2. ASSUME NEW u \in Tasks PROVE SameLock(inv'[u], inv[u]) \/ inv'[u] = Idle
      <3>1. inv'[u] = inv[u] \/ inv'[u] = [inv[u] EXCEPT !.current = FALSE] \/ inv'[u] = Idle
        BY <1>7 DEF Drop, Notice, Reconnect, Crash, Orphaned
      <3> QED BY <1>0, <3>1 DEF SameLock, InvType
    <2> QED BY <1>2, <2>1, <2>2
  <1>8. ASSUME NEW t \in Tasks, RedisError(t) PROVE CronsOnly' /\ WithoutRedis'
    <2>1. UseRedis /\ \A u \in Tasks : u # t => inv'[u] = inv[u]
      BY <1>0, <1>8 DEF RedisError
    <2>2. inv'[t] = Idle \/ inv'[t].pc \in {"onerror", "onerrorLast"}
      <3>1. PICK pc \in {"onerror", "onerrorLast"} :
                inv' = [inv EXCEPT ![t] = Idle] \/ inv' = [inv EXCEPT ![t].pc = pc]
        BY <1>8 DEF RedisError, Catch
      <3> QED BY <1>0, <3>1 DEF InvType
    <2>3. OnlyCrons(inv'[t]) /\ Others(t)
      BY <2>1, <2>2 DEF OnlyCrons, CronPcs, Idle, Others, SameLock
    <2> QED BY <1>1, <2>1, <2>3
  <1>9. ASSUME NEW t \in Tasks, DropBeforeRetry(t) PROVE CronsOnly' /\ WithoutRedis'
    <2>1. redis' \subseteq redis /\ spent'["redisErrors"] = spent["redisErrors"]
      BY <1>0, <1>9 DEF DropBeforeRetry, Spend, Faults
    <2>2. inv' = [inv EXCEPT ![t] = Idle]
      BY <1>9 DEF DropBeforeRetry
    <2> QED BY <1>0, <1>2, <2>1, <2>2 DEF SameLock
  <1>10. ASSUME NEW p \in Procs, NEW c \in Copies, NEW t \in Tasks, Deliver(p, c, t)
         PROVE  CronsOnly' /\ WithoutRedis'
    <2>1. UNCHANGED <<redis, spent>> /\ \A u \in Tasks : u # t => inv'[u] = inv[u]
      BY <1>10, Delivered
    <2>2. PICK i \in InvType : i.next = 0 /\ inv'[t] = Lock(i)
      BY <1>10, Delivered
    <2>3. PICK j : j = Lock(i)
      OBVIOUS
    <2>4. j.next = 0 /\ j.pc \in {"locked", "decode", IF UseRedis THEN "has" ELSE "decode"}
      BY <2>2, <2>3, Locked DEF AfterLock, AfterRefusal
    <2>5. OnlyCrons(inv'[t]) /\ Others(t)
      BY <2>1, <2>2, <2>3, <2>4 DEF OnlyCrons, CronPcs, Others, SameLock
    <2> QED BY <1>1, <2>1, <2>2, <2>3, <2>4, <2>5
  <1>11. ASSUME NEW t \in Tasks, Handle(t) PROVE CronsOnly' /\ WithoutRedis'
    <2>1. UNCHANGED spent
      BY <1>11 DEF Handle, RedisHas, RedisSet, SkipCron, RequeueLocked, DropDuplicate, DecodeFails,
             RejectInactive, Decode, NextCron, NoNextCron, PublishNext, FreePublishLock, AckSkipped,
             Succeed, Fail, ReleaseForRetry, Requeue, DeadLetter, EndUnlock, Become
    <2>2. ~UseRedis => inv[t].pc \notin {"has", "set"}
      BY DEF WithoutRedis
    <2> QED BY <1>1, <1>11, <2>1, <2>2, HandleOnly
  <1> QED BY <1>3, <1>4, <1>5, <1>6, <1>7, <1>8, <1>9, <1>10, <1>11, NextMoves DEF Moves

-------------------------------------------------------------------------------
(* While no connection is lost.                                                 *)

(* A channel that the broker refuses takes its invocations along, no others.    *)
LEMMA RefusedChannel ==
  ASSUME Sound, NEW t \in Tasks, Handle(t), chan' # chan
  PROVE  /\ chan' = [chan EXCEPT ![inv[t].proc] = "refused"]
         /\ \A u \in Tasks : inv'[u] = inv[u] \/ inv'[u].pc = "idle" \/ inv'[u].proc = inv[t].proc
  <1>1. inv[t].pc # "idle" /\ inv[t] \in InvType /\ inv \in [Tasks -> InvType] /\ inv[t].proc \in Procs
    BY BusyHandle, Busy
  <1>2. ASSUME NEW i, NEW c, Answer(t, i, c)
        PROVE  chan' = [chan EXCEPT ![inv[t].proc] = "refused"]
               /\ inv' = [Orphaned(inv[t].proc) EXCEPT ![t] = [i EXCEPT !.current = FALSE]]
    BY <1>2 DEF Answer
  <1>3. ASSUME NEW i, inv' = [Orphaned(inv[t].proc) EXCEPT ![t] = [i EXCEPT !.current = FALSE]],
               i \in InvType, i.pc = "idle" \/ i.proc = inv[t].proc
        PROVE  \A u \in Tasks : inv'[u] = inv[u] \/ inv'[u].pc = "idle" \/ inv'[u].proc = inv[t].proc
    <2>1. ASSUME NEW u \in Tasks, u # t PROVE inv'[u] = inv[u] \/ inv'[u].proc = inv[t].proc
      <3>1. inv'[u] = inv[u] \/ (inv[u].proc = inv[t].proc /\ inv'[u] = [inv[u] EXCEPT !.current = FALSE])
        BY <1>3, <2>1 DEF Orphaned
      <3> QED BY <1>1, <3>1 DEF InvType
    <2>2. PICK j : j = [i EXCEPT !.current = FALSE]
      OBVIOUS
    <2>3. j.pc = i.pc /\ j.proc = i.proc
      BY <1>3, <2>2 DEF InvType
    <2>5. inv' = [Orphaned(inv[t].proc) EXCEPT ![t] = j]
      BY <1>3, <2>2
    <2>6. inv'[t] = j
      BY <2>5 DEF Orphaned
    <2> QED BY <1>3, <2>1, <2>3, <2>6
  <1>4. ASSUME NEW c, Answer(t, Idle, c)
        PROVE  /\ chan' = [chan EXCEPT ![inv[t].proc] = "refused"]
               /\ \A u \in Tasks : inv'[u] = inv[u] \/ inv'[u].pc = "idle" \/ inv'[u].proc = inv[t].proc
    <2>1. Idle \in InvType /\ Idle.pc = "idle"
      BY IdleOK DEF InvOK, Idle
    <2> QED BY <1>2, <1>3, <1>4, <2>1
  <1>5. ASSUME NEW pc \in Ending, Finish(t, pc)
        PROVE  /\ chan' = [chan EXCEPT ![inv[t].proc] = "refused"]
               /\ \A u \in Tasks : inv'[u] = inv[u] \/ inv'[u].pc = "idle" \/ inv'[u].proc = inv[t].proc
    <2>1. PICK i : i = [inv[t] EXCEPT !.pc = pc, !.settled = TRUE]
      OBVIOUS
    <2>2. i \in InvType /\ i.proc = inv[t].proc
      BY <1>1, <2>1 DEF InvType, Ending, Pcs
    <2>3. Answer(t, i, Out)
      BY <1>5, <2>1 DEF Finish
    <2> QED BY <1>2, <1>3, <2>2, <2>3
  <1>6. RequeueLocked(t) \/ DropDuplicate(t) \/ AckSkipped(t) \/ Requeue(t) \/ RejectInactive(t)
        \/ DeadLetter(t) \/ Succeed(t) \/ NoNextCron(t)
    BY DEF Handle, RedisHas, RedisSet, SkipCron, DecodeFails, Decode, NextCron, PublishNext,
           FreePublishLock, Fail, ReleaseForRetry, EndUnlock, Become
  <1>7. (\E c : Answer(t, Idle, c)) \/ \E pc \in Ending : Finish(t, pc)
    BY <1>6 DEF RequeueLocked, DropDuplicate, AckSkipped, Requeue, RejectInactive, DeadLetter, Succeed,
                NoNextCron, Ending
  <1> QED BY <1>4, <1>5, <1>7

(* The faults that lose connections are counted.                                *)
LEMMA DropsBack ==
  ASSUME Sound, NoDrops', [Next]_vars
  PROVE  NoDrops /\ (\A p \in Procs : ~Drop(p)) /\ (\A t \in Tasks : ~DropBeforeRetry(t))
  <1>0. spent \in [Faults -> Nat]
    BY DEF Sound, Typed
  <1>1. ASSUME NEW p \in Procs PROVE ~Drop(p)
    BY <1>0 DEF Drop, Spend, NoDrops, Faults
  <1>2. ASSUME NEW t \in Tasks PROVE ~DropBeforeRetry(t)
    BY <1>0 DEF DropBeforeRetry, Spend, NoDrops, Faults
  <1>3. ASSUME NEW f \in Faults \ {"drops", "torn"}, spent' = [spent EXCEPT ![f] = @ + 1] PROVE NoDrops
    BY <1>0, <1>3 DEF NoDrops, Faults
  <1>4. ASSUME UNCHANGED spent PROVE NoDrops
    BY <1>4 DEF NoDrops
  <1>5. ASSUME \E p \in Procs : Crash(p) PROVE NoDrops
    BY <1>3, <1>5 DEF Crash, Spend, Faults
  <1>6. ASSUME \E t \in Tasks : RedisError(t) PROVE NoDrops
    BY <1>3, <1>6 DEF RedisError, Spend, Faults
  <1>7. ASSUME LockExpires PROVE NoDrops
    BY <1>3, <1>7 DEF LockExpires, Spend, Faults
  <1>8. ASSUME NEW t \in Tasks, Handle(t) PROVE UNCHANGED spent
    BY <1>8 DEF Handle, RedisHas, RedisSet, SkipCron, RequeueLocked, DropDuplicate, DecodeFails, RejectInactive,
       Decode, NextCron, NoNextCron, PublishNext, FreePublishLock, AckSkipped, Succeed, Fail, ReleaseForRetry,
       Requeue, DeadLetter, EndUnlock, Become
  <1>9. ASSUME Moves PROVE NoDrops
    <2>1. CASE \/ \E m \in Ordinary : Publish(m)
               \/ \E c \in Copies : Expire(c)
               \/ Tick
               \/ \E p \in Procs, c \in Copies, t \in Tasks : Deliver(p, c, t)
               \/ \E p \in Procs : Notice(p) \/ Reconnect(p)
      BY <1>4, <2>1 DEF Publish, Expire, Tick, Deliver, Notice, Reconnect
    <2> QED BY <1>1, <1>2, <1>4, <1>5, <1>6, <1>7, <1>8, <1>9, <2>1 DEF Moves
  <1>10. ASSUME Next PROVE NoDrops
    BY <1>9, <1>10, NextMoves
  <1> QED BY <1>1, <1>2, <1>4, <1>10 DEF vars

Serves(i) == i.pc # "idle" /\ chan[i.proc] # "refused" => i.current /\ chan[i.proc] = "open"

LEMMA AttachedNext == Sound /\ Attached /\ [Next]_vars => Attached'
  <1> SUFFICES ASSUME Sound, Attached, [Next]_vars, NoDrops'
               PROVE  /\ \A p \in Procs : chan'[p] # "lost"
                      /\ \A u \in Tasks : Serves(inv[u])'
    BY DEF Attached, Serves
  <1>0. /\ inv \in [Tasks -> InvType] /\ spent \in [Faults -> Nat] /\ chan \in [Procs -> ChanStates]
        /\ \A u \in Tasks : inv[u].pc # "idle" => inv[u].proc \in Procs
    BY DEF Sound, Typed, InvsOK, InvOK
  <1>1. NoDrops /\ (\A p \in Procs : ~Drop(p)) /\ (\A t \in Tasks : ~DropBeforeRetry(t))
    BY DropsBack
  <1>2. (\A p \in Procs : chan[p] # "lost") /\ \A u \in Tasks : Serves(inv[u])
    BY <1>1 DEF Attached, Serves
  <1>3. ASSUME chan' = chan,
               \A u \in Tasks : inv'[u] = inv[u] \/ inv'[u] = Idle \/ Serves(inv[u])'
        PROVE  (\A p \in Procs : chan'[p] # "lost") /\ \A u \in Tasks : Serves(inv[u])'
    BY <1>2, <1>3 DEF Serves, Idle
  <1>4. CASE UNCHANGED vars
    BY <1>3, <1>4 DEF vars
  <1>5. CASE (\E m \in Ordinary : Publish(m)) \/ (\E c \in Copies : Expire(c)) \/ Tick \/ LockExpires
    BY <1>3, <1>5 DEF Publish, Expire, Tick, LockExpires
  <1>6. ASSUME NEW p \in Procs, Notice(p) PROVE FALSE
    BY <1>2, <1>6 DEF Notice
  <1>7. ASSUME NEW p \in Procs, Reconnect(p)
        PROVE  (\A q \in Procs : chan'[q] # "lost") /\ \A u \in Tasks : Serves(inv[u])'
    BY <1>0, <1>2, <1>7 DEF Reconnect, Serves
  <1>8. ASSUME NEW p \in Procs, Crash(p)
         PROVE  (\A q \in Procs : chan'[q] # "lost") /\ \A u \in Tasks : Serves(inv[u])'
    <2>1. \A q \in Procs : chan'[q] = chan[q] \/ chan'[q] = "closed"
      BY <1>0, <1>8 DEF Crash
    <2>2. ASSUME NEW u \in Tasks PROVE Serves(inv[u])'
      <3>1. CASE inv[u].proc = p
        <4>1. inv'[u].pc = "idle"
          BY <1>8, <3>1 DEF Crash, Idle
        <4> QED BY <4>1 DEF Serves
      <3>2. CASE inv[u].proc # p
        <4>1. inv'[u] = inv[u]
          BY <1>8, <3>2 DEF Crash
        <4>2. inv[u].pc # "idle" => chan'[inv[u].proc] = chan[inv[u].proc]
          BY <1>0, <1>8, <3>2 DEF Crash
        <4> QED BY <1>2, <4>1, <4>2 DEF Serves
      <3> QED BY <3>1, <3>2
    <2> QED BY <1>2, <2>1, <2>2
  <1>9. ASSUME NEW t \in Tasks, RedisError(t)
         PROVE  (\A q \in Procs : chan'[q] # "lost") /\ \A u \in Tasks : Serves(inv[u])'
    <2>1. chan' = chan /\ \A u \in Tasks : u # t => inv'[u] = inv[u]
      BY <1>0, <1>9 DEF RedisError
    <2>2. CASE inv' = [inv EXCEPT ![t] = Idle]
      BY <1>0, <1>3, <2>1, <2>2
    <2>3. CASE inv[t].pc = "unlockRun" /\ \E pc : inv' = [inv EXCEPT ![t].pc = pc]
      <3>1. inv'[t].proc = inv[t].proc /\ inv'[t].current = inv[t].current
        BY <1>0, <2>3 DEF InvType
      <3>2. Serves(inv[t])'
        BY <1>2, <2>1, <2>3, <3>1 DEF Serves
      <3> QED BY <1>3, <2>1, <3>2
    <2> QED BY <1>9, <2>2, <2>3 DEF RedisError
  <1>10. ASSUME NEW p \in Procs, NEW c \in Copies, NEW t \in Tasks, Deliver(p, c, t)
         PROVE  (\A q \in Procs : chan'[q] # "lost") /\ \A u \in Tasks : Serves(inv[u])'
    <2>1. chan' = chan /\ chan[p] = "open" /\ \A u \in Tasks : u # t => inv'[u] = inv[u]
      BY <1>10, Delivered
    <2>2. PICK i \in InvType : i.proc = p /\ i.current /\ inv'[t] = Lock(i)
      BY <1>10, Delivered
    <2>3. inv'[t].proc = p /\ inv'[t].current
      BY <2>2, Locked
    <2>4. Serves(inv[t])'
      BY <2>1, <2>3 DEF Serves
    <2> QED BY <1>3, <2>1, <2>4
  <1>11. ASSUME NEW t \in Tasks, Handle(t)
         PROVE  (\A q \in Procs : chan'[q] # "lost") /\ \A u \in Tasks : Serves(inv[u])'
    <2>1. CASE chan' = chan
      <3>1. inv'[t] = Idle \/ GoesOn(t, inv'[t])
        BY <1>11, <2>1, Plain
      <3>2. \A u \in Tasks : u # t => inv'[u] = inv[u]
        BY <1>11, <2>1, Plain
      <3>3. inv[t].pc # "idle"
        BY <1>11, BusyHandle
      <3>4. inv'[t] = Idle \/ Serves(inv[t])'
        BY <1>2, <2>1, <3>1, <3>3 DEF GoesOn, Serves
      <3> QED BY <1>3, <2>1, <3>2, <3>4
    <2>2. CASE chan' # chan
      <3>1. chan' = [chan EXCEPT ![inv[t].proc] = "refused"] /\ inv[t].proc \in Procs
        BY <1>11, <2>2, RefusedChannel, SameChannel
      <3>2. \A u \in Tasks : inv'[u] = inv[u] \/ inv'[u].pc = "idle" \/ inv'[u].proc = inv[t].proc
        BY <1>11, <2>2, RefusedChannel
      <3>3. \A u \in Tasks : Serves(inv[u])'
        BY <1>0, <1>2, <3>1, <3>2 DEF Serves
      <3> QED BY <1>0, <1>2, <3>1, <3>3
    <2> QED BY <2>1, <2>2
  <1> QED BY <1>1, <1>4, <1>5, <1>6, <1>7, <1>8, <1>9, <1>10, <1>11, NextMoves DEF Moves

-------------------------------------------------------------------------------
(* The work of a message. Where no channel is refused or lost, an invocation    *)
(* reaches the broker.                                                          *)
Served == \A t \in Tasks : inv[t].pc # "idle" => Reaches(t)
Empty == \A c \in Copies : copy[c].at = "out" => copy[c].id = Nil

(* An invocation carries the attempt of its copy; one that has answered is done,*)
(* or is the catch of a run that succeeded.                                     *)
Attempts == \A t \in Tasks : Live(t) => inv[t].attempt = copy[inv[t].copy].attempt
After == {"unlockRun", "unlockLast", "onerror", "onerrorLast", "requeue"}
SettledEnded ==
    \A t \in Tasks : inv[t].settled => /\ inv[t].pc \in After
                                       /\ inv[t].id \in Ordinary => inv[t].id \in ended

(* The copies that a process cannot discard as duplicates: a retry, and one that*)
(* an invocation beyond its lock has.                                           *)
Good == Ordinary \ Undecodable
Locking(c) == \E t \in Tasks : Live(t) /\ inv[t].copy = c /\ inv[t].pc \in {"has", "locked"}
Stays(p, c) ==
    \/ copy[c].attempt > 0
    \/ copy[c].at = "unacked" /\ (UseRedis \/ copy[c].holder = p) /\ ~Locking(c)

(* While a process finds the lock of a message, such a copy is there, or the    *)
(* message has ended.                                                           *)
Reason(p, m) == m \in ended \/ \E c \in Copies : copy[c].id = m /\ Stays(p, c)
LockReasons ==
    /\ \A p \in Procs, m \in Good : MsgKey(m) \in local[p] \/ MsgKey(m) \in redis => Reason(p, m)
    /\ \A t \in Tasks : inv[t].pc = "locked" /\ inv[t].id \in Good => Reason(inv[t].proc, inv[t].id)
WorkKept == \A m \in Good : published[m] > 0 => InBroker(m) \/ m \in ended

Quiet == Empty /\ Attempts /\ SettledEnded
Work == Quiet /\ LockReasons /\ WorkKept
WorkInv ==
    /\ Sound /\ NoError /\ Attached /\ WithoutRedis /\ CronsOnly
    /\ Calm /\ NoDrops => Work

(* What a step of an invocation that reaches the broker makes of its message.   *)
Accounted(t, c) ==
    \/ inv[t].id \in Crons
    \/ inv[t].id \in ended'
    \/ copy'[c].id = inv[t].id /\ copy'[c].attempt > 0
    \/ inv[t].pc = "locked" /\ inv[t].attempt = 0

Answers(t) ==
    /\ ~inv[t].settled
    /\ inv'[t] = Idle \/ inv'[t].settled
    /\ copy'[inv[t].copy].at = "out" => copy'[inv[t].copy].id = Nil
    /\ \A c \in Copies : c # inv[t].copy => copy'[c] = copy[c]
    /\ Accounted(t, inv[t].copy)

Schedule(t, c) ==
    /\ copy[c].at = "out" /\ copy'[c].at = "cronq" /\ copy'[c].id \in Crons
    /\ copy'[c].id = inv[t].id /\ copy'[c].due = inv[t].next
    /\ \A d \in Copies : d # c => copy'[d] = copy[d]

MovesOn(t) ==
    /\ \A u \in Tasks : u # t => inv'[u] = inv[u]
    /\ inv'[t] = Idle \/ GoesOn(t, inv'[t])
    /\ copy' = copy \/ Answers(t) \/ \E c \in Copies : Schedule(t, c)
    /\ ended \subseteq ended'
    /\ inv'[t].settled => inv'[t].pc \in After /\ (inv[t].id \in Ordinary => inv[t].id \in ended')
    /\ UNCHANGED published
Locks(t) ==
    /\ inv'[t].pc = "locked" => inv[t].pc = "has" /\ inv[t].next = 0 /\ Key(inv[t]) \in redis
    /\ inv'[t].pc = "has" => inv[t].id \in Crons
    /\ \A p \in Procs, m \in Msgs : MsgKey(m) \in local'[p] /\ MsgKey(m) \notin local[p]
         => p = inv[t].proc /\ m = inv[t].id /\ inv[t].pc = "has" /\ inv'[t].pc = "set"
    /\ \A m \in Msgs : MsgKey(m) \in redis' /\ MsgKey(m) \notin redis
         => m = inv[t].id /\ inv[t].pc = "set" /\ inv'[t].pc = "decode"

LEMMA Answered ==
  ASSUME Sound, NEW t \in Tasks, inv[t].pc # "idle", Reaches(t), NEW i, NEW c, Answer(t, i, c), chan' = chan
  PROVE  /\ ~inv[t].settled /\ inv'[t] = i /\ copy'[inv[t].copy] = c
         /\ \A u \in Tasks : u # t => inv'[u] = inv[u]
         /\ \A d \in Copies : d # inv[t].copy => copy'[d] = copy[d]
  <1>1. ~Refused(t) /\ inv'[t] = i /\ \A u \in Tasks : u # t => inv'[u] = inv[u]
    BY PlainAnswer
  <1>2. copy' = [copy EXCEPT ![inv[t].copy] = c]
    BY PlainAnswer
  <1>3. copy'[inv[t].copy] = c /\ \A d \in Copies : d # inv[t].copy => copy'[d] = copy[d]
    BY <1>2, Busy DEF Sound, Typed, CopyOK
  <1> QED BY <1>1, <1>3 DEF Refused

(* An invocation that ends, or that answers and goes on to its last command.    *)
LEMMA AnsweredWork ==
  ASSUME Sound, Quiet, NEW t \in Tasks, inv[t].pc # "idle", Reaches(t), NEW i, NEW c, Answer(t, i, c), chan' = chan,
         i = Idle \/ (GoesOn(t, i) /\ i.settled /\ i.pc \in Ending
                      /\ (inv[t].id \in Ordinary => inv[t].id \in ended')),
         c.at = "out" => c.id = Nil,
         \/ inv[t].id \in Crons \/ inv[t].id \in ended'
         \/ (c.id = inv[t].id /\ c.attempt > 0) \/ (inv[t].pc = "locked" /\ inv[t].attempt = 0),
         ended \subseteq ended', UNCHANGED published
  PROVE  MovesOn(t)
  <1>1. /\ ~inv[t].settled /\ inv'[t] = i /\ copy'[inv[t].copy] = c
        /\ \A u \in Tasks : u # t => inv'[u] = inv[u]
        /\ \A d \in Copies : d # inv[t].copy => copy'[d] = copy[d]
    BY Answered
  <1>2. Answers(t)
    BY <1>1 DEF Answers, Accounted
  <1>3. inv'[t] = Idle \/ GoesOn(t, inv'[t])
    BY <1>1
  <1>4. inv'[t].settled => inv'[t].pc \in After /\ (inv[t].id \in Ordinary => inv[t].id \in ended')
    BY <1>1 DEF Idle, After, Ending
  <1> QED BY <1>1, <1>2, <1>3, <1>4 DEF MovesOn

LEMMA FinishWork ==
  ASSUME Sound, Quiet, NEW t \in Tasks, inv[t].pc # "idle", Reaches(t), NEW pc \in Ending, Finish(t, pc),
         chan' = chan, inv[t].id \in Ordinary => inv[t].id \in ended', ended \subseteq ended', UNCHANGED published
  PROVE  /\ MovesOn(t) /\ inv'[t].pc = pc
         /\ \A q \in Procs, m \in Msgs : MsgKey(m) \in local'[q] => MsgKey(m) \in local[q]
  <1>1. PICK i : i = [inv[t] EXCEPT !.pc = pc, !.settled = TRUE]
    OBVIOUS
  <1>2. Answer(t, i, Out) /\ local' = Unlock(inv[t].proc, MsgKey(inv[t].id))
    BY <1>1 DEF Finish
  <1>3. GoesOn(t, i) /\ i.pc = pc /\ i.settled
    BY <1>1, Busy DEF InvType, GoesOn, Ending
  <1>4. inv'[t] = i
    BY <1>2, Answered
  <1>5. Out.id = Nil /\ inv[t].id \in Msgs
    BY Busy DEF Out
  <1>6. MovesOn(t)
    BY <1>2, <1>3, <1>5, AnsweredWork DEF Ordinary
  <1>7. \A q \in Procs, m \in Msgs : MsgKey(m) \in local'[q] => MsgKey(m) \in local[q]
    BY <1>2 DEF Unlock, Sound, Typed
  <1> QED BY <1>3, <1>4, <1>6, <1>7

LEMMA MovedWork ==
  ASSUME Sound, Quiet, NEW t \in Tasks, inv[t].pc # "idle", NEW pc, pc # "idle", inv[t].settled => pc \in After,
         inv' = [inv EXCEPT ![t].pc = pc] \/ inv' = [inv EXCEPT ![t] = [inv[t] EXCEPT !.pc = pc]],
         copy' = copy \/ (\E c \in Copies : Schedule(t, c)), UNCHANGED <<ended, published>>
  PROVE  MovesOn(t) /\ inv'[t].pc = pc /\ inv'[t].next = inv[t].next
  <1>1. /\ GoesOn(t, inv'[t]) /\ inv'[t].pc = pc /\ inv'[t].next = inv[t].next
        /\ inv'[t].settled = inv[t].settled
        /\ \A u \in Tasks : u # t => inv'[u] = inv[u]
    BY PcMoves
  <1> QED BY <1>1 DEF MovesOn, Quiet, SettledEnded

LEMMA UnlockMsg ==
  ASSUME Sound, NEW p \in Procs, NEW k, local' = Unlock(p, k)
  PROVE  \A q \in Procs : local'[q] \subseteq local[q]
  BY DEF Unlock, Sound, Typed

LEMMA HandleMovesOn ==
  ASSUME Sound, Quiet, CronsOnly, NEW t \in Tasks, Reaches(t), Handle(t), chan' = chan
  PROVE  MovesOn(t) /\ Locks(t)
  <1>1. /\ InvOK(inv[t]) /\ inv[t] \in InvType /\ inv[t].pc # "idle" /\ inv \in [Tasks -> InvType]
        /\ inv[t].proc \in Procs /\ inv[t].id \in Msgs /\ inv[t].copy \in Copies
        /\ local \in [Procs -> SUBSET Keys] /\ copy \in [Copies -> CopyType]
        /\ inv[t].settled => inv[t].pc \in After
    BY BusyHandle, Busy DEF Sound, Typed, CopyOK, Quiet, SettledEnded
  <1>2. CanWrite(t) /\ Idle.pc = "idle" /\ ~Idle.settled /\ Out.id = Nil
    BY DEF CanWrite, Reaches, Idle, Out
  <1>3. ASSUME inv'[t].pc \notin {"locked", "has"}, redis' \subseteq redis,
               \A q \in Procs, m \in Msgs : MsgKey(m) \in local'[q] => MsgKey(m) \in local[q]
        PROVE  Locks(t)
    BY <1>3 DEF Locks
  <1>4. ASSUME inv' = [inv EXCEPT ![t] = Idle], UNCHANGED <<copy, local, ended, published>>, redis' \subseteq redis
        PROVE  MovesOn(t) /\ Locks(t)
    <2>1. inv'[t] = Idle /\ \A u \in Tasks : u # t => inv'[u] = inv[u]
      BY <1>4, OneMoves
    <2> QED BY <1>2, <1>3, <1>4, <2>1 DEF MovesOn
  <1>5. CASE RedisHas(t)
    <2>1. UNCHANGED <<copy, redis, ended, published>> /\ inv[t].pc = "has"
      BY <1>5 DEF RedisHas
    <2>2. PICK pc \in {"set", AfterRefusal(inv[t])} :
              /\ inv' = [inv EXCEPT ![t].pc = pc]
              /\ Key(inv[t]) \notin redis => pc = "set"
              /\ Key(inv[t]) \in redis => pc = AfterRefusal(inv[t])
      BY <1>5 DEF RedisHas
    <2>3. pc \in {"set", "locked", "ackSkipped", "run"} /\ (pc = "locked" => inv[t].next = 0 /\ Key(inv[t]) \in redis)
      BY <2>2 DEF AfterRefusal, AfterSchedule
    <2>4. ~inv[t].settled
      BY <1>1, <2>1 DEF After
    <2>5. MovesOn(t) /\ inv'[t].pc = pc
      BY <1>1, <2>1, <2>2, <2>3, <2>4, MovedWork
    <2>6. ASSUME NEW q \in Procs, NEW m \in Msgs, MsgKey(m) \in local'[q], MsgKey(m) \notin local[q]
          PROVE  q = inv[t].proc /\ m = inv[t].id /\ inv'[t].pc = "set"
      <3>1. Key(inv[t]) \notin redis /\ local' = [local EXCEPT ![inv[t].proc] = @ \union {Key(inv[t])}]
        BY <1>5, <2>6 DEF RedisHas
      <3>2. q = inv[t].proc /\ MsgKey(m) = Key(inv[t])
        BY <1>1, <2>6, <3>1
      <3> QED BY <2>2, <2>5, <3>1, <3>2 DEF MsgKey, Key
    <2> QED BY <2>1, <2>3, <2>5, <2>6 DEF Locks
  <1>6. CASE RedisSet(t)
    <2>1. UNCHANGED <<copy, local, ended, published>> /\ inv[t].pc = "set" /\ redis' = redis \union {Key(inv[t])}
      BY <1>6 DEF RedisSet
    <2>2. PICK pc : pc = AfterLock(inv[t]) /\ inv' = [inv EXCEPT ![t].pc = pc]
      BY <1>6 DEF RedisSet
    <2>3. ~inv[t].settled /\ pc \in {"decode", "publish"} /\ (inv[t].next = 0 => pc = "decode")
      BY <1>1, <2>1, <2>2 DEF After, AfterLock
    <2>4. MovesOn(t) /\ inv'[t].pc = pc
      BY <1>1, <2>1, <2>2, <2>3, MovedWork
    <2>5. ASSUME NEW m \in Msgs, MsgKey(m) \in redis', MsgKey(m) \notin redis
          PROVE  m = inv[t].id /\ inv'[t].pc = "decode"
      BY <2>1, <2>3, <2>4, <2>5 DEF MsgKey, Key
    <2> QED BY <2>1, <2>3, <2>4, <2>5 DEF Locks
  <1>7. CASE SkipCron(t)
    <2>1. PICK i : i = [inv[t] EXCEPT !.pc = "next", !.skip = TRUE]
      OBVIOUS
    <2>2. inv' = [inv EXCEPT ![t] = i] /\ UNCHANGED <<copy, local, redis, ended, published>> /\ inv[t].pc = "locked"
      BY <1>7, <2>1 DEF SkipCron, Become
    <2>3. GoesOn(t, i) /\ i.pc = "next" /\ ~i.settled
      BY <1>1, <2>1, <2>2 DEF GoesOn, InvType, After
    <2>4. inv'[t] = i /\ \A u \in Tasks : u # t => inv'[u] = inv[u]
      BY <2>2, OneMoves
    <2> QED BY <1>3, <2>2, <2>3, <2>4 DEF MovesOn
  <1>8. CASE RequeueLocked(t)
    <2>1. PICK c : c = [copy[inv[t].copy] EXCEPT !.at = "schq", !.holder = Nil]
      OBVIOUS
    <2>2. Answer(t, Idle, c) /\ UNCHANGED <<local, redis, ended, published>> /\ inv[t].attempt > 0
      BY <1>8, <2>1 DEF RequeueLocked, LockedRetry
    <2>3. Live(t)
      BY <1>1, <2>2, Answered DEF Live
    <2>4. c.id = inv[t].id /\ c.attempt > 0 /\ c.at # "out"
      BY <1>1, <2>1, <2>2, <2>3 DEF CopyType, Sound, Deliveries, Quiet, Attempts
    <2>5. MovesOn(t)
      BY <1>1, <2>2, <2>4, AnsweredWork
    <2>6. inv'[t].pc = "idle"
      BY <1>1, <1>2, <2>2, Answered
    <2> QED BY <1>3, <2>2, <2>5, <2>6
  <1>9. CASE DropDuplicate(t)
    <2>1. Answer(t, Idle, Out) /\ UNCHANGED <<local, redis, ended, published>>
          /\ inv[t].pc = "locked" /\ inv[t].attempt = 0
      BY <1>9 DEF DropDuplicate
    <2>2. MovesOn(t)
      BY <1>1, <1>2, <2>1, AnsweredWork
    <2>3. inv'[t].pc = "idle"
      BY <1>1, <1>2, <2>1, Answered
    <2> QED BY <1>3, <2>1, <2>2, <2>3
  <1>10. CASE AckSkipped(t)
    <2>1. Answer(t, Idle, Out) /\ UNCHANGED <<local, redis, ended, published>> /\ inv[t].id \in Crons
      BY <1>10 DEF AckSkipped, CronsOnly, CronPcs
    <2>2. MovesOn(t)
      BY <1>1, <1>2, <2>1, AnsweredWork
    <2>3. inv'[t].pc = "idle"
      BY <1>1, <1>2, <2>1, Answered
    <2> QED BY <1>3, <2>1, <2>2, <2>3
  <1>11. CASE Requeue(t)
    <2>1. PICK q \in {"schq", "ready"} : Answer(t, Idle, RetryOf(copy[inv[t].copy], q))
      BY <1>11 DEF Requeue
    <2>2. UNCHANGED <<local, ended, published>> /\ redis' \subseteq redis
      BY <1>11 DEF Requeue
    <2>3. PICK c : c = RetryOf(copy[inv[t].copy], q)
      OBVIOUS
    <2>4. Live(t)
      BY <1>1, <2>1, Answered DEF Live
    <2>5. copy[inv[t].copy].attempt \in Nat
      BY <1>1 DEF CopyType
    <2>6. c.id = inv[t].id /\ c.attempt > 0 /\ c.at # "out"
      BY <1>1, <2>3, <2>4, <2>5 DEF CopyType, Sound, Deliveries, RetryOf
    <2>7. MovesOn(t)
      BY <1>1, <2>1, <2>2, <2>3, <2>6, AnsweredWork
    <2>8. inv'[t].pc = "idle"
      BY <1>1, <1>2, <2>1, Answered
    <2> QED BY <1>3, <2>2, <2>7, <2>8
  <1>12. CASE DecodeFails(t) \/ EndUnlock(t)
    <2>1. inv' = [inv EXCEPT ![t] = Idle] /\ UNCHANGED <<copy, local, ended, published>> /\ redis' \subseteq redis
      BY <1>12 DEF DecodeFails, EndUnlock, Become
    <2> QED BY <1>4, <2>1
  <1>13. CASE RejectInactive(t) \/ DeadLetter(t) \/ Succeed(t)
    <2>1. PICK pc \in Ending : Finish(t, pc)
      BY <1>13 DEF RejectInactive, DeadLetter, Succeed, Ending
    <2>2. ended' = DeadLettered(t) \/ ended' = ended \union {inv[t].id}
      BY <1>13 DEF RejectInactive, DeadLetter, Succeed
    <2>3. ~Refused(t)
      BY <1>1, <2>1, PlainFinish
    <2>4. ended' = ended \union {inv[t].id} /\ UNCHANGED <<redis, published>>
      BY <1>13, <2>2, <2>3 DEF DeadLettered, RejectInactive, DeadLetter, Succeed
    <2>5. /\ MovesOn(t) /\ inv'[t].pc = pc
          /\ \A q \in Procs, m \in Msgs : MsgKey(m) \in local'[q] => MsgKey(m) \in local[q]
      BY <1>1, <2>1, <2>4, FinishWork
    <2> QED BY <1>3, <2>4, <2>5 DEF Ending
  <1>14. CASE NoNextCron(t)
    <2>1. UNCHANGED <<redis, ended, published>> /\ inv[t].id \in Crons
      BY <1>14 DEF NoNextCron, CronsOnly, CronPcs
    <2>2. CASE Answer(t, Idle, Out) /\ UNCHANGED local
      <3>1. MovesOn(t)
        BY <1>1, <1>2, <2>1, <2>2, AnsweredWork
      <3>2. inv'[t].pc = "idle"
        BY <1>1, <1>2, <2>2, Answered
      <3> QED BY <1>3, <2>1, <2>2, <3>1, <3>2
    <2>3. CASE Finish(t, "unlockLast")
      <3>1. /\ MovesOn(t) /\ inv'[t].pc = "unlockLast"
            /\ \A q \in Procs, m \in Msgs : MsgKey(m) \in local'[q] => MsgKey(m) \in local[q]
        BY <1>1, <2>1, <2>3, FinishWork DEF Ending, Ordinary
      <3> QED BY <1>3, <2>1, <3>1
    <2> QED BY <1>14, <2>2, <2>3 DEF NoNextCron
  <1>15. CASE Decode(t) \/ Fail(t)
    <2>1. UNCHANGED <<copy, local, redis, ended, published>> /\ inv[t].pc \in {"decode", "run"}
      BY <1>15 DEF Decode, Fail, Become
    <2>2. PICK pc \in {"next", "run", "onerror", "onerrorLast"} : inv' = [inv EXCEPT ![t] = [inv[t] EXCEPT !.pc = pc]]
      BY <1>15 DEF Decode, Fail, Become, Catch
    <2>3. ~inv[t].settled
      BY <1>1, <2>1 DEF After
    <2>4. MovesOn(t) /\ inv'[t].pc = pc
      BY <1>1, <2>1, <2>2, <2>3, MovedWork
    <2> QED BY <1>3, <2>1, <2>4
  <1>16. CASE ReleaseForRetry(t)
    <2>1. UNCHANGED <<copy, redis, ended, published>> /\ local' = Unlock(inv[t].proc, MsgKey(inv[t].id))
      BY <1>16 DEF ReleaseForRetry
    <2>2. PICK pc : pc = "requeue" /\ inv' = [inv EXCEPT ![t].pc = pc]
      BY <1>16 DEF ReleaseForRetry
    <2>3. MovesOn(t) /\ inv'[t].pc = pc
      BY <1>1, <2>1, <2>2, MovedWork DEF After
    <2>4. \A q \in Procs : local'[q] \subseteq local[q]
      BY <1>1, <2>1, UnlockMsg
    <2> QED BY <1>3, <2>1, <2>2, <2>3, <2>4
  <1>17. CASE NextCron(t)
    <2>1. PICK i \in InvType :
           /\ i.proc = inv[t].proc /\ i.copy = inv[t].copy /\ i.id = inv[t].id
           /\ i.attempt = inv[t].attempt /\ i.current = inv[t].current /\ i.settled = inv[t].settled
           /\ i.next = now + 1 /\ now + 1 \in Ticks \ {0}
           /\ inv'[t] = Lock(i) /\ local' = LockLocal(i)
           /\ \A u \in Tasks : u # t => inv'[u] = inv[u]
      BY <1>17, Schedules
    <2>2. UNCHANGED <<copy, redis, ended, published>> /\ inv[t].pc = "next"
      BY <1>17 DEF NextCron
    <2>3. ~inv[t].settled /\ inv[t].id \in Crons
      BY <1>1, <2>2 DEF After, CronsOnly, CronPcs
    <2>4. GoesOn(t, Lock(i)) /\ ~Lock(i).settled /\ Lock(i).pc # "locked"
      BY <2>1, <2>3, Locked DEF GoesOn, AfterRefusal, AfterLock, AfterSchedule
    <2>5. MovesOn(t)
      BY <2>1, <2>2, <2>4 DEF MovesOn
    <2>6. \A m : MsgKey(m) # Key(i)
      BY <2>1, KeyDiffers
    <2>7. \A q \in Procs, m \in Msgs : MsgKey(m) \in local'[q] => MsgKey(m) \in local[q]
      BY <1>1, <2>1, <2>6 DEF LockLocal
    <2> QED BY <2>1, <2>2, <2>3, <2>4, <2>5, <2>7 DEF Locks
  <1>18. CASE PublishNext(t)
    <2>1. UNCHANGED <<redis, ended, published, local>> /\ inv[t].pc = "publish" /\ inv[t].id \in Crons
      BY <1>2, <1>18 DEF PublishNext, CronsOnly, CronPcs
    <2>2. PICK c \in Copies : copy[c].at = "out" /\ copy' = [copy EXCEPT ![c] = NextExecution(inv[t])]
      BY <1>18 DEF PublishNext
    <2>3. Schedule(t, c)
      <3>1. PICK d : d = NextExecution(inv[t])
        OBVIOUS
      <3>2. d.at = "cronq" /\ d.id = inv[t].id /\ d.due = inv[t].next
        BY <3>1 DEF NextExecution, Out
      <3>3. copy' = [copy EXCEPT ![c] = d]
        BY <2>2, <3>1
      <3> QED BY <1>1, <2>1, <2>2, <3>2, <3>3 DEF Schedule
    <2>4. PICK pc \in {"ackSkipped", "run"} : inv' = [inv EXCEPT ![t].pc = pc]
      BY <1>2, <1>18 DEF PublishNext, AfterSchedule
    <2>5. ~inv[t].settled
      BY <1>1, <2>1 DEF After
    <2>6. MovesOn(t) /\ inv'[t].pc = pc
      BY <1>1, <2>1, <2>3, <2>4, <2>5, MovedWork
    <2> QED BY <1>3, <2>1, <2>6
  <1>19. CASE FreePublishLock(t)
    <2>1. UNCHANGED <<copy, local, ended, published>> /\ inv[t].pc = "freed" /\ redis' \subseteq redis
      BY <1>19 DEF FreePublishLock
    <2>2. PICK pc \in {"ackSkipped", "run"} : inv' = [inv EXCEPT ![t].pc = pc]
      BY <1>19 DEF FreePublishLock, AfterSchedule
    <2>3. ~inv[t].settled
      BY <1>1, <2>1 DEF After
    <2>4. MovesOn(t) /\ inv'[t].pc = pc
      BY <1>1, <2>1, <2>2, <2>3, MovedWork
    <2> QED BY <1>3, <2>1, <2>4
  <1> QED BY <1>5, <1>6, <1>7, <1>8, <1>9, <1>10, <1>11, <1>12, <1>13, <1>14, <1>15, <1>16, <1>17, <1>18, <1>19
          DEF Handle

-------------------------------------------------------------------------------
(* A step of an invocation keeps the work.                                      *)
StepOf(t) ==
    /\ inv[t].pc # "idle" /\ Reaches(t) /\ chan' = chan
    /\ MovesOn(t) /\ Locks(t)

LEMMA StillLive ==
  ASSUME Sound, NEW t \in Tasks, StepOf(t), NEW u \in Tasks, Live(u)'
  PROVE  /\ Live(u) /\ inv'[u].copy = inv[u].copy /\ inv'[u].id = inv[u].id /\ inv'[u].attempt = inv[u].attempt
         /\ copy'[inv[u].copy] = copy[inv[u].copy]
  <1>1. CASE u # t
    <2>1. inv'[u] = inv[u] /\ Live(u)
      BY <1>1 DEF StepOf, MovesOn, Live, Reaches
    <2>2. copy[inv[u].copy].at = "unacked" /\ inv[u].copy \in Copies
      BY <2>1, Busy DEF Sound, Deliveries, Live
    <2>3. Answers(t) => inv[u].copy # inv[t].copy
      BY <1>1, <2>1 DEF Answers, StepOf, Sound, Deliveries, Live
    <2>4. copy'[inv[u].copy] = copy[inv[u].copy]
      BY <2>2, <2>3 DEF StepOf, MovesOn, Answers, Schedule
    <2> QED BY <2>1, <2>4
  <1>2. CASE u = t
    <2>1. GoesOn(t, inv'[t]) /\ ~inv'[t].settled
      BY <1>2 DEF StepOf, MovesOn, Live, Idle
    <2>2. Live(t)
      BY <2>1 DEF GoesOn, StepOf, Live
    <2>3. ~Answers(t)
      BY <2>1 DEF Answers, GoesOn, Idle
    <2>4. copy[inv[t].copy].at = "unacked" /\ inv[t].copy \in Copies
      BY <2>2, Busy DEF Sound, Deliveries, Live
    <2>5. copy'[inv[t].copy] = copy[inv[t].copy]
      BY <2>3, <2>4 DEF StepOf, MovesOn, Schedule
    <2> QED BY <1>2, <2>1, <2>2, <2>5 DEF GoesOn
  <1> QED BY <1>1, <1>2

LEMMA QuietHandle ==
  ASSUME Sound, Quiet, NEW t \in Tasks, StepOf(t)
  PROVE  Quiet'
  <1>1. Empty'
    <2>1. ASSUME NEW c \in Copies, copy'[c].at = "out" PROVE copy'[c].id = Nil
      <3>1. copy'[c] = copy[c] \/ (Answers(t) /\ c = inv[t].copy) \/ copy'[c].at = "cronq"
        BY DEF StepOf, MovesOn, Answers, Schedule
      <3> QED BY <2>1, <3>1 DEF Answers, Quiet, Empty
    <2> QED BY <2>1 DEF Empty
  <1>2. Attempts'
    BY StillLive DEF Quiet, Attempts
  <1>3. SettledEnded'
    <2>1. ASSUME NEW u \in Tasks, inv'[u].settled
          PROVE  inv'[u].pc \in After /\ (inv'[u].id \in Ordinary => inv'[u].id \in ended')
      <3>1. CASE u # t
        BY <2>1, <3>1 DEF StepOf, MovesOn, Quiet, SettledEnded
      <3>2. CASE u = t
        <4>1. GoesOn(t, inv'[t])
          BY <2>1, <3>2 DEF StepOf, MovesOn, Idle
        <4> QED BY <2>1, <3>2, <4>1 DEF StepOf, MovesOn, GoesOn
      <3> QED BY <3>1, <3>2
    <2> QED BY <2>1 DEF SettledEnded
  <1> QED BY <1>1, <1>2, <1>3 DEF Quiet

LEMMA ReasonHandle ==
  ASSUME Sound, Quiet, NEW t \in Tasks, StepOf(t), NEW p \in Procs, NEW m \in Good, Reason(p, m)
  PROVE  Reason(p, m)'
  <1>1. CASE m \in ended
    BY <1>1 DEF Reason, StepOf, MovesOn
  <1>2. ASSUME NEW c \in Copies, copy[c].id = m, Stays(p, c) PROVE Reason(p, m)'
    <2>0. m \notin Crons /\ m # Nil /\ m \in Msgs
      BY ConstantsAssumption DEF Good, Ordinary
    <2>1. CASE copy'[c] = copy[c]
      <3>1. Locking(c)' => Locking(c)
        <4>1. SUFFICES ASSUME NEW u \in Tasks, Live(u)', inv'[u].copy = c, inv'[u].pc \in {"has", "locked"}
                       PROVE  Locking(c)
          BY DEF Locking
        <4>2. Live(u) /\ inv[u].copy = c /\ inv[u].id = m
          BY <1>2, <4>1, StillLive DEF Sound, Deliveries
        <4>3. inv[u].pc \in {"has", "locked"}
          BY <2>0, <4>1, <4>2 DEF StepOf, MovesOn, Locks
        <4> QED BY <4>2, <4>3 DEF Locking
      <3> QED BY <1>2, <2>1, <3>1 DEF Reason, Stays
    <2>2. CASE Answers(t) /\ c = inv[t].copy
      <3>1. Live(t) /\ inv[t].id = m
        BY <1>2, <2>2 DEF Answers, StepOf, Live, Sound, Deliveries
      <3>2. CASE inv[t].pc = "locked" /\ inv[t].attempt = 0
        <4>1. copy[c].attempt = 0
          BY <2>2, <3>1, <3>2 DEF Quiet, Attempts
        <4>2. Locking(c)
          BY <2>2, <3>1, <3>2 DEF Locking
        <4> QED BY <1>2, <4>1, <4>2 DEF Stays
      <3>3. CASE m \in ended'
        BY <3>3 DEF Reason
      <3>4. CASE copy'[c].id = m /\ copy'[c].attempt > 0
        BY <3>4 DEF Reason, Stays
      <3> QED BY <2>0, <2>2, <3>1, <3>2, <3>3, <3>4 DEF Answers, Accounted
    <2>3. CASE copy[c].at = "out"
      BY <1>2, <2>0, <2>3 DEF Quiet, Empty
    <2> QED BY <2>1, <2>2, <2>3 DEF StepOf, MovesOn, Answers, Schedule
  <1> QED BY <1>1, <1>2 DEF Reason

LEMMA LockReasonsHandle ==
  ASSUME Sound, Quiet, LockReasons, WithoutRedis, NEW t \in Tasks, StepOf(t)
  PROVE  LockReasons'
  <1>0. /\ inv[t].proc \in Procs /\ inv[t].copy \in Copies /\ inv[t].pc # "idle"
        /\ inv[t].pc \in {"has", "set"} => Live(t) /\ UseRedis
    BY Busy DEF StepOf, Live, Quiet, SettledEnded, After, WithoutRedis
  <1>1. ASSUME NEW m \in Good, inv[t].id = m, inv[t].pc \in {"has", "set"}, inv'[t].pc \in {"set", "decode"}
        PROVE  \A p \in Procs : Reason(p, m)'
    <2>1. Live(t) /\ UseRedis /\ copy[inv[t].copy].at = "unacked" /\ copy[inv[t].copy].id = m
      BY <1>0, <1>1 DEF Sound, Deliveries
    <2>2. ~Answers(t)
      BY <1>0, <1>1, <2>1 DEF Answers, Idle, StepOf, MovesOn, After
    <2>3. copy'[inv[t].copy] = copy[inv[t].copy]
      BY <1>0, <2>1, <2>2 DEF StepOf, MovesOn, Schedule
    <2>4. ASSUME NEW u \in Tasks, Live(u)', inv'[u].copy = inv[t].copy PROVE u = t
      BY <2>1, <2>4, StillLive DEF Sound, Deliveries
    <2>5. PICK c \in Copies : c = inv[t].copy
      BY <1>0
    <2>6. ~Locking(c)'
      BY <1>1, <2>4, <2>5 DEF Locking
    <2> QED BY <2>1, <2>3, <2>5, <2>6 DEF Reason, Stays
  <1>2. ASSUME NEW p \in Procs, NEW m \in Good, MsgKey(m) \in local'[p] \/ MsgKey(m) \in redis'
        PROVE  Reason(p, m)'
    <2>0. m \in Msgs
      BY DEF Good, Ordinary
    <2>1. CASE MsgKey(m) \in local[p] \/ MsgKey(m) \in redis
      BY <2>1, ReasonHandle DEF LockReasons
    <2>2. CASE MsgKey(m) \notin local[p] /\ MsgKey(m) \notin redis
      <3>1. m = inv[t].id /\ inv[t].pc \in {"has", "set"} /\ inv'[t].pc \in {"set", "decode"}
        BY <1>2, <2>0, <2>2 DEF StepOf, Locks
      <3> QED BY <1>1, <3>1
    <2> QED BY <2>1, <2>2
  <1>3. ASSUME NEW u \in Tasks, inv'[u].pc = "locked", inv'[u].id \in Good
        PROVE  Reason(inv[u].proc, inv[u].id)'
    <2>1. PICK p \in Procs, m \in Good :
              p = inv'[u].proc /\ m = inv'[u].id /\ p = inv[u].proc /\ m = inv[u].id /\ inv[u].pc # "idle"
      <3>1. CASE u = t
        <4>1. GoesOn(t, inv'[t])
          BY <1>3, <3>1 DEF StepOf, MovesOn, Idle
        <4> QED BY <1>0, <1>3, <3>1, <4>1 DEF GoesOn
      <3>2. CASE u # t
        <4>1. inv'[u] = inv[u]
          BY <3>2 DEF StepOf, MovesOn
        <4> QED BY <1>3, <4>1, Busy
      <3> QED BY <3>1, <3>2
    <2>2. Reason(p, m)
      <3>1. CASE u = t
        <4>1. inv[t].next = 0 /\ Key(inv[t]) \in redis
          BY <1>3, <3>1 DEF StepOf, Locks
        <4>2. MsgKey(m) \in redis
          BY <2>1, <3>1, <4>1 DEF Key, MsgKey
        <4> QED BY <4>2 DEF LockReasons
      <3>2. CASE u # t
        <4>1. inv'[u] = inv[u]
          BY <3>2 DEF StepOf, MovesOn
        <4> QED BY <1>3, <2>1, <4>1 DEF LockReasons
      <3> QED BY <3>1, <3>2
    <2>3. Reason(p, m)'
      BY <2>2, ReasonHandle
    <2> QED BY <2>1, <2>3
  <1> QED BY <1>2, <1>3 DEF LockReasons

LEMMA BrokerHandle ==
  ASSUME Sound, Quiet, LockReasons, NEW t \in Tasks, StepOf(t), NEW m \in Good, InBroker(m)
  PROVE  InBroker(m)' \/ m \in ended'
  <1>0. m \notin Crons /\ m # Nil /\ m \in Msgs
    BY ConstantsAssumption DEF Good, Ordinary
  <1>1. PICK c \in Copies : copy[c].id = m
    BY DEF InBroker
  <1>2. CASE copy'[c] = copy[c]
    BY <1>1, <1>2 DEF InBroker
  <1>3. CASE copy[c].at = "out"
    BY <1>0, <1>1, <1>3 DEF Quiet, Empty
  <1>4. CASE Answers(t) /\ c = inv[t].copy
    <2>1. Live(t) /\ inv[t].id = m
      BY <1>1, <1>4 DEF Answers, StepOf, Live, Sound, Deliveries
    <2>2. CASE inv[t].pc = "locked"
      <3>1. PICK p \in Procs : p = inv[t].proc
        BY <2>1, Busy DEF Live
      <3>2. Reason(p, m)
        BY <2>1, <2>2, <3>1 DEF LockReasons
      <3>3. Reason(p, m)'
        BY <3>2, ReasonHandle
      <3> QED BY <3>3 DEF Reason, InBroker
    <2> QED BY <1>0, <1>4, <2>1, <2>2 DEF Answers, Accounted, InBroker
  <1> QED BY <1>2, <1>3, <1>4 DEF StepOf, MovesOn, Answers, Schedule

LEMMA WorkKeptHandle ==
  ASSUME Sound, Quiet, LockReasons, WorkKept, NEW t \in Tasks, StepOf(t)
  PROVE  WorkKept'
  <1>1. ASSUME NEW m \in Good, published'[m] > 0 PROVE InBroker(m)' \/ m \in ended'
    <2>1. InBroker(m) \/ m \in ended
      BY <1>1 DEF StepOf, MovesOn, WorkKept
    <2>2. CASE m \in ended
      BY <2>2 DEF StepOf, MovesOn
    <2> QED BY <2>1, <2>2, BrokerHandle
  <1> QED BY <1>1 DEF WorkKept

-------------------------------------------------------------------------------
(* So do the other steps, with no connection lost and, with Redis, no crash.    *)
Kept(q) ==
    \A c \in Copies : copy[c].at = "unacked" /\ (UseRedis \/ copy[c].holder = q)
                      => copy'[c].at = "unacked" /\ copy'[c].holder = copy[c].holder

(* No answer, no lock; a process keeps its deliveries or else has no lock left. *)
Steady ==
    /\ \A u \in Tasks : Live(u)' => /\ Live(u) /\ inv'[u].copy = inv[u].copy /\ inv'[u].attempt = inv[u].attempt
                                    /\ inv'[u].pc \in {"has", "locked"} => inv[u].pc \in {"has", "locked"}
    /\ \A u \in Tasks : inv'[u].settled => inv[u].settled /\ inv'[u].id = inv[u].id /\ inv'[u].pc \in After
    /\ \A u \in Tasks : inv'[u].pc = "locked"
                        => inv[u].pc = "locked" /\ inv'[u].id = inv[u].id /\ inv'[u].proc = inv[u].proc
    /\ \A c \in Copies : copy[c].at # "out"
                         => copy'[c].at # "out" /\ copy'[c].id = copy[c].id /\ copy'[c].attempt = copy[c].attempt
    /\ \A c \in Copies : copy'[c].at = "out" => copy'[c].id = Nil
    /\ \A q \in Procs : local'[q] \subseteq local[q]
    /\ redis' \subseteq redis /\ ended' = ended
    /\ \A q \in Procs : \/ Kept(q)
                        \/ /\ local'[q] = {} /\ redis' = {}
                           /\ \A u \in Tasks : inv'[u].proc = q => inv'[u].pc # "locked"
    /\ \A m \in Good : published'[m] > 0 => published[m] > 0 \/ InBroker(m)'

LEMMA SteadyWork ==
  ASSUME Sound, Work, Steady
  PROVE  Work'
  <1>0. \A m \in Good : m \in Msgs /\ m # Nil
    BY ConstantsAssumption DEF Good, Ordinary
  <1>1. \A c \in Copies, m \in Good : copy[c].id = m => copy[c].at # "out"
    BY <1>0 DEF Work, Quiet, Empty
  <1>2. Quiet'
    <2>1. Empty'
      BY DEF Steady, Empty
    <2>2. ASSUME NEW u \in Tasks, Live(u)' PROVE inv'[u].attempt = copy'[inv'[u].copy].attempt
      <3>1. PICK c \in Copies : c = inv[u].copy
        BY <2>2, Busy DEF Steady, Live
      <3>2. copy[c].at = "unacked" /\ inv[u].attempt = copy[c].attempt
        BY <2>2, <3>1 DEF Steady, Sound, Deliveries, Work, Quiet, Attempts
      <3> QED BY <2>2, <3>1, <3>2 DEF Steady
    <2>3. SettledEnded'
      BY DEF Steady, SettledEnded, Work, Quiet
    <2> QED BY <2>1, <2>2, <2>3 DEF Quiet, Attempts
  <1>3. ASSUME NEW q \in Procs, NEW m \in Good, Kept(q), Reason(q, m) PROVE Reason(q, m)'
    <2>1. CASE m \in ended
      BY <2>1 DEF Reason, Steady
    <2>2. ASSUME NEW c \in Copies, copy[c].id = m, Stays(q, c) PROVE Reason(q, m)'
      <3>1. copy'[c].id = m /\ copy'[c].attempt = copy[c].attempt
        BY <1>1, <2>2 DEF Steady
      <3>2. Locking(c)' => Locking(c)
        BY DEF Locking, Steady
      <3>3. Stays(q, c)'
        BY <1>3, <2>2, <3>1, <3>2 DEF Stays, Kept
      <3> QED BY <3>1, <3>3 DEF Reason
    <2> QED BY <1>3, <2>1, <2>2 DEF Reason
  <1>4. ASSUME NEW q \in Procs, NEW m \in Good, MsgKey(m) \in local'[q] \/ MsgKey(m) \in redis'
        PROVE  Reason(q, m)'
    <2>1. Kept(q)
      BY <1>4 DEF Steady
    <2>2. Reason(q, m)
      BY <1>4 DEF Steady, Work, LockReasons
    <2> QED BY <1>3, <2>1, <2>2
  <1>5. ASSUME NEW u \in Tasks, inv'[u].pc = "locked", inv'[u].id \in Good
        PROVE  Reason(inv[u].proc, inv[u].id)'
    <2>1. inv[u].pc = "locked" /\ inv'[u].id = inv[u].id /\ inv'[u].proc = inv[u].proc
      BY <1>5 DEF Steady
    <2>2. PICK q \in Procs, m \in Good : q = inv[u].proc /\ m = inv[u].id
      BY <1>5, <2>1, Busy
    <2>3. Kept(q) /\ Reason(q, m)
      BY <1>5, <2>1, <2>2 DEF Steady, Work, LockReasons
    <2>4. Reason(q, m)'
      BY <1>3, <2>3
    <2> QED BY <2>1, <2>2, <2>4
  <1>6. LockReasons'
    BY <1>4, <1>5 DEF LockReasons
  <1>7. ASSUME NEW m \in Good, published'[m] > 0 PROVE InBroker(m)' \/ m \in ended'
    <2>1. CASE published[m] > 0
      <3>1. InBroker(m) \/ m \in ended
        BY <2>1 DEF Work, WorkKept
      <3>2. InBroker(m) => InBroker(m)'
        BY <1>1 DEF Steady, InBroker
      <3> QED BY <3>1, <3>2 DEF Steady
    <2> QED BY <1>7, <2>1 DEF Steady
  <1> QED BY <1>2, <1>6, <1>7 DEF Work, WorkKept

LEMMA DeliverWork ==
  ASSUME Sound, Work, WithoutRedis, NEW p \in Procs, NEW c \in Copies, NEW t \in Tasks, Deliver(p, c, t)
  PROVE  Work'
  <1>1. /\ copy[c].at = "ready" /\ copy[c].id \in Msgs /\ inv[t].pc = "idle"
        /\ UNCHANGED <<chan, redis, now, published, ended>>
        /\ \A d \in Copies : d # c => copy'[d] = copy[d]
        /\ copy'[c].at = "unacked" /\ copy'[c].holder = p /\ copy'[c].id = copy[c].id
        /\ copy'[c].attempt = copy[c].attempt
        /\ \A u \in Tasks : u # t => inv'[u] = inv[u]
    BY Delivered
  <1>2. PICK i \in InvType : /\ i.proc = p /\ i.copy = c /\ i.id = copy[c].id
                             /\ i.attempt = copy[c].attempt /\ i.current /\ ~i.settled
                             /\ i.next = 0 /\ ~i.skip /\ inv'[t] = Lock(i) /\ local' = LockLocal(i)
    BY Delivered
  <1>3. /\ inv'[t].proc = p /\ inv'[t].copy = c /\ inv'[t].id = copy[c].id /\ inv'[t].attempt = copy[c].attempt
        /\ ~inv'[t].settled
        /\ inv'[t].pc = IF Held(i) THEN "locked" ELSE IF UseRedis THEN "has" ELSE "decode"
    BY <1>2, Locked DEF AfterRefusal, AfterLock
  <1>4. ASSUME NEW u \in Tasks, u # t, Live(u)' PROVE Live(u) /\ inv'[u].copy # c /\ inv'[u] = inv[u]
    <2>1. Live(u) /\ inv'[u] = inv[u]
      BY <1>1, <1>4 DEF Live, Reaches
    <2> QED BY <1>1, <2>1 DEF Sound, Deliveries
  <1>5. Quiet'
    <2>1. Empty'
      BY <1>1 DEF Work, Quiet, Empty
    <2>2. ASSUME NEW u \in Tasks, Live(u)' PROVE inv'[u].attempt = copy'[inv'[u].copy].attempt
      <3>1. CASE u = t
        BY <1>1, <1>3, <3>1
      <3>2. CASE u # t
        <4>1. Live(u) /\ inv'[u].copy # c /\ inv'[u] = inv[u] /\ inv[u].copy \in Copies
          BY <1>4, <2>2, <3>2, Busy DEF Live
        <4> QED BY <1>1, <4>1 DEF Work, Quiet, Attempts
      <3> QED BY <3>1, <3>2
    <2>3. SettledEnded'
      BY <1>1, <1>3 DEF SettledEnded, Work, Quiet
    <2> QED BY <2>1, <2>2, <2>3 DEF Quiet, Attempts
  <1>6. ASSUME NEW q \in Procs, NEW m \in Good, Reason(q, m) PROVE Reason(q, m)'
    <2>1. CASE m \in ended
      BY <1>1, <2>1 DEF Reason
    <2>2. ASSUME NEW d \in Copies, copy[d].id = m, Stays(q, d) PROVE Reason(q, m)'
      <3>1. CASE d = c
        BY <1>1, <2>2, <3>1 DEF Stays, Reason
      <3>2. CASE d # c
        <4>1. Locking(d)' => Locking(d)
          BY <1>3, <1>4, <3>2 DEF Locking
        <4> QED BY <1>1, <2>2, <3>2, <4>1 DEF Stays, Reason
      <3> QED BY <3>1, <3>2
    <2> QED BY <1>6, <2>1, <2>2 DEF Reason
  <1>7. ASSUME NEW q \in Procs, NEW m \in Good, MsgKey(m) \in local'[q] \/ MsgKey(m) \in redis'
        PROVE  Reason(q, m)'
    <2>1. CASE MsgKey(m) \in local[q] \/ MsgKey(m) \in redis
      BY <1>6, <2>1 DEF Work, LockReasons
    <2>2. CASE MsgKey(m) \notin local[q] /\ MsgKey(m) \notin redis
      <3>1. MsgKey(m) \in local'[q] /\ MsgKey(m) \notin local[q]
        BY <1>1, <1>7, <2>2
      <3>2. ~UseRedis /\ ~Held(i) /\ q = p /\ MsgKey(m) = Key(i)
        BY <1>2, <3>1 DEF LockLocal, Sound, Typed
      <3>3. m = copy[c].id
        BY <1>2, <3>2 DEF MsgKey, Key
      <3>4. ~Locking(c)'
        BY <1>3, <1>4, <3>2 DEF Locking
      <3> QED BY <1>1, <3>2, <3>3, <3>4 DEF Reason, Stays
    <2> QED BY <2>1, <2>2
  <1>8. ASSUME NEW u \in Tasks, inv'[u].pc = "locked", inv'[u].id \in Good
        PROVE  Reason(inv[u].proc, inv[u].id)'
    <2>1. PICK q \in Procs, m \in Good : q = inv'[u].proc /\ m = inv'[u].id
      BY <1>1, <1>3, <1>8, Busy
    <2>2. Reason(q, m)
      <3>1. CASE u = t
        <4>1. Key(i) \in local[p] /\ m = i.id
          BY <1>2, <1>3, <1>8, <2>1, <3>1 DEF Held
        <4>2. MsgKey(m) \in local[p]
          BY <1>2, <4>1 DEF MsgKey, Key
        <4> QED BY <1>3, <2>1, <3>1, <4>2 DEF Work, LockReasons
      <3>2. CASE u # t
        BY <1>1, <1>8, <2>1, <3>2 DEF Work, LockReasons
      <3> QED BY <3>1, <3>2
    <2>3. Reason(q, m)'
      BY <1>6, <2>2
    <2> QED BY <2>1, <2>3
  <1>9. LockReasons'
    BY <1>7, <1>8 DEF LockReasons
  <1>10. WorkKept'
    BY <1>1 DEF Work, WorkKept, InBroker
  <1> QED BY <1>5, <1>9, <1>10 DEF Work

LEMMA SteadyNext ==
  ASSUME Sound, Work, Served, UseRedis => spent'["crashes"] = 0,
         \/ UNCHANGED vars
         \/ \E m \in Ordinary : Publish(m)
         \/ \E c \in Copies : Expire(c)
         \/ Tick \/ LockExpires
         \/ \E p \in Procs : Reconnect(p) \/ (Crash(p) /\ WithoutRedis)
         \/ \E t \in Tasks : RedisError(t)
  PROVE  Steady
  <1>0. /\ inv \in [Tasks -> InvType] /\ copy \in [Copies -> CopyType] /\ local \in [Procs -> SUBSET Keys]
        /\ spent \in [Faults -> Nat] /\ chan \in [Procs -> ChanStates]
        /\ \A u \in Tasks : inv[u].pc # "idle" => inv[u].proc \in Procs
    BY DEF Sound, Typed, CopyOK, InvsOK, InvOK
  <1>1. ASSUME UNCHANGED <<inv, chan>> PROVE \A u \in Tasks : Live(u)' = Live(u)
    BY <1>1 DEF Live, Reaches
  <1>2. Nil \notin Msgs /\ \A u \in Tasks : inv[u].settled => inv[u].pc \in After
    BY ConstantsAssumption DEF Work, Quiet, SettledEnded
  <1>3. \A c \in Copies : copy[c].at = "out" => copy[c].id = Nil
    BY DEF Work, Quiet, Empty
  <1>4. CASE UNCHANGED vars
    BY <1>1, <1>2, <1>3, <1>4 DEF vars, Steady, Kept
  <1>5. ASSUME NEW m \in Ordinary, Publish(m) PROVE Steady
    <2>1. UNCHANGED <<inv, chan, local, redis, ended>> /\ published' = [published EXCEPT ![m] = @ + 1]
      BY <1>5 DEF Publish
    <2>2. PICK c \in Copies : copy[c].at = "out" /\ copy' = [copy EXCEPT ![c] = [Out EXCEPT !.at = "ready", !.id = m]]
      BY <1>5 DEF Publish
    <2>3. copy'[c].at = "ready" /\ copy'[c].id = m /\ \A d \in Copies : d # c => copy'[d] = copy[d]
      BY <1>0, <2>2 DEF Out
    <2>4. InBroker(m)' /\ \A n \in Ordinary : n # m => published'[n] = published[n]
      BY <2>1, <2>3 DEF InBroker, Sound, Typed
    <2>5. \A n \in Good : published'[n] > 0 => published[n] > 0 \/ InBroker(n)'
      BY <2>4 DEF Good
    <2> QED BY <1>1, <1>2, <1>3, <2>1, <2>2, <2>3, <2>5 DEF Steady, Kept
  <1>6. ASSUME NEW c \in Copies, Expire(c) PROVE Steady
    <2>1. UNCHANGED <<inv, chan, local, redis, ended, published>> /\ copy[c].at \in {"schq", "cronq"}
      BY <1>6 DEF Expire
    <2>2. /\ copy'[c].at = "ready" /\ copy'[c].id = copy[c].id /\ copy'[c].attempt = copy[c].attempt
          /\ \A d \in Copies : d # c => copy'[d] = copy[d]
      BY <1>0, <1>6 DEF Expire, CopyType
    <2> QED BY <1>1, <1>2, <1>3, <2>1, <2>2 DEF Steady, Kept
  <1>7. CASE Tick
    <2>1. UNCHANGED <<inv, chan, copy, local, redis, ended, published>>
      BY <1>7 DEF Tick
    <2> QED BY <1>1, <1>2, <1>3, <2>1 DEF Steady, Kept
  <1>8. CASE LockExpires
    <2>1. UNCHANGED <<inv, chan, copy, ended, published>> /\ redis' \subseteq redis
          /\ \A q \in Procs : local'[q] \subseteq local[q]
      BY <1>0, <1>8 DEF LockExpires, Unlock
    <2> QED BY <1>1, <1>2, <1>3, <2>1 DEF Steady, Kept
  <1>9. ASSUME NEW p \in Procs, Reconnect(p) PROVE Steady
    <2>1. UNCHANGED <<inv, copy, local, redis, ended, published>>
      BY <1>9 DEF Reconnect
    <2>2. \A u \in Tasks : Live(u)' => Live(u)
      BY <1>0, <2>1 DEF Live, Reaches, Served
    <2> QED BY <1>2, <1>3, <2>1, <2>2 DEF Steady, Kept
  <1>10. ASSUME NEW p \in Procs, Crash(p), WithoutRedis PROVE Steady
    <2>1. UNCHANGED <<redis, ended, published>> /\ ~UseRedis /\ redis = {}
      BY <1>0, <1>10 DEF Crash, Spend, Faults, WithoutRedis
    <2>2. local'[p] = {} /\ \A q \in Procs : q # p => local'[q] = local[q]
      BY <1>0, <1>10 DEF Crash
    <2>3. \A u \in Tasks : inv'[u] = IF inv[u].proc = p THEN Idle ELSE inv[u]
      BY <1>10 DEF Crash
    <2>4. Idle.pc = "idle" /\ ~Idle.settled
      BY DEF Idle
    <2>5. ASSUME NEW u \in Tasks, Live(u)' PROVE Live(u) /\ inv'[u] = inv[u]
      <3>1. inv[u].proc # p /\ inv'[u] = inv[u]
        BY <2>3, <2>4, <2>5 DEF Live
      <3>2. chan'[inv[u].proc] = chan[inv[u].proc]
        BY <1>0, <1>10, <2>5, <3>1 DEF Crash, Live
      <3> QED BY <2>5, <3>1, <3>2 DEF Live, Reaches
    <2>6. ASSUME NEW c \in Copies
          PROVE  /\ copy'[c].id = copy[c].id /\ copy'[c].attempt = copy[c].attempt
                 /\ copy'[c].at = "out" <=> copy[c].at = "out"
                 /\ copy[c].at = "unacked" /\ copy[c].holder # p => copy'[c] = copy[c]
      <3>1. copy'[c] = IF copy[c].at = "unacked" /\ copy[c].holder = p
                       THEN [copy[c] EXCEPT !.at = "ready", !.holder = Nil] ELSE copy[c]
        BY <1>10 DEF Crash, Requeued
      <3> QED BY <1>0, <3>1 DEF CopyType
    <2>7. \A q \in Procs : q # p => Kept(q)
      BY <2>1, <2>6 DEF Kept
    <2>8. \A u \in Tasks : inv'[u].proc = p => inv'[u].pc # "locked"
      BY <2>3, <2>4
    <2>9. \A u \in Tasks : inv'[u].settled \/ inv'[u].pc = "locked" => inv'[u] = inv[u]
      BY <2>3, <2>4
    <2> QED BY <1>2, <1>3, <2>1, <2>2, <2>5, <2>6, <2>7, <2>8, <2>9 DEF Steady
  <1>11. ASSUME NEW t \in Tasks, RedisError(t) PROVE Steady
    <2>1. UNCHANGED <<chan, copy, local, redis, ended, published>>
      BY <1>11 DEF RedisError
    <2>2. \A u \in Tasks : u # t => inv'[u] = inv[u]
      BY <1>0, <1>11 DEF RedisError
    <2>3. \/ inv'[t] = Idle
          \/ /\ inv'[t].pc \in {"onerror", "onerrorLast"} /\ inv'[t].copy = inv[t].copy /\ inv'[t].id = inv[t].id
             /\ inv'[t].attempt = inv[t].attempt /\ inv'[t].settled = inv[t].settled /\ inv'[t].proc = inv[t].proc
             /\ inv'[t].current = inv[t].current /\ inv[t].pc = "unlockRun"
      <3>1. CASE inv[t].pc = "unlockRun"
        <4>1. PICK pc \in {"onerror", "onerrorLast"} : inv' = [inv EXCEPT ![t].pc = pc]
          BY <1>11, <3>1 DEF RedisError, Catch
        <4> QED BY <1>0, <3>1, <4>1 DEF InvType
      <3>2. CASE inv[t].pc # "unlockRun"
        BY <1>0, <1>11, <3>2 DEF RedisError
      <3> QED BY <3>1, <3>2
    <2>4. Idle.pc = "idle" /\ ~Idle.settled
      BY DEF Idle
    <2>5. ASSUME NEW u \in Tasks, Live(u)'
          PROVE  Live(u) /\ inv'[u].copy = inv[u].copy /\ inv'[u].attempt = inv[u].attempt
                 /\ (inv'[u].pc \in {"has", "locked"} => inv[u].pc \in {"has", "locked"})
      BY <2>1, <2>2, <2>3, <2>4, <2>5 DEF Live, Reaches
    <2>6. \A u \in Tasks : inv'[u].settled => inv[u].settled /\ inv'[u].id = inv[u].id /\ inv'[u].pc \in After
      BY <1>2, <2>2, <2>3, <2>4 DEF After
    <2>7. \A u \in Tasks : inv'[u].pc = "locked" => inv'[u] = inv[u]
      BY <2>2, <2>3, <2>4
    <2> QED BY <1>3, <2>1, <2>5, <2>6, <2>7 DEF Steady, Kept
  <1> QED BY <1>4, <1>5, <1>6, <1>7, <1>8, <1>9, <1>10, <1>11

LEMMA NeverDrops ==
  ASSUME Sound, NoDrops, MaxDrops = 0, MaxTorn = 0, [Next]_vars
  PROVE  NoDrops'
  <1>0. spent \in [Faults -> Nat]
    BY DEF Sound, Typed
  <1>1. (\A p \in Procs : ~Drop(p)) /\ (\A t \in Tasks : ~DropBeforeRetry(t))
    BY DEF Drop, DropBeforeRetry, Spend, NoDrops
  <1> QED BY <1>0, <1>1, NextMoves DEF Moves, vars, Publish, Expire, Tick, Deliver, Handle, RedisHas, RedisSet, SkipCron,
       RequeueLocked, DropDuplicate, DecodeFails, RejectInactive, Decode, NextCron, NoNextCron, PublishNext,
       FreePublishLock, AckSkipped, Succeed, Fail, ReleaseForRetry, Requeue, DeadLetter, EndUnlock, Become,
       RedisError, Spend, Notice, Reconnect, Crash, LockExpires, NoDrops, Faults

LEMMA WorkNext ==
  ASSUME WorkInv, [Next]_vars
  PROVE  WorkInv'
  <1>1. Sound' /\ NoError' /\ Attached' /\ CronsOnly' /\ WithoutRedis'
    BY NextSound, NoErrorNext, AttachedNext, OnlyNext DEF WorkInv
  <1>2. ASSUME Calm', NoDrops' PROVE Work'
    <2>0. /\ chan \in [Procs -> ChanStates] /\ spent \in [Faults -> Nat]
          /\ NoDrops /\ (\A p \in Procs : ~Drop(p)) /\ (\A t \in Tasks : ~DropBeforeRetry(t))
      BY <1>2, DropsBack DEF WorkInv, Sound, Typed
    <2>1. Calm
      <3>1. CASE ~UseRedis
        BY <3>1 DEF WorkInv, WithoutRedis, NoError, Calm
      <3>2. CASE UseRedis
        <4>1. ASSUME NEW p \in Procs, Crash(p) PROVE FALSE
          BY <1>2, <2>0, <3>2, <4>1 DEF Crash, Spend, Faults, Calm
        <4>2. spent["crashes"] = 0
          BY <1>2, <2>0, <3>2, <4>1, NextMoves DEF Moves, vars, Publish, Expire, Tick, Deliver, Handle, RedisHas,
             RedisSet, SkipCron, RequeueLocked, DropDuplicate, DecodeFails, RejectInactive, Decode, NextCron,
             NoNextCron, PublishNext, FreePublishLock, AckSkipped, Succeed, Fail, ReleaseForRetry, Requeue,
             DeadLetter, EndUnlock, Become, RedisError, Spend, Notice, Reconnect, LockExpires, Faults, Calm, WorkInv
        <4>3. ASSUME NEW t \in Tasks, Handle(t) PROVE \A p \in Procs : chan[p] # "refused"
          BY <1>2, <4>3, SameChannel DEF WorkInv, Calm
        <4>4. ASSUME NEW p \in Procs, Notice(p) \/ Reconnect(p) PROVE \A q \in Procs : chan[q] # "refused"
          BY <1>2, <2>0, <4>4 DEF Notice, Reconnect, Calm
        <4>5. ASSUME chan' = chan PROVE \A q \in Procs : chan[q] # "refused"
          BY <1>2, <4>5 DEF Calm
        <4>6. \A p \in Procs : chan[p] # "refused"
          BY <2>0, <4>1, <4>3, <4>4, <4>5, NextMoves
             DEF Moves, vars, Publish, Expire, Tick, Deliver, RedisError, LockExpires, WorkInv
        <4> QED BY <4>2, <4>6 DEF Calm
      <3> QED BY <3>1, <3>2
    <2>2. Work /\ Sound /\ WithoutRedis /\ CronsOnly
      BY <2>0, <2>1 DEF WorkInv
    <2>3. Served /\ \A p \in Procs : chan[p] # "lost"
      BY <2>0, <2>1, Busy DEF WorkInv, Attached, Served, Calm, Reaches
    <2>4. ASSUME NEW t \in Tasks, Handle(t) PROVE Work'
      <3>1. chan' = chan
        BY <1>2, <2>2, <2>4, SameChannel DEF Calm
      <3>2. inv[t].pc # "idle" /\ Reaches(t)
        BY <2>3, <2>4, BusyHandle DEF Served
      <3>3. StepOf(t)
        BY <2>2, <2>4, <3>1, <3>2, HandleMovesOn DEF StepOf, Work
      <3> QED BY <2>2, <3>3, QuietHandle, LockReasonsHandle, WorkKeptHandle DEF Work
    <2>5. ASSUME NEW p \in Procs, NEW c \in Copies, NEW t \in Tasks, Deliver(p, c, t) PROVE Work'
      BY <2>2, <2>5, DeliverWork
    <2>6. ASSUME NEW p \in Procs, Notice(p) PROVE FALSE
      BY <2>3, <2>6 DEF Notice
    <2>7. ASSUME NEW p \in Procs, Reconnect(p) \/ Crash(p) PROVE Work'
      BY <1>2, <2>2, <2>3, <2>7, SteadyNext, SteadyWork DEF Calm
    <2>8. CASE \/ UNCHANGED vars
               \/ \E m \in Ordinary : Publish(m)
               \/ \E c \in Copies : Expire(c)
               \/ Tick \/ LockExpires
               \/ \E t \in Tasks : RedisError(t)
      BY <1>2, <2>2, <2>3, <2>8, SteadyNext, SteadyWork DEF Calm
    <2> QED BY <2>0, <2>2, <2>4, <2>5, <2>6, <2>7, <2>8, NextMoves DEF Moves
  <1> QED BY <1>1, <1>2 DEF WorkInv

LEMMA WorkInit == Init => WorkInv
  <1> SUFFICES ASSUME Init PROVE WorkInv
    OBVIOUS
  <1>1. /\ \A p \in Procs : chan[p] = "open" /\ local[p] = {}
        /\ \A t \in Tasks : inv[t] = Idle
        /\ redis = {} /\ \A f \in Faults : spent[f] = 0
        /\ \A m \in Ordinary : published[m] = 0
    BY DEF Init
  <1>2. Idle.pc = "idle" /\ ~Idle.settled
    BY DEF Idle
  <1>3. Empty
    <2>1. PICK slot \in [Crons -> Copies] :
            copy = [c \in Copies |->
                      IF \E m \in Crons : slot[m] = c
                      THEN [Out EXCEPT !.at = "cronq", !.due = 1, !.id = CHOOSE m \in Crons : slot[m] = c]
                      ELSE Out]
      BY DEF Init
    <2>2. ASSUME NEW c \in Copies, copy[c].at = "out" PROVE copy[c].id = Nil
      <3>1. CASE \E m \in Crons : slot[m] = c
        <4>1. copy[c].at = "cronq"
          BY <2>1, <3>1 DEF Out
        <4> QED BY <2>2, <4>1
      <3>2. CASE ~\E m \in Crons : slot[m] = c
        BY <2>1, <3>2 DEF Out
      <3> QED BY <3>1, <3>2
    <2> QED BY <2>2 DEF Empty
  <1>4. Work
    <2>1. Quiet
      BY <1>1, <1>2, <1>3 DEF Quiet, Attempts, SettledEnded, Live
    <2>2. LockReasons
      BY <1>1, <1>2 DEF LockReasons
    <2>3. WorkKept
      BY <1>1 DEF WorkKept, Good
    <2> QED BY <2>1, <2>2, <2>3 DEF Work
  <1>5. NoError /\ Attached /\ WithoutRedis /\ CronsOnly
    BY <1>1, <1>2 DEF NoError, Attached, NoDrops, WithoutRedis, CronsOnly, CronPcs, Faults
  <1> QED BY <1>4, <1>5, InitSound DEF WorkInv

(* No path of the handler loses work while the connections last. In a cluster   *)
(* with Redis, until the broker refuses a channel or a process ends, a published*)
(* message is in the broker until a run of it succeeds or it is dead-lettered,  *)
(* whatever locks expire and whatever Redis commands fail in a process that     *)
(* listens to unhandled rejections. In one that does not, a command that fails  *)
(* outside the try is such an end.                                              *)
THEOREM WorkIsLostOnlyOnRefusalOrEnd ==
  ASSUME MaxDrops = 0, MaxTorn = 0
  PROVE  Spec => []LostOnlyOnRefusalOrEnd
  <1>1. WorkInv /\ NoDrops => LostOnlyOnRefusalOrEnd
    BY DEF WorkInv, Work, WorkKept, Calm, LostOnlyOnRefusalOrEnd, NoWorkLost, Good
  <1>2. WorkInv /\ NoDrops /\ [Next]_vars => WorkInv' /\ NoDrops'
    BY WorkNext, NeverDrops DEF WorkInv
  <1>3. Init => WorkInv /\ NoDrops
    BY WorkInit DEF Init, NoDrops, Faults
  <1> QED BY <1>1, <1>2, <1>3, PTL DEF Spec

(* Without a shared cache no channel is refused, and processes may crash too:   *)
(* no path of the handler loses work.                                           *)
THEOREM WorkIsKept ==
  ASSUME ~UseRedis, MaxDrops = 0, MaxTorn = 0
  PROVE  Spec => []NoWorkLost
  <1>1. WorkInv /\ NoDrops => NoWorkLost
    <2>1. WorkInv => Calm
      BY DEF WorkInv, WithoutRedis, NoError, Calm
    <2> QED BY <2>1 DEF WorkInv, Work, WorkKept, NoWorkLost, Good
  <1>2. WorkInv /\ NoDrops /\ [Next]_vars => WorkInv' /\ NoDrops'
    BY WorkNext, NeverDrops DEF WorkInv
  <1>3. Init => WorkInv /\ NoDrops
    BY WorkInit DEF Init, NoDrops, Faults
  <1> QED BY <1>1, <1>2, <1>3, PTL DEF Spec

-------------------------------------------------------------------------------
(* The chain of a cron, without a shared cache. Each has a copy of it that some *)
(* invocation will yet schedule the next execution for; a publish lock stands   *)
(* for a next execution that is pending, or about to be published.              *)
Chained == Crons \ (Inactive \union Undecodable)
BeforePublish == {"locked", "decode", "next", "publish"}
Tip(c) ==
    /\ copy[c].at # "out"
    /\ \A t \in Tasks : Live(t) /\ inv[t].copy = c => inv[t].pc \in BeforePublish
Publishing(p, m, d) ==
    \E t \in Tasks : inv[t].pc = "publish" /\ inv[t].proc = p /\ inv[t].id = m /\ inv[t].next = d
Scheduled(m, d) == \E c \in Copies : copy[c].at = "cronq" /\ copy[c].id = m /\ copy[c].due = d
PublishKey(m, d) == [id |-> m, at |-> d]

Tips == now < LastTick => \A m \in Chained : \E c \in Copies : copy[c].id = m /\ Tip(c)
PublishLocks ==
    \A p \in Procs, m \in Chained, d \in Ticks :
        PublishKey(m, d) \in local[p] /\ d > now => Scheduled(m, d) \/ Publishing(p, m, d)

ChainInv == WorkInv /\ (NoDrops => Tips /\ PublishLocks)

(* How an invocation for a cron that goes on gets to publish.                   *)
Chains(t) ==
    /\ now' = now
    /\ inv[t].id \in Chained =>
         /\ inv[t].pc \in {"locked", "decode"} => copy' = copy /\ inv'[t].pc = "next"
         /\ inv[t].pc = "next" /\ now < LastTick
            => copy' = copy /\ (inv'[t].pc = "publish" \/ PublishKey(inv[t].id, now + 1) \in local[inv[t].proc])
    /\ inv[t].pc = "publish" => \E c \in Copies : Schedule(t, c)
    /\ \A p \in Procs, m \in Msgs, d \in Ticks \ {0} :
         PublishKey(m, d) \in local'[p] /\ PublishKey(m, d) \notin local[p]
         => p = inv[t].proc /\ inv'[t].pc = "publish" /\ inv'[t].proc = p /\ inv'[t].id = m /\ inv'[t].next = d

LEMMA MsgNotPublish == ASSUME NEW m, NEW n, NEW d, d # 0 PROVE MsgKey(n) # PublishKey(m, d)
  BY DEF MsgKey, PublishKey

LEMMA HandleSchedules ==
  ASSUME ~UseRedis, Sound, WithoutRedis, CronsOnly, NEW t \in Tasks, Reaches(t), Handle(t), chan' = chan
  PROVE  Chains(t)
  <1>1. /\ inv[t] \in InvType /\ inv[t].pc # "idle" /\ inv \in [Tasks -> InvType]
        /\ inv[t].proc \in Procs /\ inv[t].id \in Msgs /\ inv[t].copy \in Copies
        /\ local \in [Procs -> SUBSET Keys] /\ copy \in [Copies -> CopyType]
        /\ inv[t].pc \notin {"has", "set"} /\ CanWrite(t)
    BY BusyHandle, Busy DEF Sound, Typed, CopyOK, WithoutRedis, CanWrite, Reaches
  <1>2. now' = now
    BY DEF Handle, RedisHas, RedisSet, SkipCron, RequeueLocked, DropDuplicate, DecodeFails, RejectInactive,
           Decode, NextCron, NoNextCron, PublishNext, FreePublishLock, AckSkipped, Succeed, Fail,
           ReleaseForRetry, Requeue, DeadLetter, EndUnlock, Become
  <1>3. ASSUME NEW p \in Procs, NEW n, local' = local \/ local' = Unlock(p, MsgKey(n))
        PROVE  \A q \in Procs : local'[q] \subseteq local[q]
    BY <1>1, <1>3 DEF Unlock
  <1>4. CASE inv[t].pc \in {"locked", "decode"}
    <2>1. local' = local \/ local' = Unlock(inv[t].proc, MsgKey(inv[t].id))
      BY <1>4 DEF Handle, RedisHas, RedisSet, SkipCron, RequeueLocked, DropDuplicate, DecodeFails, RejectInactive,
           Decode, NextCron, NoNextCron, PublishNext, FreePublishLock, AckSkipped, Succeed, Fail,
           ReleaseForRetry, Requeue, DeadLetter, EndUnlock, Become, Finish
    <2>2. ASSUME inv[t].id \in Chained PROVE copy' = copy /\ inv'[t].pc = "next"
      <3>1. inv[t].id \in Crons /\ inv[t].id \notin Inactive /\ inv[t].id \notin Undecodable
        BY <2>2 DEF Chained
      <3>2. SkipCron(t) \/ Decode(t)
        BY <1>4, <3>1 DEF Handle, RedisHas, RedisSet, RequeueLocked, LockedRetry, DropDuplicate, DecodeFails,
           RejectInactive, NextCron, NoNextCron, PublishNext, FreePublishLock, AckSkipped, Succeed, Fail,
           ReleaseForRetry, Requeue, DeadLetter, EndUnlock, IsActive
      <3>3. CASE SkipCron(t)
        <4>1. PICK i : i = [inv[t] EXCEPT !.pc = "next", !.skip = TRUE]
          OBVIOUS
        <4>2. i.pc = "next"
          BY <1>1, <4>1 DEF InvType
        <4>3. inv' = [inv EXCEPT ![t] = i] /\ copy' = copy
          BY <3>3, <4>1 DEF SkipCron, Become
        <4> QED BY <1>1, <4>2, <4>3
      <3>4. CASE Decode(t)
        <4>1. inv' = [inv EXCEPT ![t] = [inv[t] EXCEPT !.pc = "next"]] /\ copy' = copy
          BY <3>1, <3>4 DEF Decode, Become
        <4> QED BY <1>1, <4>1, PcMoves
      <3> QED BY <3>2, <3>3, <3>4
    <2>3. \A q \in Procs : local'[q] \subseteq local[q]
      BY <1>1, <1>3, <2>1
    <2> QED BY <1>2, <1>4, <2>2, <2>3 DEF Chains
  <1>5. CASE NextCron(t)
    <2>1. PICK i \in InvType :
           /\ i.proc = inv[t].proc /\ i.copy = inv[t].copy /\ i.id = inv[t].id
           /\ i.next = now + 1 /\ now + 1 \in Ticks \ {0}
           /\ inv'[t] = Lock(i) /\ local' = LockLocal(i)
      BY <1>5, Schedules
    <2>2. inv[t].pc = "next" /\ copy' = copy
      BY <1>5 DEF NextCron
    <2>3. Key(i) = PublishKey(inv[t].id, now + 1)
      BY <2>1 DEF Key, PublishKey
    <2>4. /\ inv'[t].proc = inv[t].proc /\ inv'[t].id = inv[t].id /\ inv'[t].next = now + 1
          /\ ~Held(i) => inv'[t].pc = "publish"
      BY <2>1, Locked DEF AfterLock
    <2>5. inv'[t].pc = "publish" \/ PublishKey(inv[t].id, now + 1) \in local[inv[t].proc]
      BY <2>1, <2>3, <2>4 DEF Held
    <2>6. ASSUME NEW p \in Procs, NEW m \in Msgs, NEW d \in Ticks \ {0},
                 PublishKey(m, d) \in local'[p], PublishKey(m, d) \notin local[p]
          PROVE  p = inv[t].proc /\ inv'[t].pc = "publish" /\ m = inv[t].id /\ d = now + 1
      <3>1. ~Held(i) /\ p = inv[t].proc /\ PublishKey(m, d) = PublishKey(inv[t].id, now + 1)
        BY <1>1, <2>1, <2>3, <2>6 DEF LockLocal
      <3> QED BY <2>4, <3>1 DEF PublishKey
    <2> QED BY <1>2, <2>2, <2>4, <2>5, <2>6 DEF Chains
  <1>6. CASE PublishNext(t)
    <2>1. inv[t].pc = "publish" /\ local' = local
      BY <1>1, <1>6 DEF PublishNext
    <2>2. PICK c \in Copies : copy[c].at = "out" /\ copy' = [copy EXCEPT ![c] = NextExecution(inv[t])]
      BY <1>6 DEF PublishNext
    <2>3. PICK d : d = NextExecution(inv[t])
      OBVIOUS
    <2>4. d.at = "cronq" /\ d.id = inv[t].id /\ d.due = inv[t].next
      BY <2>3 DEF NextExecution, Out
    <2>5. inv[t].id \in Crons /\ copy' = [copy EXCEPT ![c] = d]
      BY <2>1, <2>2, <2>3 DEF CronsOnly, CronPcs
    <2>6. Schedule(t, c)
      BY <1>1, <2>2, <2>4, <2>5 DEF Schedule
    <2> QED BY <1>2, <2>1, <2>6 DEF Chains
  <1>7. CASE inv[t].pc \notin {"locked", "decode"} /\ ~NextCron(t) /\ ~PublishNext(t)
    <2>1. local' = local \/ local' = Unlock(inv[t].proc, MsgKey(inv[t].id))
      BY <1>7 DEF Handle, RedisHas, RedisSet, SkipCron, RequeueLocked, DropDuplicate, DecodeFails, RejectInactive,
           Decode, NoNextCron, FreePublishLock, AckSkipped, Succeed, Fail, WithoutRedis,
           ReleaseForRetry, Requeue, DeadLetter, EndUnlock, Become, Finish
    <2>2. inv[t].pc # "publish" /\ (inv[t].pc = "next" => now = LastTick)
      BY <1>7 DEF Handle, RedisHas, RedisSet, SkipCron, RequeueLocked, LockedRetry, DropDuplicate, DecodeFails,
           RejectInactive, Decode, NoNextCron, FreePublishLock, AckSkipped, Succeed, Fail,
           ReleaseForRetry, Requeue, DeadLetter, EndUnlock
    <2>3. \A q \in Procs : local'[q] \subseteq local[q]
      BY <1>1, <1>3, <2>1
    <2>4. LastTick \in Nat
      BY ConstantsAssumption
    <2> QED BY <1>2, <1>7, <2>2, <2>3, <2>4 DEF Chains
  <1> QED BY <1>4, <1>5, <1>6, <1>7

LEMMA ChainHandle ==
  ASSUME Sound, Quiet, Served, Tips, PublishLocks, NEW t \in Tasks, StepOf(t), Chains(t)
  PROVE  Tips' /\ PublishLocks'
  <1>0. /\ now' = now /\ now \in Ticks /\ inv[t].copy \in Copies /\ LastTick \in Nat
        /\ Answers(t) => Live(t)
        /\ \A u \in Tasks : u # t => inv'[u] = inv[u]
    BY Busy, ConstantsAssumption DEF Chains, StepOf, MovesOn, Answers, Live, Sound, Typed
  <1>1. ASSUME NEW c \in Copies, copy[c].at # "out", ~(Live(t) /\ inv[t].copy = c) PROVE copy'[c] = copy[c]
    BY <1>0, <1>1 DEF StepOf, MovesOn, Answers, Schedule
  <1>2. ASSUME NEW u \in Tasks, Live(u)' PROVE copy'[inv'[u].copy].at = "unacked" /\ Live(u) /\ inv'[u].copy = inv[u].copy
    BY <1>2, StillLive DEF Sound, Deliveries
  <1>3. ASSUME NEW m, NEW c \in Copies, copy[c].id = m, copy[c].at = "cronq"
        PROVE  copy'[c] = copy[c] /\ Tip(c)'
    <2>1. ~(Live(t) /\ inv[t].copy = c)
      BY <1>3 DEF Sound, Deliveries
    <2>2. copy'[c] = copy[c]
      BY <1>1, <1>3, <2>1
    <2> QED BY <1>2, <1>3, <2>2 DEF Tip
  <1>4. ASSUME NEW m \in Chained, now < LastTick PROVE \E c \in Copies : copy'[c].id = m /\ Tip(c)'
    <2>1. PICK c \in Copies : copy[c].id = m /\ Tip(c)
      BY <1>4 DEF Tips
    <2>2. CASE ~(Live(t) /\ inv[t].copy = c)
      <3>1. copy'[c] = copy[c]
        BY <1>1, <2>1, <2>2 DEF Tip
      <3>2. \A v \in Tasks : Live(v)' /\ inv'[v].copy = c => inv'[v] = inv[v] /\ Live(v)
        BY <1>0, <1>2, <2>2
      <3>3. Tip(c)'
        BY <2>1, <3>1, <3>2 DEF Tip
      <3> QED BY <2>1, <3>1, <3>3
    <2>3. CASE Live(t) /\ inv[t].copy = c
      <3>1. inv[t].id = m /\ inv[t].pc \in BeforePublish /\ copy[c].at = "unacked"
        BY <2>1, <2>3 DEF Tip, Sound, Deliveries
      <3>2. \A v \in Tasks : Live(v)' /\ inv'[v].copy = c => v = t
        BY <1>2, <2>3 DEF Sound, Deliveries
      <3>3. CASE copy' = copy /\ inv'[t].pc \in BeforePublish
        <4>1. Tip(c)'
          BY <3>1, <3>2, <3>3 DEF Tip
        <4> QED BY <2>1, <3>3, <4>1
      <3>4. CASE inv[t].pc = "publish"
        <4>1. PICK d \in Copies : Schedule(t, d)
          BY <3>4 DEF Chains
        <4>2. copy'[d].at = "cronq" /\ copy'[d].id = m
          BY <3>1, <4>1 DEF Schedule
        <4>3. Tip(d)'
          BY <1>2, <4>2 DEF Tip
        <4> QED BY <4>2, <4>3
      <3>5. CASE copy' = copy /\ PublishKey(m, now + 1) \in local[inv[t].proc] /\ inv[t].pc = "next"
        <4>1. PICK p \in Procs, d \in Ticks : p = inv[t].proc /\ d = now + 1 /\ d > now
          BY <1>0, <1>4, Busy DEF StepOf, Ticks
        <4>2. Scheduled(m, d) \/ Publishing(p, m, d)
          BY <3>5, <4>1 DEF PublishLocks
        <4>3. CASE Scheduled(m, d)
          <5>1. PICK e \in Copies : copy[e].at = "cronq" /\ copy[e].id = m
            BY <4>3 DEF Scheduled
          <5> QED BY <1>3, <5>1
        <4>4. CASE Publishing(p, m, d)
          <5>1. PICK u \in Tasks : inv[u].pc = "publish" /\ inv[u].id = m
            BY <4>4 DEF Publishing
          <5>2. u # t /\ inv'[u] = inv[u] /\ Live(u) /\ inv[u].copy \in Copies
            BY <1>0, <3>5, <5>1, Busy DEF Served, Live, Quiet, SettledEnded, After
          <5>3. copy[inv[u].copy].at = "unacked" /\ copy[inv[u].copy].id = m
            BY <5>1, <5>2 DEF Sound, Deliveries
          <5>4. PICK e \in Copies : e = inv[u].copy
            BY <5>2
          <5>5. \A v \in Tasks : Live(v)' /\ inv'[v].copy = e => v = u
            BY <1>2, <5>2, <5>4 DEF Sound, Deliveries
          <5>6. Tip(e)'
            BY <3>5, <5>1, <5>2, <5>3, <5>4, <5>5 DEF Tip, BeforePublish
          <5> QED BY <3>5, <5>3, <5>4, <5>6
        <4> QED BY <4>2, <4>3, <4>4
      <3> QED BY <1>4, <3>1, <3>3, <3>4, <3>5 DEF Chains, BeforePublish
    <2> QED BY <2>2, <2>3
  <1>5. ASSUME NEW p \in Procs, NEW m \in Chained, NEW d \in Ticks, PublishKey(m, d) \in local'[p], d > now
        PROVE  Scheduled(m, d)' \/ Publishing(p, m, d)'
    <2>0. m \in Msgs /\ d # 0
      BY <1>0, <1>5, ConstantsAssumption DEF Chained, Ticks
    <2>1. CASE PublishKey(m, d) \notin local[p]
      BY <1>5, <2>0, <2>1 DEF Chains, Publishing
    <2>2. CASE Scheduled(m, d)
      BY <1>3, <2>2 DEF Scheduled
    <2>3. ASSUME NEW u \in Tasks, inv[u].pc = "publish", inv[u].proc = p, inv[u].id = m, inv[u].next = d
          PROVE  Scheduled(m, d)' \/ Publishing(p, m, d)'
      <3>1. CASE u # t
        BY <1>0, <2>3, <3>1 DEF Publishing
      <3>2. CASE u = t
        <4>1. PICK c \in Copies : Schedule(t, c)
          BY <2>3, <3>2 DEF Chains
        <4> QED BY <2>3, <3>2, <4>1 DEF Schedule, Scheduled
      <3> QED BY <3>1, <3>2
    <2> QED BY <1>5, <2>1, <2>2, <2>3 DEF PublishLocks, Publishing
  <1> QED BY <1>0, <1>4, <1>5 DEF Tips, PublishLocks

(* The other steps take no copy away, and a process that loses a publish loses  *)
(* its locks too.                                                               *)
SteadyChain ==
    /\ now' \in Nat /\ now' >= now
    /\ \A u \in Tasks : Live(u)' => Live(u) /\ inv'[u] = inv[u]
    /\ \A c \in Copies : copy[c].at # "out" => copy'[c].at # "out" /\ copy'[c].id = copy[c].id
    /\ \A c \in Copies : copy[c].at = "cronq" /\ copy[c].due > now' => copy'[c] = copy[c]
    /\ \A q \in Procs : local'[q] \subseteq local[q]
    /\ \A q \in Procs : \/ local'[q] = {}
                        \/ \A u \in Tasks : inv[u].proc = q => inv'[u] = inv[u]

LEMMA SteadyChains ==
  ASSUME Sound, Tips, PublishLocks, SteadyChain
  PROVE  Tips' /\ PublishLocks'
  <1>0. now \in Nat /\ LastTick \in Nat /\ now' \in Nat /\ now' >= now /\ Ticks \subseteq Nat
    BY ConstantsAssumption DEF Sound, Typed, Ticks, SteadyChain
  <1>1. ASSUME NEW m \in Chained, now' < LastTick PROVE \E c \in Copies : copy'[c].id = m /\ Tip(c)'
    <2>1. PICK c \in Copies : copy[c].id = m /\ Tip(c)
      BY <1>0, <1>1 DEF Tips
    <2>2. copy'[c].id = m /\ Tip(c)'
      BY <2>1 DEF SteadyChain, Tip
    <2> QED BY <2>2
  <1>2. ASSUME NEW p \in Procs, NEW m \in Chained, NEW d \in Ticks, PublishKey(m, d) \in local'[p], d > now'
        PROVE  Scheduled(m, d)' \/ Publishing(p, m, d)'
    <2>1. d > now /\ PublishKey(m, d) \in local[p]
      BY <1>0, <1>2 DEF SteadyChain
    <2>2. CASE Scheduled(m, d)
      BY <1>2, <2>2 DEF Scheduled, SteadyChain
    <2>3. CASE Publishing(p, m, d)
      BY <1>2, <2>3 DEF Publishing, SteadyChain
    <2> QED BY <2>1, <2>2, <2>3 DEF PublishLocks
  <1> QED BY <1>1, <1>2 DEF Tips, PublishLocks

LEMMA ChainFaults ==
  ASSUME Sound, Served, WithoutRedis,
         \/ UNCHANGED vars
         \/ \E m \in Ordinary : Publish(m)
         \/ \E c \in Copies : Expire(c)
         \/ Tick \/ LockExpires
         \/ \E p \in Procs : Reconnect(p) \/ Crash(p)
  PROVE  SteadyChain
  <1>0. /\ inv \in [Tasks -> InvType] /\ copy \in [Copies -> CopyType] /\ local \in [Procs -> SUBSET Keys]
        /\ chan \in [Procs -> ChanStates] /\ now \in Nat
        /\ \A u \in Tasks : inv[u].pc # "idle" => inv[u].proc \in Procs
        /\ \A c \in Copies : copy[c].due \in Nat
    BY ConstantsAssumption DEF Sound, Typed, CopyOK, CopyType, InvsOK, InvOK, Ticks
  <1>1. ASSUME UNCHANGED <<inv, chan>> PROVE \A u \in Tasks : Live(u)' = Live(u)
    BY <1>1 DEF Live, Reaches
  <1>2. CASE UNCHANGED vars
    BY <1>0, <1>1, <1>2 DEF vars, SteadyChain
  <1>3. ASSUME NEW m \in Ordinary, Publish(m) PROVE SteadyChain
    <2>1. UNCHANGED <<inv, chan, local, now>>
      BY <1>3 DEF Publish
    <2>2. \A c \in Copies : copy[c].at # "out" => copy'[c] = copy[c]
      BY <1>0, <1>3 DEF Publish
    <2> QED BY <1>0, <1>1, <2>1, <2>2 DEF SteadyChain
  <1>4. ASSUME NEW c \in Copies, Expire(c) PROVE SteadyChain
    <2>1. UNCHANGED <<inv, chan, local, now>> /\ (copy[c].at = "cronq" => copy[c].due <= now)
      BY <1>4 DEF Expire
    <2>2. /\ copy'[c].at = "ready" /\ copy'[c].id = copy[c].id
          /\ \A d \in Copies : d # c => copy'[d] = copy[d]
      BY <1>0, <1>4 DEF Expire, CopyType
    <2> QED BY <1>0, <1>1, <2>1, <2>2 DEF SteadyChain
  <1>5. CASE Tick
    <2>1. UNCHANGED <<inv, chan, copy, local>> /\ now' = now + 1
      BY <1>5 DEF Tick
    <2> QED BY <1>0, <1>1, <2>1 DEF SteadyChain
  <1>6. CASE LockExpires
    <2>1. UNCHANGED <<inv, chan, copy, now>> /\ \A q \in Procs : local'[q] \subseteq local[q]
      BY <1>0, <1>6 DEF LockExpires, Unlock
    <2> QED BY <1>0, <1>1, <2>1 DEF SteadyChain
  <1>7. ASSUME NEW p \in Procs, Reconnect(p) PROVE SteadyChain
    <2>1. UNCHANGED <<inv, copy, local, now>>
      BY <1>7 DEF Reconnect
    <2>2. \A u \in Tasks : Live(u)' => Live(u)
      BY <1>0, <2>1 DEF Live, Reaches, Served
    <2> QED BY <1>0, <2>1, <2>2 DEF SteadyChain
  <1>8. ASSUME NEW p \in Procs, Crash(p) PROVE SteadyChain
    <2>1. now' = now /\ local'[p] = {} /\ \A q \in Procs : q # p => local'[q] = local[q]
      BY <1>0, <1>8 DEF Crash
    <2>2. \A u \in Tasks : inv'[u] = IF inv[u].proc = p THEN Idle ELSE inv[u]
      BY <1>8 DEF Crash
    <2>3. ASSUME NEW u \in Tasks, Live(u)' PROVE Live(u) /\ inv'[u] = inv[u]
      <3>1. inv[u].proc # p /\ inv'[u] = inv[u]
        BY <2>2, <2>3 DEF Live, Idle
      <3>2. chan'[inv[u].proc] = chan[inv[u].proc]
        BY <1>0, <1>8, <2>3, <3>1 DEF Crash, Live
      <3> QED BY <2>3, <3>1, <3>2 DEF Live, Reaches
    <2>4. ASSUME NEW c \in Copies
          PROVE  /\ copy'[c].id = copy[c].id
                 /\ copy'[c].at = "out" => copy[c].at = "out"
                 /\ copy[c].at = "cronq" => copy'[c] = copy[c]
      <3>1. copy'[c] = IF copy[c].at = "unacked" /\ copy[c].holder = p
                       THEN [copy[c] EXCEPT !.at = "ready", !.holder = Nil] ELSE copy[c]
        BY <1>8 DEF Crash, Requeued
      <3> QED BY <1>0, <3>1 DEF CopyType
    <2> QED BY <1>0, <2>1, <2>2, <2>3, <2>4 DEF SteadyChain
  <1> QED BY <1>2, <1>3, <1>4, <1>5, <1>6, <1>7, <1>8

LEMMA ChainDeliver ==
  ASSUME ~UseRedis, Sound, Tips, PublishLocks, NEW p \in Procs, NEW c \in Copies, NEW t \in Tasks, Deliver(p, c, t)
  PROVE  Tips' /\ PublishLocks'
  <1>1. /\ copy[c].at = "ready" /\ inv[t].pc = "idle" /\ UNCHANGED <<chan, now>>
        /\ \A d \in Copies : d # c => copy'[d] = copy[d]
        /\ copy'[c].at = "unacked" /\ copy'[c].id = copy[c].id
        /\ \A u \in Tasks : u # t => inv'[u] = inv[u]
    BY Delivered
  <1>2. PICK i \in InvType : /\ i.proc = p /\ i.copy = c /\ i.next = 0 /\ ~i.skip
                             /\ inv'[t] = Lock(i) /\ local' = LockLocal(i)
    BY Delivered
  <1>3. inv'[t].copy = c /\ inv'[t].pc \in {"locked", "decode"}
    BY <1>2, Locked DEF AfterRefusal, AfterLock
  <1>4. ASSUME NEW d \in Copies, Tip(d) PROVE Tip(d)' /\ copy'[d].id = copy[d].id
    <2>1. copy'[d].at # "out" /\ copy'[d].id = copy[d].id
      BY <1>1, <1>4 DEF Tip
    <2>2. ASSUME NEW v \in Tasks, Live(v)', inv'[v].copy = d PROVE inv'[v].pc \in BeforePublish
      <3>1. CASE v = t
        BY <1>3, <3>1 DEF BeforePublish
      <3>2. CASE v # t
        BY <1>1, <1>4, <2>2, <3>2 DEF Live, Reaches, Tip
      <3> QED BY <3>1, <3>2
    <2> QED BY <2>1, <2>2 DEF Tip
  <1>5. Tips'
    BY <1>1, <1>4 DEF Tips
  <1>6. ASSUME NEW q \in Procs, NEW m \in Chained, NEW d \in Ticks, PublishKey(m, d) \in local'[q], d > now
        PROVE  Scheduled(m, d)' \/ Publishing(q, m, d)'
    <2>1. d # 0
      BY <1>6, ConstantsAssumption DEF Sound, Typed, Ticks
    <2>2. Key(i) = MsgKey(i.id)
      BY <1>2 DEF Key, MsgKey
    <2>3. PublishKey(m, d) \in local[q]
      BY <1>2, <1>6, <2>1, <2>2, MsgNotPublish DEF LockLocal, Sound, Typed
    <2>4. CASE Scheduled(m, d)
      BY <1>1, <2>4 DEF Scheduled
    <2>5. CASE Publishing(q, m, d)
      BY <1>1, <2>5 DEF Publishing
    <2> QED BY <1>6, <2>3, <2>4, <2>5 DEF PublishLocks
  <1> QED BY <1>1, <1>5, <1>6 DEF PublishLocks

LEMMA ChainNext ==
  ASSUME ~UseRedis, ChainInv, [Next]_vars
  PROVE  ChainInv'
  <1>1. WorkInv'
    BY WorkNext DEF ChainInv
  <1>2. ASSUME NoDrops' PROVE Tips' /\ PublishLocks'
    <2>1. NoDrops /\ (\A p \in Procs : ~Drop(p)) /\ (\A t \in Tasks : ~DropBeforeRetry(t))
      BY <1>2, DropsBack DEF ChainInv, WorkInv
    <2>2. Calm /\ Calm'
      BY <1>1 DEF ChainInv, WorkInv, WithoutRedis, NoError, Calm
    <2>3. Sound /\ WithoutRedis /\ CronsOnly /\ Quiet /\ Tips /\ PublishLocks
      BY <2>1, <2>2 DEF ChainInv, WorkInv, Work
    <2>4. Served /\ \A p \in Procs : chan[p] # "lost"
      BY <2>1, <2>2, <2>3, Busy DEF ChainInv, WorkInv, Attached, Served, Calm, Reaches
    <2>5. ASSUME NEW t \in Tasks, Handle(t) PROVE Tips' /\ PublishLocks'
      <3>1. chan' = chan /\ inv[t].pc # "idle" /\ Reaches(t)
        BY <2>2, <2>3, <2>4, <2>5, SameChannel, BusyHandle DEF Calm, Served
      <3>2. StepOf(t)
        BY <2>3, <2>5, <3>1, HandleMovesOn DEF StepOf
      <3>3. Chains(t)
        BY <2>3, <2>5, <3>1, HandleSchedules
      <3> QED BY <2>3, <2>4, <3>2, <3>3, ChainHandle
    <2>6. ASSUME NEW p \in Procs, NEW c \in Copies, NEW t \in Tasks, Deliver(p, c, t) PROVE Tips' /\ PublishLocks'
      BY <2>3, <2>6, ChainDeliver
    <2>7. ASSUME NEW p \in Procs, Notice(p) PROVE FALSE
      BY <2>4, <2>7 DEF Notice
    <2>8. ASSUME NEW t \in Tasks, RedisError(t) PROVE FALSE
      BY <2>8 DEF RedisError
    <2>9. ASSUME NEW p \in Procs, Reconnect(p) \/ Crash(p) PROVE Tips' /\ PublishLocks'
      BY <2>3, <2>4, <2>9, ChainFaults, SteadyChains
    <2>10. CASE \/ UNCHANGED vars
                \/ \E m \in Ordinary : Publish(m)
                \/ \E c \in Copies : Expire(c)
                \/ Tick \/ LockExpires
      BY <2>3, <2>4, <2>10, ChainFaults, SteadyChains
    <2> QED BY <2>1, <2>3, <2>5, <2>6, <2>7, <2>8, <2>9, <2>10, NextMoves DEF Moves
  <1> QED BY <1>1, <1>2 DEF ChainInv

LEMMA ChainInit == Init => ChainInv
  <1> SUFFICES ASSUME Init PROVE Tips /\ PublishLocks
    BY WorkInit DEF ChainInv
  <1>1. PICK slot \in [Crons -> Copies] :
          /\ \A m, n \in Crons : slot[m] = slot[n] => m = n
          /\ copy = [c \in Copies |->
                       IF \E m \in Crons : slot[m] = c
                       THEN [Out EXCEPT !.at = "cronq", !.due = 1, !.id = CHOOSE m \in Crons : slot[m] = c]
                       ELSE Out]
    BY DEF Init
  <1>2. \A t \in Tasks : ~Live(t)
    BY DEF Init, Idle, Live
  <1>3. ASSUME NEW m \in Chained PROVE \E c \in Copies : copy[c].id = m /\ Tip(c)
    <2>1. m \in Crons /\ slot[m] \in Copies
      BY DEF Chained
    <2>2. (CHOOSE n \in Crons : slot[n] = slot[m]) = m
      BY <1>1, <2>1
    <2>3. copy[slot[m]].at = "cronq" /\ copy[slot[m]].id = m
      BY <1>1, <2>1, <2>2 DEF Out
    <2> QED BY <1>2, <2>1, <2>3 DEF Tip
  <1>4. PublishLocks
    BY DEF Init, PublishLocks
  <1> QED BY <1>3, <1>4 DEF Tips

(* The chain of an active cron never ends before its schedule does, without a   *)
(* shared cache: whichever way an execution goes, whatever crashes and whatever *)
(* locks expire, while no connection is lost its next execution is scheduled, or*)
(* some copy of it will yet schedule one.                                       *)
THEOREM ChainsAreUnbroken ==
  ASSUME ~UseRedis
  PROVE  Spec => []ChainUnbroken
  <1>1. ChainInv => ChainUnbroken
    <2> SUFFICES ASSUME ChainInv, NEW m \in Crons \ (Inactive \union Undecodable),
                        now < LastTick, spent["drops"] + spent["torn"] = 0
                 PROVE  InBroker(m)
      BY DEF ChainUnbroken
    <2>1. spent["drops"] \in Nat /\ spent["torn"] \in Nat
      BY DEF ChainInv, WorkInv, Sound, Typed, Faults
    <2>2. NoDrops
      BY <2>1 DEF NoDrops
    <2> QED BY <2>2 DEF ChainInv, Tips, Chained, InBroker
  <1>2. ChainInv /\ [Next]_vars => ChainInv'
    BY ChainNext
  <1> QED BY <1>1, <1>2, ChainInit, PTL DEF Spec

-------------------------------------------------------------------------------
(* One pending execution for each time, in one process whose locks last. A copy *)
(* or an invocation of a cron is from a first execution, at time 1 ...          *)
InQueue == {"ready", "unacked", "schq"}
Begun ==
    /\ \A c \in Copies : copy[c].at \in InQueue /\ copy[c].id \in Crons => now >= 1
    /\ \A t \in Tasks : inv[t].pc # "idle" /\ inv[t].id \in Crons => now >= 1

(* ... a pending execution after that one still has its publish lock, and nobody*)
(* else is about to publish it ...                                              *)
Pending(p) ==
    \A c \in Copies : copy[c].at = "cronq" =>
      /\ copy[c].due >= 1
      /\ copy[c].due # 1 => /\ PublishKey(copy[c].id, copy[c].due) \in local[p]
                            /\ \A t \in Tasks : inv[t].pc = "publish"
                                                => Key(inv[t]) # PublishKey(copy[c].id, copy[c].due)

(* ... and who is about to publish holds the lock, alone.                       *)
Publishers(p) ==
    \A t \in Tasks : inv[t].pc = "publish" =>
      /\ inv[t].next >= 2 /\ Key(inv[t]) \in local[p]
      /\ \A u \in Tasks : u # t /\ inv[u].pc = "publish" => Key(inv[u]) # Key(inv[t])

Once == Begun /\ OneNextExecution /\ \A p \in Procs : Pending(p) /\ Publishers(p)
OnceInv == Sound /\ NoError /\ WithoutRedis /\ CronsOnly /\ Once

Publishes(t, c) == Schedule(t, c) /\ inv[t].pc = "publish" /\ inv'[t].pc # "publish" /\ local' = local
OwnAnswer(c) == copy[c].at = "unacked" /\ copy'[c].at # "cronq" /\ copy'[c].id \in {Nil, copy[c].id}

(* What a step of an invocation does to the schedule.                           *)
ScheduleStep(t) ==
    /\ now' = now
    /\ \A u \in Tasks : u # t => inv'[u] = inv[u]
    /\ inv'[t].pc = "idle" \/ inv'[t].id = inv[t].id
    /\ \A c \in Copies : copy'[c] = copy[c] \/ OwnAnswer(c) \/ Publishes(t, c)
    /\ \A p \in Procs, m \in Msgs, d \in Ticks \ {0} :
         PublishKey(m, d) \in local[p] /\ PublishKey(m, d) \notin local'[p]
         => inv[t].pc = "publish" /\ Key(inv[t]) = PublishKey(m, d) /\ copy' = copy /\ inv'[t].pc # "publish"
    /\ inv'[t].pc = "publish"
       => /\ inv[t].pc = "next" /\ inv'[t].next = now + 1 /\ copy' = copy
          /\ Key(inv'[t]) \notin local[inv[t].proc] /\ Key(inv'[t]) \in local'[inv[t].proc]

LEMMA HandleScheduleStep ==
  ASSUME ~UseRedis, Sound, WithoutRedis, CronsOnly, NEW t \in Tasks, Handle(t), chan' = chan
  PROVE  ScheduleStep(t)
  <1>1. /\ inv[t] \in InvType /\ inv[t].pc # "idle" /\ inv \in [Tasks -> InvType]
        /\ inv[t].proc \in Procs /\ inv[t].id \in Msgs /\ inv[t].copy \in Copies
        /\ local \in [Procs -> SUBSET Keys] /\ copy \in [Copies -> CopyType]
        /\ inv[t].pc \notin {"has", "set"}
    BY BusyHandle, Busy DEF Sound, Typed, CopyOK, WithoutRedis
  <1>2. now' = now
    BY DEF Handle, RedisHas, RedisSet, SkipCron, RequeueLocked, DropDuplicate, DecodeFails, RejectInactive,
           Decode, NextCron, NoNextCron, PublishNext, FreePublishLock, AckSkipped, Succeed, Fail,
           ReleaseForRetry, Requeue, DeadLetter, EndUnlock, Become
  <1>3. /\ \A u \in Tasks : u # t => inv'[u] = inv[u]
        /\ inv'[t].pc = "idle" \/ inv'[t].id = inv[t].id
    <2>1. /\ inv'[t] = Idle \/ GoesOn(t, inv'[t])
          /\ \A u \in Tasks : u # t => inv'[u] = inv[u]
      BY Plain
    <2> QED BY <2>1 DEF Idle, GoesOn
  <1>4. ASSUME NEW n, local' = local \/ local' = Unlock(inv[t].proc, MsgKey(n))
        PROVE  \A p \in Procs, m \in Msgs, d \in Ticks \ {0} :
                 PublishKey(m, d) \in local[p] => PublishKey(m, d) \in local'[p]
    <2>1. \A m, d : d # 0 => MsgKey(n) # PublishKey(m, d)
      BY MsgNotPublish
    <2> QED BY <1>1, <1>4, <2>1 DEF Unlock
  <1>5. ASSUME NEW i, NEW c, Answer(t, i, c), c.at # "cronq", Live(t) => c.id \in {Nil, copy[inv[t].copy].id},
               i.pc # "publish", local' = local \/ local' = Unlock(inv[t].proc, MsgKey(inv[t].id))
        PROVE  ScheduleStep(t)
    <2>1. /\ ~Refused(t) /\ inv'[t] = i
          /\ copy' = IF Reaches(t) THEN [copy EXCEPT ![inv[t].copy] = c] ELSE copy
      BY <1>1, <1>5, PlainAnswer
    <2>2. CASE Reaches(t)
      <3>1. Live(t) /\ copy[inv[t].copy].at = "unacked"
        BY <1>1, <2>1, <2>2 DEF Live, Refused, Sound, Deliveries
      <3>2. copy'[inv[t].copy] = c /\ \A d \in Copies : d # inv[t].copy => copy'[d] = copy[d]
        BY <1>1, <2>1, <2>2
      <3>3. \A d \in Copies : copy'[d] = copy[d] \/ OwnAnswer(d)
        BY <1>5, <3>1, <3>2 DEF OwnAnswer
      <3> QED BY <1>2, <1>3, <1>4, <1>5, <2>1, <3>3 DEF ScheduleStep
    <2>3. CASE ~Reaches(t)
      BY <1>2, <1>3, <1>4, <1>5, <2>1, <2>3 DEF ScheduleStep
    <2> QED BY <2>2, <2>3
  <1>6. ASSUME NEW pc \in Ending, Finish(t, pc) PROVE ScheduleStep(t)
    <2>1. PICK i : i = [inv[t] EXCEPT !.pc = pc, !.settled = TRUE]
      OBVIOUS
    <2>2. i.pc # "publish"
      BY <1>1, <2>1 DEF InvType, Ending
    <2>3. Answer(t, i, Out) /\ local' = Unlock(inv[t].proc, MsgKey(inv[t].id))
      BY <1>6, <2>1 DEF Finish
    <2>4. Out.at # "cronq" /\ Out.id = Nil
      BY DEF Out
    <2> QED BY <1>5, <2>2, <2>3, <2>4
  <1>7. ASSUME copy' = copy, inv'[t].pc # "publish",
               local' = local \/ local' = Unlock(inv[t].proc, MsgKey(inv[t].id))
        PROVE  ScheduleStep(t)
    BY <1>2, <1>3, <1>4, <1>7 DEF ScheduleStep
  <1>8. Idle.pc = "idle" /\ Out.at = "out" /\ Out.id = Nil
    BY DEF Idle, Out
  <1>9. CASE RequeueLocked(t)
    <2>1. PICK c : c = [copy[inv[t].copy] EXCEPT !.at = "schq", !.holder = Nil]
      OBVIOUS
    <2>2. Answer(t, Idle, c) /\ local' = local
      BY <1>9, <2>1 DEF RequeueLocked
    <2>3. c.at = "schq" /\ c.id = copy[inv[t].copy].id
      BY <1>1, <2>1 DEF CopyType
    <2> QED BY <1>5, <1>8, <2>2, <2>3
  <1>10. CASE Requeue(t)
    <2>1. PICK q \in {"schq", "ready"} : Answer(t, Idle, RetryOf(copy[inv[t].copy], q))
      BY <1>10 DEF Requeue
    <2>2. PICK c : c = RetryOf(copy[inv[t].copy], q)
      OBVIOUS
    <2>3. c.at # "cronq" /\ c.id = copy[inv[t].copy].id
      BY <1>1, <2>2 DEF CopyType, RetryOf
    <2>4. local' = local
      BY <1>10 DEF Requeue
    <2> QED BY <1>5, <1>8, <2>1, <2>2, <2>3, <2>4
  <1>11. CASE DropDuplicate(t) \/ AckSkipped(t)
    <2>1. Answer(t, Idle, Out) /\ local' = local
      BY <1>11 DEF DropDuplicate, AckSkipped
    <2> QED BY <1>5, <1>8, <2>1
  <1>12. CASE RejectInactive(t) \/ DeadLetter(t) \/ Succeed(t)
    <2>1. \E pc \in Ending : Finish(t, pc)
      BY <1>12 DEF RejectInactive, DeadLetter, Succeed, Ending
    <2> QED BY <1>6, <2>1
  <1>13. CASE NoNextCron(t)
    <2>1. (Answer(t, Idle, Out) /\ local' = local) \/ Finish(t, "unlockLast")
      BY <1>13 DEF NoNextCron
    <2> QED BY <1>5, <1>6, <1>8, <2>1 DEF Ending
  <1>14. CASE DecodeFails(t) \/ EndUnlock(t)
    <2>1. inv' = [inv EXCEPT ![t] = Idle] /\ copy' = copy /\ local' = local
      BY <1>14 DEF DecodeFails, EndUnlock, Become
    <2>2. inv'[t].pc # "publish"
      BY <1>1, <1>8, <2>1
    <2> QED BY <1>7, <2>1, <2>2
  <1>15. CASE Decode(t) \/ Fail(t) \/ ReleaseForRetry(t) \/ FreePublishLock(t)
    <2>1. copy' = copy /\ (local' = local \/ local' = Unlock(inv[t].proc, MsgKey(inv[t].id)))
      BY <1>15 DEF Decode, Fail, ReleaseForRetry, FreePublishLock, Become
    <2>2. PICK pc : pc \notin {"publish", "idle"} /\ (inv' = [inv EXCEPT ![t].pc = pc]
                                    \/ inv' = [inv EXCEPT ![t] = [inv[t] EXCEPT !.pc = pc]])
      BY <1>15 DEF Decode, Fail, ReleaseForRetry, FreePublishLock, Become, Catch, AfterSchedule
    <2>3. inv'[t].pc # "publish"
      BY ZenonT(60), <1>1, <2>2, PcMoves
    <2> QED BY <1>7, <2>1, <2>3
  <1>16. CASE SkipCron(t)
    <2>1. PICK i : i = [inv[t] EXCEPT !.pc = "next", !.skip = TRUE]
      OBVIOUS
    <2>2. i.pc = "next"
      BY <1>1, <2>1 DEF InvType
    <2>3. inv' = [inv EXCEPT ![t] = i] /\ copy' = copy /\ local' = local
      BY <1>16, <2>1 DEF SkipCron, Become
    <2> QED BY <1>1, <1>7, <2>2, <2>3
  <1>17. CASE NextCron(t)
    <2>1. PICK i \in InvType :
           /\ i.proc = inv[t].proc /\ i.copy = inv[t].copy /\ i.id = inv[t].id
           /\ i.next = now + 1 /\ now + 1 \in Ticks \ {0}
           /\ inv'[t] = Lock(i) /\ local' = LockLocal(i)
      BY <1>17, Schedules
    <2>2. inv[t].pc = "next" /\ copy' = copy
      BY <1>17 DEF NextCron
    <2>3. inv'[t].next = now + 1 /\ Key(inv'[t]) = Key(i) /\ (Held(i) => inv'[t].pc # "publish")
      BY <2>1, Locked DEF Key, AfterRefusal, AfterSchedule
    <2>4. \A p \in Procs : local[p] \subseteq local'[p]
      BY <1>1, <2>1 DEF LockLocal
    <2>5. ~Held(i) => Key(i) \notin local[inv[t].proc] /\ Key(i) \in local'[inv[t].proc]
      BY <1>1, <2>1 DEF LockLocal, Held
    <2> QED BY <1>2, <1>3, <2>2, <2>3, <2>4, <2>5 DEF ScheduleStep
  <1>18. CASE PublishNext(t)
    <2>1. PICK pc \in {"ackSkipped", "run", "freed"} : inv' = [inv EXCEPT ![t].pc = pc]
      BY <1>18 DEF PublishNext, AfterSchedule
    <2>2. inv'[t].pc # "publish" /\ inv[t].pc = "publish"
      BY <1>1, <1>18, <2>1, PcMoves DEF PublishNext
    <2>3. CASE CanWrite(t)
      <3>1. local' = local
        BY <1>18, <2>3 DEF PublishNext
      <3>2. CASE Reaches(t)
        <4>1. \E c \in Copies : Schedule(t, c)
          BY <1>18, <2>2, <3>2, HandleSchedules DEF Chains
        <4> QED BY <1>2, <1>3, <2>2, <3>1, <4>1 DEF ScheduleStep, Publishes, Schedule
      <3>3. CASE ~Reaches(t)
        <4>1. copy' = copy
          BY <1>18, <3>3 DEF PublishNext
        <4> QED BY <1>7, <2>2, <3>1, <4>1
      <3> QED BY <3>2, <3>3
    <2>4. CASE ~CanWrite(t)
      <3>1. copy' = copy /\ local' = Unlock(inv[t].proc, Key(inv[t]))
        BY <1>18, <2>4 DEF PublishNext, CanWrite, Reaches
      <3>2. \A p \in Procs : \A k : k \in local[p] /\ k \notin local'[p] => k = Key(inv[t])
        BY <1>1, <3>1 DEF Unlock
      <3> QED BY <1>2, <1>3, <2>2, <3>1, <3>2 DEF ScheduleStep
    <2> QED BY <2>3, <2>4
  <1> QED BY <1>1, <1>9, <1>10, <1>11, <1>12, <1>13, <1>14, <1>15, <1>16, <1>17, <1>18
          DEF Handle, RedisHas, RedisSet

LEMMA OnceHandle ==
  ASSUME NEW P, Procs = {P}, Sound, CronsOnly, Once, NEW t \in Tasks, inv[t].pc # "idle", ScheduleStep(t)
  PROVE  Once'
  <1>0. /\ inv[t].proc = P /\ inv[t].id \in Msgs /\ now \in Nat /\ Nil \notin Msgs /\ P \in Procs
        /\ \A c \in Copies : copy[c].at = "cronq" => copy[c].id \in Msgs /\ copy[c].due \in Ticks
        /\ \A u \in Tasks : inv[u].pc = "publish" => inv[u].proc = P /\ inv[u].id \in Msgs /\ inv[u].next \in Ticks
        /\ Ticks \subseteq Nat
    BY Busy, ConstantsAssumption DEF Sound, Typed, CopyOK, CopyType, InvType, Ticks
  <1>1. \A m, d, i : Key(i) = PublishKey(m, d) <=> i.id = m /\ i.next = d
    BY DEF Key, PublishKey
  <1>2. Begun /\ OneNextExecution /\ Pending(P) /\ Publishers(P)
    BY <1>0 DEF Once
  <1>3. Begun'
    <2>1. ASSUME NEW c \in Copies, copy'[c].at \in InQueue, copy'[c].id \in Crons PROVE now' >= 1
      <3>1. CASE copy'[c] = copy[c]
        BY <1>2, <2>1, <3>1 DEF Begun, ScheduleStep
      <3>2. CASE OwnAnswer(c)
        <4>1. copy[c].id \in Crons
          BY <1>0, <2>1, <3>2, ConstantsAssumption DEF OwnAnswer
        <4> QED BY <1>2, <3>2, <4>1 DEF Begun, OwnAnswer, InQueue, ScheduleStep
      <3>3. CASE Publishes(t, c)
        BY <2>1, <3>3 DEF Publishes, Schedule, InQueue
      <3> QED BY <3>1, <3>2, <3>3 DEF ScheduleStep
    <2>2. ASSUME NEW u \in Tasks, inv'[u].pc # "idle", inv'[u].id \in Crons PROVE now' >= 1
      BY <1>2, <2>2 DEF Begun, ScheduleStep
    <2> QED BY <2>1, <2>2 DEF Begun
  <1>4. ASSUME NEW c \in Copies, copy'[c].at = "cronq" PROVE copy'[c] = copy[c] \/ Publishes(t, c)
    BY <1>4 DEF ScheduleStep, OwnAnswer
  <1>5. ASSUME NEW c \in Copies, Publishes(t, c)
        PROVE  /\ copy'[c].id = inv[t].id /\ copy'[c].due = inv[t].next /\ inv[t].pc = "publish"
               /\ copy'[c].due >= 2 /\ PublishKey(copy'[c].id, copy'[c].due) = Key(inv[t])
               /\ \A d \in Copies : d # c => copy'[d] = copy[d]
    BY <1>1, <1>2, <1>5 DEF Publishes, Schedule, Publishers
  <1>6. OneNextExecution'
    <2>1. SUFFICES ASSUME NEW c \in Copies, NEW d \in Copies, c # d, copy'[c].at = "cronq", copy'[d].at = "cronq",
                          copy'[c].id = copy'[d].id, copy'[c].due = copy'[d].due
                   PROVE  FALSE
      BY DEF OneNextExecution
    <2>2. ASSUME NEW e \in Copies, NEW f \in Copies, e # f, Publishes(t, e), copy'[f].at = "cronq",
                 copy'[e].id = copy'[f].id, copy'[e].due = copy'[f].due
          PROVE  FALSE
      <3>1. copy'[f] = copy[f] /\ copy[f].at = "cronq"
        BY <1>5, <2>2
      <3>2. copy[f].due # 1 /\ Key(inv[t]) = PublishKey(copy[f].id, copy[f].due) /\ inv[t].pc = "publish"
        BY <1>5, <2>2, <3>1
      <3> QED BY <1>2, <3>1, <3>2 DEF Pending
    <2>3. copy'[c] = copy[c] /\ copy'[d] = copy[d]
      BY <1>4, <2>1, <2>2
    <2> QED BY <1>2, <2>1, <2>3 DEF OneNextExecution
  <1>7. ASSUME NEW u \in Tasks, u # t, inv'[u].pc = "publish"
        PROVE  /\ inv'[u] = inv[u] /\ inv[u].pc = "publish" /\ inv[u].next >= 2 /\ Key(inv[u]) \in local[P]
               /\ Key(inv[u]) \in local'[P]
    <2>1. inv'[u] = inv[u] /\ inv[u].pc = "publish" /\ inv[u].next >= 2 /\ Key(inv[u]) \in local[P]
      BY <1>2, <1>7 DEF ScheduleStep, Publishers
    <2>2. PICK m \in Msgs, d \in Ticks \ {0} : Key(inv[u]) = PublishKey(m, d)
      BY <1>0, <2>1 DEF Key, PublishKey
    <2>3. inv[t].pc = "publish" => Key(inv[u]) # Key(inv[t])
      BY <1>2, <1>7, <2>1 DEF Publishers
    <2> QED BY <1>0, <2>1, <2>2, <2>3 DEF ScheduleStep
  <1>8. inv'[t].pc = "publish"
        => /\ inv'[t].next >= 2 /\ Key(inv'[t]) \notin local[P] /\ Key(inv'[t]) \in local'[P] /\ copy' = copy
    <2>1. ASSUME inv'[t].pc = "publish" PROVE now >= 1
      BY <1>2, <2>1 DEF ScheduleStep, CronsOnly, CronPcs, Begun
    <2> QED BY <1>0, <2>1 DEF ScheduleStep
  <1>9. Publishers(P)'
    <2>1. ASSUME NEW u \in Tasks, inv'[u].pc = "publish"
          PROVE  inv'[u].next >= 2 /\ Key(inv'[u]) \in local'[P]
      BY <1>7, <1>8, <2>1
    <2>2. ASSUME NEW u \in Tasks, NEW v \in Tasks, u # v, inv'[u].pc = "publish", inv'[v].pc = "publish"
          PROVE  Key(inv'[u]) # Key(inv'[v])
      <3>1. CASE u = t \/ v = t
        BY <1>7, <1>8, <2>2, <3>1
      <3>2. CASE u # t /\ v # t
        BY <1>2, <1>7, <2>2, <3>2 DEF Publishers
      <3> QED BY <3>1, <3>2
    <2> QED BY <2>1, <2>2 DEF Publishers, Key
  <1>10. Pending(P)'
    <2>1. ASSUME NEW c \in Copies, copy'[c].at = "cronq"
          PROVE  /\ copy'[c].due >= 1
                 /\ copy'[c].due # 1 => /\ PublishKey(copy'[c].id, copy'[c].due) \in local'[P]
                                        /\ \A u \in Tasks : inv'[u].pc = "publish"
                                             => Key(inv'[u]) # PublishKey(copy'[c].id, copy'[c].due)
      <3>1. CASE copy'[c] = copy[c]
        <4>1. PICK m \in Msgs, d \in Ticks : m = copy[c].id /\ d = copy[c].due
          BY <1>0, <2>1, <3>1
        <4>2. d >= 1 /\ (d # 1 => /\ PublishKey(m, d) \in local[P]
                                  /\ \A u \in Tasks : inv[u].pc = "publish" => Key(inv[u]) # PublishKey(m, d))
          BY <1>2, <2>1, <3>1, <4>1 DEF Pending
        <4>3. d # 1 => PublishKey(m, d) \in local'[P]
          BY <1>0, <4>2 DEF ScheduleStep
        <4>4. ASSUME NEW u \in Tasks, inv'[u].pc = "publish", d # 1 PROVE Key(inv'[u]) # PublishKey(m, d)
          BY <1>7, <1>8, <4>2, <4>4
        <4> QED BY <3>1, <4>1, <4>2, <4>3, <4>4
      <3>2. CASE Publishes(t, c)
        <4>1. Key(inv[t]) \in local'[P] /\ inv[t].pc = "publish" /\ inv'[t].pc # "publish"
          BY <1>2, <1>5, <3>2 DEF Publishes, Publishers
        <4>2. ASSUME NEW u \in Tasks, inv'[u].pc = "publish" PROVE Key(inv'[u]) # Key(inv[t])
          <5>1. u # t
            BY <4>1, <4>2
          <5>2. inv'[u] = inv[u] /\ inv[u].pc = "publish"
            BY <1>7, <4>2, <5>1
          <5> QED BY <1>2, <4>1, <5>1, <5>2 DEF Publishers
        <4>3. copy'[c].due >= 2 /\ PublishKey(copy'[c].id, copy'[c].due) = Key(inv[t])
          BY <1>5, <3>2
        <4>4. copy'[c].due >= 1
          <5>1. copy'[c].due = inv[t].next /\ inv[t].next \in Nat
            BY <1>0, <1>5, <3>2
          <5> QED BY <4>3, <5>1
        <4> QED BY <4>1, <4>2, <4>3, <4>4
      <3> QED BY <1>4, <2>1, <3>1, <3>2
    <2> QED BY <2>1 DEF Pending, Key
  <1> QED BY <1>0, <1>3, <1>6, <1>9, <1>10 DEF Once

(* The other steps schedule nothing and keep the locks.                         *)
SteadySchedule ==
    /\ now' \in Nat /\ now' >= now
    /\ \A c \in Copies : copy'[c].at = "cronq" => copy'[c] = copy[c]
    /\ \A c \in Copies : copy'[c].at \in InQueue /\ copy'[c].id \in Crons
                         => (copy[c].at \in InQueue /\ copy[c].id \in Crons) \/ now' >= 1
    /\ \A u \in Tasks : \/ SameLock(inv'[u], inv[u])
                        \/ /\ inv'[u].pc # "publish"
                           /\ inv'[u].pc # "idle" /\ inv'[u].id \in Crons => now' >= 1
    /\ \A p \in Procs : local[p] \subseteq local'[p]

LEMMA SteadyOnce ==
  ASSUME Sound, Once, SteadySchedule
  PROVE  Once'
  <1>0. now \in Nat
    BY ConstantsAssumption DEF Sound, Typed, Ticks
  <1>1. Begun'
    BY <1>0 DEF Begun, Once, SteadySchedule, SameLock
  <1>2. OneNextExecution'
    BY DEF OneNextExecution, Once, SteadySchedule
  <1>3. ASSUME NEW u \in Tasks, inv'[u].pc = "publish"
        PROVE  inv[u].pc = "publish" /\ inv'[u].next = inv[u].next /\ Key(inv'[u]) = Key(inv[u])
    BY <1>3 DEF SteadySchedule, SameLock, Key
  <1>4. ASSUME NEW p \in Procs PROVE Publishers(p)'
    <2>1. ASSUME NEW u \in Tasks, inv'[u].pc = "publish"
          PROVE  /\ inv'[u].next >= 2 /\ Key(inv'[u]) \in local'[p]
                 /\ \A v \in Tasks : v # u /\ inv'[v].pc = "publish" => Key(inv'[v]) # Key(inv'[u])
      BY <1>3, <1>4, <2>1 DEF Once, Publishers, SteadySchedule
    <2> QED BY <2>1 DEF Publishers, Key
  <1>5. ASSUME NEW p \in Procs PROVE Pending(p)'
    <2>1. ASSUME NEW c \in Copies, copy'[c].at = "cronq"
          PROVE  /\ copy'[c].due >= 1
                 /\ copy'[c].due # 1 => /\ PublishKey(copy'[c].id, copy'[c].due) \in local'[p]
                                        /\ \A u \in Tasks : inv'[u].pc = "publish"
                                             => Key(inv'[u]) # PublishKey(copy'[c].id, copy'[c].due)
      BY <1>3, <1>5, <2>1 DEF Once, Pending, SteadySchedule
    <2> QED BY <2>1 DEF Pending, Key
  <1> QED BY <1>1, <1>2, <1>4, <1>5 DEF Once

LEMMA ScheduleFaults ==
  ASSUME ~UseRedis, MaxExpiries = 0, MaxCrashes = 0, Sound, Once, Procs # {},
         \/ UNCHANGED vars
         \/ \E m \in Ordinary : Publish(m)
         \/ \E c \in Copies : Expire(c)
         \/ Tick \/ LockExpires
         \/ \E p \in Procs, c \in Copies, t \in Tasks : Deliver(p, c, t)
         \/ \E p \in Procs : Drop(p) \/ Notice(p) \/ Reconnect(p) \/ Crash(p)
         \/ \E t \in Tasks : DropBeforeRetry(t)
  PROVE  SteadySchedule
  <1>0. /\ inv \in [Tasks -> InvType] /\ copy \in [Copies -> CopyType] /\ local \in [Procs -> SUBSET Keys]
        /\ now \in Nat /\ spent \in [Faults -> Nat]
        /\ \A u \in Tasks : inv[u].pc # "idle" => inv[u].proc \in Procs /\ inv[u].copy \in Copies
        /\ \A c \in Copies : copy[c].due \in Nat
    BY ConstantsAssumption DEF Sound, Typed, CopyOK, CopyType, InvsOK, InvOK, Ticks
  <1>1. \A u \in Tasks : inv'[u] = inv[u] => SameLock(inv'[u], inv[u])
    BY DEF SameLock
  <1>2. CASE UNCHANGED vars
    BY <1>0, <1>1, <1>2 DEF vars, SteadySchedule
  <1>3. ASSUME NEW m \in Ordinary, Publish(m) PROVE SteadySchedule
    <2>1. UNCHANGED <<inv, local, now>>
      BY <1>3 DEF Publish
    <2>2. PICK c \in Copies : copy' = [copy EXCEPT ![c] = [Out EXCEPT !.at = "ready", !.id = m]]
      BY <1>3 DEF Publish
    <2>3. copy'[c].at = "ready" /\ copy'[c].id = m /\ \A d \in Copies : d # c => copy'[d] = copy[d]
      BY <1>0, <2>2 DEF Out
    <2>4. m \notin Crons
      BY DEF Ordinary
    <2> QED BY <1>0, <1>1, <2>1, <2>3, <2>4 DEF SteadySchedule
  <1>4. ASSUME NEW c \in Copies, Expire(c) PROVE SteadySchedule
    <2>1. UNCHANGED <<inv, local, now>> /\ (copy[c].at = "schq" \/ (copy[c].at = "cronq" /\ copy[c].due <= now))
      BY <1>4 DEF Expire
    <2>2. /\ copy'[c].at = "ready" /\ copy'[c].id = copy[c].id
          /\ \A d \in Copies : d # c => copy'[d] = copy[d]
      BY <1>0, <1>4 DEF Expire, CopyType
    <2>3. copy[c].at = "cronq" => now >= 1
      BY <1>0, <2>1 DEF Once, Pending
    <2> QED BY <1>0, <1>1, <2>1, <2>2, <2>3 DEF SteadySchedule, InQueue
  <1>5. CASE Tick
    <2>1. UNCHANGED <<inv, copy, local>> /\ now' = now + 1
      BY <1>5 DEF Tick
    <2> QED BY <1>0, <1>1, <2>1 DEF SteadySchedule
  <1>6. CASE LockExpires
    BY <1>0, <1>6 DEF LockExpires, Spend, Faults
  <1>7. ASSUME NEW p \in Procs, NEW c \in Copies, NEW t \in Tasks, Deliver(p, c, t) PROVE SteadySchedule
    <2>1. /\ copy[c].at = "ready" /\ now' = now
          /\ \A d \in Copies : d # c => copy'[d] = copy[d]
          /\ copy'[c].at = "unacked" /\ copy'[c].id = copy[c].id
          /\ \A u \in Tasks : u # t => inv'[u] = inv[u]
      BY <1>7, Delivered
    <2>2. PICK i \in InvType : i.id = copy[c].id /\ i.next = 0 /\ inv'[t] = Lock(i) /\ local' = LockLocal(i)
      BY <1>7, Delivered
    <2>3. inv'[t].id = copy[c].id /\ inv'[t].pc # "publish"
      BY <2>2, Locked DEF AfterRefusal, AfterLock
    <2>4. copy[c].id \in Crons => now >= 1
      BY <2>1 DEF Once, Begun, InQueue
    <2>5. \A q \in Procs : local[q] \subseteq local'[q]
      BY <1>0, <2>2 DEF LockLocal
    <2> QED BY <1>0, <1>1, <2>1, <2>3, <2>4, <2>5 DEF SteadySchedule, InQueue
  <1>8. ASSUME NEW p \in Procs, copy' = Requeued(p)
        PROVE  \A c \in Copies : /\ copy'[c].at = "cronq" => copy'[c] = copy[c]
                                 /\ copy'[c].at \in InQueue => copy[c].at \in InQueue /\ copy'[c].id = copy[c].id
    <2>1. ASSUME NEW c \in Copies
          PROVE  /\ copy'[c].at = "cronq" => copy'[c] = copy[c]
                 /\ copy'[c].at \in InQueue => copy[c].at \in InQueue /\ copy'[c].id = copy[c].id
      <3>1. copy'[c] = IF copy[c].at = "unacked" /\ copy[c].holder = p
                       THEN [copy[c] EXCEPT !.at = "ready", !.holder = Nil] ELSE copy[c]
        BY <1>8 DEF Requeued
      <3> QED BY <1>0, <3>1 DEF CopyType, InQueue
    <2> QED BY <2>1
  <1>9. ASSUME NEW p \in Procs, Drop(p) PROVE SteadySchedule
    <2>1. UNCHANGED <<inv, local, now>> /\ copy' = Requeued(p)
      BY <1>9 DEF Drop
    <2> QED BY <1>0, <1>1, <1>8, <2>1 DEF SteadySchedule
  <1>10. ASSUME NEW p \in Procs, Notice(p) PROVE SteadySchedule
    <2>1. UNCHANGED <<copy, local, now>>
      BY <1>10 DEF Notice
    <2>2. ASSUME NEW u \in Tasks PROVE SameLock(inv'[u], inv[u])
      <3>1. inv'[u] = inv[u] \/ inv'[u] = [inv[u] EXCEPT !.current = FALSE]
        BY <1>10 DEF Notice, Orphaned
      <3> QED BY <1>0, <3>1 DEF SameLock, InvType
    <2> QED BY <1>0, <2>1, <2>2 DEF SteadySchedule
  <1>11. ASSUME NEW p \in Procs, Reconnect(p) PROVE SteadySchedule
    <2>1. UNCHANGED <<inv, copy, local, now>>
      BY <1>11 DEF Reconnect
    <2> QED BY <1>0, <1>1, <2>1 DEF SteadySchedule
  <1>12. ASSUME NEW p \in Procs, Crash(p) PROVE FALSE
    BY <1>0, <1>12 DEF Crash, Spend, Faults
  <1>13. ASSUME NEW t \in Tasks, DropBeforeRetry(t) PROVE SteadySchedule
    <2>1. UNCHANGED <<local, now>> /\ inv' = [inv EXCEPT ![t] = Idle] /\ inv[t].pc # "idle"
      BY <1>13 DEF DropBeforeRetry, LockedRetry
    <2>2. PICK p \in Procs : copy' = [Requeued(p) EXCEPT ![inv[t].copy] = Out]
      BY <1>0, <1>13, <2>1 DEF DropBeforeRetry
    <2>3. ASSUME NEW c \in Copies
          PROVE  /\ copy'[c].at = "cronq" => copy'[c] = copy[c]
                 /\ copy'[c].at \in InQueue => copy[c].at \in InQueue /\ copy'[c].id = copy[c].id
      <3>1. Requeued(p)[c] = IF copy[c].at = "unacked" /\ copy[c].holder = p
                             THEN [copy[c] EXCEPT !.at = "ready", !.holder = Nil] ELSE copy[c]
        BY DEF Requeued
      <3>2. copy'[c].at = "out" \/ copy'[c] = Requeued(p)[c]
        BY <2>2 DEF Requeued, Out
      <3> QED BY ZenonT(60), <1>0, <3>1, <3>2 DEF CopyType, InQueue
    <2>4. inv'[t].pc = "idle" /\ \A u \in Tasks : u # t => inv'[u] = inv[u]
      BY <1>0, <2>1 DEF Idle
    <2> QED BY <1>0, <1>1, <2>1, <2>3, <2>4 DEF SteadySchedule
  <1> QED BY <1>2, <1>3, <1>4, <1>5, <1>6, <1>7, <1>9, <1>10, <1>11, <1>12, <1>13

LEMMA OnceNext ==
  ASSUME ~UseRedis, MaxExpiries = 0, MaxCrashes = 0, NEW P, Procs = {P}, OnceInv, [Next]_vars
  PROVE  OnceInv'
  <1>1. Sound' /\ NoError' /\ CronsOnly' /\ WithoutRedis'
    BY NextSound, NoErrorNext, OnlyNext DEF OnceInv
  <1>2. Sound /\ WithoutRedis /\ CronsOnly /\ Once
    BY DEF OnceInv
  <1>3. ASSUME NEW t \in Tasks, Handle(t) PROVE Once'
    <2>1. \A p \in Procs : chan'[p] # "refused"
      BY <1>1 DEF WithoutRedis, NoError
    <2>2. chan' = chan
      BY <1>2, <1>3, <2>1, SameChannel
    <2>3. ScheduleStep(t) /\ inv[t].pc # "idle"
      BY <1>2, <1>3, <2>2, HandleScheduleStep, BusyHandle
    <2> QED BY <1>2, <2>3, OnceHandle
  <1>4. ASSUME NEW t \in Tasks, RedisError(t) PROVE FALSE
    BY <1>4 DEF RedisError
  <1>5. ASSUME \/ UNCHANGED vars
               \/ \E m \in Ordinary : Publish(m)
               \/ \E c \in Copies : Expire(c)
               \/ Tick \/ LockExpires
               \/ \E p \in Procs, c \in Copies, t \in Tasks : Deliver(p, c, t)
               \/ \E p \in Procs : Drop(p) \/ Notice(p) \/ Reconnect(p) \/ Crash(p)
               \/ \E t \in Tasks : DropBeforeRetry(t)
        PROVE  Once'
    <2>1. Procs # {}
      OBVIOUS
    <2>2. SteadySchedule
      BY <1>2, <1>5, <2>1, ScheduleFaults
    <2> QED BY <1>2, <2>2, SteadyOnce
  <1>6. Once'
    <2>1. CASE \E t \in Tasks : Handle(t) \/ RedisError(t)
      BY <1>3, <1>4, <2>1
    <2>2. CASE ~\E t \in Tasks : Handle(t) \/ RedisError(t)
      <3>1. \/ UNCHANGED vars
            \/ \E m \in Ordinary : Publish(m)
            \/ \E c \in Copies : Expire(c)
            \/ Tick \/ LockExpires
            \/ \E p \in Procs, c \in Copies, t \in Tasks : Deliver(p, c, t)
            \/ \E p \in Procs : Drop(p) \/ Notice(p) \/ Reconnect(p) \/ Crash(p)
            \/ \E t \in Tasks : DropBeforeRetry(t)
        BY <2>2, NextMoves DEF Moves, OnceInv
      <3> QED BY <1>5, <3>1
    <2> QED BY <2>1, <2>2
  <1> QED BY <1>1, <1>6 DEF OnceInv

LEMMA OnceInit == Init => OnceInv
  <1> SUFFICES ASSUME Init PROVE OnceInv
    OBVIOUS
  <1>1. PICK slot \in [Crons -> Copies] :
          /\ \A m, n \in Crons : slot[m] = slot[n] => m = n
          /\ copy = [c \in Copies |->
                       IF \E m \in Crons : slot[m] = c
                       THEN [Out EXCEPT !.at = "cronq", !.due = 1, !.id = CHOOSE m \in Crons : slot[m] = c]
                       ELSE Out]
    BY DEF Init
  <1>2. \A t \in Tasks : inv[t].pc = "idle"
    BY DEF Init, Idle
  <1>3. ASSUME NEW c \in Copies
        PROVE  \/ copy[c].at = "out"
               \/ copy[c].at = "cronq" /\ copy[c].due = 1 /\ copy[c].id \in Crons /\ slot[copy[c].id] = c
    <2>1. CASE \E m \in Crons : slot[m] = c
      <3>1. (CHOOSE m \in Crons : slot[m] = c) \in Crons /\ slot[CHOOSE m \in Crons : slot[m] = c] = c
        BY <2>1
      <3> QED BY <1>1, <2>1, <3>1 DEF Out
    <2>2. CASE ~\E m \in Crons : slot[m] = c
      BY <1>1, <2>2 DEF Out
    <2> QED BY <2>1, <2>2
  <1>4. OneNextExecution
    BY <1>3 DEF OneNextExecution
  <1>5. Begun
    BY <1>2, <1>3 DEF Begun, InQueue
  <1>6. \A p \in Procs : Pending(p) /\ Publishers(p)
    BY <1>2, <1>3 DEF Pending, Publishers
  <1> QED BY <1>4, <1>5, <1>6, WorkInit DEF OnceInv, Once, WorkInv

(* Each execution time of a cron is pending once, in one process without a      *)
(* shared cache whose locks do not expire: an execution, its retries and the    *)
(* ones that overlap it all try to publish it, on channels that may be lost.    *)
THEOREM ExecutionsArePendingOnce ==
  ASSUME ~UseRedis, MaxExpiries = 0, MaxCrashes = 0, NEW CONSTANT P, Procs = {P}
  PROVE  Spec => []OneNextExecution
  <1>1. OnceInv => OneNextExecution
    BY DEF OnceInv, Once
  <1>2. OnceInv /\ [Next]_vars => OnceInv'
    BY OnceNext
  <1> QED BY <1>1, <1>2, OnceInit, PTL DEF Spec

-------------------------------------------------------------------------------
(* Without a shared cache and while the connections last, Subscriber implements *)
(* AtLeastOnce: each step accepts a message, settles one, or does neither.      *)
SameStage(m) == (InBroker(m)' <=> InBroker(m)) /\ (m \in ended' <=> m \in ended)
StageMoves(m) ==
    \/ SameStage(m)
    \/ ~InBroker(m) /\ InBroker(m)' /\ ended' = ended
    \/ (InBroker(m) \/ m \in ended) /\ (InBroker(m)' \/ m \in ended') /\ ended \subseteq ended'

LEMMA PromiseStep ==
  ASSUME NEW m \in Ordinary, StageMoves(m), \A n \in Ordinary : n # m => SameStage(n)
  PROVE  [Promise!Next]_stage
  <1>1. /\ stage = [n \in Ordinary |-> Stage(n)] /\ stage' = [n \in Ordinary |-> Stage(n)']
        /\ stage[m] = Stage(m)
    BY DEF stage
  <1>2. \A n \in Ordinary : n # m => Stage(n)' = Stage(n)
    BY DEF SameStage, Stage
  <1>3. \/ Stage(m)' = Stage(m)
        \/ Stage(m) = "none" /\ Stage(m)' = "owed"
        \/ Stage(m) = "owed" /\ Stage(m)' = "settled"
    BY DEF StageMoves, SameStage, Stage
  <1>4. PICK s : Stage(m)' = s
    OBVIOUS
  <1>5. stage' = [stage EXCEPT ![m] = s]
    BY <1>1, <1>2, <1>4
  <1>6. CASE Stage(m)' = Stage(m)
    BY <1>1, <1>2, <1>6
  <1>7. CASE Stage(m) = "none" /\ Stage(m)' = "owed"
    BY <1>1, <1>4, <1>5, <1>7 DEF Promise!Next, Promise!Accept
  <1>8. CASE Stage(m) = "owed" /\ Stage(m)' = "settled"
    BY <1>1, <1>4, <1>5, <1>8 DEF Promise!Next, Promise!Settle
  <1> QED BY <1>3, <1>6, <1>7, <1>8

LEMMA PromiseStutter ==
  ASSUME \A n \in Ordinary : SameStage(n)
  PROVE  [Promise!Next]_stage
  <1>1. \A n \in Ordinary : Stage(n)' = Stage(n)
    BY DEF SameStage, Stage
  <1>2. stage' = stage
    BY <1>1 DEF stage
  <1> QED BY <1>2

LEMMA HandleEnds ==
  ASSUME NEW t \in Tasks, Handle(t)
  PROVE  ended' = ended \/ ended' = ended \union {inv[t].id}
  BY DEF Handle, RedisHas, RedisSet, SkipCron, RequeueLocked, DropDuplicate, DecodeFails, RejectInactive,
         Decode, NextCron, NoNextCron, PublishNext, FreePublishLock, AckSkipped, Succeed, Fail,
         ReleaseForRetry, Requeue, DeadLetter, EndUnlock, Become, DeadLettered

LEMMA PromiseHandle ==
  ASSUME ~UseRedis, Undecodable \subseteq Crons, Sound, Work, WithoutRedis, CronsOnly, Served,
         NEW t \in Tasks, Handle(t), chan' = chan
  PROVE  [Promise!Next]_stage
  <1>0. /\ inv[t].pc # "idle" /\ Reaches(t) /\ inv[t].id \in Msgs /\ inv[t].copy \in Copies
        /\ \A n \in Ordinary : n \notin Crons /\ n # Nil
    BY BusyHandle, Busy, ConstantsAssumption DEF Served, Ordinary
  <1>1. StepOf(t) /\ ScheduleStep(t)
    BY <1>0, HandleMovesOn, HandleScheduleStep DEF StepOf, Work
  <1>2. ended \subseteq ended' /\ \A m \in Ordinary : m # inv[t].id => (m \in ended' <=> m \in ended)
    BY HandleEnds
  <1>3. ASSUME NEW m \in Ordinary, m # inv[t].id PROVE InBroker(m)' <=> InBroker(m)
    <2>1. ASSUME NEW c \in Copies PROVE copy'[c].id = m <=> copy[c].id = m
      <3>1. CASE copy'[c] = copy[c]
        BY <3>1
      <3>2. CASE Schedule(t, c)
        <4>1. copy[c].id = Nil /\ copy'[c].id = inv[t].id
          BY <3>2 DEF Schedule, Work, Quiet, Empty
        <4> QED BY <1>0, <1>3, <4>1
      <3>3. CASE Answers(t) /\ c = inv[t].copy
        <4>1. copy[c].id = inv[t].id
          BY <1>0, <3>3 DEF Answers, Live, Sound, Deliveries
        <4>2. copy'[c].id \in {Nil, inv[t].id} \/ copy'[c] = copy[c]
          BY <1>1, <4>1 DEF ScheduleStep, OwnAnswer, Publishes, Schedule
        <4> QED BY <1>0, <1>3, <4>1, <4>2
      <3> QED BY <1>1, <3>1, <3>2, <3>3 DEF StepOf, MovesOn, Answers, Schedule
    <2> QED BY <2>1 DEF InBroker
  <1>4. CASE inv[t].id \in Crons
    <2>1. \A m \in Ordinary : SameStage(m)
      BY <1>0, <1>2, <1>3, <1>4 DEF SameStage
    <2> QED BY <2>1, PromiseStutter
  <1>5. CASE inv[t].id \notin Crons
    <2>1. PICK m \in Ordinary : m = inv[t].id
      BY <1>0, <1>5 DEF Ordinary
    <2>2. m \in Good
      BY <2>1 DEF Good, Ordinary
    <2>3. InBroker(m) \/ m \in ended
      <3>1. CASE inv[t].settled
        BY <2>1, <3>1 DEF Work, Quiet, SettledEnded
      <3>2. CASE ~inv[t].settled
        <4>1. copy[inv[t].copy].id = m
          BY <1>0, <2>1, <3>2 DEF Live, Sound, Deliveries
        <4> QED BY <1>0, <4>1 DEF InBroker
      <3> QED BY <3>1, <3>2
    <2>4. InBroker(m)' \/ m \in ended'
      BY <1>1, <1>2, <2>2, <2>3, BrokerHandle DEF Work
    <2>5. StageMoves(m)
      BY <1>2, <2>3, <2>4 DEF StageMoves
    <2>6. \A n \in Ordinary : n # m => SameStage(n)
      BY <1>2, <1>3, <2>1 DEF SameStage
    <2> QED BY <2>5, <2>6, PromiseStep
  <1> QED BY <1>4, <1>5

LEMMA PromiseNext ==
  ASSUME ~UseRedis, MaxDrops = 0, MaxTorn = 0, Undecodable \subseteq Crons, WorkInv, NoDrops, [Next]_vars
  PROVE  [Promise!Next]_stage
  <1>0. /\ copy \in [Copies -> CopyType] /\ spent \in [Faults -> Nat] /\ chan \in [Procs -> ChanStates]
    BY DEF WorkInv, Sound, Typed, CopyOK
  <1>1. Sound /\ WithoutRedis /\ CronsOnly /\ Calm /\ Work
    BY DEF WorkInv, WithoutRedis, NoError, Calm
  <1>2. Served /\ \A p \in Procs : chan[p] # "lost"
    BY <1>1, Busy DEF WorkInv, Attached, Served, Calm, Reaches
  <1>3. \A p \in Procs : chan'[p] # "refused"
    BY NextSound, NoErrorNext, OnlyNext DEF WorkInv, WithoutRedis, NoError
  <1>4. ASSUME \A c \in Copies : copy'[c].id = copy[c].id, ended' = ended
        PROVE  [Promise!Next]_stage
    BY <1>4, PromiseStutter DEF SameStage, InBroker
  <1>5. ASSUME NEW t \in Tasks, Handle(t) PROVE [Promise!Next]_stage
    BY <1>1, <1>2, <1>3, <1>5, SameChannel, PromiseHandle
  <1>6. ASSUME NEW m \in Ordinary, Publish(m) PROVE [Promise!Next]_stage
    <2>1. PICK c \in Copies : copy[c].at = "out" /\ copy' = [copy EXCEPT ![c] = [Out EXCEPT !.at = "ready", !.id = m]]
      BY <1>6 DEF Publish
    <2>2. /\ copy'[c].id = m /\ copy[c].id = Nil /\ m # Nil
          /\ \A d \in Copies : d # c => copy'[d] = copy[d]
      BY <1>0, <1>1, <2>1, ConstantsAssumption DEF Out, Work, Quiet, Empty, Ordinary
    <2>3. ended' = ended
      BY <1>6 DEF Publish
    <2>4. InBroker(m)' /\ \A n \in Ordinary : n # m => (InBroker(n)' <=> InBroker(n))
      <3>1. \A n \in Ordinary : n # Nil
        BY ConstantsAssumption DEF Ordinary
      <3> QED BY <2>2, <3>1 DEF InBroker
    <2>5. StageMoves(m) /\ \A n \in Ordinary : n # m => SameStage(n)
      BY <2>3, <2>4 DEF StageMoves, SameStage
    <2> QED BY <2>5, PromiseStep
  <1>7. ASSUME NEW c \in Copies, Expire(c) PROVE [Promise!Next]_stage
    <2>1. (\A d \in Copies : copy'[d].id = copy[d].id) /\ ended' = ended
      BY <1>0, <1>7 DEF Expire, CopyType
    <2> QED BY <1>4, <2>1
  <1>8. ASSUME NEW p \in Procs, NEW c \in Copies, NEW t \in Tasks, Deliver(p, c, t)
        PROVE  [Promise!Next]_stage
    <2>1. (\A d \in Copies : copy'[d].id = copy[d].id) /\ ended' = ended
      BY <1>1, <1>8, Delivered
    <2> QED BY <1>4, <2>1
  <1>9. ASSUME NEW p \in Procs, Crash(p) PROVE [Promise!Next]_stage
    <2>1. copy' = Requeued(p) /\ ended' = ended
      BY <1>9 DEF Crash
    <2>2. ASSUME NEW d \in Copies PROVE copy'[d].id = copy[d].id
      <3>1. copy'[d] = IF copy[d].at = "unacked" /\ copy[d].holder = p
                       THEN [copy[d] EXCEPT !.at = "ready", !.holder = Nil] ELSE copy[d]
        BY <2>1 DEF Requeued
      <3> QED BY <1>0, <3>1 DEF CopyType
    <2> QED BY <1>4, <2>1, <2>2
  <1>10. CASE UNCHANGED <<copy, ended>>
    BY <1>4, <1>10
  <1>11. (\A p \in Procs : ~Drop(p)) /\ (\A t \in Tasks : ~DropBeforeRetry(t))
    BY <1>0 DEF Drop, DropBeforeRetry, Spend, NoDrops
  <1> QED BY <1>5, <1>6, <1>7, <1>8, <1>9, <1>10, <1>11, NextMoves
          DEF Moves, WorkInv, vars, Tick, Notice, Reconnect, LockExpires, RedisError

(* While the connections last and there is no shared cache, the consumer side   *)
(* keeps the safety of its promise, whatever crashes and whatever locks expire: *)
(* what is published is owed until it is settled, and then for good.            *)
THEOREM PromiseIsKept ==
  ASSUME ~UseRedis, MaxDrops = 0, MaxTorn = 0, Undecodable \subseteq Crons
  PROVE  Spec => Promise!Safety
  <1>1. Init => Promise!Init
    <2>1. ASSUME Init, NEW m \in Ordinary PROVE Stage(m) = "none"
      <3>1. ended = {} /\ m # Nil /\ m \notin Crons
        BY <2>1, ConstantsAssumption DEF Init, Ordinary
      <3>2. PICK slot \in [Crons -> Copies] :
              copy = [c \in Copies |->
                        IF \E n \in Crons : slot[n] = c
                        THEN [Out EXCEPT !.at = "cronq", !.due = 1, !.id = CHOOSE n \in Crons : slot[n] = c]
                        ELSE Out]
        BY <2>1 DEF Init
      <3>3. ASSUME NEW c \in Copies PROVE copy[c].id # m
        <4>1. CASE \E n \in Crons : slot[n] = c
          <5>1. (CHOOSE n \in Crons : slot[n] = c) \in Crons
            BY <4>1
          <5> QED BY <3>1, <3>2, <4>1, <5>1 DEF Out
        <4>2. CASE ~\E n \in Crons : slot[n] = c
          BY <3>1, <3>2, <4>2 DEF Out
        <4> QED BY <4>1, <4>2
      <3> QED BY <3>1, <3>3 DEF Stage, InBroker
    <2> QED BY <2>1 DEF Promise!Init, stage
  <1>2. WorkInv /\ NoDrops /\ [Next]_vars => WorkInv' /\ NoDrops'
    BY WorkNext, NeverDrops DEF WorkInv
  <1>3. Init => WorkInv /\ NoDrops
    BY WorkInit DEF Init, NoDrops, Faults
  <1>4. WorkInv /\ NoDrops /\ [Next]_vars => [Promise!Next]_stage
    BY PromiseNext
  <1> QED BY <1>1, <1>2, <1>3, <1>4, PTL DEF Spec, Promise!Safety
================================================================================
