------------------------- MODULE SubscriberLockProofs -------------------------
(* The job lock and the deliveries of Subscriber, for every value of its        *)
(* constants: what lockMessage excludes in one process, that no path of the     *)
(* handler leaks it, and that every path answers its delivery.                  *)
EXTENDS SubscriberProofs

-------------------------------------------------------------------------------
(* Without Redis a lock is acquired in one turn, a publish lock is never the    *)
(* lock of a message, and what decodes is not skipped.                          *)
LockPcs ==
    \A t \in Tasks : /\ inv[t].pc \notin {"has", "set"}
                     /\ inv[t].pc \in {"publish", "freed"} => inv[t].next # 0
                     /\ inv[t].pc = "decode" => ~inv[t].skip

(* An invocation that may run its message has the lock of it ...                *)
HolderLocked == \A t \in Tasks : Holds(inv[t]) => MsgKey(inv[t].id) \in local[inv[t].proc]

(* ... and is the only one of its process that does.                            *)
OneHolder == \A t, u \in Tasks : t # u /\ Holds(inv[t]) /\ Holds(inv[u])
                                 => inv[t].proc # inv[u].proc \/ inv[t].id # inv[u].id

LockInv == Sound /\ LockPcs /\ HolderLocked /\ OneHolder

(* What a step does to the message locks. Others: no other invocation moves.    *)
SameLock(i, j) == i.pc = j.pc /\ i.proc = j.proc /\ i.id = j.id /\ i.next = j.next /\ i.skip = j.skip

Others(t) == \A u \in Tasks \ {t} : SameLock(inv'[u], inv[u])

(* The invocation goes on as a holder, or as one that never was.                *)
Keeps(t) ==
    /\ Others(t)
    /\ Holds(inv'[t]) => /\ Holds(inv[t])
                         /\ inv'[t].proc = inv[t].proc /\ inv'[t].id = inv[t].id
    /\ inv[t].id \notin Undecodable /\ Holds(inv[t]) => Holds(inv'[t])
    /\ \A q \in Procs, m \in Msgs : MsgKey(m) \in local'[q] <=> MsgKey(m) \in local[q]

Releases(t) ==
    /\ Others(t)
    /\ Holds(inv[t]) /\ ~Holds(inv'[t])
    /\ \A q \in Procs, m \in Msgs :
          MsgKey(m) \in local'[q]
          <=> MsgKey(m) \in local[q] /\ ~(q = inv[t].proc /\ m = inv[t].id)

(* Deliver, the only step that takes the lock of a message.                     *)
Takes(t) ==
    /\ Others(t)
    /\ Holds(inv'[t]) /\ ~Holds(inv[t])
    /\ inv'[t].proc \in Procs /\ inv'[t].id \in Msgs
    /\ MsgKey(inv'[t].id) \notin local[inv'[t].proc]
    /\ \A q \in Procs, m \in Msgs :
          MsgKey(m) \in local'[q]
          <=> MsgKey(m) \in local[q] \/ (q = inv'[t].proc /\ m = inv'[t].id)

LEMMA KeyDiffers == ASSUME NEW i, i.next # 0, NEW m PROVE Key(i) # MsgKey(m)
  BY DEF Key, MsgKey

LEMMA KeyInjective == ASSUME NEW m, NEW n, MsgKey(m) = MsgKey(n) PROVE m = n
  BY DEF MsgKey

LEMMA SameHolds == ASSUME NEW i, NEW j, SameLock(i, j) PROVE Holds(i) <=> Holds(j)
  BY DEF SameLock, Holds

LEMMA HolderType ==
  ASSUME Sound, NEW t \in Tasks, Holds(inv[t])
  PROVE  inv[t].proc \in Procs /\ inv[t].id \in Msgs
  <1>1. inv[t].pc # "idle"
    BY DEF Holds
  <1> QED BY <1>1 DEF Sound, Typed, InvsOK, InvOK

LEMMA UnlockKeys ==
  ASSUME local \in [Procs -> SUBSET Keys], NEW p \in Procs, NEW n, local' = Unlock(p, MsgKey(n))
  PROVE  \A q \in Procs, m \in Msgs :
            MsgKey(m) \in local'[q] <=> MsgKey(m) \in local[q] /\ ~(q = p /\ m = n)
  BY KeyInjective DEF Unlock

(* An answer: the invocation becomes i, up to the channel it is on.             *)
LEMMA AnswerLock ==
  ASSUME Sound, NEW t \in Tasks, inv[t].pc # "idle", NEW i, InvOK(i), NEW c, Answer(t, i, c)
  PROVE  Others(t) /\ SameLock(inv'[t], i)
  <1>1. inv \in [Tasks -> InvType] /\ i \in InvType
    BY DEF Sound, Typed, InvsOK, InvOK
  <1>2. CASE Refused(t)
    <2>1. inv' = [Orphaned(inv[t].proc) EXCEPT ![t] = [i EXCEPT !.current = FALSE]]
      BY <1>2 DEF Answer
    <2>2. SameLock(inv'[t], i)
      BY <1>1, <2>1 DEF Orphaned, SameLock, InvType
    <2>3. ASSUME NEW u \in Tasks \ {t} PROVE SameLock(inv'[u], inv[u])
      <3>1. inv'[u] = inv[u] \/ inv'[u] = [inv[u] EXCEPT !.current = FALSE]
        BY <2>1 DEF Orphaned
      <3> QED BY <1>1, <3>1 DEF SameLock, InvType
    <2> QED BY <2>2, <2>3 DEF Others
  <1>3. CASE ~Refused(t)
    BY <1>1, <1>3 DEF Answer, Others, SameLock
  <1> QED BY <1>2, <1>3

LEMMA FinishReleases ==
  ASSUME Sound, NEW t \in Tasks, Holds(inv[t]), NEW pc \in {"unlockRun", "unlockLast"},
         Finish(t, pc)
  PROVE  Releases(t) /\ inv'[t].pc = pc
  <1> DEFINE i == [inv[t] EXCEPT !.pc = pc, !.settled = TRUE]
  <1>1. inv[t] \in InvType /\ inv[t].pc # "idle" /\ InvOK(inv[t])
    BY DEF Sound, Typed, InvsOK, InvOK, Holds
  <1>2. InvOK(i) /\ i.pc = pc
    BY <1>1 DEF InvOK, InvType, Pcs
  <1>3. Answer(t, i, Out)
    BY DEF Finish
  <1> HIDE DEF i
  <1>4. Others(t) /\ SameLock(inv'[t], i)
    BY <1>1, <1>2, <1>3, AnswerLock
  <1>5. inv'[t].pc = pc /\ ~Holds(inv'[t])
    BY <1>2, <1>4 DEF SameLock, Holds
  <1>6. \A q \in Procs, m \in Msgs :
          MsgKey(m) \in local'[q]
          <=> MsgKey(m) \in local[q] /\ ~(q = inv[t].proc /\ m = inv[t].id)
    BY HolderType, UnlockKeys DEF Finish, Sound, Typed
  <1> QED BY <1>4, <1>5, <1>6 DEF Releases

(* Every step of an invocation keeps or releases its lock.                      *)
LEMMA HandleLock ==
  ASSUME ~UseRedis, LockInv, NEW t \in Tasks, Handle(t)
  PROVE  (Keeps(t) \/ Releases(t)) /\ LockPcs'
  <1> DEFINE p == inv[t].proc
  <1>1. /\ InvOK(inv[t]) /\ inv[t] \in InvType /\ inv[t].pc # "idle" /\ inv \in [Tasks -> InvType]
        /\ p \in Procs /\ inv[t].id \in Msgs /\ local \in [Procs -> SUBSET Keys]
    BY BusyHandle DEF LockInv, Sound, Typed, InvsOK, InvOK
  <1>2. ASSUME NEW i \in InvType, inv' = [inv EXCEPT ![t] = i] PROVE Others(t) /\ inv'[t] = i
    BY <1>1, <1>2 DEF Others, SameLock
  <1>3. ASSUME Others(t), inv'[t].pc \notin {"has", "set", "publish", "freed", "decode"} PROVE LockPcs'
    <2>1. ASSUME NEW u \in Tasks, u # t
          PROVE  /\ inv'[u].pc \notin {"has", "set"}
                 /\ inv'[u].pc \in {"publish", "freed"} => inv'[u].next # 0
                 /\ inv'[u].pc = "decode" => ~inv'[u].skip
      BY <1>3, <2>1 DEF Others, SameLock, LockInv, LockPcs
    <2> QED BY <1>3, <2>1 DEF LockPcs
  <1>4. ~RedisHas(t) /\ ~RedisSet(t)
    BY DEF RedisHas, RedisSet, LockInv, LockPcs
  <1>5. Idle \in InvType /\ InvOK(Idle) /\ ~Holds(Idle) /\ Idle.pc = "idle"
    BY IdleOK DEF InvOK, Idle, Holds
  <1>6. CASE SkipCron(t)
    <2> DEFINE i == [inv[t] EXCEPT !.pc = "next", !.skip = TRUE]
    <2>1. i \in InvType /\ ~Holds(i) /\ i.pc = "next"
      BY <1>1 DEF InvType, Pcs, Holds
    <2>2. inv' = [inv EXCEPT ![t] = i] /\ local' = local /\ ~Holds(inv[t])
      BY <1>6 DEF SkipCron, Become, Holds
    <2> HIDE DEF i
    <2> QED BY <1>2, <1>3, <2>1, <2>2 DEF Keeps
  <1>7. CASE RequeueLocked(t) \/ DropDuplicate(t) \/ AckSkipped(t)
    <2>1. PICK c : Answer(t, Idle, c)
      BY <1>7 DEF RequeueLocked, DropDuplicate, AckSkipped
    <2>2. ~Holds(inv[t]) /\ local' = local
      BY <1>7 DEF RequeueLocked, DropDuplicate, AckSkipped, LockedRetry, Holds
    <2>3. Others(t) /\ SameLock(inv'[t], Idle)
      BY <1>1, <1>5, <2>1, AnswerLock DEF LockInv
    <2>4. inv'[t].pc = "idle" /\ ~Holds(inv'[t])
      BY <1>5, <2>3, SameHolds DEF SameLock
    <2> QED BY <1>3, <2>2, <2>3, <2>4 DEF Keeps
  <1>8. CASE DecodeFails(t)
    <2>1. inv' = [inv EXCEPT ![t] = Idle] /\ local' = local /\ inv[t].id \in Undecodable
      BY <1>8 DEF DecodeFails, Become
    <2> QED BY <1>2, <1>3, <1>5, <2>1 DEF Keeps
  <1>9. CASE Decode(t) \/ Fail(t)
    <2>1. PICK pc \in {"next", "run", "onerror", "onerrorLast"} :
            inv' = [inv EXCEPT ![t] = [inv[t] EXCEPT !.pc = pc]] /\ local' = local
            /\ (pc = "next" => inv[t].pc = "decode")
      BY <1>9 DEF Decode, Fail, Become, Catch
    <2> DEFINE i == [inv[t] EXCEPT !.pc = pc]
    <2>2. /\ i \in InvType /\ i.pc = pc /\ i.proc = inv[t].proc /\ i.id = inv[t].id
          /\ i.skip = inv[t].skip
      BY <1>1 DEF InvType, Pcs
    <2>3. Holds(inv[t]) /\ Others(t) /\ inv'[t] = i
      BY <1>2, <1>9, <2>1, <2>2 DEF Decode, Fail, Holds
    <2> HIDE DEF i
    <2>4. pc = "next" => ~inv[t].skip
      BY <2>1 DEF LockInv, LockPcs
    <2>5. Keeps(t)
      BY <2>1, <2>2, <2>3, <2>4 DEF Keeps, Holds
    <2> QED BY <1>3, <2>1, <2>2, <2>3, <2>5
  <1>10. CASE RejectInactive(t) \/ DeadLetter(t) \/ Succeed(t) \/ (NoNextCron(t) /\ ~inv[t].skip)
    <2>1. PICK pc \in {"unlockRun", "unlockLast"} : Finish(t, pc)
      BY <1>10 DEF RejectInactive, DeadLetter, Succeed, NoNextCron
    <2>2. Holds(inv[t])
      BY <1>10 DEF RejectInactive, DeadLetter, Succeed, NoNextCron, Holds
    <2>3. Releases(t) /\ inv'[t].pc = pc
      BY <2>1, <2>2, FinishReleases DEF LockInv
    <2> QED BY <1>3, <2>3 DEF Releases
  <1>11. CASE NoNextCron(t) /\ inv[t].skip
    <2>1. Answer(t, Idle, Out) /\ local' = local /\ ~Holds(inv[t])
      BY <1>11 DEF NoNextCron, Holds
    <2>2. Others(t) /\ SameLock(inv'[t], Idle)
      BY <1>1, <1>5, <2>1, AnswerLock DEF LockInv
    <2>3. inv'[t].pc = "idle" /\ ~Holds(inv'[t])
      BY <1>5, <2>2, SameHolds DEF SameLock
    <2> QED BY <1>3, <2>1, <2>2, <2>3 DEF Keeps
  <1>12. CASE NextCron(t)
    <2> DEFINE i == [inv[t] EXCEPT !.next = now + 1]
               j == Lock(i)
    <2>1. now + 1 \in Ticks /\ now + 1 # 0
      BY <1>12, ConstantsAssumption DEF NextCron, LockInv, Sound, Typed, Ticks
    <2>2. /\ i \in InvType /\ i.next # 0 /\ i.proc = p /\ i.id = inv[t].id
          /\ i.skip = inv[t].skip /\ i.copy = inv[t].copy /\ i.pc = "next"
      BY <1>1, <1>12, <2>1 DEF NextCron, InvType
    <2>3. inv' = [inv EXCEPT ![t] = j] /\ local' = LockLocal(i) /\ inv[t].pc = "next"
      BY <1>12 DEF NextCron
    <2> HIDE DEF i
    <2>4. /\ j.proc = p /\ j.id = inv[t].id /\ j.skip = inv[t].skip /\ j.next # 0
          /\ j.pc = "publish" \/ j.pc = AfterSchedule(i)
      BY <2>2 DEF Lock, AfterRefusal, AfterLock, InvType
    <2>5. j \in InvType
      BY <1>1, <2>2, LockOK DEF InvOK
    <2> HIDE DEF j
    <2>6. Others(t) /\ inv'[t] = j
      BY <1>2, <2>3, <2>5
    <2>7. Holds(j) <=> Holds(inv[t])
      BY <2>2, <2>3, <2>4 DEF Holds, AfterSchedule
    <2>8. \A q \in Procs, m \in Msgs : MsgKey(m) \in local'[q] <=> MsgKey(m) \in local[q]
      BY <1>1, <2>2, <2>3, KeyDiffers DEF LockLocal
    <2>9. Keeps(t)
      BY <2>4, <2>6, <2>7, <2>8 DEF Keeps
    <2>10. LockPcs'
      BY <2>2, <2>4, <2>6 DEF LockPcs, LockInv, Others, SameLock, AfterSchedule
    <2> QED BY <2>9, <2>10
  <1>13. CASE PublishNext(t) \/ FreePublishLock(t)
    <2>1. PICK pc \in {"ackSkipped", "run", "freed"} :
            /\ inv' = [inv EXCEPT ![t] = [inv[t] EXCEPT !.pc = pc]]
            /\ pc = "freed" \/ pc = AfterSchedule(inv[t])
      BY <1>13 DEF PublishNext, FreePublishLock, AfterSchedule
    <2> DEFINE i == [inv[t] EXCEPT !.pc = pc]
    <2>2. /\ i \in InvType /\ i.pc = pc /\ i.proc = p /\ i.id = inv[t].id
          /\ i.skip = inv[t].skip /\ i.next = inv[t].next
      BY <1>1 DEF InvType, Pcs
    <2>3. inv[t].pc \in {"publish", "freed"} /\ inv[t].next # 0
      BY <1>13 DEF PublishNext, FreePublishLock, LockInv, LockPcs
    <2> HIDE DEF i
    <2>4. Others(t) /\ inv'[t] = i
      BY <1>2, <2>1, <2>2 DEF i
    <2>5. Holds(i) <=> Holds(inv[t])
      BY <2>1, <2>2, <2>3 DEF Holds, AfterSchedule
    <2>6. local' = local \/ local' = Unlock(p, Key(inv[t]))
      BY <1>13 DEF PublishNext, FreePublishLock
    <2>7. \A q \in Procs, m \in Msgs : MsgKey(m) \in local'[q] <=> MsgKey(m) \in local[q]
      BY <1>1, <2>3, <2>6, KeyDiffers DEF Unlock
    <2>8. Keeps(t)
      BY <2>2, <2>4, <2>5, <2>7 DEF Keeps
    <2>9. LockPcs'
      BY <2>1, <2>2, <2>3, <2>4 DEF LockPcs, LockInv, Others, SameLock
    <2> QED BY <2>8, <2>9
  <1>14. CASE ReleaseForRetry(t)
    <2> DEFINE i == [inv[t] EXCEPT !.pc = "requeue"]
    <2>1. i \in InvType /\ i.pc = "requeue" /\ ~Holds(i)
      BY <1>1 DEF InvType, Pcs, Holds
    <2>2. inv' = [inv EXCEPT ![t] = i] /\ local' = Unlock(p, MsgKey(inv[t].id)) /\ Holds(inv[t])
      BY <1>14 DEF ReleaseForRetry, Holds
    <2> HIDE DEF i
    <2>3. Others(t) /\ inv'[t] = i
      BY <1>2, <2>1, <2>2
    <2>4. \A q \in Procs, m \in Msgs :
            MsgKey(m) \in local'[q]
            <=> MsgKey(m) \in local[q] /\ ~(q = inv[t].proc /\ m = inv[t].id)
      BY <1>1, <2>2, UnlockKeys
    <2> QED BY <1>3, <2>1, <2>2, <2>3, <2>4 DEF Releases
  <1>15. CASE Requeue(t)
    <2>1. PICK c : Answer(t, Idle, c)
      BY <1>15 DEF Requeue
    <2>2. ~Holds(inv[t]) /\ local' = local
      BY <1>15 DEF Requeue, Holds
    <2>3. Others(t) /\ SameLock(inv'[t], Idle)
      BY <1>1, <1>5, <2>1, AnswerLock DEF LockInv
    <2>4. inv'[t].pc = "idle" /\ ~Holds(inv'[t])
      BY <1>5, <2>3, SameHolds DEF SameLock
    <2> QED BY <1>3, <2>2, <2>3, <2>4 DEF Keeps
  <1>16. CASE EndUnlock(t)
    <2>1. inv' = [inv EXCEPT ![t] = Idle] /\ local' = local /\ ~Holds(inv[t])
      BY <1>16 DEF EndUnlock, Holds
    <2> QED BY <1>2, <1>3, <1>5, <2>1 DEF Keeps
  <1> QED BY <1>4, <1>6, <1>7, <1>8, <1>9, <1>10, <1>11, <1>12, <1>13, <1>14, <1>15, <1>16
          DEF Handle

LEMMA DeliverLock ==
  ASSUME ~UseRedis, LockInv, NEW p \in Procs, NEW c \in Copies, NEW t \in Tasks, Deliver(p, c, t)
  PROVE  (Keeps(t) \/ Takes(t)) /\ LockPcs'
  <1> DEFINE i == [Idle EXCEPT !.proc = p, !.copy = c, !.id = copy[c].id,
                               !.attempt = copy[c].attempt, !.current = TRUE]
             j == Lock(i)
  <1>1. /\ i \in InvType /\ i.proc = p /\ i.copy = c /\ i.id \in Msgs
        /\ i.next = 0 /\ ~i.skip
    BY IdleOK DEF Deliver, LockInv, Sound, Typed, CopyOK, CopyType, InvOK, InvType, Idle
  <1>2. inv' = [inv EXCEPT ![t] = j] /\ local' = LockLocal(i) /\ ~Holds(inv[t])
    BY DEF Deliver, Holds
  <1> HIDE DEF i
  <1>3. /\ j.proc = p /\ j.id = i.id /\ ~j.skip /\ Key(i) = MsgKey(i.id)
        /\ j.pc = IF Held(i) THEN "locked" ELSE "decode"
    BY <1>1 DEF Lock, AfterRefusal, AfterLock, InvType, Key, MsgKey
  <1>4. Others(t) /\ inv'[t] = j
    BY <1>2 DEF Others, SameLock, LockInv, Sound, Typed, InvsOK
  <1> HIDE DEF j
  <1>5. LockPcs'
    <2> SUFFICES ASSUME NEW u \in Tasks
                 PROVE  /\ inv'[u].pc \notin {"has", "set"}
                        /\ inv'[u].pc \in {"publish", "freed"} => inv'[u].next # 0
                        /\ inv'[u].pc = "decode" => ~inv'[u].skip
      BY DEF LockPcs
    <2>1. CASE u # t
      BY <1>4, <2>1 DEF Others, SameLock, LockInv, LockPcs
    <2>2. CASE u = t
      <3>1. j.pc = "locked" \/ j.pc = "decode"
        BY <1>3
      <3> QED BY <1>3, <1>4, <2>2, <3>1
    <2> QED BY <2>1, <2>2
  <1>6. CASE Held(i)
    BY <1>2, <1>3, <1>4, <1>5, <1>6 DEF LockLocal, Keeps, Holds
  <1>7. CASE ~Held(i)
    <2>1. MsgKey(i.id) \notin local[p]
      BY <1>1, <1>3, <1>7 DEF Held
    <2>2. local' = [local EXCEPT ![p] = @ \union {MsgKey(i.id)}]
      BY <1>1, <1>2, <1>3, <1>7 DEF LockLocal
    <2>3. \A q \in Procs, m \in Msgs :
            MsgKey(m) \in local'[q] <=> MsgKey(m) \in local[q] \/ (q = p /\ m = i.id)
      BY <2>2, KeyInjective DEF LockInv, Sound, Typed
    <2>4. Holds(j)
      BY <1>3, <1>7 DEF Holds
    <2>5. Takes(t)
      BY <1>1, <1>2, <1>3, <1>4, <2>1, <2>3, <2>4 DEF Takes
    <2> QED BY <1>5, <2>5
  <1> QED BY <1>5, <1>6, <1>7

(* No fault moves an invocation, but for a crash, which ends those of a process *)
(* together with its cache.                                                     *)
LEMMA CrashLock ==
  ASSUME LockInv, NEW p \in Procs, Crash(p)
  PROVE  /\ \A t \in Tasks : inv'[t] = IF inv[t].proc = p THEN Idle ELSE inv[t]
         /\ local' = [local EXCEPT ![p] = {}]
  BY DEF Crash

Still == (\A t \in Tasks : SameLock(inv'[t], inv[t])) /\ UNCHANGED local

LEMMA StillLock ==
  ASSUME LockInv,
         \/ UNCHANGED <<inv, local>>
         \/ \E p \in Procs : Notice(p)
  PROVE  Still
  <1>1. inv \in [Tasks -> InvType]
    BY DEF LockInv, Sound, Typed, InvsOK
  <1>2. CASE UNCHANGED <<inv, local>>
    BY <1>2 DEF Still, SameLock
  <1>3. ASSUME NEW p \in Procs, Notice(p) PROVE Still
    <2>1. \A t \in Tasks : inv'[t] = inv[t] \/ inv'[t] = [inv[t] EXCEPT !.current = FALSE]
      BY <1>3 DEF Notice, Orphaned
    <2>2. ASSUME NEW t \in Tasks PROVE SameLock(inv'[t], inv[t])
      <3>1. inv[t] \in InvType
        BY <1>1
      <3>2. CASE inv'[t] = inv[t]
        BY <3>2 DEF SameLock
      <3>3. CASE inv'[t] = [inv[t] EXCEPT !.current = FALSE]
        BY <3>1, <3>3 DEF SameLock, InvType
      <3> QED BY <2>1, <3>2, <3>3
    <2>3. UNCHANGED local
      BY <1>3 DEF Notice
    <2> QED BY <2>2, <2>3 DEF Still
  <1> QED BY <1>2, <1>3

(* The steps of the system, by what they do to the locks.                       *)
LEMMA LockSteps ==
  ASSUME ~UseRedis, MaxExpiries = 0, LockInv, [Next]_vars
  PROVE  \/ Still
         \/ LockPcs' /\ \E t \in Tasks : Keeps(t) \/ Releases(t) \/ Takes(t)
         \/ \E p \in Procs : Crash(p)
  <1>1. ASSUME NEW t \in Tasks, DropBeforeRetry(t) PROVE Keeps(t) /\ LockPcs'
    <2>1. /\ inv' = [inv EXCEPT ![t] = Idle] /\ local' = local /\ ~Holds(inv[t])
          /\ ~Holds(Idle) /\ Idle.pc = "idle"
      BY <1>1 DEF DropBeforeRetry, LockedRetry, Holds, Idle
    <2>2. Others(t) /\ inv'[t] = Idle
      BY <2>1 DEF Others, SameLock, LockInv, Sound, Typed, InvsOK
    <2> QED BY <2>1, <2>2 DEF Keeps, LockPcs, LockInv, Others, SameLock
  <1>2. \A t : ~RedisError(t)
    BY DEF RedisError
  <1>3. ~LockExpires
    BY DEF LockExpires, Spend, LockInv, Sound, Typed, Faults
  <1>4. CASE UNCHANGED <<inv, local>>
    BY <1>4, StillLock
  <1>5. \A p \in Procs : (Drop(p) \/ Reconnect(p)) => UNCHANGED <<inv, local>>
    BY DEF Drop, Reconnect
  <1>6. /\ \A m \in Ordinary : Publish(m) => UNCHANGED <<inv, local>>
        /\ \A c \in Copies : Expire(c) => UNCHANGED <<inv, local>>
        /\ Tick \/ UNCHANGED vars => UNCHANGED <<inv, local>>
    BY DEF Publish, Expire, Tick, vars
  <1>7. (\E p \in Procs : Notice(p)) => Still
    BY StillLock
  <1>8. \A t \in Tasks : Handle(t) => (Keeps(t) \/ Releases(t)) /\ LockPcs'
    BY HandleLock
  <1>9. \A p \in Procs, c \in Copies, t \in Tasks :
          Deliver(p, c, t) => (Keeps(t) \/ Takes(t)) /\ LockPcs'
    BY DeliverLock
  <1> QED BY <1>1, <1>2, <1>3, <1>4, <1>5, <1>6, <1>7, <1>8, <1>9, NextMoves DEF Moves, LockInv

LEMMA LockNext ==
  ASSUME ~UseRedis, MaxExpiries = 0, LockInv, [Next]_vars
  PROVE  LockInv'
  <1>1. Sound'
    BY NextSound DEF LockInv
  <1>2. \A t \in Tasks : Holds(inv[t]) => inv[t].proc \in Procs /\ inv[t].id \in Msgs
    BY HolderType DEF LockInv
  <1>3. CASE Still
    BY <1>1, <1>3, SameHolds DEF Still, LockInv, LockPcs, HolderLocked, OneHolder, SameLock
  <1>4. ASSUME NEW t \in Tasks, Keeps(t) \/ Releases(t) \/ Takes(t), LockPcs' PROVE LockInv'
    <2>1. \A u \in Tasks \ {t} : /\ Holds(inv'[u]) <=> Holds(inv[u])
                                 /\ inv'[u].proc = inv[u].proc /\ inv'[u].id = inv[u].id
      BY <1>4, SameHolds DEF Keeps, Releases, Takes, Others, SameLock
    <2>2. CASE Keeps(t)
      <3>1. HolderLocked'
        BY <1>2, <2>1, <2>2 DEF Keeps, LockInv, HolderLocked
      <3>2. OneHolder'
        BY <2>1, <2>2 DEF Keeps, LockInv, OneHolder
      <3> QED BY <1>1, <1>4, <3>1, <3>2 DEF LockInv
    <2>3. CASE Releases(t)
      <3>1. \A u \in Tasks : Holds(inv'[u])
               => u # t /\ Holds(inv[u]) /\ (inv[u].proc # inv[t].proc \/ inv[u].id # inv[t].id)
        BY <2>1, <2>3 DEF Releases, LockInv, OneHolder
      <3>2. HolderLocked'
        BY <1>2, <2>1, <2>3, <3>1 DEF Releases, LockInv, HolderLocked
      <3>3. OneHolder'
        BY <2>1, <3>1 DEF LockInv, OneHolder
      <3> QED BY <1>1, <1>4, <3>2, <3>3 DEF LockInv
    <2>4. CASE Takes(t)
      <3>1. HolderLocked'
        BY <1>2, <2>1, <2>4 DEF Takes, LockInv, HolderLocked
      <3>2. \A u \in Tasks \ {t} : Holds(inv[u])
               => inv[u].proc # inv'[t].proc \/ inv[u].id # inv'[t].id
        BY <2>4 DEF Takes, LockInv, HolderLocked
      <3>3. OneHolder'
        BY <2>1, <3>2 DEF LockInv, OneHolder
      <3> QED BY <1>1, <1>4, <3>1, <3>3 DEF LockInv
    <2> QED BY <1>4, <2>2, <2>3, <2>4
  <1>5. ASSUME NEW p \in Procs, Crash(p) PROVE LockInv'
    <2>1. /\ \A t \in Tasks : inv'[t] = IF inv[t].proc = p THEN Idle ELSE inv[t]
          /\ \A q \in Procs : q # p => local'[q] = local[q]
      BY <1>5, CrashLock DEF LockInv, Sound, Typed
    <2>2. ~Holds(Idle) /\ Idle.pc = "idle"
      BY DEF Idle, Holds
    <2>3. \A t \in Tasks : Holds(inv'[t]) => inv'[t] = inv[t] /\ inv[t].proc # p
      BY <2>1, <2>2
    <2>4. HolderLocked' /\ OneHolder'
      BY <1>2, <2>1, <2>3 DEF LockInv, HolderLocked, OneHolder
    <2>5. LockPcs'
      BY <2>1, <2>2 DEF LockInv, LockPcs
    <2> QED BY <1>1, <2>4, <2>5 DEF LockInv
  <1> QED BY <1>3, <1>4, <1>5, LockSteps

LEMMA LockInit == Init => LockInv
  <1> SUFFICES ASSUME Init PROVE LockInv
    OBVIOUS
  <1>1. \A t \in Tasks : inv[t].pc = "idle"
    BY DEF Init, Idle
  <1> QED BY <1>1, InitSound DEF LockInv, LockPcs, HolderLocked, OneHolder, Holds

(* lockMessage with the local cache alone (no REDIS_URI): whatever is           *)
(* redelivered, retried or published twice, and across crashes and lost         *)
(* connections, a process never runs onmessage twice at once for a message, as  *)
(* long as no lock outlives its 300 s.                                          *)
THEOREM LocalLockExcludes ==
  ASSUME ~UseRedis, MaxExpiries = 0
  PROVE  Spec => []OneRunPerProcess
  <1>1. LockInv => OneRunPerProcess
    BY DEF LockInv, OneHolder, OneRunPerProcess, Running, Holds
  <1>2. LockInv /\ [Next]_vars => LockInv'
    BY LockNext
  <1> QED BY <1>1, <1>2, LockInit, PTL DEF Spec

-------------------------------------------------------------------------------
(* The converse: a held lock has a holder.                                      *)
OwnedInv == LockInv /\ LockOwned

LEMMA OwnedNext ==
  ASSUME ~UseRedis, MaxExpiries = 0, Undecodable = {}, OwnedInv, [Next]_vars
  PROVE  OwnedInv'
  <1>1. LockInv'
    BY LockNext DEF OwnedInv
  <1>2. inv \in [Tasks -> InvType] /\ local \in [Procs -> SUBSET Keys]
    BY DEF OwnedInv, LockInv, Sound, Typed, InvsOK
  <1>3. SUFFICES ASSUME NEW q \in Procs, NEW m \in Msgs, MsgKey(m) \in local'[q]
                 PROVE  \E t \in Tasks : inv'[t].proc = q /\ inv'[t].id = m /\ Holds(inv'[t])
    BY <1>1 DEF OwnedInv, LockOwned
  <1>4. ASSUME MsgKey(m) \in local[q]
        PROVE  \E u \in Tasks : inv[u].proc = q /\ inv[u].id = m /\ Holds(inv[u])
    BY <1>4 DEF OwnedInv, LockOwned
  <1>5. CASE Still
    BY <1>3, <1>4, <1>5, SameHolds DEF Still, SameLock
  <1>6. ASSUME NEW t \in Tasks, Keeps(t) \/ Releases(t) \/ Takes(t)
        PROVE  \E u \in Tasks : inv'[u].proc = q /\ inv'[u].id = m /\ Holds(inv'[u])
    <2>1. \A u \in Tasks \ {t} : /\ Holds(inv'[u]) <=> Holds(inv[u])
                                 /\ inv'[u].proc = inv[u].proc /\ inv'[u].id = inv[u].id
      BY <1>6, SameHolds DEF Keeps, Releases, Takes, Others, SameLock
    <2>2. CASE Keeps(t)
      <3>1. Holds(inv[t]) => Holds(inv'[t]) /\ inv'[t].proc = inv[t].proc /\ inv'[t].id = inv[t].id
        BY <2>2 DEF Keeps
      <3> QED BY <1>3, <1>4, <2>1, <2>2, <3>1 DEF Keeps
    <2>3. CASE Releases(t)
      <3>1. MsgKey(m) \in local[q] /\ ~(q = inv[t].proc /\ m = inv[t].id)
        BY <1>3, <2>3 DEF Releases
      <3> QED BY <1>4, <2>1, <3>1
    <2>4. CASE Takes(t)
      BY <1>3, <1>4, <2>1, <2>4 DEF Takes
    <2> QED BY <1>6, <2>2, <2>3, <2>4
  <1>7. ASSUME NEW p \in Procs, Crash(p)
        PROVE  \E u \in Tasks : inv'[u].proc = q /\ inv'[u].id = m /\ Holds(inv'[u])
    <2>1. /\ \A t \in Tasks : inv'[t] = IF inv[t].proc = p THEN Idle ELSE inv[t]
          /\ local' = [local EXCEPT ![p] = {}]
      BY <1>7, CrashLock DEF OwnedInv
    <2>2. q # p /\ MsgKey(m) \in local[q]
      BY <1>2, <1>3, <2>1
    <2> QED BY <1>4, <2>1, <2>2
  <1> QED BY <1>5, <1>6, <1>7, LockSteps DEF OwnedInv

(* No path of processorHandler leaks the lock of its message, whatever becomes  *)
(* of its channel, and no retry is published while the attempt that publishes   *)
(* it still holds the lock: with the local cache alone a held lock always has   *)
(* an invocation that may run the message, or is running it. (A message that    *)
(* does not decode is the exception.)                                           *)
THEOREM LocalLockOwned ==
  ASSUME ~UseRedis, MaxExpiries = 0, Undecodable = {}
  PROVE  Spec => []LockOwned
  <1>1. Init => OwnedInv
    BY LockInit DEF Init, OwnedInv, LockOwned
  <1>2. OwnedInv /\ [Next]_vars => OwnedInv'
    BY OwnedNext
  <1>3. OwnedInv => LockOwned
    BY DEF OwnedInv
  <1> QED BY <1>1, <1>2, <1>3, PTL DEF Spec

-------------------------------------------------------------------------------
(* Every delivery has the invocation that will answer it.                       *)
SettledPcs ==
    \A t \in Tasks : inv[t].pc \in {"unlockRun", "unlockLast"} => inv[t].settled

Owed == \A c \in Copies :
            copy[c].at = "unacked"
            => \E t \in Tasks : Live(t) /\ inv[t].copy = c /\ inv[t].proc = copy[c].holder

AnswerInv == Sound /\ SettledPcs /\ Owed

NoNewUnacked == \A c \in Copies : copy'[c].at = "unacked" => copy'[c] = copy[c]

LEMMA OwedSame ==
  ASSUME AnswerInv, UNCHANGED <<inv, chan>>, NoNewUnacked
  PROVE  SettledPcs' /\ Owed'
  <1>1. \A u \in Tasks : Live(u)' = Live(u)
    BY DEF Live, Reaches
  <1> QED BY <1>1 DEF AnswerInv, SettledPcs, Owed, NoNewUnacked

(* A step without an answer, that does not end an invocation which owes one.    *)
LEMMA OwedFollow ==
  ASSUME AnswerInv, NEW t \in Tasks, inv[t].pc # "idle", NEW i, InvOK(i), Follows(t, i),
         inv' = [inv EXCEPT ![t] = i], UNCHANGED chan, NoNewUnacked,
         i.pc = "idle" => inv[t].settled,
         i.pc \in {"unlockRun", "unlockLast"} => i.settled
  PROVE  SettledPcs' /\ Owed'
  <1>1. inv'[t] = i /\ \A u \in Tasks : u # t => inv'[u] = inv[u]
    BY DEF AnswerInv, Sound, Typed, InvsOK
  <1>2. SettledPcs'
    BY <1>1 DEF AnswerInv, SettledPcs
  <1>3. \A u \in Tasks : Live(u) => Live(u)' /\ inv'[u].copy = inv[u].copy /\ inv'[u].proc = inv[u].proc
    BY <1>1 DEF Live, Reaches, Follows, Idle
  <1> QED BY <1>2, <1>3 DEF AnswerInv, Owed, NoNewUnacked

LEMMA OwedAnswer ==
  ASSUME AnswerInv, NEW t \in Tasks, inv[t].pc # "idle", NEW i, InvOK(i), NEW c,
         i.pc \in {"unlockRun", "unlockLast"} => i.settled,
         c.at # "unacked", Answer(t, i, c)
  PROVE  SettledPcs' /\ Owed'
  <1> DEFINE p == inv[t].proc
  <1>1. /\ inv \in [Tasks -> InvType] /\ chan \in [Procs -> ChanStates] /\ i \in InvType
        /\ copy \in [Copies -> CopyType]
        /\ \A u \in Tasks : inv[u].pc # "idle" => inv[u].copy \in Copies /\ inv[u].proc \in Procs
    BY DEF AnswerInv, Sound, Typed, InvsOK, InvOK, CopyOK
  <1>2. CASE ~Refused(t)
    <2>1. inv' = [inv EXCEPT ![t] = i] /\ chan' = chan
          /\ copy' = IF Reaches(t) THEN [copy EXCEPT ![inv[t].copy] = c] ELSE copy
      BY <1>2 DEF Answer
    <2>2. inv'[t] = i /\ \A u \in Tasks : u # t => inv'[u] = inv[u]
      BY <1>1, <2>1
    <2>3. SettledPcs'
      BY <2>2 DEF AnswerInv, SettledPcs
    <2>4. \A u \in Tasks : u # t /\ Live(u) => Live(u)'
      BY <2>1, <2>2 DEF Live, Reaches
    <2>5. \A d \in Copies : copy'[d].at = "unacked"
             => copy'[d] = copy[d] /\ (Live(t) => inv[t].copy # d)
      BY <1>1, <2>1 DEF Live
    <2> QED BY <2>2, <2>3, <2>4, <2>5 DEF AnswerInv, Owed
  <1>3. CASE Refused(t)
    <2>1. /\ copy' = Requeued(p) /\ chan' = [chan EXCEPT ![p] = "refused"]
          /\ inv' = [Orphaned(p) EXCEPT ![t] = [i EXCEPT !.current = FALSE]]
      BY <1>3 DEF Answer
    <2>2. inv'[t].pc = i.pc /\ inv'[t].settled = i.settled
      BY <1>1, <2>1 DEF Orphaned, InvType
    <2>3. \A u \in Tasks : u # t => inv'[u] = IF inv[u].proc = p
                                              THEN [inv[u] EXCEPT !.current = FALSE] ELSE inv[u]
      BY <2>1 DEF Orphaned
    <2>4. SettledPcs'
      <3>1. ASSUME NEW u \in Tasks, u # t
            PROVE  inv'[u].pc = inv[u].pc /\ inv'[u].settled = inv[u].settled
        BY <1>1, <2>3, <3>1 DEF InvType
      <3> QED BY <2>2, <3>1 DEF AnswerInv, SettledPcs
    <2>5. \A u \in Tasks : Live(u) /\ inv[u].proc # p => Live(u)' /\ inv'[u] = inv[u]
      BY <1>1, <2>1, <2>3 DEF Live, Reaches
    <2>6. \A d \in Copies : copy'[d].at = "unacked" => copy'[d] = copy[d] /\ copy[d].holder # p
      BY <1>1, <2>1 DEF Requeued, CopyType
    <2> HIDE DEF p
    <2> QED BY <2>4, <2>5, <2>6 DEF AnswerInv, Owed
  <1> QED BY <1>2, <1>3

LEMMA OwedFinish ==
  ASSUME AnswerInv, NEW t \in Tasks, inv[t].pc # "idle", NEW pc \in {"unlockRun", "unlockLast"},
         Finish(t, pc)
  PROVE  SettledPcs' /\ Owed'
  <1> DEFINE i == [inv[t] EXCEPT !.pc = pc, !.settled = TRUE]
  <1>1. InvOK(i) /\ i.settled
    BY ZenonT(60) DEF AnswerInv, Sound, Typed, InvsOK, InvOK, InvType, Pcs
  <1>2. Answer(t, i, Out) /\ Out.at # "unacked"
    BY DEF Finish, Out
  <1> HIDE DEF i
  <1> QED BY <1>1, <1>2, OwedAnswer

LEMMA OwedHandle ==
  ASSUME MaxRedisErrors = 0, Undecodable = {}, AnswerInv, NEW t \in Tasks, Handle(t)
  PROVE  SettledPcs' /\ Owed'
  <1>1. /\ InvOK(inv[t]) /\ inv[t] \in InvType /\ inv[t].pc # "idle"
        /\ inv[t].proc \in Procs /\ inv[t].copy \in Copies /\ inv[t].id \in Msgs
        /\ copy[inv[t].copy] \in CopyType
    BY BusyHandle DEF AnswerInv, Sound, Typed, InvsOK, InvOK, CopyOK
  <1>2. ASSUME NEW pc \in Pcs \ {"idle", "unlockRun", "unlockLast"}
        PROVE  LET i == [inv[t] EXCEPT !.pc = pc] IN InvOK(i) /\ Follows(t, i) /\ i.pc = pc
    BY <1>1, PcOK DEF Follows, InvType
  <1>3. ASSUME NEW pc \in Pcs \ {"idle", "unlockRun", "unlockLast"},
               inv' = [inv EXCEPT ![t] = [inv[t] EXCEPT !.pc = pc]], UNCHANGED chan, NoNewUnacked
        PROVE  SettledPcs' /\ Owed'
    <2> DEFINE i == [inv[t] EXCEPT !.pc = pc]
    <2>1. InvOK(i) /\ Follows(t, i) /\ i.pc = pc
      BY <1>2
    <2>2. inv' = [inv EXCEPT ![t] = i]
      BY <1>3
    <2> HIDE DEF i
    <2> QED BY <1>1, <1>3, <2>1, <2>2, OwedFollow
  <1>4. UNCHANGED copy => NoNewUnacked
    BY DEF NoNewUnacked
  <1>5. Follows(t, Idle) /\ InvOK(Idle) /\ Idle.pc = "idle" /\ Out.at # "unacked"
    BY IdleOK DEF Follows, Idle, Out
  <1>6. /\ {AfterLock(inv[t]), AfterRefusal(inv[t]), AfterSchedule(inv[t]), Catch(inv[t])}
             \subseteq Pcs \ {"idle", "unlockRun", "unlockLast"}
    BY DEF AfterLock, AfterRefusal, AfterSchedule, Catch, Pcs
  <1>7. CASE \/ RedisHas(t) \/ RedisSet(t) \/ Decode(t) \/ Fail(t) \/ FreePublishLock(t)
             \/ ReleaseForRetry(t)
    <2>1. PICK pc \in Pcs \ {"idle", "unlockRun", "unlockLast"} : inv' = [inv EXCEPT ![t].pc = pc]
      BY <1>6, <1>7 DEF RedisHas, RedisSet, Decode, Fail, FreePublishLock, ReleaseForRetry,
                        Become, Pcs
    <2>2. inv' = [inv EXCEPT ![t] = [inv[t] EXCEPT !.pc = pc]]
      BY <2>1
    <2>3. UNCHANGED <<copy, chan>>
      BY <1>7 DEF RedisHas, RedisSet, Decode, Fail, FreePublishLock, ReleaseForRetry, Become
    <2> QED BY <1>3, <1>4, <2>2, <2>3
  <1>8. CASE SkipCron(t)
    <2> DEFINE i == [inv[t] EXCEPT !.pc = "next", !.skip = TRUE]
    <2>1. InvOK(i) /\ Follows(t, i) /\ i.pc = "next"
      BY <1>1 DEF InvOK, InvType, Pcs, Follows
    <2>2. inv' = [inv EXCEPT ![t] = i] /\ UNCHANGED <<copy, chan>>
      BY <1>8 DEF SkipCron, Become
    <2> HIDE DEF i
    <2> QED BY <1>1, <1>4, <2>1, <2>2, OwedFollow
  <1>9. CASE RequeueLocked(t) \/ Requeue(t)
    <2>1. CASE RequeueLocked(t)
      <3> DEFINE c == [copy[inv[t].copy] EXCEPT !.at = "schq", !.holder = Nil]
      <3>1. Answer(t, Idle, c) /\ c.at = "schq"
        BY <1>1, <2>1 DEF RequeueLocked, CopyType
      <3> HIDE DEF c
      <3> QED BY <1>1, <1>5, <3>1, OwedAnswer
    <2>2. CASE Requeue(t)
      <3>1. PICK q \in {"schq", "ready"} : Answer(t, Idle, RetryOf(copy[inv[t].copy], q))
        BY <2>2 DEF Requeue
      <3>2. RetryOf(copy[inv[t].copy], q).at = q
        BY <1>1 DEF RetryOf, CopyType
      <3> QED BY <1>1, <1>5, <3>1, <3>2, OwedAnswer
    <2> QED BY <1>9, <2>1, <2>2
  <1>10. CASE DropDuplicate(t) \/ AckSkipped(t) \/ (NoNextCron(t) /\ inv[t].skip)
    <2>1. Answer(t, Idle, Out)
      BY <1>10 DEF DropDuplicate, AckSkipped, NoNextCron
    <2> QED BY <1>1, <1>5, <2>1, OwedAnswer
  <1>11. CASE RejectInactive(t) \/ DeadLetter(t) \/ Succeed(t) \/ (NoNextCron(t) /\ ~inv[t].skip)
    <2>1. PICK pc \in {"unlockRun", "unlockLast"} : Finish(t, pc)
      BY <1>11 DEF RejectInactive, DeadLetter, Succeed, NoNextCron
    <2> QED BY <1>1, <2>1, OwedFinish
  <1>12. CASE NextCron(t)
    <2> DEFINE i == [inv[t] EXCEPT !.next = now + 1]
    <2>1. i \in InvType /\ i.proc \in Procs /\ i.copy \in Copies /\ i.id \in Msgs
      BY <1>1, <1>12, ConstantsAssumption DEF NextCron, AnswerInv, Sound, Typed, InvType, Ticks
    <2>2. inv' = [inv EXCEPT ![t] = Lock(i)] /\ UNCHANGED <<copy, chan>>
      BY <1>12 DEF NextCron
    <2>3. Follows(t, Lock(i)) /\ Lock(i).pc \notin {"idle", "unlockRun", "unlockLast"}
      BY <1>1 DEF Follows, Lock, InvType, AfterRefusal, AfterSchedule, AfterLock
    <2> HIDE DEF i
    <2>4. InvOK(Lock(i))
      BY <2>1, LockOK
    <2> QED BY <1>1, <1>4, <2>2, <2>3, <2>4, OwedFollow
  <1>13. CASE PublishNext(t)
    <2>1. PICK pc \in Pcs \ {"idle", "unlockRun", "unlockLast"} : inv' = [inv EXCEPT ![t].pc = pc]
      BY <1>6, <1>13 DEF PublishNext, Pcs
    <2>2. inv' = [inv EXCEPT ![t] = [inv[t] EXCEPT !.pc = pc]]
      BY <2>1
    <2>3. NoNewUnacked /\ UNCHANGED chan
      BY <1>13 DEF PublishNext, NoNewUnacked, NextExecution, Out, AnswerInv, Sound, Typed, CopyOK
    <2> QED BY <1>3, <2>2, <2>3
  <1>14. CASE EndUnlock(t)
    <2>1. inv' = [inv EXCEPT ![t] = Idle] /\ UNCHANGED <<copy, chan>> /\ inv[t].settled
      BY <1>14 DEF EndUnlock, AnswerInv, SettledPcs
    <2> QED BY <1>1, <1>4, <1>5, <2>1, OwedFollow
  <1>15. ~DecodeFails(t)
    BY DEF DecodeFails
  <1> QED BY <1>7, <1>8, <1>9, <1>10, <1>11, <1>12, <1>13, <1>14, <1>15 DEF Handle

LEMMA OwedDeliver ==
  ASSUME AnswerInv, NEW p \in Procs, NEW c \in Copies, NEW t \in Tasks, Deliver(p, c, t)
  PROVE  SettledPcs' /\ Owed'
  <1> DEFINE i == [Idle EXCEPT !.proc = p, !.copy = c, !.id = copy[c].id,
                               !.attempt = copy[c].attempt, !.current = TRUE]
             j == Lock(i)
  <1>1. /\ i \in InvType /\ i.proc = p /\ i.copy = c /\ i.current /\ ~i.settled
    BY IdleOK DEF Deliver, AnswerInv, Sound, Typed, CopyOK, CopyType, InvOK, InvType, Idle
  <1>2. inv' = [inv EXCEPT ![t] = j] /\ inv[t].pc = "idle" /\ chan' = chan /\ chan[p] = "open"
    BY DEF Deliver
  <1> HIDE DEF i
  <1>3. /\ j.proc = p /\ j.copy = c /\ j.current /\ ~j.settled
        /\ j.pc \notin {"idle", "unlockRun", "unlockLast"}
    BY <1>1 DEF Lock, AfterRefusal, AfterSchedule, AfterLock, InvType
  <1>4. inv'[t] = j /\ \A u \in Tasks : u # t => inv'[u] = inv[u]
    BY <1>2 DEF AnswerInv, Sound, Typed, InvsOK
  <1> HIDE DEF j
  <1>5. Live(t)' /\ \A u \in Tasks : Live(u) => u # t /\ Live(u)'
    BY <1>2, <1>3, <1>4 DEF Live, Reaches
  <1>6. copy'[c].holder = p /\ \A d \in Copies : d # c => copy'[d] = copy[d]
    BY DEF Deliver, AnswerInv, Sound, Typed, CopyOK, CopyType
  <1>7. SettledPcs'
    BY <1>3, <1>4 DEF AnswerInv, SettledPcs
  <1> QED BY <1>3, <1>4, <1>5, <1>6, <1>7 DEF AnswerInv, Owed

LEMMA OwedFault ==
  ASSUME AnswerInv, NEW p \in Procs, Drop(p) \/ Notice(p) \/ Reconnect(p) \/ Crash(p)
  PROVE  SettledPcs' /\ Owed'
  <1>1. /\ inv \in [Tasks -> InvType] /\ chan \in [Procs -> ChanStates]
        /\ copy \in [Copies -> CopyType]
        /\ \A u \in Tasks : inv[u].pc # "idle" => inv[u].copy \in Copies /\ inv[u].proc \in Procs
    BY DEF AnswerInv, Sound, Typed, InvsOK, InvOK, CopyOK
  <1>2. \A u \in Tasks :
          inv'[u] = inv[u] \/ inv'[u] = [inv[u] EXCEPT !.current = FALSE] \/ inv'[u] = Idle
    BY <1>1 DEF Drop, Notice, Reconnect, Crash, Orphaned
  <1>3. SettledPcs'
    <2>1. ASSUME NEW u \in Tasks, inv'[u].pc \in {"unlockRun", "unlockLast"}
          PROVE  inv'[u].settled
      <3>1. inv'[u] # Idle
        BY <2>1 DEF Idle
      <3>2. inv'[u].pc = inv[u].pc /\ inv'[u].settled = inv[u].settled
        BY <1>1, <1>2, <3>1 DEF InvType
      <3> QED BY <2>1, <3>2 DEF AnswerInv, SettledPcs
    <2> QED BY <2>1 DEF SettledPcs
  <1>4. /\ \A u \in Tasks : inv[u].proc # p => inv'[u] = inv[u]
        /\ \A q \in Procs : q # p => chan'[q] = chan[q]
    BY <1>1 DEF Drop, Notice, Reconnect, Crash, Orphaned
  <1>5. \A u \in Tasks : Live(u) /\ inv[u].proc # p => Live(u)' /\ inv'[u] = inv[u]
    BY <1>1, <1>4 DEF Live, Reaches
  <1>6. \A c \in Copies : copy[c].at = "unacked" /\ copy[c].holder = p => chan[p] = "open"
    BY DEF AnswerInv, Owed, Live, Reaches
  <1>7. ASSUME NEW c \in Copies, copy'[c].at = "unacked"
        PROVE  copy'[c] = copy[c] /\ copy[c].holder # p
    <2>1. CASE copy' = Requeued(p)
      BY <1>1, <1>7, <2>1 DEF Requeued, CopyType
    <2>2. CASE copy' = copy /\ chan[p] # "open"
      BY <1>6, <1>7, <2>2
    <2> QED BY <2>1, <2>2 DEF Drop, Notice, Reconnect, Crash
  <1> QED BY <1>3, <1>5, <1>7 DEF AnswerInv, Owed

LEMMA OwedDropBeforeRetry ==
  ASSUME AnswerInv, NEW t \in Tasks, DropBeforeRetry(t)
  PROVE  SettledPcs' /\ Owed'
  <1> DEFINE p == inv[t].proc
  <1>1. /\ inv \in [Tasks -> InvType] /\ chan \in [Procs -> ChanStates]
        /\ copy \in [Copies -> CopyType]
    BY DEF AnswerInv, Sound, Typed, InvsOK, CopyOK
  <1>2. /\ inv' = [inv EXCEPT ![t] = Idle] /\ chan' = [chan EXCEPT ![p] = "lost"]
        /\ copy' = [Requeued(p) EXCEPT ![inv[t].copy] = Out]
    BY DEF DropBeforeRetry
  <1>3. inv'[t] = Idle /\ \A u \in Tasks : u # t => inv'[u] = inv[u]
    BY <1>1, <1>2
  <1>4. SettledPcs'
    BY <1>3 DEF AnswerInv, SettledPcs, Idle
  <1>5. \A u \in Tasks : Live(u) /\ inv[u].proc # p => u # t /\ Live(u)'
    BY <1>1, <1>2, <1>3 DEF Live, Reaches
  <1>6. \A c \in Copies : copy'[c].at = "unacked" => copy'[c] = copy[c] /\ copy[c].holder # p
    BY <1>1, <1>2 DEF Requeued, CopyType, Out
  <1> HIDE DEF p
  <1> QED BY <1>3, <1>4, <1>5, <1>6 DEF AnswerInv, Owed

LEMMA AnswerNext ==
  ASSUME MaxRedisErrors = 0, Undecodable = {}, AnswerInv, [Next]_vars
  PROVE  AnswerInv'
  <1>1. Sound'
    BY NextSound DEF AnswerInv
  <1>2. ASSUME NEW t \in Tasks, RedisError(t) PROVE FALSE
    BY <1>2 DEF RedisError, Spend, AnswerInv, Sound, Typed, Faults
  <1>3. ASSUME \/ \E m \in Ordinary : Publish(m)
               \/ \E c \in Copies : Expire(c)
               \/ Tick \/ LockExpires \/ UNCHANGED vars
        PROVE  SettledPcs' /\ Owed'
    <2>1. UNCHANGED <<inv, chan>>
      BY <1>3 DEF Publish, Expire, Tick, LockExpires, vars
    <2>2. NoNewUnacked
      BY ZenonT(60), <1>3 DEF Publish, Expire, Tick, LockExpires, vars, NoNewUnacked, Out,
                  AnswerInv, Sound, Typed, CopyOK, CopyType
    <2> QED BY <2>1, <2>2, OwedSame
  <1>4. SettledPcs' /\ Owed'
    BY <1>2, <1>3, OwedHandle, OwedDeliver, OwedFault, OwedDropBeforeRetry, NextMoves DEF Moves, AnswerInv
  <1> QED BY <1>1, <1>4 DEF AnswerInv

(* Every path out of processorHandler ends the delivery: as long as messages    *)
(* decode and no Redis command rejects, an unanswered delivery on an open       *)
(* channel always has an invocation of that channel that will answer it.        *)
THEOREM EveryPathAnswers ==
  ASSUME MaxRedisErrors = 0, Undecodable = {}
  PROVE  Spec => []DeliveryAnswered
  <1>1. Init => AnswerInv
    <2> SUFFICES ASSUME Init PROVE AnswerInv
      OBVIOUS
    <2>1. \A c \in Copies : copy[c].at # "unacked"
      <3> SUFFICES ASSUME NEW c \in Copies PROVE copy[c].at # "unacked"
        OBVIOUS
      <3>1. PICK slot \in [Crons -> Copies] :
              copy = [d \in Copies |->
                        IF \E m \in Crons : slot[m] = d
                        THEN [Out EXCEPT !.at = "cronq", !.due = 1,
                                         !.id = CHOOSE m \in Crons : slot[m] = d]
                        ELSE Out]
        BY DEF Init
      <3>2. CASE \E m \in Crons : slot[m] = c
        <4> DEFINE m == CHOOSE m \in Crons : slot[m] = c
        <4>1. copy[c] = [Out EXCEPT !.at = "cronq", !.due = 1, !.id = m]
          BY <3>1, <3>2
        <4> HIDE DEF m
        <4> QED BY <4>1 DEF Out
      <3>3. CASE ~\E m \in Crons : slot[m] = c
        BY <3>1, <3>3 DEF Out
      <3> QED BY <3>2, <3>3
    <2>2. \A t \in Tasks : inv[t].pc = "idle"
      BY DEF Init, Idle
    <2> QED BY <2>1, <2>2, InitSound DEF AnswerInv, SettledPcs, Owed
  <1>2. AnswerInv /\ [Next]_vars => AnswerInv'
    BY AnswerNext
  <1>3. AnswerInv => DeliveryAnswered
    BY DEF AnswerInv, Owed, DeliveryAnswered, Live, Reaches
  <1> QED BY <1>1, <1>2, <1>3, PTL DEF Spec

-------------------------------------------------------------------------------
(* The shared lock. An invocation that acquires one has not skipped its message.*)
Taking == \A t \in Tasks : /\ inv[t].pc = "decode" => ~inv[t].skip
                           /\ inv[t].pc \in {"has", "set"} /\ inv[t].next = 0 => ~inv[t].skip

Ends(i) == Holds(i) \/ i.pc \in {"requeue", "unlockRun", "unlockLast"}
SharedInv == Sound /\ Taking /\ SharedLockOwned

(* What a step of an invocation makes of the shared lock of its message.        *)
Steps(t) ==
    /\ Others(t)
    /\ inv'[t].pc = "decode" => ~inv'[t].skip
    /\ inv'[t].pc \in {"has", "set"} /\ inv'[t].next = 0 => ~inv'[t].skip
    /\ inv[t].id \notin Undecodable /\ Ends(inv[t]) /\ MsgKey(inv[t].id) \in redis'
       => Ends(inv'[t]) /\ inv'[t].id = inv[t].id
    /\ \A m \in Msgs : MsgKey(m) \in redis' /\ MsgKey(m) \notin redis => Ends(inv'[t]) /\ inv'[t].id = m

LEMMA SharedHandle ==
  ASSUME SharedInv, NEW t \in Tasks, Handle(t)
  PROVE  Steps(t)
  <1>1. /\ InvOK(inv[t]) /\ inv[t] \in InvType /\ inv[t].pc # "idle" /\ inv \in [Tasks -> InvType]
        /\ inv[t].proc \in Procs /\ inv[t].id \in Msgs
        /\ inv[t].pc = "decode" => ~inv[t].skip
        /\ inv[t].pc \in {"has", "set"} /\ inv[t].next = 0 => ~inv[t].skip
    BY BusyHandle DEF SharedInv, Taking, Sound, Typed, InvsOK, InvOK
  <1>2. ASSUME NEW i, inv' = [inv EXCEPT ![t] = i] PROVE Others(t) /\ inv'[t] = i
    BY <1>1, <1>2 DEF Others, SameLock
  <1>3. ASSUME NEW pc, inv' = [inv EXCEPT ![t].pc = pc] \/ inv' = [inv EXCEPT ![t] = [inv[t] EXCEPT !.pc = pc]]
        PROVE  /\ Others(t) /\ inv'[t].pc = pc /\ inv'[t].id = inv[t].id
               /\ inv'[t].next = inv[t].next /\ inv'[t].skip = inv[t].skip
    <2>1. PICK i : i = [inv[t] EXCEPT !.pc = pc]
      OBVIOUS
    <2>2. i.pc = pc /\ i.id = inv[t].id /\ i.next = inv[t].next /\ i.skip = inv[t].skip
      BY <1>1, <2>1 DEF InvType
    <2>3. inv' = [inv EXCEPT ![t] = i]
      BY <1>3, <2>1
    <2> QED BY <1>2, <2>2, <2>3
  <1>4. Idle.pc = "idle" /\ InvOK(Idle)
    BY IdleOK DEF Idle
  <1>5. ASSUME NEW c, Answer(t, Idle, c) PROVE Others(t) /\ inv'[t].pc = "idle"
    <2>1. SameLock(inv'[t], Idle)
      BY <1>1, <1>4, <1>5, AnswerLock DEF SharedInv
    <2>2. Others(t)
      BY <1>1, <1>4, <1>5, AnswerLock DEF SharedInv
    <2> QED BY <1>4, <2>1, <2>2 DEF SameLock
  <1>6. ASSUME NEW pc \in {"unlockRun", "unlockLast"}, Finish(t, pc)
        PROVE  Others(t) /\ inv'[t].pc = pc /\ inv'[t].id = inv[t].id
    <2>1. PICK i : i = [inv[t] EXCEPT !.pc = pc, !.settled = TRUE]
      OBVIOUS
    <2>2. InvOK(i) /\ i.pc = pc /\ i.id = inv[t].id
      BY <1>1, <2>1 DEF InvOK, InvType, Pcs
    <2>3. Answer(t, i, Out)
      BY <1>6, <2>1 DEF Finish
    <2>4. SameLock(inv'[t], i) /\ Others(t)
      BY <1>1, <2>2, <2>3, AnswerLock DEF SharedInv
    <2> QED BY <2>2, <2>4 DEF SameLock
  <1>7. CASE RedisHas(t)
    <2>1. redis' = redis /\ inv[t].pc = "has"
      BY <1>7 DEF RedisHas
    <2>2. PICK pc \in {"set", AfterRefusal(inv[t])} : inv' = [inv EXCEPT ![t].pc = pc]
      BY <1>7 DEF RedisHas
    <2> QED BY <1>1, <1>3, <2>1, <2>2 DEF Steps, Ends, Holds, AfterRefusal, AfterSchedule
  <1>8. CASE RedisSet(t)
    <2>1. redis' = redis \union {Key(inv[t])} /\ inv[t].pc = "set"
      BY <1>8 DEF RedisSet
    <2>2. inv' = [inv EXCEPT ![t].pc = AfterLock(inv[t])]
      BY <1>8 DEF RedisSet
    <2>3. ASSUME NEW m \in Msgs, MsgKey(m) \in redis', MsgKey(m) \notin redis
          PROVE  m = inv[t].id /\ inv[t].next = 0
      BY <2>1, <2>3 DEF Key, MsgKey
    <2> QED BY ZenonT(60), <1>1, <1>3, <2>1, <2>2, <2>3 DEF Steps, Ends, Holds, AfterLock
  <1>9. CASE SkipCron(t)
    <2>1. PICK i : i = [inv[t] EXCEPT !.pc = "next", !.skip = TRUE]
      OBVIOUS
    <2>2. inv' = [inv EXCEPT ![t] = i] /\ inv[t].pc = "locked" /\ redis' = redis
      BY <1>9, <2>1 DEF SkipCron, Become
    <2>3. i.pc = "next"
      BY <1>1, <2>1 DEF InvType
    <2>4. Others(t) /\ inv'[t] = i
      BY <1>2, <2>2
    <2> QED BY <2>2, <2>3, <2>4 DEF Steps, Ends, Holds
  <1>10. CASE RequeueLocked(t) \/ DropDuplicate(t) \/ AckSkipped(t)
    <2>1. (\E c : Answer(t, Idle, c)) /\ inv[t].pc \in {"locked", "ackSkipped"} /\ redis' = redis
      BY <1>10 DEF RequeueLocked, LockedRetry, DropDuplicate, AckSkipped
    <2> QED BY <1>5, <2>1 DEF Steps, Ends, Holds
  <1>11. CASE DecodeFails(t)
    <2>1. inv' = [inv EXCEPT ![t] = Idle] /\ inv[t].id \in Undecodable /\ redis' = redis
      BY <1>11 DEF DecodeFails, Become
    <2> QED BY <1>2, <1>4, <2>1 DEF Steps
  <1>12. CASE RejectInactive(t) \/ DeadLetter(t) \/ Succeed(t)
    <2>1. (\E pc \in {"unlockRun", "unlockLast"} : Finish(t, pc)) /\ redis' = redis
      BY <1>12 DEF RejectInactive, DeadLetter, Succeed
    <2> QED BY <1>6, <2>1 DEF Steps, Ends, Holds
  <1>13. CASE Decode(t) \/ Fail(t)
    <2>1. redis' = redis /\ inv[t].pc \in {"decode", "run"}
      BY <1>13 DEF Decode, Fail, Become
    <2>2. PICK pc \in {"next", "run", "onerror", "onerrorLast"} :
              /\ inv' = [inv EXCEPT ![t] = [inv[t] EXCEPT !.pc = pc]]
              /\ pc = "next" => inv[t].pc = "decode"
      BY <1>13 DEF Decode, Fail, Become, Catch
    <2> QED BY <1>1, <1>3, <2>1, <2>2 DEF Steps, Ends, Holds
  <1>14. CASE ReleaseForRetry(t)
    <2>1. redis' = redis /\ inv' = [inv EXCEPT ![t].pc = "requeue"]
      BY <1>14 DEF ReleaseForRetry
    <2> QED BY <1>3, <2>1 DEF Steps, Ends, Holds
  <1>15. CASE NextCron(t)
    <2>0. inv[t].pc = "next" /\ now < LastTick /\ redis' = redis
      BY <1>15 DEF NextCron
    <2>1. PICK i : i = [inv[t] EXCEPT !.next = now + 1]
      OBVIOUS
    <2>2. now + 1 # 0 /\ now + 1 \in Ticks
      BY <2>0, ConstantsAssumption DEF SharedInv, Sound, Typed, Ticks
    <2>3. /\ i \in InvType /\ i.pc = "next" /\ i.id = inv[t].id
          /\ i.next # 0 /\ i.skip = inv[t].skip
      BY <1>1, <2>0, <2>1, <2>2 DEF InvType
    <2>4. PICK pc \in {AfterRefusal(i), "has", AfterLock(i)} : Lock(i) = [i EXCEPT !.pc = pc]
      BY DEF Lock
    <2>5. PICK j : j = Lock(i)
      OBVIOUS
    <2>6. j.pc = pc /\ j.next = i.next /\ j.skip = i.skip /\ j.id = i.id
      BY <2>3, <2>4, <2>5 DEF InvType
    <2>7. inv' = [inv EXCEPT ![t] = j]
      BY <1>15, <2>1, <2>5 DEF NextCron
    <2>8. Others(t) /\ inv'[t] = j
      BY <1>2, <2>7
    <2> QED BY <2>0, <2>3, <2>4, <2>6, <2>8 DEF Steps, Ends, Holds, AfterRefusal, AfterLock, AfterSchedule
  <1>16. CASE NoNextCron(t)
    <2>1. inv[t].pc = "next" /\ redis' = redis
      BY <1>16 DEF NoNextCron
    <2>2. CASE inv[t].skip
      <3>1. Answer(t, Idle, Out)
        BY <1>16, <2>2 DEF NoNextCron
      <3> QED BY <1>5, <2>1, <2>2, <3>1 DEF Steps, Ends, Holds
    <2>3. CASE ~inv[t].skip
      <3>1. Finish(t, "unlockLast")
        BY <1>16, <2>3 DEF NoNextCron
      <3> QED BY <1>6, <2>1, <3>1 DEF Steps, Ends, Holds
    <2> QED BY <2>2, <2>3
  <1>17. CASE PublishNext(t) \/ FreePublishLock(t)
    <2>1. redis' \subseteq redis /\ inv[t].pc \in {"publish", "freed"}
      BY <1>17 DEF PublishNext, FreePublishLock
    <2>2. PICK pc \in {AfterSchedule(inv[t]), "freed"} : inv' = [inv EXCEPT ![t].pc = pc]
      BY <1>17 DEF PublishNext, FreePublishLock
    <2> QED BY <1>1, <1>3, <2>1, <2>2 DEF Steps, Ends, Holds, AfterSchedule
  <1>18. CASE Requeue(t)
    <2>1. (\E c : Answer(t, Idle, c)) /\ redis' = redis \ {MsgKey(inv[t].id)}
      BY <1>18 DEF Requeue
    <2> QED BY <1>5, <2>1 DEF Steps, Ends, Holds
  <1>19. CASE EndUnlock(t)
    <2>1. inv' = [inv EXCEPT ![t] = Idle] /\ redis' = redis \ {MsgKey(inv[t].id)}
      BY <1>19 DEF EndUnlock
    <2> QED BY <1>2, <1>4, <2>1 DEF Steps
  <1> QED BY <1>7, <1>8, <1>9, <1>10, <1>11, <1>12, <1>13, <1>14, <1>15, <1>16, <1>17, <1>18, <1>19
          DEF Handle

LEMMA SharedDeliver ==
  ASSUME SharedInv, NEW p \in Procs, NEW c \in Copies, NEW t \in Tasks, Deliver(p, c, t)
  PROVE  Steps(t) /\ UNCHANGED spent
  <1>1. PICK i : i = [Idle EXCEPT !.proc = p, !.copy = c, !.id = copy[c].id,
                                  !.attempt = copy[c].attempt, !.current = TRUE]
    OBVIOUS
  <1>2. inv[t].pc = "idle" /\ inv' = [inv EXCEPT ![t] = Lock(i)] /\ UNCHANGED <<redis, spent>>
    BY <1>1 DEF Deliver
  <1>3. ~i.skip /\ i.next = 0
    BY <1>1 DEF Idle
  <1>4. PICK j : j = Lock(i)
    OBVIOUS
  <1>5. ~j.skip
    BY <1>1, <1>4 DEF Lock, Idle
  <1>6. Others(t) /\ inv'[t] = j
    BY <1>2, <1>4 DEF Others, SameLock, SharedInv, Sound, Typed, InvsOK
  <1> QED BY <1>2, <1>5, <1>6 DEF Steps, Ends, Holds

LEMMA SharedDropBeforeRetry ==
  ASSUME SharedInv, NEW t \in Tasks, DropBeforeRetry(t)
  PROVE  Steps(t) /\ spent'["crashes"] = spent["crashes"] /\ spent'["redisErrors"] = spent["redisErrors"]
  <1>1. Others(t) /\ inv'[t] = Idle
    BY DEF DropBeforeRetry, Others, SameLock, SharedInv, Sound, Typed, InvsOK
  <1>2. inv[t].pc = "requeue" => redis' = redis \ {MsgKey(inv[t].id)}
    BY DEF DropBeforeRetry
  <1>3. inv[t].pc # "requeue" => inv[t].pc = "locked"
    BY DEF DropBeforeRetry, LockedRetry
  <1>4. redis' \subseteq redis
    BY DEF DropBeforeRetry
  <1>5. spent'["crashes"] = spent["crashes"] /\ spent'["redisErrors"] = spent["redisErrors"]
    BY DEF DropBeforeRetry, Spend, SharedInv, Sound, Typed, Faults
  <1>6. Idle.pc = "idle"
    BY DEF Idle
  <1> QED BY <1>1, <1>2, <1>3, <1>4, <1>5, <1>6 DEF Steps, Ends, Holds

(* A step of an invocation, within its own lock.                                *)
LEMMA SharedSteps ==
  ASSUME SharedInv, NEW t \in Tasks, Steps(t),
         spent'["crashes"] = spent["crashes"] /\ spent'["redisErrors"] = spent["redisErrors"]
  PROVE  Taking' /\ SharedLockOwned'
  <1>1. \A u \in Tasks : u # t => SameLock(inv'[u], inv[u])
    BY DEF Steps, Others
  <1>2. Taking'
    BY <1>1 DEF Steps, Taking, SameLock, SharedInv
  <1>3. ASSUME NEW m \in Msgs \ Undecodable, MsgKey(m) \in redis', spent'["crashes"] = 0, spent'["redisErrors"] = 0
        PROVE  \E u \in Tasks : inv'[u].id = m /\ Ends(inv'[u])
    <2>1. CASE MsgKey(m) \in redis
      <3>1. PICK u \in Tasks : inv[u].id = m /\ Ends(inv[u])
        BY <1>3, <2>1 DEF SharedInv, SharedLockOwned, Ends
      <3>2. CASE u = t
        BY <1>3, <3>1, <3>2 DEF Steps
      <3>3. CASE u # t
        <4>1. SameLock(inv'[u], inv[u])
          BY <1>1, <3>3
        <4>2. Ends(inv'[u]) /\ inv'[u].id = m
          BY <3>1, <4>1, SameHolds DEF Ends, SameLock
        <4> QED BY <4>2
      <3> QED BY <3>2, <3>3
    <2>2. CASE MsgKey(m) \notin redis
      BY <1>3, <2>2 DEF Steps
    <2> QED BY <2>1, <2>2
  <1> QED BY <1>2, <1>3 DEF SharedLockOwned, Ends

LEMMA SharedNext == SharedInv /\ [Next]_vars => SharedInv'
  <1> SUFFICES ASSUME SharedInv, [Next]_vars PROVE Taking' /\ SharedLockOwned'
    BY NextSound DEF SharedInv
  <1>0. inv \in [Tasks -> InvType] /\ spent \in [Faults -> Nat]
    BY DEF SharedInv, Sound, Typed, InvsOK
  <1>1. ASSUME \A u \in Tasks : SameLock(inv'[u], inv[u]), redis' \subseteq redis,
               spent'["crashes"] = spent["crashes"], spent'["redisErrors"] = spent["redisErrors"]
        PROVE  Taking' /\ SharedLockOwned'
    <2>1. Taking'
      BY <1>1 DEF Taking, SameLock, SharedInv
    <2>2. \A u \in Tasks : Ends(inv[u]) => Ends(inv'[u]) /\ inv'[u].id = inv[u].id
      BY <1>1, SameHolds DEF Ends, SameLock
    <2>3. ASSUME NEW m \in Msgs \ Undecodable, MsgKey(m) \in redis', spent'["crashes"] = 0, spent'["redisErrors"] = 0
          PROVE  \E u \in Tasks : inv'[u].id = m /\ Ends(inv'[u])
      <3>1. PICK u \in Tasks : inv[u].id = m /\ Ends(inv[u])
        BY <1>1, <2>3 DEF SharedInv, SharedLockOwned, Ends
      <3> QED BY <2>2, <3>1
    <2> QED BY <2>1, <2>3 DEF SharedLockOwned, Ends
  <1>2. ASSUME UNCHANGED <<inv, redis>>,
               spent'["crashes"] = spent["crashes"], spent'["redisErrors"] = spent["redisErrors"]
        PROVE  Taking' /\ SharedLockOwned'
    BY <1>1, <1>2 DEF SameLock
  <1>3. CASE UNCHANGED vars
    BY <1>2, <1>3 DEF vars
  <1>4. CASE \E m \in Ordinary : Publish(m)
    BY <1>2, <1>4 DEF Publish
  <1>5. CASE (\E c \in Copies : Expire(c)) \/ Tick
    BY <1>2, <1>5 DEF Expire, Tick
  <1>6. CASE LockExpires
    BY <1>0, <1>1, <1>6 DEF LockExpires, Spend, Faults, SameLock
  <1>7. CASE \E p \in Procs : Drop(p) \/ Reconnect(p)
    BY <1>0, <1>2, <1>7 DEF Drop, Reconnect, Spend, Faults
  <1>8. CASE \E p \in Procs : Notice(p)
    <2>1. UNCHANGED <<redis, spent>>
      BY <1>8 DEF Notice
    <2>2. ASSUME NEW u \in Tasks PROVE SameLock(inv'[u], inv[u])
      <3>1. inv'[u] = inv[u] \/ inv'[u] = [inv[u] EXCEPT !.current = FALSE]
        BY <1>8 DEF Notice, Orphaned
      <3> QED BY <1>0, <3>1 DEF SameLock, InvType
    <2> QED BY <1>1, <2>1, <2>2
  <1>9. ASSUME spent'["crashes"] # 0 \/ spent'["redisErrors"] # 0,
               \A u \in Tasks : inv'[u] = Idle \/ inv'[u] = inv[u] \/ (inv'[u].pc \in {"onerror", "onerrorLast"})
        PROVE  Taking' /\ SharedLockOwned'
    <2>1. Taking'
      BY <1>9 DEF Taking, SharedInv, Idle
    <2> QED BY <1>9, <2>1 DEF SharedLockOwned
  <1>10. ASSUME NEW p \in Procs, Crash(p) PROVE Taking' /\ SharedLockOwned'
    <2>1. spent'["crashes"] # 0
      BY <1>0, <1>10 DEF Crash, Spend, Faults
    <2>2. \A u \in Tasks : inv'[u] = Idle \/ inv'[u] = inv[u]
      BY <1>10 DEF Crash
    <2> QED BY <1>9, <2>1, <2>2
  <1>11. ASSUME NEW t \in Tasks, RedisError(t) PROVE Taking' /\ SharedLockOwned'
    <2>1. spent'["redisErrors"] # 0
      BY <1>0, <1>11 DEF RedisError, Spend, Faults
    <2>2. \A u \in Tasks : u # t => inv'[u] = inv[u]
      BY <1>0, <1>11 DEF RedisError
    <2>3. inv'[t] = Idle \/ inv'[t].pc \in {"onerror", "onerrorLast"}
      <3>1. PICK pc \in {"onerror", "onerrorLast"} :
                inv' = [inv EXCEPT ![t] = Idle] \/ inv' = [inv EXCEPT ![t].pc = pc]
        BY <1>11 DEF RedisError, Catch
      <3> QED BY <1>0, <3>1 DEF InvType
    <2> QED BY <1>9, <2>1, <2>2, <2>3
  <1>12. ASSUME NEW t \in Tasks, Handle(t) PROVE Taking' /\ SharedLockOwned'
    <2>1. UNCHANGED spent
      BY <1>12 DEF Handle, RedisHas, RedisSet, SkipCron, RequeueLocked, DropDuplicate, DecodeFails,
             RejectInactive, Decode, NextCron, NoNextCron, PublishNext, FreePublishLock, AckSkipped,
             Succeed, Fail, ReleaseForRetry, Requeue, DeadLetter, EndUnlock, Become
    <2> QED BY <1>12, <2>1, SharedHandle, SharedSteps
  <1>13. ASSUME NEW p \in Procs, NEW c \in Copies, NEW t \in Tasks, Deliver(p, c, t)
         PROVE  Taking' /\ SharedLockOwned'
    BY <1>13, SharedDeliver, SharedSteps
  <1>14. ASSUME NEW t \in Tasks, DropBeforeRetry(t) PROVE Taking' /\ SharedLockOwned'
    BY <1>14, SharedDropBeforeRetry, SharedSteps
  <1> QED BY <1>3, <1>4, <1>5, <1>6, <1>7, <1>8, <1>10, <1>11, <1>12, <1>13, <1>14, NextMoves
      DEF Moves, SharedInv

(* The shared lock of a message is not leaked either: while no process ends     *)
(* and Redis answers, a key in the shared cache is of a message that some       *)
(* invocation of some process is handling, or is just letting go of.            *)
THEOREM SharedLockIsOwned == Spec => []SharedLockOwned
  <1>1. Init => Taking /\ SharedLockOwned
    <2>1. Init => redis = {} /\ \A t \in Tasks : inv[t] = Idle
      BY ZenonT(60) DEF Init
    <2> QED BY <2>1 DEF Taking, SharedLockOwned, Idle
  <1>2. SharedInv => SharedLockOwned
    BY DEF SharedInv
  <1>3. Init => SharedInv
    BY <1>1, InitSound DEF SharedInv
  <1> QED BY <1>2, <1>3, SharedNext, PTL DEF Spec
===============================================================================
