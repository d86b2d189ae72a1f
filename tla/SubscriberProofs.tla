--------------------------- MODULE SubscriberProofs ---------------------------
(* What holds of Subscriber for every value of its constants.                   *)
EXTENDS Subscriber, TLAPS

-------------------------------------------------------------------------------
(* Type correctness. The conjuncts of TypeOK on copies and invocations.         *)
CopyOK == /\ copy \in [Copies -> CopyType]
          /\ \A c \in Copies : copy[c].at # "out" => copy[c].id \in Msgs

InvOK(i) == /\ i \in InvType
            /\ i.pc # "idle" => i.proc \in Procs /\ i.copy \in Copies /\ i.id \in Msgs

InvsOK == /\ inv \in [Tasks -> InvType]
          /\ \A t \in Tasks : InvOK(inv[t])

LEMMA IdleOK == InvOK(Idle)
  BY ConstantsAssumption DEF InvOK, InvType, Idle, Pcs, Ticks

LEMMA PcOK ==
  ASSUME NEW i, InvOK(i), i.pc # "idle", NEW pc \in Pcs
  PROVE  InvOK([i EXCEPT !.pc = pc])
  BY DEF InvOK, InvType

(* An action that replaces one invocation.                                      *)
LEMMA ReplaceOK ==
  ASSUME InvsOK, NEW t \in Tasks, NEW i, InvOK(i), inv' = [inv EXCEPT ![t] = i]
  PROVE  InvsOK'
  BY DEF InvsOK, InvOK

LEMMA LockOK ==
  ASSUME NEW i, i \in InvType, i.proc \in Procs, i.copy \in Copies, i.id \in Msgs
  PROVE  InvOK(Lock(i))
  BY DEF InvOK, InvType, Lock, AfterRefusal, AfterLock, AfterSchedule, Pcs

LEMMA LockLocalOK ==
  ASSUME NEW i, i \in InvType, i.proc \in Procs, i.id \in Msgs, local \in [Procs -> SUBSET Keys]
  PROVE  LockLocal(i) \in [Procs -> SUBSET Keys]
  BY DEF InvType, LockLocal, Key, Keys

LEMMA UnlockOK ==
  ASSUME NEW p \in Procs, NEW key, local \in [Procs -> SUBSET Keys]
  PROVE  Unlock(p, key) \in [Procs -> SUBSET Keys]
  BY DEF Unlock

(* Ending a delivery, or the channel with it, keeps the types.                  *)
LEMMA RequeuedOK ==
  ASSUME CopyOK, NEW p \in Procs, copy' = Requeued(p)
  PROVE  CopyOK'
  BY DEF Requeued, CopyOK, CopyType, Places

LEMMA OrphanedOK ==
  ASSUME InvsOK, NEW p \in Procs
  PROVE  /\ Orphaned(p) \in [Tasks -> InvType]
         /\ \A t \in Tasks : InvOK(Orphaned(p)[t])
  BY ZenonT(60) DEF Orphaned, InvsOK, InvOK, InvType

(* An invocation whose answer will reach the broker.                            *)
Live(t) == inv[t].pc # "idle" /\ ~inv[t].settled /\ Reaches(t)

(* An answer leaves a well-typed copy, or none.                                 *)
CopyRecOK(c) == c \in CopyType /\ (c.at # "out" => c.id \in Msgs)

LEMMA OutOK == CopyRecOK(Out)
  BY ConstantsAssumption DEF CopyRecOK, CopyType, Out, Places, Ticks

LEMMA RetryOK ==
  ASSUME NEW c, CopyRecOK(c), c.id \in Msgs, NEW q \in {"schq", "ready"}
  PROVE  CopyRecOK(RetryOf(c, q))
  <1>1. c.attempt + 1 \in Nat
    BY DEF CopyRecOK, CopyType
  <1> QED BY <1>1 DEF CopyRecOK, CopyType, Places, RetryOf

LEMMA AnswerOK ==
  ASSUME CopyOK, InvsOK, chan \in [Procs -> ChanStates],
         NEW t \in Tasks, NEW i, InvOK(i), NEW c, Live(t) => CopyRecOK(c),
         inv[t].pc # "idle", Answer(t, i, c)
  PROVE  CopyOK' /\ InvsOK' /\ (chan \in [Procs -> ChanStates])'
  <1>1. inv[t].proc \in Procs /\ inv[t].copy \in Copies
    BY DEF InvsOK, InvOK
  <1>2. CASE Refused(t)
    <2>1. CopyOK'
      BY <1>1, <1>2, RequeuedOK DEF Answer
    <2>2. InvsOK'
      <3> DEFINE j == [i EXCEPT !.current = FALSE]
      <3>1. InvOK(j) /\ j \in InvType
        BY DEF InvOK, InvType
      <3>2. inv' = [Orphaned(inv[t].proc) EXCEPT ![t] = j]
        BY <1>2 DEF Answer
      <3>3. /\ Orphaned(inv[t].proc) \in [Tasks -> InvType]
            /\ \A u \in Tasks : InvOK(Orphaned(inv[t].proc)[u])
        BY <1>1, OrphanedOK
      <3> HIDE DEF j
      <3> QED BY <3>1, <3>2, <3>3 DEF InvsOK
    <2> QED BY <1>1, <1>2, <2>1, <2>2 DEF Answer, ChanStates
  <1>3. CASE ~Refused(t)
    <2>1. CopyOK'
      BY <1>1, <1>3 DEF Answer, CopyOK, CopyRecOK, Live, Refused
    <2>2. InvsOK'
      BY <1>3, ReplaceOK DEF Answer
    <2> QED BY <1>3, <2>1, <2>2 DEF Answer
  <1> QED BY <1>2, <1>3

Typed == /\ CopyOK /\ InvsOK
         /\ chan \in [Procs -> ChanStates]
         /\ local \in [Procs -> SUBSET Keys]
         /\ redis \in SUBSET Keys
         /\ now \in Ticks
         /\ published \in [Ordinary -> Nat]
         /\ ended \in SUBSET Msgs
         /\ spent \in [Faults -> Nat]

LEMMA TypeParts == TypeOK <=> Typed
  BY DEF Typed, TypeOK, CopyOK, InvsOK, InvOK

LEMMA TypeInit == Init => TypeOK
  <1> SUFFICES ASSUME Init PROVE Typed
    BY TypeParts
  <1>1. PICK slot \in [Crons -> Copies] :
          copy = [c \in Copies |->
                    IF \E m \in Crons : slot[m] = c
                    THEN [Out EXCEPT !.at = "cronq", !.due = 1,
                                     !.id = CHOOSE m \in Crons : slot[m] = c]
                    ELSE Out]
    BY DEF Init
  <1>2. CopyOK
    <2> SUFFICES ASSUME NEW c \in Copies PROVE CopyRecOK(copy[c])
      BY <1>1 DEF CopyOK, CopyRecOK
    <2>1. CASE \E m \in Crons : slot[m] = c
      <3> DEFINE m == CHOOSE m \in Crons : slot[m] = c
      <3>1. m \in Crons /\ Crons # {}
        BY <2>1
      <3>2. copy[c] = [Out EXCEPT !.at = "cronq", !.due = 1, !.id = m]
        BY <1>1, <2>1
      <3> HIDE DEF m
      <3>3. m \in Msgs /\ 1 \in Ticks
        BY <3>1, ConstantsAssumption DEF Ticks
      <3> QED BY <3>2, <3>3, OutOK DEF CopyRecOK, CopyType, Places
    <2>2. CASE ~\E m \in Crons : slot[m] = c
      BY <1>1, <2>2, OutOK
    <2> QED BY <2>1, <2>2
  <1>3. InvsOK
    BY IdleOK DEF Init, InvsOK, InvOK
  <1>4. now \in Ticks
    <2>1. 0 \in Ticks
      BY ConstantsAssumption DEF Ticks
    <2>2. now = 0
      BY DEF Init
    <2> QED BY <2>1, <2>2
  <1>5. chan \in [Procs -> ChanStates] /\ local \in [Procs -> SUBSET Keys]
    BY DEF Init, ChanStates
  <1>6. /\ redis \in SUBSET Keys /\ ended \in SUBSET Msgs
        /\ published \in [Ordinary -> Nat] /\ spent \in [Faults -> Nat]
    BY DEF Init
  <1> QED BY <1>2, <1>3, <1>4, <1>5, <1>6 DEF Typed

-------------------------------------------------------------------------------
(* Deliveries. An answer that reaches the broker settles the delivery that the  *)
(* invocation was started for, whatever was lost and delivered again since: an  *)
(* invocation of an earlier channel is not current, and no two invocations of   *)
(* one channel have the same delivery. (Type correctness needs this: a retry    *)
(* is a copy of the delivered message, which has to be there.)                  *)
Deliveries ==
    /\ \A t \in Tasks : Live(t) => /\ copy[inv[t].copy].at = "unacked"
                                   /\ copy[inv[t].copy].holder = inv[t].proc
                                   /\ copy[inv[t].copy].id = inv[t].id
    /\ \A t, u \in Tasks : t # u /\ Live(t) /\ Live(u) => inv[t].copy # inv[u].copy
    /\ \A t \in Tasks : inv[t].current => inv[t].pc # "idle" /\ chan[inv[t].proc] # "closed"

Sound == Typed /\ Deliveries

(* What a step of invocation t makes of it, short of an answer.                 *)
Follows(t, i) ==
    \/ i = Idle
    \/ /\ i.pc # "idle" /\ i.proc = inv[t].proc /\ i.copy = inv[t].copy /\ i.id = inv[t].id
       /\ i.current = inv[t].current /\ i.settled = inv[t].settled

(* ... and with one.                                                            *)
Settles(t, i) ==
    \/ i = Idle
    \/ /\ i.pc # "idle" /\ i.proc = inv[t].proc /\ i.copy = inv[t].copy /\ i.id = inv[t].id
       /\ i.current = inv[t].current /\ i.settled

UnackedKept == \A c \in Copies : copy[c].at = "unacked" => copy'[c] = copy[c]

LEMMA KeepDeliveries ==
  ASSUME Typed, Deliveries, UNCHANGED <<inv, chan>>, UnackedKept
  PROVE  Deliveries'
  BY DEF Typed, InvsOK, InvOK, Deliveries, UnackedKept, Live, Reaches

LEMMA FollowDeliveries ==
  ASSUME Typed, Deliveries, NEW t \in Tasks, NEW i, InvOK(i), Follows(t, i),
         inv[t].pc # "idle", inv' = [inv EXCEPT ![t] = i], UNCHANGED chan, UnackedKept
  PROVE  Deliveries'
  <1>1. \A u \in Tasks : u # t => inv'[u] = inv[u]
    BY DEF Typed, InvsOK
  <1>2. inv'[t] = i
    BY DEF Typed, InvsOK
  <1>3. ~Idle.current /\ Idle.pc = "idle"
    BY DEF Idle
  <1>4. \A u \in Tasks : Live(u)' => Live(u) /\ inv'[u].copy = inv[u].copy
                                     /\ inv'[u].proc = inv[u].proc /\ inv'[u].id = inv[u].id
    BY <1>1, <1>2, <1>3 DEF Live, Reaches, Follows
  <1>5. \A u \in Tasks : inv[u].pc # "idle" => inv[u].copy \in Copies
    BY DEF Typed, InvsOK, InvOK
  <1>6. \A u \in Tasks : inv'[u].current => /\ inv'[u].pc # "idle" /\ inv[u].current
                                            /\ inv'[u].proc = inv[u].proc
    BY <1>1, <1>2, <1>3 DEF Follows, Deliveries
  <1>7. \A u \in Tasks : Live(u) => inv[u].pc # "idle"
    BY DEF Live
  <1> QED BY <1>4, <1>5, <1>6, <1>7 DEF Deliveries, UnackedKept

LEMMA AnswerDeliveries ==
  ASSUME Typed, Deliveries, NEW t \in Tasks, NEW i, InvOK(i), NEW c, inv[t].pc # "idle",
         Settles(t, i),
         Answer(t, i, c)
  PROVE  Deliveries'
  <1>1. ~Idle.current /\ Idle.pc = "idle"
    BY DEF Idle
  <1>2. /\ inv \in [Tasks -> InvType] /\ chan \in [Procs -> ChanStates]
        /\ copy \in [Copies -> CopyType]
        /\ \A u \in Tasks : inv[u].pc # "idle" => inv[u].copy \in Copies /\ inv[u].proc \in Procs
    BY DEF Typed, InvsOK, InvOK, CopyOK
  <1>3. CASE ~Refused(t)
    <2>1. inv' = [inv EXCEPT ![t] = i] /\ chan' = chan
          /\ copy' = IF Reaches(t) THEN [copy EXCEPT ![inv[t].copy] = c] ELSE copy
      BY <1>3 DEF Answer
    <2>2. \A u \in Tasks : u # t => inv'[u] = inv[u]
      BY <1>2, <2>1
    <2>3. inv'[t] = i
      BY <1>2, <2>1
    <2>4. ~Live(t)'
      BY <1>1, <2>3 DEF Live, Settles
    <2>5. \A u \in Tasks : Live(u)' => u # t /\ Live(u)
      BY <2>1, <2>2, <2>4 DEF Live, Reaches
    <2>6. ASSUME NEW u \in Tasks, u # t, Live(u) PROVE copy'[inv[u].copy] = copy[inv[u].copy]
      <3>1. CASE Reaches(t)
        <4>1. Live(t)
          BY <1>3, <3>1 DEF Live, Refused
        <4>2. inv[u].copy # inv[t].copy
          BY <2>6, <4>1 DEF Deliveries
        <4> QED BY <1>2, <2>1, <2>6, <4>2 DEF Live
      <3>2. CASE ~Reaches(t)
        BY <2>1, <3>2
      <3> QED BY <3>1, <3>2
    <2>7. \A u \in Tasks : inv'[u].current => /\ inv'[u].pc # "idle" /\ inv[u].current
                                              /\ inv'[u].proc = inv[u].proc
      BY <1>1, <2>2, <2>3 DEF Deliveries, Settles
    <2> QED BY <2>1, <2>2, <2>5, <2>6, <2>7 DEF Deliveries
  <1>4. CASE Refused(t)
    <2> DEFINE p == inv[t].proc
    <2>1. copy' = Requeued(p) /\ chan' = [chan EXCEPT ![p] = "refused"]
          /\ inv' = [Orphaned(p) EXCEPT ![t] = [i EXCEPT !.current = FALSE]]
      BY <1>4 DEF Answer
    <2>2. ~inv'[t].current
      BY <1>2, <2>1 DEF Orphaned, InvOK, InvType
    <2>3. \A u \in Tasks : u # t => inv'[u] = IF inv[u].proc = p
                                              THEN [inv[u] EXCEPT !.current = FALSE] ELSE inv[u]
      BY <2>1 DEF Orphaned
    <2>4. \A u \in Tasks : inv'[u].current => u # t /\ inv[u].proc # p /\ inv'[u] = inv[u]
      BY <1>2, <2>2, <2>3 DEF InvType
    <2>5. \A q \in Procs : q # p => chan'[q] = chan[q]
      BY <1>2, <2>1
    <2>6. \A u \in Tasks : Live(u)' => /\ Live(u) /\ inv'[u] = inv[u]
                                       /\ inv[u].proc # p
      BY <1>2, <2>4, <2>5 DEF Live, Reaches
    <2>7. \A d \in Copies : copy[d].holder # p => copy'[d] = copy[d]
      BY <2>1 DEF Requeued
    <2>8. \A u \in Tasks : Live(u) => inv[u].pc # "idle"
      BY DEF Live
    <2> HIDE DEF p
    <2> QED BY <1>2, <2>4, <2>5, <2>6, <2>7, <2>8 DEF Deliveries
  <1> QED BY <1>3, <1>4

LEMMA SpendOK ==
  ASSUME spent \in [Faults -> Nat], NEW f \in Faults, NEW bound, Spend(f, bound)
  PROVE  spent' \in [Faults -> Nat]
  BY DEF Spend

LEMMA FinishOK ==
  ASSUME Sound, NEW t \in Tasks, inv[t].pc # "idle", NEW pc \in Pcs \ {"idle"}, Finish(t, pc)
  PROVE  /\ CopyOK' /\ InvsOK' /\ (chan \in [Procs -> ChanStates])'
         /\ (local \in [Procs -> SUBSET Keys])' /\ Deliveries'
  <1> DEFINE i == [inv[t] EXCEPT !.pc = pc, !.settled = TRUE]
  <1>1. InvOK(i) /\ inv[t].proc \in Procs /\ inv[t] \in InvType
    BY DEF Sound, Typed, InvsOK, InvOK, InvType
  <1>2. Answer(t, i, Out)
    BY DEF Finish
  <1>3. local' \in [Procs -> SUBSET Keys]
    BY <1>1, UnlockOK DEF Finish, Sound, Typed
  <1>4. Settles(t, i)
    BY <1>1 DEF Settles, InvType
  <1> HIDE DEF i
  <1>5. CopyOK' /\ InvsOK' /\ (chan \in [Procs -> ChanStates])'
    BY <1>1, <1>2, OutOK, AnswerOK DEF Sound, Typed
  <1>6. Deliveries'
    BY <1>1, <1>2, <1>4, AnswerDeliveries DEF Sound
  <1> QED BY <1>3, <1>5, <1>6

(* The steps that answer nothing.                                               *)
LEMMA FollowOK ==
  ASSUME Sound, NEW t \in Tasks, inv[t].pc # "idle", NEW i, InvOK(i), Follows(t, i),
         inv' = [inv EXCEPT ![t] = i], CopyOK', UnackedKept,
         local' \in [Procs -> SUBSET Keys], redis' \in SUBSET Keys,
         UNCHANGED <<chan, now, published, ended>>, spent' \in [Faults -> Nat]
  PROVE  Sound'
  <1>1. InvsOK'
    BY ReplaceOK DEF Sound, Typed
  <1>2. Deliveries'
    BY FollowDeliveries DEF Sound
  <1> QED BY <1>1, <1>2 DEF Sound, Typed

LEMMA UnchangedCopy == ASSUME CopyOK, UNCHANGED copy PROVE CopyOK' /\ UnackedKept
  BY DEF CopyOK, UnackedKept

LEMMA BusyHandle == ASSUME NEW t, Handle(t) PROVE inv[t].pc # "idle"
  BY DEF Handle, RedisHas, RedisSet, SkipCron, RequeueLocked, LockedRetry, DropDuplicate,
         DecodeFails, RejectInactive, Decode, NextCron, NoNextCron, PublishNext,
         FreePublishLock, AckSkipped, Succeed, Fail, ReleaseForRetry, Requeue, DeadLetter,
         EndUnlock

LEMMA HandleSound ==
  ASSUME Sound, NEW t \in Tasks, Handle(t)
  PROVE  Sound'
  <1> DEFINE p == inv[t].proc
  <1>1. /\ InvOK(inv[t]) /\ inv[t] \in InvType /\ inv[t].pc # "idle"
        /\ p \in Procs /\ inv[t].copy \in Copies /\ inv[t].id \in Msgs
    BY BusyHandle DEF Sound, Typed, InvsOK, InvOK
  <1>2. Key(inv[t]) \in Keys /\ MsgKey(inv[t].id) \in Keys
    BY <1>1, ConstantsAssumption DEF Key, MsgKey, Keys, InvType, Ticks
  <1>3. ASSUME NEW pc \in Pcs \ {"idle"}
        PROVE  InvOK([inv[t] EXCEPT !.pc = pc]) /\ Follows(t, [inv[t] EXCEPT !.pc = pc])
    BY <1>1, PcOK DEF Follows, InvType
  <1>4. Live(t) => CopyRecOK(copy[inv[t].copy]) /\ copy[inv[t].copy].id \in Msgs
    BY <1>1 DEF Sound, Typed, Deliveries, CopyOK, CopyRecOK
  <1>5. /\ CopyOK /\ local \in [Procs -> SUBSET Keys] /\ redis \in SUBSET Keys
        /\ spent \in [Faults -> Nat] /\ ended \in SUBSET Msgs
        /\ DeadLettered(t) \in SUBSET Msgs
        /\ \A key : Unlock(p, key) \in [Procs -> SUBSET Keys]
    BY <1>1, UnlockOK DEF Sound, Typed, DeadLettered
  <1>6. UNCHANGED copy => CopyOK' /\ UnackedKept
    BY <1>5, UnchangedCopy
  <1>7. Follows(t, Idle)
    BY DEF Follows
  <1>8. /\ {AfterLock(inv[t]), AfterRefusal(inv[t]), AfterSchedule(inv[t])} \subseteq Pcs \ {"idle"}
        /\ Catch(inv[t]) \in Pcs \ {"idle"}
    BY DEF AfterLock, AfterRefusal, AfterSchedule, Catch, Pcs
  <1>9. ASSUME NEW c, Live(t) => CopyRecOK(c), Answer(t, Idle, c),
               UNCHANGED <<local, now, published, ended, spent>>, redis' \in SUBSET Keys
        PROVE  Sound'
    <2>1. CopyOK' /\ InvsOK' /\ (chan \in [Procs -> ChanStates])'
      BY <1>1, <1>9, IdleOK, AnswerOK DEF Sound, Typed
    <2>2. Settles(t, Idle)
      BY DEF Settles
    <2>3. Deliveries'
      BY <1>1, <1>9, <2>2, IdleOK, AnswerDeliveries DEF Sound
    <2> QED BY <1>9, <2>1, <2>3 DEF Sound, Typed
  <1>10. ASSUME NEW pc \in Pcs \ {"idle"}, Finish(t, pc), UNCHANGED <<redis, now, published, spent>>,
                ended' \in SUBSET Msgs
         PROVE  Sound'
    <2>1. /\ CopyOK' /\ InvsOK' /\ (chan \in [Procs -> ChanStates])'
          /\ (local \in [Procs -> SUBSET Keys])' /\ Deliveries'
      BY <1>1, <1>10, FinishOK
    <2> QED BY <1>10, <2>1 DEF Sound, Typed
  <1>11. ASSUME NEW i, InvOK(i), Follows(t, i), inv' = [inv EXCEPT ![t] = i], CopyOK', UnackedKept,
                local' \in [Procs -> SUBSET Keys], redis' \in SUBSET Keys,
                UNCHANGED <<chan, now, published, ended, spent>>
         PROVE  Sound'
    BY <1>1, <1>5, <1>11, FollowOK
  <1>12. CASE RedisHas(t)
    <2>1. local' \in [Procs -> SUBSET Keys]
      BY <1>1, <1>2, <1>5, <1>12 DEF RedisHas
    <2>2. PICK pc \in Pcs \ {"idle"} : inv' = [inv EXCEPT ![t].pc = pc]
      BY <1>8, <1>12 DEF RedisHas, Pcs
    <2>3. inv' = [inv EXCEPT ![t] = [inv[t] EXCEPT !.pc = pc]]
      BY <2>2
    <2> QED BY <1>3, <1>5, <1>6, <1>11, <1>12, <2>1, <2>3 DEF RedisHas
  <1>13. CASE RedisSet(t)
    <2>1. inv' = [inv EXCEPT ![t] = [inv[t] EXCEPT !.pc = AfterLock(inv[t])]]
      BY <1>13 DEF RedisSet
    <2>2. redis' \in SUBSET Keys
      BY <1>2, <1>5, <1>13 DEF RedisSet
    <2> QED BY <1>3, <1>5, <1>6, <1>8, <1>11, <1>13, <2>1, <2>2 DEF RedisSet
  <1>14. CASE SkipCron(t) \/ DecodeFails(t) \/ Decode(t) \/ Fail(t)
    <2>1. PICK i : InvOK(i) /\ Follows(t, i) /\ Become(t, i)
      <3>1. CASE SkipCron(t)
        <4>1. InvOK([inv[t] EXCEPT !.pc = "next", !.skip = TRUE])
          BY <1>1 DEF InvOK, InvType, Pcs
        <4>2. Follows(t, [inv[t] EXCEPT !.pc = "next", !.skip = TRUE])
          BY <1>1 DEF Follows, InvType
        <4> QED BY <3>1, <4>1, <4>2 DEF SkipCron
      <3>2. CASE DecodeFails(t)
        BY <1>7, <3>2, IdleOK DEF DecodeFails
      <3>3. CASE Decode(t)
        BY <1>3, <3>3 DEF Decode, Pcs
      <3>4. CASE Fail(t)
        BY <1>3, <1>8, <3>4 DEF Fail
      <3> QED BY <1>14, <3>1, <3>2, <3>3, <3>4
    <2> QED BY <1>5, <1>6, <1>11, <2>1 DEF Become
  <1>15. CASE RequeueLocked(t) \/ DropDuplicate(t) \/ AckSkipped(t)
    <2> DEFINE r == [copy[inv[t].copy] EXCEPT !.at = "schq", !.holder = Nil]
    <2>1. Live(t) => CopyRecOK(r)
      BY <1>4 DEF CopyRecOK, CopyType, Places
    <2>2. Answer(t, Idle, r) \/ Answer(t, Idle, Out)
      BY <1>15 DEF RequeueLocked, DropDuplicate, AckSkipped
    <2>3. UNCHANGED <<local, redis, now, published, ended, spent>>
      BY <1>15 DEF RequeueLocked, DropDuplicate, AckSkipped
    <2> HIDE DEF r
    <2> QED BY <1>5, <1>9, <2>1, <2>2, <2>3, OutOK
  <1>16. CASE RejectInactive(t) \/ DeadLetter(t)
    <2>1. Finish(t, "unlockLast") /\ ended' \in SUBSET Msgs
          /\ UNCHANGED <<redis, now, published, spent>>
      BY <1>5, <1>16 DEF RejectInactive, DeadLetter
    <2> QED BY <1>10, <2>1 DEF Pcs
  <1>17. CASE Succeed(t)
    <2>1. Finish(t, "unlockRun") /\ ended' \in SUBSET Msgs
          /\ UNCHANGED <<redis, now, published, spent>>
      BY <1>1, <1>5, <1>17 DEF Succeed
    <2> QED BY <1>10, <2>1 DEF Pcs
  <1>18. CASE NextCron(t)
    <2> DEFINE i == [inv[t] EXCEPT !.next = now + 1]
    <2>1. i \in InvType /\ i.proc \in Procs /\ i.copy \in Copies /\ i.id \in Msgs
      BY <1>1, <1>18, ConstantsAssumption DEF NextCron, Sound, Typed, InvType, Ticks
    <2>2. inv' = [inv EXCEPT ![t] = Lock(i)] /\ local' = LockLocal(i)
      BY <1>18 DEF NextCron
    <2>3. Follows(t, Lock(i))
      BY <1>1 DEF Follows, Lock, InvType, AfterRefusal, AfterSchedule, AfterLock
    <2> HIDE DEF i
    <2>4. InvOK(Lock(i)) /\ LockLocal(i) \in [Procs -> SUBSET Keys]
      BY <1>5, <2>1, LockOK, LockLocalOK
    <2> QED BY <1>5, <1>6, <1>11, <1>18, <2>2, <2>3, <2>4 DEF NextCron
  <1>19. CASE NoNextCron(t)
    <2>1. CASE inv[t].skip
      BY <1>5, <1>9, <1>19, <2>1, OutOK DEF NoNextCron
    <2>2. CASE ~inv[t].skip
      BY <1>5, <1>10, <1>19, <2>2 DEF NoNextCron, Pcs
    <2> QED BY <2>1, <2>2
  <1>20. CASE PublishNext(t)
    <2>1. CopyRecOK(NextExecution(inv[t]))
      BY <1>1, ConstantsAssumption DEF CopyRecOK, NextExecution, CopyType, InvType, Out, Places
    <2>2. CopyOK' /\ UnackedKept
      <3>1. CASE Reaches(t)
        <4>1. PICK c \in Copies : copy[c].at = "out"
                                  /\ copy' = [copy EXCEPT ![c] = NextExecution(inv[t])]
          BY <1>20, <3>1 DEF PublishNext
        <4> QED BY <1>5, <2>1, <4>1 DEF CopyOK, CopyRecOK, UnackedKept
      <3>2. CASE ~Reaches(t)
        BY <1>6, <1>20, <3>2 DEF PublishNext
      <3> QED BY <3>1, <3>2
    <2>3. PICK pc \in Pcs \ {"idle"} : inv' = [inv EXCEPT ![t].pc = pc]
      BY <1>8, <1>20 DEF PublishNext, Pcs
    <2>4. inv' = [inv EXCEPT ![t] = [inv[t] EXCEPT !.pc = pc]]
      BY <2>3
    <2>5. local' \in [Procs -> SUBSET Keys]
      BY <1>5, <1>20 DEF PublishNext
    <2> QED BY <1>3, <1>5, <1>11, <1>20, <2>2, <2>4, <2>5 DEF PublishNext
  <1>21. CASE FreePublishLock(t)
    <2>1. inv' = [inv EXCEPT ![t] = [inv[t] EXCEPT !.pc = AfterSchedule(inv[t])]]
      BY <1>21 DEF FreePublishLock
    <2>2. redis' \in SUBSET Keys
      BY <1>5, <1>21 DEF FreePublishLock
    <2> QED BY <1>3, <1>5, <1>6, <1>8, <1>11, <1>21, <2>1, <2>2 DEF FreePublishLock
  <1>22. CASE ReleaseForRetry(t)
    <2>1. inv' = [inv EXCEPT ![t] = [inv[t] EXCEPT !.pc = "requeue"]]
      BY <1>22 DEF ReleaseForRetry
    <2> QED BY <1>3, <1>5, <1>6, <1>11, <1>22, <2>1 DEF ReleaseForRetry, Pcs
  <1>23. CASE Requeue(t)
    <2>1. PICK q \in {"schq", "ready"} : Answer(t, Idle, RetryOf(copy[inv[t].copy], q))
      BY <1>23 DEF Requeue
    <2>2. Live(t) => CopyRecOK(RetryOf(copy[inv[t].copy], q))
      BY <1>4, RetryOK
    <2>3. redis' \in SUBSET Keys /\ UNCHANGED <<local, now, published, ended, spent>>
      BY <1>5, <1>23 DEF Requeue
    <2> QED BY <1>9, <2>1, <2>2, <2>3
  <1>24. CASE EndUnlock(t)
    <2>1. redis' \in SUBSET Keys
      BY <1>5, <1>24 DEF EndUnlock
    <2> QED BY <1>5, <1>6, <1>7, <1>11, <1>24, <2>1, IdleOK DEF EndUnlock
  <1> QED BY <1>12, <1>13, <1>14, <1>15, <1>16, <1>17, <1>18, <1>19, <1>20, <1>21, <1>22,
             <1>23, <1>24 DEF Handle

(* The broker's own steps.                                                      *)
LEMMA BrokerSound ==
  ASSUME Sound
  PROVE  /\ \A m \in Ordinary : Publish(m) => Sound'
         /\ \A c \in Copies : Expire(c) => Sound'
         /\ Tick => Sound'
         /\ \A p \in Procs, c \in Copies, t \in Tasks : Deliver(p, c, t) => Sound'
  <1>1. ASSUME NEW m \in Ordinary, Publish(m) PROVE Sound'
    <2>1. PICK c \in Copies : /\ copy[c].at = "out"
                              /\ copy' = [copy EXCEPT ![c] = [Out EXCEPT !.at = "ready", !.id = m]]
      BY <1>1 DEF Publish
    <2>2. CopyOK' /\ UnackedKept
      BY <2>1, OutOK DEF Sound, Typed, CopyOK, CopyRecOK, CopyType, Places, Ordinary, UnackedKept
    <2>3. Deliveries'
      BY <1>1, <2>2, KeepDeliveries DEF Publish, Sound
    <2> QED BY <1>1, <2>2, <2>3 DEF Publish, Sound, Typed, InvsOK
  <1>2. ASSUME NEW c \in Copies, Expire(c) PROVE Sound'
    <2>1. CopyOK' /\ UnackedKept
      BY <1>2 DEF Expire, Sound, Typed, CopyOK, CopyType, Places, UnackedKept
    <2>2. Deliveries'
      BY <1>2, <2>1, KeepDeliveries DEF Expire, Sound
    <2> QED BY <1>2, <2>1, <2>2 DEF Expire, Sound, Typed, InvsOK
  <1>3. ASSUME Tick PROVE Sound'
    <2>1. now' \in Ticks
      BY <1>3, ConstantsAssumption DEF Tick, Sound, Typed, Ticks
    <2>2. CopyOK' /\ Deliveries'
      BY <1>3, UnchangedCopy, KeepDeliveries DEF Tick, Sound, Typed
    <2> QED BY <1>3, <2>1, <2>2 DEF Tick, Sound, Typed, InvsOK
  <1>4. ASSUME NEW p \in Procs, NEW c \in Copies, NEW t \in Tasks, Deliver(p, c, t) PROVE Sound'
    <2> DEFINE i == [Idle EXCEPT !.proc = p, !.copy = c, !.id = copy[c].id,
                                 !.attempt = copy[c].attempt, !.current = TRUE]
    <2>1. i \in InvType /\ i.proc \in Procs /\ i.copy \in Copies /\ i.id \in Msgs
      BY <1>4, IdleOK DEF Deliver, Sound, Typed, CopyOK, CopyType, InvOK, InvType, Idle
    <2>2. inv' = [inv EXCEPT ![t] = Lock(i)] /\ local' = LockLocal(i)
      BY <1>4 DEF Deliver
    <2>3. /\ CopyOK' /\ copy'[c].at = "unacked" /\ copy'[c].holder = p /\ copy'[c].id = copy[c].id
          /\ \A d \in Copies : d # c => copy'[d] = copy[d]
      BY <1>4 DEF Deliver, Sound, Typed, CopyOK, CopyType, Places
    <2>4. /\ Lock(i).proc = p /\ Lock(i).copy = c /\ Lock(i).id = copy[c].id
          /\ Lock(i).pc # "idle"
      BY <2>1 DEF Lock, InvType, AfterRefusal, AfterSchedule, AfterLock
    <2> HIDE DEF i
    <2>5. InvsOK'
      BY <2>1, <2>2, LockOK, ReplaceOK DEF Sound, Typed
    <2>6. local' \in [Procs -> SUBSET Keys]
      BY <2>1, <2>2, LockLocalOK DEF Sound, Typed
    <2>7. /\ inv'[t] = Lock(i) /\ (\A u \in Tasks : u # t => inv'[u] = inv[u])
          /\ chan' = chan /\ chan[p] = "open" /\ copy[c].at = "ready"
      BY <1>4, <2>2 DEF Deliver, Sound, Typed, InvsOK
    <2>8. \A u \in Tasks : u # t => Live(u)' = Live(u)
      BY <2>7 DEF Live, Reaches
    <2>9. \A u \in Tasks : Live(u) => inv[u].copy # c /\ inv[u].copy \in Copies
      BY <2>7 DEF Sound, Typed, Deliveries, Live, InvsOK, InvOK
    <2>10. Deliveries'
      BY <2>3, <2>4, <2>7, <2>8, <2>9 DEF Deliveries, Sound
    <2> QED BY <1>4, <2>3, <2>5, <2>6, <2>10 DEF Deliver, Sound, Typed
  <1> QED BY <1>1, <1>2, <1>3, <1>4

(* The connection's and the process's faults.                                   *)
LEMMA FaultSound ==
  ASSUME Sound, NEW p \in Procs, Drop(p) \/ Notice(p) \/ Reconnect(p) \/ Crash(p)
  PROVE  Sound'
  <1>1. CopyOK'
    <2>1. copy' = Requeued(p) \/ copy' = copy
      BY DEF Drop, Notice, Reconnect, Crash
    <2> QED BY <2>1, RequeuedOK DEF Sound, Typed, CopyOK
  <1>2. InvsOK'
    <2>1. CASE inv' = Orphaned(p)
      BY <2>1, OrphanedOK DEF Sound, Typed, InvsOK
    <2>2. CASE inv' = [t \in Tasks |-> IF inv[t].proc = p THEN Idle ELSE inv[t]]
      BY <2>2, IdleOK DEF Sound, Typed, InvsOK, InvOK
    <2>3. CASE UNCHANGED inv
      BY <2>3 DEF Sound, Typed, InvsOK
    <2> QED BY <2>1, <2>2, <2>3 DEF Drop, Notice, Reconnect, Crash
  <1>3. chan' \in [Procs -> ChanStates] /\ local' \in [Procs -> SUBSET Keys]
    BY DEF Drop, Notice, Reconnect, Crash, Sound, Typed, ChanStates
  <1>4. spent' \in [Faults -> Nat]
    BY SpendOK DEF Drop, Notice, Reconnect, Crash, Sound, Typed, Faults
  <1>5. /\ inv \in [Tasks -> InvType] /\ chan \in [Procs -> ChanStates]
        /\ \A u \in Tasks : inv[u].pc # "idle" => inv[u].copy \in Copies /\ inv[u].proc \in Procs
    BY DEF Sound, Typed, InvsOK, InvOK
  <1>6. /\ \A q \in Procs : q # p => chan'[q] = chan[q]
        /\ chan'[p] = "open" => chan[p] = "closed"
        /\ chan'[p] = "closed" => chan[p] = "lost" \/ Crash(p)
    BY <1>5 DEF Drop, Notice, Reconnect, Crash
  <1>7. \A u \in Tasks :
          inv'[u] = inv[u] \/ inv'[u] = [inv[u] EXCEPT !.current = FALSE] \/ inv'[u] = Idle
    BY <1>5 DEF Drop, Notice, Reconnect, Crash, Orphaned
  <1>8. \A u \in Tasks : inv'[u].current => inv'[u] = inv[u]
    <2>1. ASSUME NEW u \in Tasks PROVE ~[inv[u] EXCEPT !.current = FALSE].current /\ ~Idle.current
      BY <1>5 DEF InvType, Idle
    <2> QED BY <1>7, <2>1
  <1>9. \A u \in Tasks : inv'[u].current /\ inv[u].proc = p => Drop(p)
    <2>1. ASSUME NEW u \in Tasks, inv'[u].current, inv[u].proc = p PROVE Drop(p)
      <3>1. inv[u].current /\ chan[p] # "closed"
        BY <1>8, <2>1 DEF Sound, Deliveries
      <3>2. ~Reconnect(p)
        BY <3>1 DEF Reconnect
      <3>3. ~Crash(p)
        BY <2>1 DEF Crash, Idle
      <3>4. ~Notice(p)
        BY <1>5, <2>1 DEF Notice, Orphaned, InvType
      <3> QED BY <3>2, <3>3, <3>4
    <2> QED BY <2>1
  <1>10. Drop(p) => chan'[p] = "lost"
    BY <1>5 DEF Drop
  <1>11. \A u \in Tasks : Live(u)' => Live(u) /\ inv'[u] = inv[u] /\ inv[u].proc # p
    BY <1>5, <1>6, <1>8, <1>9, <1>10 DEF Live, Reaches
  <1>12. \A c \in Copies : copy[c].holder # p => copy'[c] = copy[c]
    BY DEF Drop, Notice, Reconnect, Crash, Requeued, Sound, Typed, CopyOK
  <1>13. \A u \in Tasks : inv'[u].current => /\ inv'[u].pc # "idle"
                                             /\ chan'[inv'[u].proc] # "closed"
    BY <1>5, <1>6, <1>8, <1>9, <1>10 DEF Sound, Deliveries
  <1>14. \A u \in Tasks : Live(u) => inv[u].pc # "idle"
    BY DEF Live
  <1>15. Deliveries'
    BY <1>5, <1>11, <1>12, <1>13, <1>14 DEF Sound, Deliveries
  <1>16. redis' \in SUBSET Keys /\ UNCHANGED <<now, published, ended>>
    BY DEF Drop, Notice, Reconnect, Crash, Sound, Typed
  <1> QED BY <1>1, <1>2, <1>3, <1>4, <1>15, <1>16 DEF Sound, Typed

(* The invocation's.                                                            *)
LEMMA RedisErrorSound ==
  ASSUME Sound, NEW t \in Tasks, RedisError(t)
  PROVE  Sound'
  <1>1. inv[t].pc # "idle" /\ InvOK(inv[t]) /\ inv[t] \in InvType
    BY DEF RedisError, OutsideTry, Sound, Typed, InvsOK
  <1>2. PICK i : InvOK(i) /\ Follows(t, i) /\ inv' = [inv EXCEPT ![t] = i]
    <2>1. CASE inv[t].pc = "unlockRun"
      <3> DEFINE i == [inv[t] EXCEPT !.pc = Catch(inv[t])]
      <3>1. InvOK(i)
        BY <1>1, PcOK DEF Catch, Pcs
      <3>2. Follows(t, i)
        BY <1>1 DEF Follows, InvType, Catch
      <3>3. inv' = [inv EXCEPT ![t] = i]
        BY <2>1 DEF RedisError
      <3> QED BY <3>1, <3>2, <3>3
    <2>2. CASE inv[t].pc # "unlockRun"
      BY <2>2, IdleOK DEF RedisError, Follows
    <2> QED BY <2>1, <2>2
  <1>3. spent' \in [Faults -> Nat]
    BY SpendOK DEF RedisError, Sound, Typed, Faults
  <1>4. CopyOK' /\ UnackedKept
    BY UnchangedCopy DEF RedisError, Sound, Typed
  <1>5. local' \in [Procs -> SUBSET Keys] /\ redis' \in SUBSET Keys
        /\ UNCHANGED <<chan, now, published, ended>>
    BY DEF RedisError, Sound, Typed
  <1> QED BY <1>1, <1>2, <1>3, <1>4, <1>5, FollowOK

LEMMA DropBeforeRetrySound ==
  ASSUME Sound, NEW t \in Tasks, DropBeforeRetry(t)
  PROVE  Sound'
  <1> DEFINE p == inv[t].proc
             q == [Requeued(p) EXCEPT ![inv[t].copy] = Out]
  <1>1. /\ p \in Procs /\ inv[t].id \in Msgs /\ inv[t].pc # "idle" /\ Live(t)
    BY DEF DropBeforeRetry, LockedRetry, Sound, Typed, InvsOK, InvOK, Live, Refused
  <1>2. copy' = q /\ inv' = [inv EXCEPT ![t] = Idle] /\ chan' = [chan EXCEPT ![p] = "lost"]
    BY DEF DropBeforeRetry
  <1>3. \A c \in Copies : CopyRecOK(q[c])
    BY OutOK DEF Sound, Typed, Requeued, CopyOK, CopyRecOK, CopyType, Places
  <1>4. q \in [Copies -> CopyType]
    BY <1>3 DEF CopyRecOK, Requeued
  <1>5. \A c \in Copies : copy[c].holder # p /\ c # inv[t].copy => q[c] = copy[c]
    BY DEF Requeued
  <1> HIDE DEF q
  <1>6. CopyOK'
    BY <1>2, <1>3, <1>4 DEF CopyOK, CopyRecOK
  <1>7. InvsOK'
    BY <1>2, IdleOK, ReplaceOK DEF Sound, Typed
  <1>8. chan' \in [Procs -> ChanStates]
    BY <1>1, <1>2 DEF Sound, Typed, ChanStates
  <1>9. redis' \in SUBSET Keys /\ UNCHANGED <<local, now, published, ended>>
    BY DEF DropBeforeRetry, Sound, Typed
  <1>10. spent' \in [Faults -> Nat]
    BY SpendOK DEF DropBeforeRetry, Sound, Typed, Faults
  <1>11. /\ inv'[t] = Idle /\ ~Idle.current
         /\ \A u \in Tasks : u # t => inv'[u] = inv[u]
         /\ \A u \in Tasks : inv[u].pc # "idle" => inv[u].copy \in Copies /\ inv[u].proc \in Procs
         /\ chan'[p] = "lost" /\ \A r \in Procs : r # p => chan'[r] = chan[r]
    BY <1>1, <1>2 DEF Sound, Typed, InvsOK, InvOK, Idle
  <1>12. \A u \in Tasks : Live(u)' => u # t /\ Live(u) /\ inv[u].proc # p
    BY <1>11 DEF Live, Reaches
  <1>13. \A u \in Tasks : Live(u)' => copy'[inv[u].copy] = copy[inv[u].copy]
    BY <1>1, <1>2, <1>5, <1>11, <1>12 DEF Sound, Deliveries, Live
  <1>14. \A u \in Tasks : inv'[u].current => u # t /\ inv[u].current
    BY <1>11
  <1>15. Deliveries'
    BY <1>11, <1>12, <1>13, <1>14 DEF Sound, Deliveries
  <1> QED BY <1>6, <1>7, <1>8, <1>9, <1>10, <1>15 DEF Sound, Typed

LEMMA LockExpiresSound ==
  ASSUME Sound, LockExpires
  PROVE  Sound'
  <1>1. local' \in [Procs -> SUBSET Keys] /\ redis' \in SUBSET Keys
    BY UnlockOK DEF LockExpires, Sound, Typed
  <1>2. spent' \in [Faults -> Nat]
    BY SpendOK DEF LockExpires, Sound, Typed, Faults
  <1>3. CopyOK' /\ Deliveries'
    BY UnchangedCopy, KeepDeliveries DEF LockExpires, Sound, Typed
  <1> QED BY <1>1, <1>2, <1>3 DEF LockExpires, Sound, Typed, InvsOK

LEMMA InitSound == Init => Sound
  <1> SUFFICES ASSUME Init PROVE Deliveries
    BY TypeInit, TypeParts DEF Sound
  <1>1. \A t \in Tasks : inv[t].pc = "idle" /\ ~inv[t].current
    BY DEF Init, Idle
  <1> QED BY <1>1 DEF Deliveries, Live

(* The steps of the system. One that ends a process by a rejection is a crash   *)
(* of it.                                                                       *)
Moves ==
    \/ \E m \in Ordinary : Publish(m)
    \/ \E c \in Copies : Expire(c)
    \/ Tick
    \/ \E p \in Procs, c \in Copies, t \in Tasks : Deliver(p, c, t)
    \/ \E t \in Tasks : Handle(t) \/ RedisError(t) \/ DropBeforeRetry(t)
    \/ \E p \in Procs : Drop(p) \/ Notice(p) \/ Reconnect(p) \/ Crash(p)
    \/ LockExpires

LEMMA NextMoves ==
  ASSUME Sound, Next
  PROVE  Moves
  <1>1. ASSUME NEW t \in Tasks, EndedByRejection(t) PROVE \E p \in Procs : Crash(p)
    <2>1. inv[t].pc # "idle"
      BY <1>1 DEF EndedByRejection, Escapes, OutsideTry
    <2>2. inv[t].proc \in Procs
      BY <2>1 DEF Sound, Typed, InvsOK, InvOK
    <2> QED BY <1>1, <2>2 DEF EndedByRejection
  <1> QED BY <1>1 DEF Next, Moves

LEMMA NextSound == Sound /\ [Next]_vars => Sound'
  <1> SUFFICES ASSUME Sound, [Next]_vars PROVE Sound'
    OBVIOUS
  <1>1. CASE UNCHANGED vars
    <2>1. CopyOK' /\ Deliveries'
      BY <1>1, UnchangedCopy, KeepDeliveries DEF vars, Sound, Typed
    <2> QED BY <1>1, <2>1 DEF vars, Sound, Typed, InvsOK
  <1> QED BY <1>1, BrokerSound, HandleSound, RedisErrorSound, DropBeforeRetrySound, FaultSound,
             LockExpiresSound, NextMoves DEF Moves

(* Type correctness of the consumer side, for every set of processes, messages, *)
(* copies and invocations, and every bound on the faults.                       *)
THEOREM TypeCorrect == Spec => []TypeOK
  <1>1. Sound => TypeOK
    BY TypeParts DEF Sound
  <1> QED BY <1>1, InitSound, NextSound, PTL DEF Spec

(* An answer that reaches the broker is for the delivery that started the       *)
(* invocation: the acks and nacks of processorHandler never settle, and its     *)
(* retry never copies, a message delivered to another invocation.               *)
THEOREM AnswersOwnDelivery == Spec => []Deliveries
  <1>1. Sound => Deliveries
    BY DEF Sound
  <1> QED BY <1>1, InitSound, NextSound, PTL DEF Spec
===============================================================================
