------------------------------ MODULE SetupProofs ------------------------------
(* What holds of Setup for every set of processes, of queues and of messages,   *)
(* for every sequence of deployments and every bound.                           *)
EXTENDS Setup, Integers, TLAPS, FiniteSetTheorems, SequenceTheorems

-------------------------------------------------------------------------------
(* The inductive invariant.                                                     *)

(* Types. What a process is at is for one of its deployments.                   *)
PcStates == AtQueue \cup {"off", "read", "orphans", "up", "failed"}
ProcStates == [pc : PcStates, dep : Deployments \cup {<<>>}, at : Nat, recover : BOOLEAN,
               known : [Queues -> Options \cup {None}], left : Int, mem : SUBSET Msgs]
CallStates == [pc : {"idle", "drain", "closing", "publish", "again"}, queue : Queues \cup {None},
               left : Int, held : SUBSET Msgs, sent : SUBSET Msgs, lost : SUBSET Msgs]

BrokerTypes ==
    /\ exists \in [Queues -> SUBSET PartSet] /\ opts \in [Queues -> Options \cup {None}]
    /\ bound \in [Queues -> BOOLEAN] /\ box \in [Queues -> [PartSet -> SUBSET Msgs]]
    /\ consumers \in [Queues -> SUBSET Procs]
    /\ unacked \subseteq [msg : Msgs, queue : Queues, by : Procs, live : BOOLEAN]

(* The broker: what belongs to a main queue is there only with it.              *)
BrokerOK ==
    /\ \A q \in Queues : /\ opts[q] = None <=> "main" \notin exists[q]
                         /\ bound[q] => "main" \in exists[q]
                         /\ \A b \in PartSet \ exists[q] : box[q][b] = {}
                         /\ consumers[q] # {} => "main" \in exists[q]
    /\ \A u \in unacked : u.live => "main" \in exists[u.queue]

(* A process: it is at one of its subscribers; it has messages in memory only in*)
(* the course of a migration, and of a requeueDeadLetters.                      *)
Moving == {"drain", "stuck", "delete", "assert", "resend"}
StateOK(st) ==
    /\ st.pc \in AtQueue \cup {"read"} => st.at \in 1 .. Len(st.dep)
    /\ st.recover => st.dep # <<>>
    /\ st.mem # {} => st.pc \in Moving
CallOK(c) == IF c.pc = "idle" THEN c.held = {} /\ c.lost = {} ELSE c.queue \in Queues
ProcOK(p) == StateOK(proc[p]) /\ CallOK(call[p])

(* A message is where it was sent to, and only what was sent is anywhere.       *)
BoxHome == \A q \in Queues, b \in PartSet : \A m \in box[q][b] : home[m] = q
UnackedHome == \A u \in unacked : home[u.msg] = u.queue
MemOf(st) == \A m \in st.mem : home[m] = st.dep[st.at].queue
HeldOf(c) == \A m \in c.held : home[m] = c.queue

BrokerInv == BrokerTypes /\ BrokerOK /\ BoxHome /\ UnackedHome
StatesInv ==
    /\ proc \in [Procs -> ProcStates] /\ call \in [Procs -> CallStates]
    /\ \A p \in Procs : ProcOK(p) /\ MemOf(proc[p]) /\ HeldOf(call[p])
RestInv ==
    /\ home \in [Msgs -> Queues \cup {None}] /\ done \subseteq {m \in Msgs : home[m] # None}
    /\ stored \in [Procs -> [Queues -> Options \cup {None}]]
    /\ spent \in [DOMAIN Bounds -> Nat] /\ \A k \in DOMAIN Bounds : spent[k] <= Bounds[k]

SetupInv == BrokerInv /\ StatesInv /\ RestInv

-------------------------------------------------------------------------------
(* A deployment; where a process is in its own; counts.                         *)
LEMMA DeploymentTypes ==
  ASSUME NEW d \in Deployments \cup {<<>>}
  PROVE  /\ d \in Seq([queue : Queues, opts : Options]) /\ DOMAIN d = 1 .. Len(d) /\ Len(d) \in Nat
         /\ d # <<>> => Len(d) >= 1
         /\ \A i \in DOMAIN d : d[i].queue \in Queues /\ d[i].opts \in Options
         /\ \A i, j \in DOMAIN d : d[i].queue = d[j].queue => i = j
  <1> DEFINE Subscribers == [queue : Queues, opts : Options]
  <1>1. d \in Seq(Subscribers)
    BY SetupAssumption, EmptySeq
  <1> HIDE DEF Subscribers
  <1>2. DOMAIN d = 1 .. Len(d) /\ Len(d) \in Nat /\ \A i \in DOMAIN d : d[i] \in Subscribers
    BY <1>1
  <1> USE DEF Subscribers
  <1>3. \A i, j \in DOMAIN d : d[i].queue = d[j].queue => i = j
    <2>1. CASE d \in Deployments
      BY <2>1, SetupAssumption
    <2>2. CASE d = <<>>
      BY <2>2
    <2> QED BY <2>1, <2>2
  <1>4. d # <<>> => Len(d) \in Nat \ {0}
    BY <1>1, EmptySeq
  <1> QED BY <1>1, <1>2, <1>3, <1>4

LEMMA AtSubscriber ==
  ASSUME NEW st \in ProcStates, StateOK(st), st.pc \in AtQueue \cup {"read"}
  PROVE  /\ st.at \in DOMAIN st.dep /\ st.at \in 1 .. Len(st.dep) /\ Len(st.dep) \in Nat
         /\ st.dep[st.at].queue \in Queues /\ st.dep[st.at].opts \in Options
  <1>1. st.dep \in Deployments \cup {<<>>}
    BY DEF ProcStates
  <1>2. DOMAIN st.dep = 1 .. Len(st.dep) /\ st.at \in 1 .. Len(st.dep) /\ Len(st.dep) \in Nat
    BY <1>1, DeploymentTypes DEF StateOK
  <1> QED BY <1>1, <1>2, DeploymentTypes

LEMMA CountType ==
  ASSUME NEW S, S \subseteq Msgs
  PROVE  Cardinality(S) \in Nat
  BY SetupAssumption, FS_Subset, FS_CardinalityType

LEMMA OptionsOfType ==
  ASSUME NEW d \in Deployments \cup {<<>>}
  PROVE  /\ OptionsOf(d) \in [Queues -> Options \cup {None}]
         /\ \A q \in Queues : OptionsOf(d)[q] = None <=> q \notin Names(d)
         /\ \A i \in DOMAIN d : OptionsOf(d)[d[i].queue] = d[i].opts
  <1>1. /\ \A i \in DOMAIN d : d[i].queue \in Queues /\ d[i].opts \in Options
        /\ \A i, j \in DOMAIN d : d[i].queue = d[j].queue => i = j
    BY DeploymentTypes
  <1>2. ASSUME NEW q \in Queues, q \in Names(d)
        PROVE  \E i \in DOMAIN d : d[i].queue = q /\ OptionsOf(d)[q] = d[i].opts
    <2>1. PICK i : i = CHOOSE j \in DOMAIN d : d[j].queue = q
      OBVIOUS
    <2>2. i \in DOMAIN d /\ d[i].queue = q
      BY <1>2, <2>1 DEF Names
    <2>3. OptionsOf(d)[q] = d[i].opts
      BY <1>2, <2>1 DEF OptionsOf
    <2> QED BY <2>2, <2>3
  <1>3. \A q \in Queues : q \notin Names(d) => OptionsOf(d)[q] = None
    BY DEF OptionsOf
  <1>4. OptionsOf(d) \in [Queues -> Options \cup {None}]
    <2>1. OptionsOf(d) = [q \in Queues |-> OptionsOf(d)[q]]
      BY DEF OptionsOf
    <2>2. \A q \in Queues : OptionsOf(d)[q] \in Options \cup {None}
      BY <1>1, <1>2, <1>3
    <2> QED BY <2>1, <2>2
  <1>5. \A q \in Queues : OptionsOf(d)[q] = None <=> q \notin Names(d)
    BY <1>1, <1>2, <1>3, SetupAssumption
  <1>6. ASSUME NEW i \in DOMAIN d PROVE OptionsOf(d)[d[i].queue] = d[i].opts
    <2>1. d[i].queue \in Queues /\ d[i].queue \in Names(d)
      BY <1>1 DEF Names
    <2>2. PICK j \in DOMAIN d : d[j].queue = d[i].queue /\ OptionsOf(d)[d[i].queue] = d[j].opts
      BY <1>2, <2>1
    <2> QED BY <1>1, <2>2
  <1> QED BY <1>4, <1>5, <1>6

-------------------------------------------------------------------------------
(* The boxes of the broker, when messages go into one or leave one.             *)
LEMMA IntoOK ==
  ASSUME NEW bx \in [Queues -> [PartSet -> SUBSET Msgs]], NEW q \in Queues, NEW b \in PartSet,
         NEW ms, ms \subseteq Msgs
  PROVE  /\ Into(bx, q, b, ms) \in [Queues -> [PartSet -> SUBSET Msgs]]
         /\ \A r \in Queues, c \in PartSet : \A x :
              x \in Into(bx, q, b, ms)[r][c] <=>
                x \in bx[r][c] \/ (x \in ms /\ r = q /\ c = b /\ b \in exists[q])
  <1>1. CASE b \in exists[q]
    BY <1>1 DEF Into
  <1>2. CASE b \notin exists[q]
    BY <1>2 DEF Into
  <1> QED BY <1>1, <1>2

LEMMA WithoutOK ==
  ASSUME BrokerTypes, NEW q \in Queues, NEW b \in PartSet, NEW m
  PROVE  /\ Without(q, b, m) \in [Queues -> [PartSet -> SUBSET Msgs]]
         /\ \A r \in Queues, c \in PartSet : \A x :
              x \in Without(q, b, m)[r][c] <=> x \in box[r][c] /\ ~(r = q /\ c = b /\ x = m)
  BY DEF Without, BrokerTypes

(* A process that ends leaves its deliveries to their queues, and what it has   *)
(* acked and the broker has not heard of.                                       *)
LEMMA BackFrom ==
  ASSUME SetupInv, NEW p \in Procs, NEW back, NEW q \in Queues, NEW b \in PartSet,
         NEW m \in Back(p, back, q)[b]
  PROVE  /\ m \in Msgs /\ home[m] = q /\ b \in exists[q]
         /\ \/ \E u \in unacked : u.msg = m /\ u.by = p /\ u.queue = q /\ u.live /\ b = "main"
            \/ m \in back /\ m \in proc[p].mem /\ Queue(p) = q /\ b = "main"
            \/ m \in back /\ m \in call[p].held /\ call[p].queue = q /\ b = "dlq"
  <1>1. \/ \E u \in unacked : /\ u.msg = m /\ u.by = p /\ u.queue = q /\ u.live
                             /\ b = "main" /\ b \in exists[q]
        \/ m \in back /\ m \in proc[p].mem /\ Queue(p) = q /\ b = "main" /\ b \in exists[q]
        \/ m \in back /\ m \in call[p].held /\ call[p].queue = q /\ b = "dlq" /\ b \in exists[q]
    BY DEF Back, Acked, AckedDead
  <1>2. /\ proc[p] \in ProcStates /\ MemOf(proc[p]) /\ call[p] \in CallStates /\ HeldOf(call[p])
        /\ \A u \in unacked : u.msg \in Msgs /\ home[u.msg] = u.queue
    BY DEF SetupInv, StatesInv, BrokerInv, BrokerTypes, UnackedHome
  <1>3. m \in proc[p].mem => m \in Msgs /\ home[m] = Queue(p)
    BY <1>2 DEF ProcStates, MemOf, Queue
  <1>4. m \in call[p].held => m \in Msgs /\ home[m] = call[p].queue
    BY <1>2 DEF CallStates, HeldOf
  <1> QED BY <1>1, <1>2, <1>3, <1>4

LEMMA DisconnectedBox ==
  ASSUME SetupInv, NEW p \in Procs, NEW back, Disconnected(p, back)
  PROVE  /\ box' \in [Queues -> [PartSet -> SUBSET Msgs]]
         /\ \A q \in Queues, b \in PartSet : box'[q][b] = box[q][b] \cup Back(p, back, q)[b]
         /\ unacked' = {u \in unacked : u.by # p}
         /\ consumers' = [q \in Queues |-> consumers[q] \ {p}]
  <1>1. /\ box' = [q \in Queues |-> [b \in PartSet |-> box[q][b] \cup Back(p, back, q)[b]]]
        /\ unacked' = {u \in unacked : u.by # p} /\ consumers' = [q \in Queues |-> consumers[q] \ {p}]
    BY DEF Disconnected
  <1>2. \A q \in Queues, b \in PartSet : box'[q][b] = box[q][b] \cup Back(p, back, q)[b]
    BY <1>1
  <1>3. \A q \in Queues, b \in PartSet : Back(p, back, q)[b] \subseteq Msgs /\ box[q][b] \subseteq Msgs
    BY BackFrom DEF SetupInv, BrokerInv, BrokerTypes
  <1>4. \A q \in Queues, b \in PartSet : box[q][b] \cup Back(p, back, q)[b] \in SUBSET Msgs
    BY <1>3
  <1>5. box' \in [Queues -> [PartSet -> SUBSET Msgs]]
    BY <1>1, <1>4
  <1> QED BY <1>1, <1>2, <1>5

LEMMA DisconnectedOK ==
  ASSUME SetupInv, NEW p \in Procs, NEW back, Disconnected(p, back),
         UNCHANGED <<exists, opts, bound, home>>
  PROVE  BrokerInv'
  <1>1. /\ box' \in [Queues -> [PartSet -> SUBSET Msgs]]
        /\ \A q \in Queues, b \in PartSet : box'[q][b] = box[q][b] \cup Back(p, back, q)[b]
        /\ unacked' \subseteq unacked
        /\ consumers' = [q \in Queues |-> consumers[q] \ {p}]
    BY DisconnectedBox
  <1>2. consumers' \in [Queues -> SUBSET Procs] /\ \A q \in Queues : consumers'[q] \subseteq consumers[q]
    BY <1>1 DEF SetupInv, BrokerInv, BrokerTypes
  <1>3. BrokerTypes'
    BY <1>1, <1>2 DEF SetupInv, BrokerInv, BrokerTypes
  <1>4. BrokerOK'
    <2>1. ASSUME NEW q \in Queues, NEW b \in PartSet \ exists[q] PROVE box'[q][b] = {}
      <3>1. box[q][b] = {}
        BY DEF SetupInv, BrokerInv, BrokerOK
      <3>2. Back(p, back, q)[b] = {}
        BY BackFrom
      <3> QED BY <1>1, <3>1, <3>2
    <2> QED BY <1>1, <1>2, <2>1 DEF SetupInv, BrokerInv, BrokerOK
  <1>5. BoxHome'
    <2>1. ASSUME NEW q \in Queues, NEW b \in PartSet, NEW m \in box'[q][b] PROVE home[m] = q
      <3>1. m \in box[q][b] \/ m \in Back(p, back, q)[b]
        BY <1>1, <2>1
      <3> QED BY <3>1, BackFrom DEF SetupInv, BrokerInv, BoxHome
    <2> QED BY <2>1 DEF BoxHome
  <1>6. UnackedHome'
    BY <1>1 DEF SetupInv, BrokerInv, UnackedHome
  <1> QED BY <1>3, <1>4, <1>5, <1>6 DEF BrokerInv

(* A main queue that is deleted, empty, leaves nothing of its own.              *)
LEMMA MainDeletedOK ==
  ASSUME SetupInv, NEW q \in Queues, MainDeleted(q), home' = home
  PROVE  BrokerInv'
  <1>1. /\ exists' = [exists EXCEPT ![q] = @ \ {"main"}] /\ opts' = [opts EXCEPT ![q] = None]
        /\ bound' = [bound EXCEPT ![q] = FALSE] /\ consumers' = [consumers EXCEPT ![q] = {}]
        /\ unacked' = {[u EXCEPT !.live = @ /\ u.queue # q] : u \in unacked}
        /\ box' = [box EXCEPT ![q]["main"] = {}]
    BY DEF MainDeleted
  <1>2. ASSUME NEW w \in unacked'
        PROVE  \E u \in unacked : /\ w.msg = u.msg /\ w.queue = u.queue /\ w.by = u.by
                                  /\ w.live => u.live /\ u.queue # q
                                  /\ w \in [msg : Msgs, queue : Queues, by : Procs, live : BOOLEAN]
    <2>1. PICK u \in unacked : w = [u EXCEPT !.live = @ /\ u.queue # q]
      BY <1>1
    <2>2. u \in [msg : Msgs, queue : Queues, by : Procs, live : BOOLEAN]
      BY DEF SetupInv, BrokerInv, BrokerTypes
    <2>3. (u.live /\ u.queue # q) \in BOOLEAN
      OBVIOUS
    <2> QED BY <2>1, <2>2, <2>3
  <1>3. \A r \in Queues, b \in PartSet : box'[r][b] = IF r = q /\ b = "main" THEN {} ELSE box[r][b]
    BY <1>1 DEF SetupInv, BrokerInv, BrokerTypes
  <1>4. /\ \A r \in Queues : exists'[r] = IF r = q THEN exists[r] \ {"main"} ELSE exists[r]
        /\ \A r \in Queues : opts'[r] = IF r = q THEN None ELSE opts[r]
        /\ \A r \in Queues : bound'[r] = IF r = q THEN FALSE ELSE bound[r]
        /\ \A r \in Queues : consumers'[r] = IF r = q THEN {} ELSE consumers[r]
    BY <1>1 DEF SetupInv, BrokerInv, BrokerTypes
  <1>5. BrokerTypes'
    <2>1. exists' \in [Queues -> SUBSET PartSet] /\ opts' \in [Queues -> Options \cup {None}]
      BY <1>1 DEF SetupInv, BrokerInv, BrokerTypes
    <2>2. bound' \in [Queues -> BOOLEAN]
      BY <1>1 DEF SetupInv, BrokerInv, BrokerTypes
    <2>3. consumers' \in [Queues -> SUBSET Procs]
      BY <1>1 DEF SetupInv, BrokerInv, BrokerTypes
    <2>4. box' \in [Queues -> [PartSet -> SUBSET Msgs]]
      BY <1>1 DEF SetupInv, BrokerInv, BrokerTypes
    <2>5. unacked' \subseteq [msg : Msgs, queue : Queues, by : Procs, live : BOOLEAN]
      BY <1>2
    <2> QED BY <2>1, <2>2, <2>3, <2>4, <2>5 DEF BrokerTypes
  <1>6. BrokerOK'
    <2>1. ASSUME NEW r \in Queues
          PROVE  /\ opts'[r] = None <=> "main" \notin exists'[r]
                 /\ bound'[r] => "main" \in exists'[r]
                 /\ \A b \in PartSet \ exists'[r] : box'[r][b] = {}
                 /\ consumers'[r] # {} => "main" \in exists'[r]
      <3>1. CASE r = q
        <4>1. ASSUME NEW b \in PartSet \ exists'[r] PROVE box'[r][b] = {}
          <5>1. b \in exists[r] \/ box[r][b] = {}
            BY DEF SetupInv, BrokerInv, BrokerOK
          <5> QED BY <1>3, <1>4, <3>1, <5>1
        <4> QED BY <1>4, <3>1, <4>1
      <3>2. CASE r # q
        <4>1. ASSUME NEW b \in PartSet \ exists'[r] PROVE box'[r][b] = {}
          <5>1. b \in exists[r] \/ box[r][b] = {}
            BY DEF SetupInv, BrokerInv, BrokerOK
          <5> QED BY <1>3, <1>4, <3>2, <5>1
        <4> QED BY <1>4, <3>2, <4>1 DEF SetupInv, BrokerInv, BrokerOK
      <3> QED BY <3>1, <3>2
    <2>2. ASSUME NEW w \in unacked', w.live PROVE "main" \in exists'[w.queue]
      <3>1. PICK u \in unacked : w.queue = u.queue /\ u.live /\ u.queue # q
        BY <1>2, <2>2
      <3>2. u.queue \in Queues /\ "main" \in exists[u.queue]
        BY <3>1 DEF SetupInv, BrokerInv, BrokerOK, BrokerTypes
      <3> QED BY <1>4, <3>1, <3>2
    <2> QED BY <2>1, <2>2 DEF BrokerOK
  <1>7. BoxHome'
    BY <1>3 DEF SetupInv, BrokerInv, BoxHome
  <1>8. UnackedHome'
    BY <1>2 DEF SetupInv, BrokerInv, UnackedHome
  <1> QED BY <1>5, <1>6, <1>7, <1>8 DEF BrokerInv

(* What only the boxes see: messages of a queue that come in, or that leave.    *)
LEMMA BoxesOK ==
  ASSUME BrokerInv, NEW bx, box' = bx, bx \in [Queues -> [PartSet -> SUBSET Msgs]],
         \A q \in Queues, b \in PartSet : \A m \in bx[q][b] : m \in box[q][b] \/ (b \in exists[q] /\ home'[m] = q),
         \A m \in Msgs : home[m] # None => home'[m] = home[m],
         UNCHANGED <<exists, opts, bound, consumers>>,
         unacked' \subseteq unacked
  PROVE  BrokerInv'
  <1>1. BrokerTypes'
    BY DEF BrokerInv, BrokerTypes
  <1>2. BrokerOK'
    <2>1. ASSUME NEW q \in Queues, NEW b \in PartSet \ exists[q] PROVE bx[q][b] = {}
      <3>1. box[q][b] = {}
        BY DEF BrokerInv, BrokerOK
      <3> QED BY <3>1
    <2> QED BY <2>1 DEF BrokerInv, BrokerOK
  <1>3. \A q \in Queues : q # None
    BY SetupAssumption
  <1>4. BoxHome'
    <2>1. ASSUME NEW q \in Queues, NEW b \in PartSet, NEW m \in bx[q][b] PROVE home'[m] = q
      <3>1. CASE m \in box[q][b]
        <4>1. home[m] = q /\ m \in Msgs
          BY <3>1 DEF BrokerInv, BrokerTypes, BoxHome
        <4> QED BY <1>3, <4>1
      <3> QED BY <3>1
    <2> QED BY <2>1 DEF BoxHome
  <1>5. UnackedHome'
    <2>1. ASSUME NEW u \in unacked PROVE home'[u.msg] = u.queue
      <3>1. u.msg \in Msgs /\ u.queue \in Queues /\ home[u.msg] = u.queue
        BY DEF BrokerInv, BrokerTypes, UnackedHome
      <3> QED BY <1>3, <3>1
    <2> QED BY <2>1 DEF UnackedHome
  <1> QED BY <1>1, <1>2, <1>4, <1>5 DEF BrokerInv

-------------------------------------------------------------------------------
(* A process goes from one state to another, and so may its call.               *)
LEMMA StatesOK ==
  ASSUME StatesInv, NEW p \in Procs,
         NEW st \in ProcStates, StateOK(st), MemOf(st), proc' = [proc EXCEPT ![p] = st],
         NEW c \in CallStates, CallOK(c), HeldOf(c), call' = [call EXCEPT ![p] = c],
         home' = home
  PROVE  StatesInv'
  <1>1. /\ proc' \in [Procs -> ProcStates] /\ proc'[p] = st
        /\ \A o \in Procs : o # p => proc'[o] = proc[o]
    BY DEF StatesInv
  <1>2. /\ call' \in [Procs -> CallStates] /\ call'[p] = c
        /\ \A o \in Procs : o # p => call'[o] = call[o]
    BY DEF StatesInv
  <1>3. ASSUME NEW o \in Procs PROVE ProcOK(o)' /\ MemOf(proc[o])' /\ HeldOf(call[o])'
    <2>1. CASE o = p
      BY <1>1, <1>2, <2>1 DEF ProcOK, StateOK, CallOK, MemOf, HeldOf
    <2>2. CASE o # p
      <3>1. ProcOK(o) /\ MemOf(proc[o]) /\ HeldOf(call[o])
        BY DEF StatesInv
      <3> QED BY <1>1, <1>2, <2>2, <3>1 DEF ProcOK, StateOK, CallOK, MemOf, HeldOf
    <2> QED BY <2>1, <2>2
  <1> QED BY <1>1, <1>2, <1>3 DEF StatesInv

LEMMA ProcGoes ==
  ASSUME StatesInv, NEW p \in Procs, NEW st \in ProcStates, StateOK(st), MemOf(st), Goes(p, st),
         call' = call, home' = home
  PROVE  StatesInv'
  <1>1. call[p] \in CallStates /\ CallOK(call[p]) /\ HeldOf(call[p]) /\ call' = [call EXCEPT ![p] = call[p]]
    BY DEF StatesInv, ProcOK
  <1> QED BY <1>1, StatesOK DEF Goes

LEMMA CallGoes ==
  ASSUME StatesInv, NEW p \in Procs, NEW c \in CallStates, CallOK(c), HeldOf(c),
         call' = [call EXCEPT ![p] = c], proc' = proc, home' = home
  PROVE  StatesInv'
  <1>1. proc[p] \in ProcStates /\ StateOK(proc[p]) /\ MemOf(proc[p]) /\ proc' = [proc EXCEPT ![p] = proc[p]]
    BY DEF StatesInv, ProcOK
  <1> QED BY <1>1, StatesOK

LEMMA StatesKept ==
  ASSUME StatesInv, proc' = proc, call' = call, home' = home
  PROVE  StatesInv'
  BY DEF StatesInv, ProcOK, StateOK, CallOK, MemOf, HeldOf

LEMMA IdleOK == NoCall \in CallStates /\ CallOK(NoCall) /\ HeldOf(NoCall)
  BY DEF NoCall, CallStates, CallOK, HeldOf

(* A process that is off, or at the beginning of a setup.                       *)
Fresh(pc, d, r) ==
    [pc |-> pc, dep |-> d, at |-> 1, recover |-> r, known |-> Unknown, left |-> 0, mem |-> {}]

LEMMA FreshOK ==
  ASSUME NEW d \in Deployments \cup {<<>>}, NEW pc \in {"off", "up", "read"}, pc = "read" => d # <<>>,
         NEW r \in BOOLEAN, r => d # <<>>
  PROVE  Fresh(pc, d, r) \in ProcStates /\ StateOK(Fresh(pc, d, r)) /\ MemOf(Fresh(pc, d, r))
  <1>1. pc = "read" => 1 \in 1 .. Len(d)
    BY DeploymentTypes
  <1>2. Unknown \in [Queues -> Options \cup {None}]
    BY DEF Unknown
  <1>3. Fresh(pc, d, r) \in ProcStates
    BY <1>2 DEF Fresh, ProcStates, PcStates
  <1>4. StateOK(Fresh(pc, d, r)) /\ MemOf(Fresh(pc, d, r))
    BY <1>1 DEF Fresh, StateOK, MemOf, AtQueue
  <1> QED BY <1>3, <1>4

LEMMA FreshIsOff ==
  ASSUME NEW pc, NEW d
  PROVE  /\ Off = Fresh("off", <<>>, FALSE)
         /\ [Off EXCEPT !.pc = pc] = Fresh(pc, <<>>, FALSE)
         /\ [Off EXCEPT !.pc = pc, !.dep = d] = Fresh(pc, d, FALSE)
         /\ [Off EXCEPT !.pc = pc, !.dep = d, !.recover = TRUE] = Fresh(pc, d, TRUE)
  <1>1. PICK f \in BOOLEAN : f = FALSE
    OBVIOUS
  <1>2. PICK t \in BOOLEAN : t = TRUE
    OBVIOUS
  <1>3. PICK e : e = <<>>
    OBVIOUS
  <1>4. PICK one \in Nat : one = 1
    OBVIOUS
  <1>5. PICK off : off = [pc |-> "off", dep |-> e, at |-> one, recover |-> f, known |-> Unknown,
                          left |-> 0, mem |-> {}]
    OBVIOUS
  <1>6. Off = off
    BY <1>1, <1>3, <1>4, <1>5 DEF Off
  <1>7. off = Fresh("off", e, f)
    BY <1>4, <1>5 DEF Fresh
  <1>8. [off EXCEPT !.pc = pc] = Fresh(pc, e, f)
    BY <1>4, <1>5 DEF Fresh
  <1>9. [off EXCEPT !.pc = pc, !.dep = d] = Fresh(pc, d, f)
    <2>1. PICK st : st = [off EXCEPT !.pc = pc, !.dep = d]
      OBVIOUS
    <2>2. st = [pc |-> pc, dep |-> d, at |-> one, recover |-> f, known |-> Unknown, left |-> 0, mem |-> {}]
      BY <1>5, <2>1
    <2> QED BY <1>4, <2>1, <2>2 DEF Fresh
  <1>10. [off EXCEPT !.pc = pc, !.dep = d, !.recover = t] = Fresh(pc, d, t)
    <2>1. PICK st : st = [off EXCEPT !.pc = pc, !.dep = d, !.recover = t]
      OBVIOUS
    <2>2. st = [pc |-> pc, dep |-> d, at |-> one, recover |-> t, known |-> Unknown, left |-> 0, mem |-> {}]
      BY <1>5, <2>1
    <2> QED BY <1>4, <2>1, <2>2 DEF Fresh
  <1> HIDE DEF Off, Fresh
  <1> QED BY <1>1, <1>2, <1>3, <1>6, <1>7, <1>8, <1>9, <1>10

(* The drains of a queue that is deleted are stuck.                             *)
LEMMA CancelledOK ==
  ASSUME StatesInv, NEW q
  PROVE  /\ Cancelled(q) \in [Procs -> ProcStates]
         /\ \A o \in Procs :
              LET st == Cancelled(q)[o] IN
              /\ st.dep = proc[o].dep /\ st.at = proc[o].at /\ st.mem = proc[o].mem
              /\ st.recover = proc[o].recover /\ st.known = proc[o].known
              /\ st.pc = IF proc[o].pc = "drain" /\ Queue(o) = q THEN "stuck" ELSE proc[o].pc
              /\ StateOK(st) /\ MemOf(st)
  <1>1. ASSUME NEW o \in Procs
        PROVE  LET st == Cancelled(q)[o] IN
               /\ st \in ProcStates
               /\ st.dep = proc[o].dep /\ st.at = proc[o].at /\ st.mem = proc[o].mem
               /\ st.recover = proc[o].recover /\ st.known = proc[o].known
               /\ st.pc = IF proc[o].pc = "drain" /\ Queue(o) = q THEN "stuck" ELSE proc[o].pc
               /\ StateOK(st) /\ MemOf(st)
    <2>1. PICK st : st = Cancelled(q)[o]
      OBVIOUS
    <2>2. proc[o] \in ProcStates /\ StateOK(proc[o]) /\ MemOf(proc[o])
      BY DEF StatesInv, ProcOK
    <2>3. CASE proc[o].pc = "drain" /\ Queue(o) = q
      <3>1. st = [proc[o] EXCEPT !.pc = "stuck"]
        BY <2>1, <2>3 DEF Cancelled
      <3>2. "stuck" \in PcStates
        BY DEF PcStates, AtQueue
      <3>3. /\ st \in ProcStates /\ st.dep = proc[o].dep /\ st.at = proc[o].at /\ st.mem = proc[o].mem
            /\ st.recover = proc[o].recover /\ st.known = proc[o].known /\ st.pc = "stuck"
        BY <2>2, <3>1, <3>2 DEF ProcStates
      <3>4. StateOK(st)
        BY <2>2, <2>3, <3>3 DEF StateOK, Moving, AtQueue
      <3>5. MemOf(st)
        BY <2>2, <3>3 DEF MemOf
      <3> QED BY <2>1, <2>3, <3>3, <3>4, <3>5
    <2>4. CASE ~(proc[o].pc = "drain" /\ Queue(o) = q)
      <3>1. st = proc[o]
        BY <2>1, <2>4 DEF Cancelled
      <3> QED BY <2>1, <2>2, <2>4, <3>1
    <2> QED BY <2>3, <2>4
  <1>2. Cancelled(q) \in [Procs -> ProcStates]
    <2>1. Cancelled(q) = [o \in Procs |-> Cancelled(q)[o]]
      BY DEF Cancelled
    <2>2. \A o \in Procs : Cancelled(q)[o] \in ProcStates
      BY <1>1
    <2> QED BY <2>1, <2>2
  <1> QED BY <1>1, <1>2

-------------------------------------------------------------------------------
(* The steps: of a process in setup.                                            *)
LEMMA SpendOK ==
  ASSUME RestInv, NEW k \in DOMAIN Bounds, Spend(k), UNCHANGED <<home, done>>,
         stored' \in [Procs -> [Queues -> Options \cup {None}]]
  PROVE  RestInv'
  <1>1. \A j \in DOMAIN Bounds : Bounds[j] \in Nat
    BY SetupAssumption DEF Bounds
  <1>2. spent' = [spent EXCEPT ![k] = @ + 1] /\ spent[k] < Bounds[k] /\ spent[k] \in Nat
    BY DEF Spend, RestInv
  <1>3. spent' \in [DOMAIN Bounds -> Nat]
    BY <1>2 DEF RestInv
  <1>4. \A j \in DOMAIN Bounds : spent'[j] <= Bounds[j]
    BY <1>1, <1>2 DEF RestInv
  <1> QED BY <1>3, <1>4 DEF RestInv

LEMMA FailOK ==
  ASSUME SetupInv, NEW p \in Procs, Fail(p)
  PROVE  SetupInv'
  <1>1. PICK st : st = [proc[p] EXCEPT !.pc = "failed", !.mem = {}, !.left = 0]
    OBVIOUS
  <1>2. /\ Goes(p, st) /\ UNCHANGED <<home, done, stored, call, spent>>
        /\ \/ Disconnected(p, {}) /\ UNCHANGED <<exists, opts, bound>>
           \/ UNCHANGED broker
    BY <1>1 DEF Fail
  <1>3. proc[p] \in ProcStates /\ StateOK(proc[p])
    BY DEF SetupInv, StatesInv, ProcOK
  <1>4. st \in ProcStates
    <2>1. "failed" \in PcStates
      BY DEF PcStates
    <2>2. PICK zero \in Int : zero = 0
      OBVIOUS
    <2>3. PICK none \in SUBSET Msgs : none = {}
      OBVIOUS
    <2>4. [proc[p] EXCEPT !.pc = "failed", !.mem = none, !.left = zero] \in ProcStates
      BY <1>3, <2>1 DEF ProcStates
    <2> QED BY <1>1, <2>2, <2>3, <2>4
  <1>5. /\ st.pc = "failed" /\ st.mem = {} /\ st.recover = proc[p].recover /\ st.dep = proc[p].dep
    BY <1>1, <1>3 DEF ProcStates
  <1>6. StateOK(st) /\ MemOf(st)
    BY <1>3, <1>5 DEF StateOK, MemOf, AtQueue
  <1>7. StatesInv'
    BY <1>2, <1>4, <1>6, ProcGoes DEF SetupInv
  <1>8. BrokerInv'
    <2>1. CASE Disconnected(p, {}) /\ UNCHANGED <<exists, opts, bound>>
      BY <1>2, <2>1, DisconnectedOK
    <2>2. CASE UNCHANGED broker
      BY <1>2, <2>2 DEF broker, SetupInv, BrokerInv, BrokerTypes, BrokerOK, BoxHome, UnackedHome
    <2> QED BY <1>2, <2>1, <2>2
  <1>9. RestInv'
    BY <1>2 DEF SetupInv, RestInv
  <1> QED BY <1>7, <1>8, <1>9 DEF SetupInv

LEMMA BrokerKept ==
  ASSUME BrokerInv, UNCHANGED broker, home' = home
  PROVE  BrokerInv'
  BY DEF broker, BrokerInv, BrokerTypes, BrokerOK, BoxHome, UnackedHome

LEMMA RestKept ==
  ASSUME RestInv, UNCHANGED <<home, done, stored, spent>>
  PROVE  RestInv'
  BY DEF RestInv

LEMMA BootOK ==
  ASSUME SetupInv, NEW p \in Procs, Boot(p)
  PROVE  SetupInv'
  <1>1. PICK d \in Deployments :
          IF d = <<>>
          THEN /\ Goes(p, [Off EXCEPT !.pc = "up"])
               /\ stored' = IF Redis THEN stored ELSE [stored EXCEPT ![p] = Unknown]
          ELSE Goes(p, [Off EXCEPT !.pc = "read", !.dep = d]) /\ stored' = stored
    BY DEF Boot
  <1>2. UNCHANGED broker /\ UNCHANGED <<home, done, call>> /\ Spend("boot")
    BY DEF Boot
  <1>3. Unknown \in [Queues -> Options \cup {None}]
    BY DEF Unknown
  <1>4. stored' \in [Procs -> [Queues -> Options \cup {None}]]
    BY <1>1, <1>3 DEF SetupInv, RestInv
  <1>5. RestInv'
    BY <1>2, <1>4, SpendOK DEF SetupInv, Bounds
  <1>6. BrokerInv'
    BY <1>2, BrokerKept DEF SetupInv
  <1>7. StatesInv'
    <2>1. CASE d = <<>>
      <3>1. Goes(p, Fresh("up", d, FALSE))
        BY <1>1, <2>1, FreshIsOff
      <3> QED BY <1>2, <3>1, FreshOK, ProcGoes DEF SetupInv
    <2>2. CASE d # <<>>
      <3>1. Goes(p, Fresh("read", d, FALSE))
        BY <1>1, <2>2, FreshIsOff
      <3> QED BY <1>2, <2>2, <3>1, FreshOK, ProcGoes DEF SetupInv
    <2> QED BY <2>1, <2>2
  <1> QED BY <1>5, <1>6, <1>7 DEF SetupInv

LEMMA StoredType ==
  ASSUME SetupInv, NEW p \in Procs
  PROVE  Stored(p) \in [Queues -> Options \cup {None}]
  <1>1. (CHOOSE o \in Procs : TRUE) \in Procs
    OBVIOUS
  <1> QED BY <1>1 DEF SetupInv, RestInv, Stored

LEMMA ReadOK ==
  ASSUME SetupInv, NEW p \in Procs, Read(p)
  PROVE  SetupInv'
  <1>1. PICK known : known = IF proc[p].recover THEN Unknown ELSE Stored(p)
    OBVIOUS
  <1>2. PICK st : st = [proc[p] EXCEPT !.pc = "queue", !.known = known]
    OBVIOUS
  <1>3. known \in [Queues -> Options \cup {None}]
    BY <1>1, StoredType DEF Unknown
  <1>4. proc[p] \in ProcStates /\ StateOK(proc[p]) /\ proc[p].pc = "read"
    BY DEF SetupInv, StatesInv, ProcOK, Read
  <1>5. /\ st \in ProcStates /\ st.pc = "queue" /\ st.dep = proc[p].dep /\ st.at = proc[p].at
        /\ st.recover = proc[p].recover /\ st.mem = proc[p].mem
    BY <1>2, <1>3, <1>4 DEF ProcStates, PcStates, AtQueue
  <1>6. StateOK(st) /\ MemOf(st)
    BY <1>4, <1>5 DEF StateOK, MemOf, Moving, AtQueue
  <1>7. Goes(p, st) /\ UNCHANGED broker /\ UNCHANGED <<home, done, stored, call, spent>>
    BY <1>1, <1>2 DEF Read
  <1> QED BY <1>5, <1>6, <1>7, ProcGoes, BrokerKept, RestKept DEF SetupInv

(* What is declared, bound or consumed, or a queue of dead letters.             *)
LEMMA GrowsOK ==
  ASSUME BrokerInv, UNCHANGED <<box, unacked, home>>,
         exists' \in [Queues -> SUBSET PartSet], opts' \in [Queues -> Options \cup {None}],
         bound' \in [Queues -> BOOLEAN], consumers' \in [Queues -> SUBSET Procs],
         \A q \in Queues : /\ exists[q] \subseteq exists'[q]
                           /\ opts'[q] = None <=> "main" \notin exists'[q]
                           /\ bound'[q] => "main" \in exists'[q]
                           /\ consumers'[q] # {} => "main" \in exists'[q]
  PROVE  BrokerInv'
  <1>1. BrokerTypes'
    BY DEF BrokerInv, BrokerTypes
  <1>2. BrokerOK'
    <2>1. ASSUME NEW q \in Queues, NEW b \in PartSet \ exists'[q] PROVE box'[q][b] = {}
      BY DEF BrokerInv, BrokerOK
    <2>2. ASSUME NEW u \in unacked, u.live PROVE "main" \in exists'[u.queue]
      <3>1. u.queue \in Queues /\ "main" \in exists[u.queue]
        BY <2>2 DEF BrokerInv, BrokerTypes, BrokerOK
      <3> QED BY <3>1
    <2> QED BY <2>1, <2>2 DEF BrokerOK
  <1>3. BoxHome' /\ UnackedHome'
    BY DEF BrokerInv, BoxHome, UnackedHome
  <1> QED BY <1>1, <1>2, <1>3 DEF BrokerInv

(* A process goes on with the queue of its subscriber.                          *)
LEMMA AtGoes ==
  ASSUME StatesInv, NEW p \in Procs, NEW st \in ProcStates, Goes(p, st), call' = call, home' = home,
         proc[p].pc \in AtQueue, st.pc \in AtQueue,
         st.dep = proc[p].dep, st.at = proc[p].at, st.recover = proc[p].recover,
         st.mem # {} => st.pc \in Moving,
         \A m \in st.mem : m \in proc[p].mem \/ home[m] = Queue(p)
  PROVE  StatesInv'
  <1>1. StateOK(proc[p]) /\ MemOf(proc[p])
    BY DEF StatesInv, ProcOK
  <1>2. StateOK(st)
    BY <1>1 DEF StateOK
  <1>3. MemOf(st)
    BY <1>1 DEF MemOf, Queue
  <1> QED BY <1>2, <1>3, ProcGoes

LEMMA QueueType ==
  ASSUME SetupInv, NEW p \in Procs, proc[p].pc \in AtQueue
  PROVE  /\ proc[p] \in ProcStates /\ StateOK(proc[p]) /\ MemOf(proc[p])
         /\ Queue(p) \in Queues /\ Current(p) \in Options
         /\ proc[p].at \in 1 .. Len(proc[p].dep) /\ Len(proc[p].dep) \in Nat
  <1>1. proc[p] \in ProcStates /\ StateOK(proc[p]) /\ MemOf(proc[p])
    BY DEF SetupInv, StatesInv, ProcOK
  <1> QED BY <1>1, AtSubscriber DEF Queue, Current

LEMMA AssertedType ==
  ASSUME SetupInv, NEW p \in Procs, proc[p].pc \in AtQueue
  PROVE  Asserted(p) \in Options /\ Asserted(p) # None
  <1>1. Queue(p) \in Queues /\ Current(p) \in Options /\ proc[p] \in ProcStates
    BY QueueType
  <1>2. proc[p].known[Queue(p)] \in Options \cup {None}
    BY <1>1 DEF ProcStates
  <1> QED BY <1>1, <1>2, SetupAssumption DEF Asserted, Changed

LEMMA DeclareOK ==
  ASSUME SetupInv, NEW p \in Procs, Declare(p)
  PROVE  SetupInv'
  <1>1. PICK q : q = Queue(p)
    OBVIOUS
  <1>2. /\ proc[p].pc \in {"queue", "assert"} /\ proc[p].pc \in AtQueue
        /\ exists' = [exists EXCEPT ![q] = @ \cup {"main"}] /\ opts' = [opts EXCEPT ![q] = Asserted(p)]
        /\ UNCHANGED <<bound, box, consumers, unacked, home, done, stored, call, spent>>
    BY <1>1 DEF Declare, AtQueue
  <1>3. /\ proc[p] \in ProcStates /\ StateOK(proc[p]) /\ q \in Queues
        /\ Asserted(p) \in Options /\ Asserted(p) # None
    BY <1>1, <1>2, QueueType, AssertedType
  <1>4. BrokerInv'
    <2>1. "main" \in PartSet
      BY DEF PartSet
    <2>2. exists' \in [Queues -> SUBSET PartSet] /\ opts' \in [Queues -> Options \cup {None}]
      BY <1>2, <1>3, <2>1 DEF SetupInv, BrokerInv, BrokerTypes
    <2>3. \A r \in Queues : /\ exists[r] \subseteq exists'[r]
                            /\ opts'[r] = None <=> "main" \notin exists'[r]
                            /\ bound'[r] => "main" \in exists'[r]
                            /\ consumers'[r] # {} => "main" \in exists'[r]
      BY <1>2, <1>3 DEF SetupInv, BrokerInv, BrokerTypes, BrokerOK
    <2>4. bound' \in [Queues -> BOOLEAN] /\ consumers' \in [Queues -> SUBSET Procs]
      BY <1>2 DEF SetupInv, BrokerInv, BrokerTypes
    <2> QED BY <1>2, <2>2, <2>3, <2>4, GrowsOK DEF SetupInv
  <1>5. StatesInv'
    <2>1. CASE proc[p].pc = "queue" /\ Changed(p)
      <3>1. PICK n : n = Counted(q)
        OBVIOUS
      <3>2. n \in Int
        <4>1. box[q]["main"] \subseteq Msgs
          BY <1>3 DEF SetupInv, BrokerInv, BrokerTypes, PartSet
        <4> QED BY <3>1, <4>1, CountType DEF Counted
      <3>3. PICK pc \in {"delete", "drain"} : pc = IF n = 0 THEN "delete" ELSE "drain"
        OBVIOUS
      <3>4. PICK st : st = [proc[p] EXCEPT !.left = n, !.pc = pc]
        OBVIOUS
      <3>5. Goes(p, st)
        BY <1>1, <2>1, <3>1, <3>3, <3>4 DEF Declare
      <3>6. pc \in PcStates /\ pc \in AtQueue
        BY <3>3 DEF PcStates, AtQueue
      <3>7. /\ st \in ProcStates /\ st.pc = pc /\ st.dep = proc[p].dep /\ st.at = proc[p].at
            /\ st.recover = proc[p].recover /\ st.mem = proc[p].mem
        BY <1>3, <3>2, <3>4, <3>6 DEF ProcStates
      <3>8. st.mem # {} => st.pc \in Moving
        BY <3>3, <3>7 DEF Moving
      <3> QED BY <1>2, <3>5, <3>6, <3>7, <3>8, AtGoes DEF SetupInv
    <2>2. CASE ~(proc[p].pc = "queue" /\ Changed(p))
      <3>1. PICK pc \in {"resend", "bind"} : pc = IF proc[p].pc = "assert" THEN "resend" ELSE "bind"
        OBVIOUS
      <3>2. PICK st : st = [proc[p] EXCEPT !.pc = pc]
        OBVIOUS
      <3>3. Goes(p, st)
        BY <2>2, <3>1, <3>2 DEF Declare, Step
      <3>4. pc \in PcStates /\ pc \in AtQueue
        BY <3>1 DEF PcStates, AtQueue
      <3>5. /\ st \in ProcStates /\ st.pc = pc /\ st.dep = proc[p].dep /\ st.at = proc[p].at
            /\ st.recover = proc[p].recover /\ st.mem = proc[p].mem
        BY <1>3, <3>2, <3>4 DEF ProcStates
      <3>6. st.mem # {} => st.pc \in Moving
        BY <1>2, <1>3, <3>1, <3>5 DEF Moving, StateOK
      <3> QED BY <1>2, <3>3, <3>4, <3>5, <3>6, AtGoes DEF SetupInv
    <2> QED BY <2>1, <2>2
  <1> QED BY <1>2, <1>4, <1>5, RestKept DEF SetupInv

LEMMA ReceiveOK ==
  ASSUME SetupInv, NEW p \in Procs, Receive(p)
  PROVE  SetupInv'
  <1>1. PICK q : q = Queue(p)
    OBVIOUS
  <1>2. /\ proc[p].pc = "drain" /\ proc[p].pc \in AtQueue
        /\ UNCHANGED <<exists, opts, bound, consumers, unacked, home, done, stored, call, spent>>
    BY DEF Receive, AtQueue
  <1>3. /\ proc[p] \in ProcStates /\ StateOK(proc[p]) /\ q \in Queues
    BY <1>1, <1>2, QueueType
  <1>4. PICK m \in box[q]["main"] :
          /\ box' = Without(q, "main", m)
          /\ Goes(p, [proc[p] EXCEPT !.mem = @ \cup {m}, !.left = @ - 1,
                                     !.pc = IF proc[p].left = 1 THEN "delete" ELSE "drain"])
    BY <1>1 DEF Receive, Ack
  <1>5. m \in Msgs /\ home[m] = q /\ "main" \in PartSet
    BY <1>3 DEF PartSet, SetupInv, BrokerInv, BrokerTypes, BoxHome
  <1>6. BrokerInv'
    <2>1. BrokerInv /\ BrokerTypes /\ BoxHome
      BY DEF SetupInv, BrokerInv
    <2>2. PICK bx : bx = Without(q, "main", m)
      OBVIOUS
    <2>3. /\ bx \in [Queues -> [PartSet -> SUBSET Msgs]]
          /\ \A r \in Queues, b \in PartSet : bx[r][b] \subseteq box[r][b]
      BY <1>3, <1>5, <2>1, <2>2, WithoutOK
    <2>4. box' = bx
      BY <1>4, <2>2
    <2> QED BY <1>2, <2>1, <2>3, <2>4, BoxesOK
  <1>7. StatesInv'
    <2>1. PICK pc \in {"delete", "drain"} : pc = IF proc[p].left = 1 THEN "delete" ELSE "drain"
      OBVIOUS
    <2>2. PICK n \in Int : n = proc[p].left - 1
      BY <1>3 DEF ProcStates
    <2>3. PICK mem \in SUBSET Msgs : mem = proc[p].mem \cup {m}
      BY <1>3, <1>5 DEF ProcStates
    <2>4. PICK st : st = [proc[p] EXCEPT !.mem = mem, !.left = n, !.pc = pc]
      OBVIOUS
    <2>5. Goes(p, st)
      BY <1>3, <1>4, <2>1, <2>2, <2>3, <2>4 DEF ProcStates
    <2>6. pc \in PcStates /\ pc \in AtQueue /\ pc \in Moving
      BY <2>1 DEF PcStates, AtQueue, Moving
    <2>7. /\ st \in ProcStates /\ st.pc = pc /\ st.dep = proc[p].dep /\ st.at = proc[p].at
          /\ st.recover = proc[p].recover /\ st.mem = mem
      BY <1>3, <2>4, <2>6 DEF ProcStates
    <2>8. \A x \in st.mem : x \in proc[p].mem \/ home[x] = Queue(p)
      BY <1>1, <1>5, <2>3, <2>7
    <2> QED BY <1>2, <2>5, <2>6, <2>7, <2>8, AtGoes DEF SetupInv
  <1> QED BY <1>2, <1>6, <1>7, RestKept DEF SetupInv

LEMMA DeleteOK ==
  ASSUME SetupInv, NEW p \in Procs, Delete(p)
  PROVE  SetupInv'
  <1>1. CASE Fail(p)
    BY <1>1, FailOK
  <1>2. CASE ~Fail(p)
    <2>1. PICK q : q = Queue(p)
      OBVIOUS
    <2>2. /\ proc[p].pc = "delete" /\ proc[p].pc \in AtQueue
          /\ MainDeleted(q) /\ proc' = [Cancelled(q) EXCEPT ![p].pc = "assert"]
          /\ UNCHANGED <<home, done, stored, call, spent>>
      BY <1>2, <2>1 DEF Delete, AtQueue
    <2>3. q \in Queues /\ proc[p] \in ProcStates /\ StateOK(proc[p]) /\ MemOf(proc[p])
      BY <2>1, <2>2, QueueType
    <2>4. PICK cs : cs = Cancelled(q)
      OBVIOUS
    <2>5. /\ cs \in [Procs -> ProcStates] /\ \A o \in Procs : StateOK(cs[o]) /\ MemOf(cs[o])
      BY <2>4, CancelledOK DEF SetupInv
    <2>6. cs[p] = proc[p]
      BY <2>2, <2>4 DEF Cancelled
    <2>7. PICK st : st = [proc[p] EXCEPT !.pc = "assert"]
      OBVIOUS
    <2>8. "assert" \in PcStates
      BY DEF PcStates, AtQueue
    <2>9. /\ st \in ProcStates /\ st.pc = "assert" /\ st.dep = proc[p].dep /\ st.at = proc[p].at
          /\ st.recover = proc[p].recover /\ st.mem = proc[p].mem
      BY <2>3, <2>7, <2>8 DEF ProcStates
    <2>10. StateOK(st) /\ MemOf(st)
      BY <2>2, <2>3, <2>9 DEF StateOK, MemOf, Moving
    <2>11. proc' = [cs EXCEPT ![p] = st]
      BY <2>2, <2>4, <2>5, <2>6, <2>7
    <2>12. StatesInv'
      <3>1. proc' \in [Procs -> ProcStates] /\ proc'[p] = st /\ \A o \in Procs : o # p => proc'[o] = cs[o]
        BY <2>5, <2>9, <2>11
      <3>2. ASSUME NEW o \in Procs PROVE ProcOK(o)' /\ MemOf(proc[o])' /\ HeldOf(call[o])'
        <4>1. CallOK(call[o])' /\ HeldOf(call[o])'
          BY <2>2 DEF SetupInv, StatesInv, ProcOK, CallOK, HeldOf
        <4>2. StateOK(proc[o])' /\ MemOf(proc[o])'
          <5>1. CASE o = p
            BY <2>2, <2>10, <3>1, <5>1 DEF StateOK, MemOf
          <5>2. CASE o # p
            <6>1. proc'[o] = cs[o] /\ StateOK(cs[o]) /\ MemOf(cs[o])
              BY <2>5, <3>1, <5>2
            <6> QED BY <2>2, <6>1 DEF StateOK, MemOf
          <5> QED BY <5>1, <5>2
        <4> QED BY <4>1, <4>2 DEF ProcOK
      <3>3. call' \in [Procs -> CallStates]
        BY <2>2 DEF SetupInv, StatesInv
      <3> QED BY <3>1, <3>2, <3>3 DEF StatesInv
    <2> QED BY <2>2, <2>3, <2>12, MainDeletedOK, RestKept DEF SetupInv
  <1> QED BY <1>1, <1>2

LEMMA ResendOK ==
  ASSUME SetupInv, NEW p \in Procs, Resend(p)
  PROVE  SetupInv'
  <1>1. PICK q : q = Queue(p)
    OBVIOUS
  <1>2. PICK none \in SUBSET Msgs : none = {}
    OBVIOUS
  <1>3. PICK st : st = [proc[p] EXCEPT !.pc = "bind", !.mem = none]
    OBVIOUS
  <1>4. /\ proc[p].pc = "resend" /\ proc[p].pc \in AtQueue
        /\ box' = Into(box, q, "main", proc[p].mem) /\ Goes(p, st)
        /\ UNCHANGED <<exists, opts, bound, consumers, unacked, home, done, stored, call, spent>>
    BY <1>1, <1>2, <1>3 DEF Resend, AtQueue
  <1>5. /\ proc[p] \in ProcStates /\ StateOK(proc[p]) /\ MemOf(proc[p]) /\ q \in Queues
    BY <1>1, <1>4, QueueType
  <1>6. BrokerInv'
    <2>1. box \in [Queues -> [PartSet -> SUBSET Msgs]] /\ "main" \in PartSet
      BY DEF PartSet, SetupInv, BrokerInv, BrokerTypes
    <2>2. proc[p].mem \subseteq Msgs /\ \A m \in proc[p].mem : home[m] = q
      BY <1>1, <1>5 DEF ProcStates, MemOf, Queue
    <2>3. PICK bx : bx = Into(box, q, "main", proc[p].mem)
      OBVIOUS
    <2>4. bx \in [Queues -> [PartSet -> SUBSET Msgs]]
      BY <1>5, <2>1, <2>2, <2>3, IntoOK
    <2>5. ASSUME NEW r \in Queues, NEW b \in PartSet, NEW m \in bx[r][b]
          PROVE  m \in box[r][b] \/ (b \in exists[r] /\ home[m] = r)
      <3>1. m \in box[r][b] \/ (m \in proc[p].mem /\ r = q /\ b \in exists[q])
        BY <1>5, <2>1, <2>2, <2>3, IntoOK
      <3> QED BY <2>2, <3>1
    <2>6. box' = bx
      BY <1>4, <2>3
    <2> QED BY <1>4, <2>4, <2>5, <2>6, BoxesOK DEF SetupInv
  <1>7. "bind" \in PcStates /\ "bind" \in AtQueue
    BY DEF PcStates, AtQueue
  <1>8. /\ st \in ProcStates /\ st.pc = "bind" /\ st.dep = proc[p].dep /\ st.at = proc[p].at
        /\ st.recover = proc[p].recover /\ st.mem = {}
    BY <1>2, <1>3, <1>5, <1>7 DEF ProcStates
  <1>9. StatesInv'
    BY <1>4, <1>7, <1>8, AtGoes DEF SetupInv
  <1> QED BY <1>4, <1>6, <1>9, RestKept DEF SetupInv

LEMMA BindOK ==
  ASSUME SetupInv, NEW p \in Procs, Bind(p)
  PROVE  SetupInv'
  <1>1. CASE Fail(p)
    BY <1>1, FailOK
  <1>2. CASE ~Fail(p)
    <2>1. PICK q : q = Queue(p)
      OBVIOUS
    <2>2. PICK st : st = [proc[p] EXCEPT !.pc = "consume"]
      OBVIOUS
    <2>3. /\ proc[p].pc = "bind" /\ proc[p].pc \in AtQueue /\ "main" \in exists[q]
          /\ exists' = [exists EXCEPT ![q] = PartSet] /\ bound' = [bound EXCEPT ![q] = TRUE]
          /\ Goes(p, st)
          /\ UNCHANGED <<opts, box, consumers, unacked, home, done, stored, call, spent>>
      BY <1>2, <2>1, <2>2 DEF Bind, Step, AtQueue
    <2>4. /\ proc[p] \in ProcStates /\ StateOK(proc[p]) /\ q \in Queues
      BY <2>1, <2>3, QueueType
    <2>5. BrokerInv'
      <3>1. "main" \in PartSet /\ exists' \in [Queues -> SUBSET PartSet]
        BY <2>3 DEF PartSet, SetupInv, BrokerInv, BrokerTypes
      <3>2. bound' \in [Queues -> BOOLEAN]
        BY <2>3 DEF SetupInv, BrokerInv, BrokerTypes
      <3>3. \A r \in Queues : exists[r] \subseteq exists'[r] /\ ("main" \in exists'[r] <=> "main" \in exists[r])
        BY <2>3, <2>4, <3>1 DEF SetupInv, BrokerInv, BrokerTypes
      <3>4. \A r \in Queues : bound'[r] => "main" \in exists'[r]
        BY <2>3, <2>4, <3>1 DEF SetupInv, BrokerInv, BrokerTypes, BrokerOK
      <3>5. opts' \in [Queues -> Options \cup {None}] /\ consumers' \in [Queues -> SUBSET Procs]
        BY <2>3 DEF SetupInv, BrokerInv, BrokerTypes
      <3>6. \A r \in Queues : /\ opts'[r] = None <=> "main" \notin exists'[r]
                              /\ consumers'[r] # {} => "main" \in exists'[r]
        BY <2>3, <3>3 DEF SetupInv, BrokerInv, BrokerOK
      <3> QED BY <2>3, <3>1, <3>2, <3>3, <3>4, <3>5, <3>6, GrowsOK DEF SetupInv
    <2>6. "consume" \in PcStates /\ "consume" \in AtQueue
      BY DEF PcStates, AtQueue
    <2>7. /\ st \in ProcStates /\ st.pc = "consume" /\ st.dep = proc[p].dep /\ st.at = proc[p].at
          /\ st.recover = proc[p].recover /\ st.mem = proc[p].mem
      BY <2>2, <2>4, <2>6 DEF ProcStates
    <2>8. st.mem = {}
      BY <2>3, <2>4, <2>7 DEF StateOK, Moving
    <2>9. StatesInv'
      BY <2>3, <2>6, <2>7, <2>8, AtGoes DEF SetupInv
    <2> QED BY <2>3, <2>5, <2>9, RestKept DEF SetupInv
  <1> QED BY <1>1, <1>2

LEMMA ConsumeOK ==
  ASSUME SetupInv, NEW p \in Procs, Consume(p)
  PROVE  SetupInv'
  <1>1. CASE Fail(p)
    BY <1>1, FailOK
  <1>2. CASE ~Fail(p)
    <2>1. PICK q : q = Queue(p)
      OBVIOUS
    <2>2. PICK st : st = IF proc[p].at # Len(proc[p].dep) THEN [proc[p] EXCEPT !.pc = "queue", !.at = @ + 1]
                         ELSE [proc[p] EXCEPT !.pc = IF proc[p].recover THEN "up" ELSE "orphans"]
      OBVIOUS
    <2>3. /\ proc[p].pc = "consume" /\ proc[p].pc \in AtQueue /\ "main" \in exists[q]
          /\ consumers' = [consumers EXCEPT ![q] = @ \cup {p}]
          /\ UNCHANGED <<exists, opts, bound, box, unacked, home, done, stored, call, spent>>
      BY <1>2, <2>1 DEF Consume, AtQueue
    <2>4. Goes(p, st)
      BY <1>2, <2>1, <2>2 DEF Consume
    <2>5. /\ proc[p] \in ProcStates /\ StateOK(proc[p]) /\ q \in Queues
          /\ proc[p].at \in 1 .. Len(proc[p].dep) /\ Len(proc[p].dep) \in Nat
      BY <2>1, <2>3, QueueType
    <2>6. BrokerInv'
      <3>1. consumers' \in [Queues -> SUBSET Procs] /\ \A r \in Queues : consumers'[r] # {} => "main" \in exists[r]
        BY <2>3, <2>5 DEF SetupInv, BrokerInv, BrokerTypes, BrokerOK
      <3> QED BY <2>3, <3>1, GrowsOK DEF SetupInv, BrokerInv, BrokerTypes, BrokerOK
    <2>7. proc[p].mem = {}
      BY <2>3, <2>5 DEF StateOK, Moving
    <2>8. /\ st \in ProcStates /\ st.mem = {} /\ st.dep = proc[p].dep /\ st.recover = proc[p].recover
          /\ st.pc \in AtQueue \cup {"read"} => st.at \in 1 .. Len(st.dep)
      <3>1. CASE proc[p].at # Len(proc[p].dep)
        <4>1. PICK n \in Nat : n = proc[p].at + 1
          BY <2>5
        <4>2. n \in 1 .. Len(proc[p].dep)
          BY <2>5, <3>1, <4>1
        <4>3. st = [proc[p] EXCEPT !.pc = "queue", !.at = n]
          BY <2>2, <2>5, <3>1, <4>1 DEF ProcStates
        <4>4. "queue" \in PcStates
          BY DEF PcStates, AtQueue
        <4> QED BY <2>5, <2>7, <4>2, <4>3, <4>4 DEF ProcStates
      <3>2. CASE proc[p].at = Len(proc[p].dep)
        <4>1. PICK pc \in {"up", "orphans"} : pc = IF proc[p].recover THEN "up" ELSE "orphans"
          OBVIOUS
        <4>2. st = [proc[p] EXCEPT !.pc = pc]
          BY <2>2, <3>2, <4>1
        <4>3. pc \in PcStates /\ pc \notin AtQueue \cup {"read"}
          BY <4>1 DEF PcStates, AtQueue
        <4> QED BY <2>5, <2>7, <4>2, <4>3 DEF ProcStates
      <3> QED BY <3>1, <3>2
    <2>9. StateOK(st) /\ MemOf(st)
      BY <2>5, <2>8 DEF StateOK, MemOf
    <2>10. StatesInv'
      BY <2>3, <2>4, <2>8, <2>9, ProcGoes DEF SetupInv
    <2> QED BY <2>3, <2>6, <2>10, RestKept DEF SetupInv
  <1> QED BY <1>1, <1>2

LEMMA NewOptionsType ==
  ASSUME SetupInv, NEW p \in Procs
  PROVE  NewOptions(p) \in [Queues -> Options \cup {None}]
  <1>1. proc[p] \in ProcStates
    BY DEF SetupInv, StatesInv
  <1>2. proc[p].dep \in Deployments \cup {<<>>} /\ proc[p].known \in [Queues -> Options \cup {None}]
    BY <1>1 DEF ProcStates
  <1> QED BY <1>2, OptionsOfType DEF NewOptions

LEMMA StoreOptionsOK ==
  ASSUME SetupInv, NEW p \in Procs, StoreOptions(p)
  PROVE  SetupInv'
  <1>1. PICK st : st = [proc[p] EXCEPT !.pc = "up", !.known = Unknown]
    OBVIOUS
  <1>2. /\ proc[p].pc = "orphans" /\ Store(p, NewOptions(p)) /\ Goes(p, st)
        /\ UNCHANGED broker /\ UNCHANGED <<home, done, call, spent>>
    BY <1>1 DEF StoreOptions
  <1>3. proc[p] \in ProcStates /\ StateOK(proc[p])
    BY DEF SetupInv, StatesInv, ProcOK
  <1>4. "up" \in PcStates /\ Unknown \in [Queues -> Options \cup {None}]
    BY DEF PcStates, Unknown
  <1>5. /\ st \in ProcStates /\ st.pc = "up" /\ st.dep = proc[p].dep /\ st.mem = proc[p].mem
        /\ st.recover = proc[p].recover
    BY <1>1, <1>3, <1>4 DEF ProcStates
  <1>6. st.mem = {} /\ StateOK(st) /\ MemOf(st)
    BY <1>2, <1>3, <1>5 DEF StateOK, MemOf, Moving, AtQueue
  <1>7. stored' \in [Procs -> [Queues -> Options \cup {None}]]
    BY <1>2, NewOptionsType DEF Store, SetupInv, RestInv
  <1>8. RestInv'
    BY <1>2, <1>7 DEF SetupInv, RestInv
  <1> QED BY <1>2, <1>5, <1>6, <1>8, ProcGoes, BrokerKept DEF SetupInv

LEMMA CheckOK ==
  ASSUME SetupInv, NEW p \in Procs, NEW q \in Queues, Check(p, q)
  PROVE  SetupInv'
  <1>1. UNCHANGED broker /\ UNCHANGED <<home, done, stored, proc, call, spent>>
    BY DEF Check
  <1> QED BY <1>1, StatesKept, BrokerKept, RestKept DEF SetupInv

LEMMA DeleteOrphanOK ==
  ASSUME SetupInv, NEW p \in Procs, NEW q \in Queues, DeleteOrphan(p, q)
  PROVE  SetupInv'
  <1>1. CASE Fail(p)
    BY <1>1, FailOK
  <1>2. CASE ~Fail(p)
    <2>1. PICK b : b = Head(orphan[p][q].left)
      OBVIOUS
    <2>2. /\ UNCHANGED <<home, done, stored, call, spent>>
          /\ \/ MainDeleted(q) /\ proc' = Cancelled(q)
             \/ /\ b # "main" /\ exists' = [exists EXCEPT ![q] = @ \ {b}]
                /\ box' = [box EXCEPT ![q][b] = {}]
                /\ UNCHANGED <<opts, bound, consumers, unacked, proc>>
      BY <1>2, <2>1 DEF DeleteOrphan
    <2>3. CASE MainDeleted(q) /\ proc' = Cancelled(q)
      <3>1. proc' \in [Procs -> ProcStates] /\ \A o \in Procs : StateOK(proc'[o]) /\ MemOf(proc'[o])
        BY <2>3, CancelledOK DEF SetupInv
      <3>2. ASSUME NEW o \in Procs PROVE ProcOK(o)' /\ MemOf(proc[o])' /\ HeldOf(call[o])'
        <4>1. CallOK(call[o])' /\ HeldOf(call[o])'
          BY <2>2 DEF SetupInv, StatesInv, ProcOK, CallOK, HeldOf
        <4>2. StateOK(proc[o])' /\ MemOf(proc[o])'
          BY <2>2, <3>1 DEF StateOK, MemOf
        <4> QED BY <4>1, <4>2 DEF ProcOK
      <3>3. StatesInv'
        BY <2>2, <3>1, <3>2 DEF SetupInv, StatesInv
      <3> QED BY <2>2, <2>3, <3>3, MainDeletedOK, RestKept DEF SetupInv
    <2>4. CASE /\ b # "main" /\ exists' = [exists EXCEPT ![q] = @ \ {b}]
               /\ box' = [box EXCEPT ![q][b] = {}]
               /\ UNCHANGED <<opts, bound, consumers, unacked, proc>>
      <3>1. exists' \in [Queues -> SUBSET PartSet] /\ \A r \in Queues : "main" \in exists'[r] <=> "main" \in exists[r]
        BY <2>4 DEF SetupInv, BrokerInv, BrokerTypes
      <3>2. box' \in [Queues -> [PartSet -> SUBSET Msgs]]
        BY <2>4 DEF SetupInv, BrokerInv, BrokerTypes
      <3>3. BrokerTypes'
        BY <2>4, <3>1, <3>2 DEF SetupInv, BrokerInv, BrokerTypes
      <3>4. \A r \in Queues, c \in PartSet : c \in exists[r] => c \in exists'[r] \/ (r = q /\ c = b)
        BY <2>4 DEF SetupInv, BrokerInv, BrokerTypes
      <3>5. \A r \in Queues, c \in PartSet : box'[r][c] = IF r = q /\ c = b THEN {} ELSE box[r][c]
        BY <2>4 DEF SetupInv, BrokerInv, BrokerTypes
      <3>6. BrokerOK'
        <4>1. ASSUME NEW r \in Queues, NEW c \in PartSet \ exists'[r] PROVE box'[r][c] = {}
          <5>1. (r = q /\ c = b) \/ box[r][c] = {}
            BY <3>4 DEF SetupInv, BrokerInv, BrokerOK
          <5> QED BY <3>5, <5>1
        <4>2. \A u \in unacked : u.live => "main" \in exists'[u.queue]
          BY <3>1 DEF SetupInv, BrokerInv, BrokerOK, BrokerTypes
        <4>3. \A r \in Queues : /\ opts[r] = None <=> "main" \notin exists'[r]
                                /\ bound[r] => "main" \in exists'[r]
                                /\ consumers[r] # {} => "main" \in exists'[r]
          BY <3>1 DEF SetupInv, BrokerInv, BrokerOK
        <4> QED BY <2>4, <4>1, <4>2, <4>3 DEF BrokerOK
      <3>7. BoxHome'
        BY <2>2, <3>5 DEF SetupInv, BrokerInv, BoxHome
      <3>8. UnackedHome'
        BY <2>2, <2>4 DEF SetupInv, BrokerInv, UnackedHome
      <3> QED BY <2>2, <2>4, <3>3, <3>6, <3>7, <3>8, StatesKept, RestKept DEF SetupInv, BrokerInv
    <2> QED BY <2>2, <2>3, <2>4
  <1> QED BY <1>1, <1>2

-------------------------------------------------------------------------------
(* The steps: of requeueDeadLetters.                                            *)
LEMMA RequeueOK ==
  ASSUME SetupInv, NEW p \in Procs, NEW q \in Queues, Requeue(p, q)
  PROVE  SetupInv'
  <1>1. PICK count : count = Cardinality(box[q]["dlq"])
    OBVIOUS
  <1>2. PICK none \in SUBSET Msgs : none = {}
    OBVIOUS
  <1>3. PICK c : c = IF count = 0 THEN NoCall
                     ELSE [pc |-> "drain", queue |-> q, left |-> count, held |-> none, sent |-> none,
                           lost |-> none]
    OBVIOUS
  <1>4. /\ exists' = [exists EXCEPT ![q] = @ \cup {"dlq"}] /\ Spend("call") /\ call' = [call EXCEPT ![p] = c]
        /\ UNCHANGED <<opts, bound, box, consumers, unacked, home, done, stored, proc>>
    <2>1. PICK idle : idle = "idle"
      OBVIOUS
    <2>2. PICK zero : zero = 0
      OBVIOUS
    <2>3. PICK no : no = [pc |-> idle, queue |-> None, left |-> zero, held |-> none, sent |-> none, lost |-> none]
      OBVIOUS
    <2>4. NoCall = no
      BY <1>2, <2>1, <2>2, <2>3 DEF NoCall
    <2>5. PICK d : d = [no EXCEPT !.pc = "drain", !.queue = q, !.left = count]
      OBVIOUS
    <2>6. d = [pc |-> "drain", queue |-> q, left |-> count, held |-> none, sent |-> none, lost |-> none]
      BY <2>3, <2>5
    <2>7. [NoCall EXCEPT !.pc = "drain", !.queue = q, !.left = count]
            = [pc |-> "drain", queue |-> q, left |-> count, held |-> none, sent |-> none, lost |-> none]
      BY <2>4, <2>5, <2>6
    <2> QED BY <1>1, <1>3, <2>7 DEF Requeue
  <1>5. BrokerInv'
    <2>1. /\ "dlq" \in PartSet /\ exists' \in [Queues -> SUBSET PartSet]
          /\ \A r \in Queues : exists[r] \subseteq exists'[r] /\ ("main" \in exists'[r] <=> "main" \in exists[r])
      BY <1>4 DEF PartSet, SetupInv, BrokerInv, BrokerTypes
    <2>2. \A r \in Queues : /\ opts[r] = None <=> "main" \notin exists'[r]
                            /\ bound[r] => "main" \in exists'[r]
                            /\ consumers[r] # {} => "main" \in exists'[r]
      BY <2>1 DEF SetupInv, BrokerInv, BrokerOK
    <2> QED BY <1>4, <2>1, <2>2, GrowsOK DEF SetupInv, BrokerInv, BrokerTypes
  <1>6. c \in CallStates /\ CallOK(c) /\ HeldOf(c)
    <2>1. CASE count = 0
      BY <1>3, <2>1, IdleOK
    <2>2. CASE count # 0
      <3>1. count \in Int
        <4>1. box[q]["dlq"] \subseteq Msgs
          BY DEF SetupInv, BrokerInv, BrokerTypes, PartSet
        <4> QED BY <1>1, <4>1, CountType
      <3>2. c = [pc |-> "drain", queue |-> q, left |-> count, held |-> none, sent |-> none,
                 lost |-> none]
        BY <1>3, <2>2
      <3> QED BY <1>2, <3>1, <3>2 DEF CallStates, CallOK, HeldOf
    <2> QED BY <2>1, <2>2
  <1>7. RestInv'
    BY <1>4, SpendOK DEF SetupInv, RestInv, Bounds
  <1> QED BY <1>4, <1>5, <1>6, <1>7, CallGoes DEF SetupInv

LEMMA CallType ==
  ASSUME SetupInv, NEW p \in Procs
  PROVE  /\ call[p] \in CallStates /\ CallOK(call[p]) /\ HeldOf(call[p])
         /\ call[p].pc # "idle" => call[p].queue \in Queues
  BY DEF SetupInv, StatesInv, ProcOK, CallOK

LEMMA ReceiveDeadOK ==
  ASSUME SetupInv, NEW p \in Procs, ReceiveDead(p)
  PROVE  SetupInv'
  <1>1. PICK q : q = call[p].queue
    OBVIOUS
  <1>2. /\ call[p].pc = "drain"
        /\ UNCHANGED <<exists, opts, bound, consumers, unacked, home, done, stored, proc, spent>>
    BY DEF ReceiveDead, Draining
  <1>3. call[p] \in CallStates /\ CallOK(call[p]) /\ HeldOf(call[p]) /\ q \in Queues
    BY <1>1, <1>2, CallType
  <1>4. PICK m \in box[q]["dlq"] :
          /\ box' = Without(q, "dlq", m)
          /\ call' = [call EXCEPT ![p].held = @ \cup {m}, ![p].left = @ - 1,
                                  ![p].pc = IF call[p].left = 1 THEN "closing" ELSE "drain"]
    BY <1>1 DEF ReceiveDead
  <1>5. m \in Msgs /\ home[m] = q /\ "dlq" \in PartSet
    BY <1>3 DEF PartSet, SetupInv, BrokerInv, BrokerTypes, BoxHome
  <1>6. BrokerInv'
    <2>1. BrokerInv /\ BrokerTypes /\ BoxHome
      BY DEF SetupInv, BrokerInv
    <2>2. PICK bx : bx = Without(q, "dlq", m)
      OBVIOUS
    <2>3. /\ bx \in [Queues -> [PartSet -> SUBSET Msgs]]
          /\ \A r \in Queues, b \in PartSet : bx[r][b] \subseteq box[r][b]
      BY <1>3, <1>5, <2>1, <2>2, WithoutOK
    <2> QED BY <1>2, <1>4, <2>1, <2>2, <2>3, BoxesOK
  <1>7. PICK pc \in {"closing", "drain"} : pc = IF call[p].left = 1 THEN "closing" ELSE "drain"
    OBVIOUS
  <1>8. PICK n \in Int : n = call[p].left - 1
    BY <1>3 DEF CallStates
  <1>9. PICK held \in SUBSET Msgs : held = call[p].held \cup {m}
    BY <1>3, <1>5 DEF CallStates
  <1>10. PICK c : c = [call[p] EXCEPT !.held = held, !.left = n, !.pc = pc]
    OBVIOUS
  <1>11. call' = [call EXCEPT ![p] = c]
    BY <1>3, <1>4, <1>7, <1>8, <1>9, <1>10 DEF CallStates, SetupInv, StatesInv
  <1>12. c \in CallStates /\ c.pc = pc /\ c.queue = q /\ c.held = held
    BY <1>1, <1>3, <1>7, <1>10 DEF CallStates
  <1>13. CallOK(c) /\ HeldOf(c)
    <2>1. \A x \in held : home[x] = q
      BY <1>1, <1>3, <1>5, <1>9 DEF HeldOf
    <2> QED BY <1>3, <1>7, <1>12, <2>1 DEF CallOK, HeldOf
  <1> QED BY <1>2, <1>6, <1>11, <1>12, <1>13, CallGoes, RestKept DEF SetupInv

(* A call that goes on.                                                         *)
With(c, pc, held, sent, lost) == [c EXCEPT !.pc = pc, !.held = held, !.sent = sent, !.lost = lost]

LEMMA CallWith ==
  ASSUME NEW c \in CallStates, c.queue \in Queues, HeldOf(c), NEW pc \in {"closing", "publish", "again"},
         NEW held \in SUBSET c.held, NEW sent \in SUBSET Msgs, NEW lost \in SUBSET Msgs
  PROVE  /\ With(c, pc, held, sent, lost) \in CallStates /\ CallOK(With(c, pc, held, sent, lost))
         /\ HeldOf(With(c, pc, held, sent, lost)) /\ With(c, pc, held, sent, lost).pc = pc
         /\ With(c, pc, held, sent, lost).held = held /\ With(c, pc, held, sent, lost).lost = lost
         /\ With(c, pc, held, sent, lost).queue = c.queue
  <1>1. PICK d : d = With(c, pc, held, sent, lost)
    OBVIOUS
  <1>2. held \in SUBSET Msgs
    BY DEF CallStates
  <1>3. d \in CallStates /\ d.pc = pc /\ d.held = held /\ d.lost = lost /\ d.queue = c.queue
    BY <1>1, <1>2 DEF CallStates, With
  <1>4. CallOK(d) /\ HeldOf(d)
    BY <1>3 DEF CallOK, HeldOf
  <1> QED BY <1>1, <1>3, <1>4

(* A message that goes to a queue, one there already or a new one.              *)
LEMMA SentOK ==
  ASSUME BrokerInv, NEW m \in Msgs, NEW q \in Queues, box' = Into(box, q, "main", {m}),
         home'[m] = q, \A x \in Msgs : home[x] # None => home'[x] = home[x],
         UNCHANGED <<exists, opts, bound, consumers, unacked>>
  PROVE  BrokerInv'
  <1>1. box \in [Queues -> [PartSet -> SUBSET Msgs]] /\ "main" \in PartSet
    BY DEF PartSet, BrokerInv, BrokerTypes
  <1>2. PICK bx : bx = Into(box, q, "main", {m})
    OBVIOUS
  <1>3. bx \in [Queues -> [PartSet -> SUBSET Msgs]]
    BY SMTT(60), <1>1, <1>2, IntoOK
  <1>4. ASSUME NEW r \in Queues, NEW b \in PartSet, NEW x \in bx[r][b]
        PROVE  x \in box[r][b] \/ (b \in exists[r] /\ home'[x] = r)
    <2>1. x \in box[r][b] \/ (x = m /\ r = q /\ b \in exists[q])
      BY <1>1, <1>2, IntoOK
    <2> QED BY <2>1
  <1>5. box' = bx /\ unacked' \subseteq unacked
    BY <1>2
  <1> QED BY <1>3, <1>4, <1>5, BoxesOK

LEMMA HomesGrow ==
  ASSUME StatesInv, \A x \in Msgs : home[x] # None => home'[x] = home[x], proc' = proc,
         call' \in [Procs -> CallStates], \A p \in Procs : CallOK(call'[p]) /\ HeldOf(call'[p])
  PROVE  StatesInv'
  <1>1. ASSUME NEW p \in Procs PROVE ProcOK(p)' /\ MemOf(proc[p])' /\ HeldOf(call[p])'
    <2>1. proc[p] \in ProcStates /\ StateOK(proc[p]) /\ MemOf(proc[p])
      BY DEF StatesInv, ProcOK
    <2>2. PICK c : c = call'[p]
      OBVIOUS
    <2>3. c \in CallStates /\ CallOK(c) /\ HeldOf(c)
      BY <2>2
    <2>4. ProcOK(p)'
      BY <2>1, <2>2, <2>3 DEF ProcOK, StateOK, CallOK
    <2>5. ASSUME NEW x \in proc[p].mem PROVE home'[x] = proc[p].dep[proc[p].at].queue
      <3>1. proc[p].pc \in AtQueue \cup {"read"}
        BY <2>1, <2>5 DEF StateOK, Moving, AtQueue
      <3>2. x \in Msgs /\ home[x] = Queue(p) /\ Queue(p) \in Queues
        BY <2>1, <3>1, AtSubscriber DEF ProcStates, MemOf, Queue
      <3> QED BY <3>2, SetupAssumption DEF Queue
    <2>6. ASSUME NEW x \in c.held PROVE home'[x] = c.queue
      <3>1. x \in Msgs /\ home[x] = c.queue /\ c.queue \in Queues
        BY <2>3, <2>6 DEF CallStates, CallOK, HeldOf
      <3> QED BY <3>1, SetupAssumption
    <2> QED BY <2>2, <2>4, <2>5, <2>6 DEF MemOf, HeldOf
  <1> QED BY <1>1 DEF StatesInv

LEMMA SendsOK ==
  ASSUME SetupInv, NEW p \in Procs, NEW m, Sends(p, m)
  PROVE  /\ call[p].pc \in {"publish", "again"} /\ call[p].queue \in Queues
         /\ call[p] \in CallStates /\ HeldOf(call[p])
         /\ box' = Into(box, call[p].queue, "main", {m}) /\ proc' = proc
         /\ UNCHANGED <<exists, opts, bound, consumers, unacked, done, stored, spent>>
  BY CallType DEF Sends

LEMMA CloseOkOK ==
  ASSUME SetupInv, NEW p \in Procs, CloseOk(p)
  PROVE  SetupInv'
  <1>1. /\ call[p].pc = "closing" /\ call' = [call EXCEPT ![p].pc = "publish"]
        /\ UNCHANGED broker /\ UNCHANGED <<home, done, stored, proc, spent>>
    BY DEF CloseOk
  <1>2. call[p] \in CallStates /\ call[p].queue \in Queues /\ HeldOf(call[p])
    BY <1>1, CallType
  <1>3. PICK held \in SUBSET Msgs, sent \in SUBSET Msgs, lost \in SUBSET Msgs :
          held = call[p].held /\ sent = call[p].sent /\ lost = call[p].lost
    BY <1>2 DEF CallStates
  <1>4. PICK c : c = With(call[p], "publish", held, sent, lost)
    OBVIOUS
  <1>5. c \in CallStates /\ CallOK(c) /\ HeldOf(c)
    BY <1>2, <1>3, <1>4, CallWith
  <1>6. c = [call[p] EXCEPT !.pc = "publish"]
    BY <1>2, <1>3, <1>4 DEF CallStates, With
  <1>7. call' = [call EXCEPT ![p] = c]
    BY <1>1, <1>6
  <1> QED BY <1>1, <1>5, <1>7, CallGoes, BrokerKept, RestKept DEF SetupInv

LEMMA RepublishOK ==
  ASSUME SetupInv, NEW p \in Procs, Republish(p)
  PROVE  SetupInv'
  <1>1. PICK m \in call[p].held :
          /\ Sends(p, m) /\ home' = home
          /\ call' = [call EXCEPT ![p].held = @ \ {m}, ![p].sent = @ \cup {m}]
    BY DEF Republish
  <1>2. /\ call[p].pc \in {"publish", "again"} /\ call[p].queue \in Queues
        /\ call[p] \in CallStates /\ HeldOf(call[p])
        /\ box' = Into(box, call[p].queue, "main", {m}) /\ proc' = proc
        /\ UNCHANGED <<exists, opts, bound, consumers, unacked, done, stored, spent>>
    BY <1>1, SendsOK
  <1>3. m \in Msgs /\ home[m] = call[p].queue
    BY <1>2 DEF CallStates, HeldOf
  <1>4. BrokerInv'
    BY <1>1, <1>2, <1>3, SentOK DEF SetupInv
  <1>5. PICK pc \in {"publish", "again"}, held \in SUBSET call[p].held, sent \in SUBSET Msgs,
             lost \in SUBSET Msgs :
          /\ pc = call[p].pc /\ held = call[p].held \ {m} /\ sent = call[p].sent \cup {m}
          /\ lost = call[p].lost
    BY <1>2, <1>3 DEF CallStates
  <1>6. PICK c : c = With(call[p], pc, held, sent, lost)
    OBVIOUS
  <1>7. c \in CallStates /\ CallOK(c) /\ HeldOf(c)
    BY <1>2, <1>6, CallWith
  <1>8. c = [call[p] EXCEPT !.held = @ \ {m}, !.sent = @ \cup {m}]
    BY <1>2, <1>5, <1>6 DEF CallStates, With
  <1>9. call' = [call EXCEPT ![p] = c]
    BY <1>1, <1>8 DEF SetupInv, StatesInv
  <1> QED BY <1>1, <1>2, <1>4, <1>7, <1>9, CallGoes, RestKept DEF SetupInv

LEMMA RepublishAgainOK ==
  ASSUME SetupInv, NEW p \in Procs, RepublishAgain(p)
  PROVE  SetupInv'
  <1>1. PICK m \in call[p].lost, s \in Spares :
          /\ home[s] = None /\ Sends(p, s) /\ home' = [home EXCEPT ![s] = call[p].queue]
          /\ call' = [call EXCEPT ![p].lost = @ \ {m}, ![p].sent = @ \cup {s}]
    BY DEF RepublishAgain
  <1>2. /\ call[p].pc \in {"publish", "again"} /\ call[p].queue \in Queues
        /\ call[p] \in CallStates /\ HeldOf(call[p])
        /\ box' = Into(box, call[p].queue, "main", {s}) /\ proc' = proc
        /\ UNCHANGED <<exists, opts, bound, consumers, unacked, done, stored, spent>>
    BY <1>1, SendsOK
  <1>3. s \in Msgs /\ call \in [Procs -> CallStates]
    BY SetupAssumption DEF SetupInv, StatesInv
  <1>4. /\ home' \in [Msgs -> Queues \cup {None}] /\ home'[s] = call[p].queue
        /\ \A x \in Msgs : home[x] # None => home'[x] = home[x]
    BY <1>1, <1>2, <1>3 DEF SetupInv, RestInv
  <1>5. BrokerInv'
    BY <1>2, <1>3, <1>4, SentOK DEF SetupInv
  <1>6. PICK pc \in {"publish", "again"}, held \in SUBSET call[p].held, sent \in SUBSET Msgs,
             lost \in SUBSET Msgs :
          /\ pc = call[p].pc /\ held = call[p].held /\ sent = call[p].sent \cup {s}
          /\ lost = call[p].lost \ {m}
    BY <1>2, <1>3 DEF CallStates
  <1>7. PICK c : c = With(call[p], pc, held, sent, lost)
    OBVIOUS
  <1>8. c \in CallStates /\ CallOK(c) /\ HeldOf(c)
    BY <1>2, <1>7, CallWith
  <1>9. c = [call[p] EXCEPT !.lost = @ \ {m}, !.sent = @ \cup {s}]
    BY <1>2, <1>6, <1>7 DEF CallStates, With
  <1>10. call' = [call EXCEPT ![p] = c]
    BY <1>1, <1>9 DEF SetupInv, StatesInv
  <1>11. StatesInv'
    <2>1. /\ call' \in [Procs -> CallStates] /\ call'[p] = c
          /\ \A o \in Procs : o # p => call'[o] = call[o]
      BY <1>3, <1>8, <1>10
    <2>2. \A o \in Procs : CallOK(call[o]) /\ HeldOf(call[o])
      BY CallType
    <2>3. \A o \in Procs : CallOK(call'[o]) /\ HeldOf(call'[o])
      BY <1>8, <2>1, <2>2
    <2> QED BY <1>2, <1>4, <2>1, <2>3, HomesGrow DEF SetupInv
  <1>12. RestInv'
    BY <1>2, <1>4, SetupAssumption DEF SetupInv, RestInv
  <1> QED BY <1>5, <1>11, <1>12 DEF SetupInv

LEMMA ConfirmedOK ==
  ASSUME SetupInv, NEW p \in Procs, Confirmed(p)
  PROVE  SetupInv'
  <1>1. PICK m \in call[p].sent :
          /\ call' = [call EXCEPT ![p] =
               IF call[p].held \cup call[p].lost = {} /\ call[p].sent = {m} THEN NoCall
               ELSE [call[p] EXCEPT !.sent = @ \ {m}]]
          /\ UNCHANGED broker /\ UNCHANGED <<home, done, stored, proc, spent>>
    BY DEF Confirmed
  <1>2. PICK c : c = IF call[p].held \cup call[p].lost = {} /\ call[p].sent = {m} THEN NoCall
                     ELSE [call[p] EXCEPT !.sent = @ \ {m}]
    OBVIOUS
  <1>3. call[p] \in CallStates /\ CallOK(call[p]) /\ HeldOf(call[p])
    BY CallType
  <1>4. PICK sent \in SUBSET Msgs : sent = call[p].sent \ {m}
    BY <1>3 DEF CallStates
  <1>5. PICK d : d = [call[p] EXCEPT !.sent = sent]
    OBVIOUS
  <1>6. d \in CallStates /\ d.pc = call[p].pc /\ d.held = call[p].held /\ d.lost = call[p].lost /\ d.queue = call[p].queue
    BY <1>3, <1>5 DEF CallStates
  <1>7. CallOK(d) /\ HeldOf(d)
    BY <1>3, <1>6 DEF CallOK, HeldOf
  <1>8. c = NoCall \/ c = d
    BY <1>2, <1>3, <1>4, <1>5 DEF CallStates
  <1>9. c \in CallStates /\ CallOK(c) /\ HeldOf(c)
    BY <1>6, <1>7, <1>8, IdleOK
  <1> QED BY <1>1, <1>2, <1>9, CallGoes, BrokerKept, RestKept DEF SetupInv

LEMMA GiveUpOK ==
  ASSUME SetupInv, NEW p \in Procs, GiveUp(p)
  PROVE  SetupInv'
  <1>1. call' = [call EXCEPT ![p] = NoCall] /\ UNCHANGED broker /\ UNCHANGED <<home, done, stored, proc, spent>>
    BY DEF GiveUp
  <1> QED BY <1>1, IdleOK, CallGoes, BrokerKept, RestKept DEF SetupInv

-------------------------------------------------------------------------------
(* The steps: of the broker, its publishers and the consumers.                  *)
LEMMA PublishOK ==
  ASSUME SetupInv, NEW m \in Msgs, NEW q \in Queues, Publish(m, q)
  PROVE  SetupInv'
  <1>1. /\ home[m] = None /\ "main" \in exists[q] /\ home' = [home EXCEPT ![m] = q]
        /\ box' = Into(box, q, "main", {m})
        /\ UNCHANGED <<exists, opts, bound, consumers, unacked, done, stored, proc, call, spent>>
    BY DEF Publish
  <1>2. /\ home' \in [Msgs -> Queues \cup {None}] /\ home'[m] = q
        /\ \A x \in Msgs : home[x] # None => home'[x] = home[x]
    BY <1>1 DEF SetupInv, RestInv
  <1>3. BrokerInv'
    BY <1>1, <1>2, SentOK DEF SetupInv
  <1>4. StatesInv'
    <2>1. \A p \in Procs : CallOK(call[p]) /\ HeldOf(call[p])
      BY CallType
    <2>2. call' \in [Procs -> CallStates] /\ proc' = proc /\ call' = call
      BY <1>1 DEF SetupInv, StatesInv
    <2>3. \A p \in Procs : CallOK(call'[p]) /\ HeldOf(call'[p])
      BY <2>1, <2>2
    <2> QED BY <1>2, <2>2, <2>3, HomesGrow DEF SetupInv
  <1>5. RestInv'
    BY <1>1, <1>2 DEF SetupInv, RestInv
  <1> QED BY <1>3, <1>4, <1>5 DEF SetupInv

LEMMA TakeOK ==
  ASSUME SetupInv, NEW p \in Procs, NEW q \in Queues, Take(p, q)
  PROVE  SetupInv'
  <1>1. /\ p \in consumers[q]
        /\ UNCHANGED <<exists, opts, bound, consumers, home, done, stored, proc, call, spent>>
    BY DEF Take
  <1>2. PICK m \in box[q]["main"] :
          /\ box' = Without(q, "main", m)
          /\ unacked' = unacked \cup {[msg |-> m, queue |-> q, by |-> p, live |-> TRUE]}
    BY DEF Take
  <1>3. BrokerInv /\ BrokerTypes /\ BoxHome
    BY DEF SetupInv, BrokerInv
  <1>4. m \in Msgs /\ home[m] = q /\ "main" \in PartSet /\ "main" \in exists[q]
    BY <1>1, <1>3 DEF PartSet, BrokerInv, BrokerTypes, BoxHome, BrokerOK
  <1>5. PICK live \in BOOLEAN : live = TRUE
    OBVIOUS
  <1>6. PICK w : w = [msg |-> m, queue |-> q, by |-> p, live |-> live]
    OBVIOUS
  <1>7. /\ unacked' = unacked \cup {w} /\ w \in [msg : Msgs, queue : Queues, by : Procs, live : BOOLEAN]
        /\ w.queue = q /\ w.msg = m
    BY <1>2, <1>4, <1>5, <1>6
  <1>8. PICK bx : bx = Without(q, "main", m)
    OBVIOUS
  <1>9. /\ bx \in [Queues -> [PartSet -> SUBSET Msgs]]
        /\ \A r \in Queues, b \in PartSet : bx[r][b] \subseteq box[r][b]
    BY <1>3, <1>4, <1>8, WithoutOK
  <1>10. BrokerTypes'
    BY <1>1, <1>2, <1>3, <1>7, <1>8, <1>9 DEF BrokerTypes
  <1>11. BrokerOK'
    <2>1. ASSUME NEW r \in Queues, NEW b \in PartSet \ exists[r] PROVE bx[r][b] = {}
      <3>1. box[r][b] = {}
        BY DEF SetupInv, BrokerInv, BrokerOK
      <3> QED BY <1>9, <3>1
    <2>2. \A u \in unacked' : u.live => "main" \in exists[u.queue]
      BY <1>4, <1>7 DEF SetupInv, BrokerInv, BrokerOK
    <2>3. \A r \in Queues : /\ opts[r] = None <=> "main" \notin exists[r]
                            /\ bound[r] => "main" \in exists[r]
                            /\ consumers[r] # {} => "main" \in exists[r]
      BY DEF SetupInv, BrokerInv, BrokerOK
    <2> QED BY <1>1, <1>2, <1>8, <2>1, <2>2, <2>3 DEF BrokerOK
  <1>12. BoxHome'
    BY <1>1, <1>2, <1>3, <1>8, <1>9 DEF BoxHome
  <1>13. UnackedHome'
    BY <1>1, <1>4, <1>7 DEF SetupInv, BrokerInv, UnackedHome
  <1> QED BY <1>1, <1>10, <1>11, <1>12, <1>13, StatesKept, RestKept DEF SetupInv, BrokerInv

LEMMA EndsOK ==
  ASSUME SetupInv, NEW u \in unacked, Ends(u)
  PROVE  SetupInv'
  <1>1. /\ unacked' = unacked \ {u}
        /\ UNCHANGED <<exists, opts, bound, consumers, home, stored, proc, call, spent>>
        /\ done' = done \cup {u.msg} \/ done' = done
    BY DEF Ends
  <1>2. u.msg \in Msgs /\ u.queue \in Queues /\ home[u.msg] = u.queue
    BY DEF SetupInv, BrokerInv, BrokerTypes, UnackedHome
  <1>3. PICK bx : bx = box'
    OBVIOUS
  <1>4. bx = box \/ \E b \in PartSet : bx = Into(box, u.queue, b, {u.msg})
    BY <1>3 DEF Ends, PartSet
  <1>5. box \in [Queues -> [PartSet -> SUBSET Msgs]]
    BY DEF SetupInv, BrokerInv, BrokerTypes
  <1>6. bx \in [Queues -> [PartSet -> SUBSET Msgs]]
    BY <1>2, <1>4, <1>5, IntoOK
  <1>7. ASSUME NEW r \in Queues, NEW b \in PartSet, NEW x \in bx[r][b]
        PROVE  x \in box[r][b] \/ (b \in exists[r] /\ home[x] = r)
    <2>1. x \in box[r][b] \/ (x = u.msg /\ r = u.queue /\ b \in exists[r])
      <3>1. CASE bx = box
        BY <1>7, <3>1
      <3>2. ASSUME NEW c \in PartSet, bx = Into(box, u.queue, c, {u.msg})
            PROVE  x \in box[r][b] \/ (x = u.msg /\ r = u.queue /\ b \in exists[r])
        BY <1>2, <1>5, <1>7, <3>2, IntoOK
      <3> QED BY <1>4, <3>1, <3>2
    <2> QED BY <1>2, <2>1
  <1>8. BrokerInv'
    BY <1>1, <1>3, <1>6, <1>7, BoxesOK DEF SetupInv
  <1>9. RestInv'
    BY <1>1, <1>2, SetupAssumption DEF SetupInv, RestInv
  <1> QED BY <1>1, <1>8, <1>9, StatesKept DEF SetupInv

LEMMA ExpireOK ==
  ASSUME SetupInv, NEW q \in Queues, Expire(q)
  PROVE  SetupInv'
  <1>1. UNCHANGED <<exists, opts, bound, consumers, unacked, home, done, stored, proc, call, spent>>
    BY DEF Expire
  <1>2. PICK m \in box[q]["schq"] :
          \E rest : /\ rest = Without(q, "schq", m)
                    /\ box' = IF bound[q] THEN Into(rest, q, "main", {m}) ELSE rest
    BY DEF Expire
  <1>3. PICK rest : rest = Without(q, "schq", m) /\ box' = IF bound[q] THEN Into(rest, q, "main", {m}) ELSE rest
    BY <1>2
  <1>4. BrokerTypes /\ "schq" \in PartSet /\ "main" \in PartSet /\ m \in Msgs /\ home[m] = q
    BY DEF PartSet, SetupInv, BrokerInv, BrokerTypes, BoxHome
  <1>5. /\ rest \in [Queues -> [PartSet -> SUBSET Msgs]]
        /\ \A r \in Queues, b \in PartSet : rest[r][b] \subseteq box[r][b]
    BY <1>3, <1>4, WithoutOK
  <1>6. PICK bx : bx = box'
    OBVIOUS
  <1>7. bx = rest \/ bx = Into(rest, q, "main", {m})
    BY <1>3, <1>6
  <1>8. bx \in [Queues -> [PartSet -> SUBSET Msgs]]
    BY <1>4, <1>5, <1>7, IntoOK
  <1>9. ASSUME NEW r \in Queues, NEW b \in PartSet, NEW x \in bx[r][b]
        PROVE  x \in box[r][b] \/ (b \in exists[r] /\ home[x] = r)
    <2>1. x \in rest[r][b] \/ (x = m /\ r = q /\ b \in exists[r])
      BY <1>4, <1>5, <1>7, <1>9, IntoOK
    <2> QED BY <1>4, <1>5, <2>1
  <1>10. BrokerInv'
    BY <1>1, <1>6, <1>8, <1>9, BoxesOK DEF SetupInv
  <1> QED BY <1>1, <1>10, StatesKept, RestKept DEF SetupInv

-------------------------------------------------------------------------------
(* The steps: processes end, and connections drop.                              *)
LEMMA GoneOK ==
  ASSUME SetupInv, NEW p \in Procs, Gone(p)
  PROVE  BrokerInv' /\ StatesInv'
  <1>1. /\ Goes(p, Off) /\ call' = [call EXCEPT ![p] = NoCall] /\ UNCHANGED <<exists, opts, bound, home>>
    BY DEF Gone
  <1>2. BrokerInv'
    <2>1. PICK back \in SUBSET (Acked(p) \cup AckedDead(p)) : Disconnected(p, back)
      BY DEF Gone
    <2> QED BY <1>1, <2>1, DisconnectedOK
  <1>3. PICK st : st = Fresh("off", <<>>, FALSE)
    OBVIOUS
  <1>4. st \in ProcStates /\ StateOK(st) /\ MemOf(st) /\ proc' = [proc EXCEPT ![p] = st]
    BY <1>1, <1>3, FreshOK, FreshIsOff DEF Goes
  <1> QED BY <1>1, <1>2, <1>4, IdleOK, StatesOK DEF SetupInv

LEMMA StopOK ==
  ASSUME SetupInv, NEW p \in Procs, Stop(p)
  PROVE  SetupInv'
  BY GoneOK, RestKept DEF Stop, Gone, SetupInv

LEMMA CrashOK ==
  ASSUME SetupInv, NEW p \in Procs, Crash(p)
  PROVE  SetupInv'
  <1>1. RestInv'
    BY SpendOK DEF Crash, Gone, SetupInv, RestInv, Bounds
  <1> QED BY <1>1, GoneOK DEF Crash, SetupInv

LEMMA RecoverOK ==
  ASSUME SetupInv, NEW p \in Procs, proc[p].dep # <<>>
  PROVE  LET st == [Off EXCEPT !.pc = "read", !.dep = proc[p].dep, !.recover = TRUE] IN
         st \in ProcStates /\ StateOK(st) /\ MemOf(st)
  <1>1. proc[p].dep \in Deployments \cup {<<>>}
    BY DEF SetupInv, StatesInv, ProcStates
  <1> QED BY <1>1, FreshOK, FreshIsOff

LEMMA RetryOK ==
  ASSUME SetupInv, NEW p \in Procs, Retry(p)
  PROVE  SetupInv'
  <1>1. PICK st : st = [Off EXCEPT !.pc = "read", !.dep = proc[p].dep, !.recover = TRUE]
    OBVIOUS
  <1>2. /\ proc' = [proc EXCEPT ![p] = st] /\ proc[p].recover
        /\ UNCHANGED broker /\ UNCHANGED <<home, done, stored, spent>>
        /\ call' = [call EXCEPT ![p].pc = IF @ = "publish" THEN "again" ELSE @]
    BY <1>1 DEF Retry, Goes
  <1>3. st \in ProcStates /\ StateOK(st) /\ MemOf(st)
    <2>1. proc[p].dep # <<>>
      BY <1>2 DEF SetupInv, StatesInv, ProcOK, StateOK
    <2> QED BY <1>1, <2>1, RecoverOK
  <1>4. call[p] \in CallStates /\ CallOK(call[p]) /\ HeldOf(call[p])
    BY CallType
  <1>5. PICK pc \in {"idle", "drain", "closing", "publish", "again"} :
          pc = IF call[p].pc = "publish" THEN "again" ELSE call[p].pc
    BY <1>4 DEF CallStates
  <1>6. PICK c : c = [call[p] EXCEPT !.pc = pc]
    OBVIOUS
  <1>7. c \in CallStates /\ CallOK(c) /\ HeldOf(c)
    <2>1. /\ c \in CallStates /\ c.pc = pc /\ c.held = call[p].held /\ c.lost = call[p].lost
          /\ c.queue = call[p].queue
      BY <1>4, <1>6 DEF CallStates
    <2>2. pc = "idle" <=> call[p].pc = "idle"
      BY <1>5
    <2> QED BY <1>4, <2>1, <2>2 DEF CallOK, HeldOf
  <1>8. call' = [call EXCEPT ![p] = c]
    BY <1>2, <1>5, <1>6 DEF SetupInv, StatesInv
  <1> QED BY <1>2, <1>3, <1>7, <1>8, StatesOK, BrokerKept, RestKept DEF SetupInv

(* The call of a process that loses its connection: in none of its stages does  *)
(* it hold what it did not hold, or what the broker has again.                  *)
LEMMA InterruptedOK ==
  ASSUME SetupInv, NEW p \in Procs, NEW back \in SUBSET (Acked(p) \cup AckedDead(p))
  PROVE  LET c == Interrupted(p, back) IN
         /\ c \in CallStates /\ CallOK(c) /\ HeldOf(c)
         /\ c.held \subseteq call[p].held
         /\ c.held \cap back \cap AckedDead(p) = {}
         /\ c.held # {} => c.queue = call[p].queue
  <1>1. PICK c : c = Interrupted(p, back)
    OBVIOUS
  <1>2. call[p] \in CallStates /\ CallOK(call[p]) /\ HeldOf(call[p]) /\ call[p].held \in SUBSET Msgs
    BY CallType DEF CallStates
  <1>3. CASE c = NoCall
    <2>1. NoCall.held = {}
      BY DEF NoCall
    <2> QED BY <1>1, <1>3, <2>1, IdleOK
  <1>4. CASE call[p].pc = "closing" /\ c # NoCall
    <2>1. PICK held \in SUBSET call[p].held, lost \in SUBSET Msgs, sent \in SUBSET Msgs :
            held = call[p].held \ back /\ lost = call[p].held \cap back /\ sent = call[p].sent
      BY <1>2 DEF CallStates
    <2>2. PICK d : d = With(call[p], "publish", held, sent, lost)
      OBVIOUS
    <2>3. c = [call[p] EXCEPT !.pc = "publish", !.held = @ \ back, !.lost = call[p].held \cap back]
      BY <1>1, <1>4 DEF Interrupted
    <2>4. c = d
      BY <1>2, <2>1, <2>2, <2>3 DEF CallStates, With
    <2>5. call[p].queue \in Queues
      BY <1>2, <1>4 DEF CallOK
    <2>6. d \in CallStates /\ CallOK(d) /\ HeldOf(d) /\ d.held = held
      BY <1>2, <2>2, <2>5, CallWith
    <2>7. d.queue = call[p].queue
      BY <1>2, <2>2, <2>5, CallWith
    <2> QED BY <1>1, <2>1, <2>4, <2>6, <2>7
  <1>5. CASE call[p].pc = "publish" /\ c # NoCall
    <2>1. PICK held \in SUBSET call[p].held, lost \in SUBSET Msgs, sent \in SUBSET Msgs :
            held = call[p].held /\ lost = call[p].lost \cup call[p].sent /\ sent = {}
      BY <1>2 DEF CallStates
    <2>2. PICK d : d = With(call[p], "again", held, sent, lost)
      OBVIOUS
    <2>3. c = [call[p] EXCEPT !.pc = "again", !.sent = {}, !.lost = @ \cup call[p].sent]
      BY <1>1, <1>5 DEF Interrupted
    <2>4. c = d
      BY <1>2, <2>1, <2>2, <2>3 DEF CallStates, With
    <2>5. call[p].queue \in Queues
      BY <1>2, <1>5 DEF CallOK
    <2>6. d \in CallStates /\ CallOK(d) /\ HeldOf(d) /\ d.held = held /\ d.queue = call[p].queue
      BY <1>2, <2>2, <2>5, CallWith
    <2>7. AckedDead(p) = {}
      BY <1>5 DEF AckedDead
    <2> QED BY <1>1, <2>1, <2>4, <2>6, <2>7
  <1>6. CASE ~(call[p].pc \in {"closing", "publish"}) /\ c # NoCall
    <2>1. c = call[p] /\ call[p].pc # "drain"
      BY <1>1, <1>6 DEF Interrupted
    <2>2. AckedDead(p) = {}
      BY <1>6, <2>1 DEF AckedDead
    <2> QED BY <1>1, <1>2, <2>1, <2>2
  <1> QED BY <1>3, <1>4, <1>5, <1>6

LEMMA DropOK ==
  ASSUME SetupInv, NEW p \in Procs, Drop(p)
  PROVE  SetupInv'
  <1>1. PICK back \in SUBSET (Acked(p) \cup AckedDead(p)) :
          Disconnected(p, back) /\ call' = [call EXCEPT ![p] = Interrupted(p, back)]
    BY DEF Drop
  <1>2. PICK st : st = [Off EXCEPT !.pc = "read", !.dep = proc[p].dep, !.recover = TRUE]
    OBVIOUS
  <1>3. /\ proc[p].dep # <<>> /\ Spend("fault")
        /\ proc' = [proc EXCEPT ![p] = st] /\ UNCHANGED <<exists, opts, bound, home, done, stored>>
    BY <1>2 DEF Drop, Goes
  <1>4. PICK c : c = Interrupted(p, back)
    OBVIOUS
  <1>5. c \in CallStates /\ CallOK(c) /\ HeldOf(c)
    BY <1>4, InterruptedOK
  <1>6. st \in ProcStates /\ StateOK(st) /\ MemOf(st)
    BY <1>2, <1>3, RecoverOK
  <1>7. StatesInv'
    BY <1>1, <1>3, <1>4, <1>5, <1>6, StatesOK DEF SetupInv
  <1>8. RestInv'
    BY <1>3, SpendOK DEF SetupInv, RestInv, Bounds
  <1> QED BY <1>1, <1>3, <1>7, <1>8, DisconnectedOK DEF SetupInv

-------------------------------------------------------------------------------
(* The invariant.                                                               *)
LEMMA SetupInit == Init => SetupInv
  <1> SUFFICES ASSUME Init PROVE SetupInv
    OBVIOUS
  <1>1. PICK d \in Deployments \cup {<<>>} :
          /\ opts = OptionsOf(d) /\ exists = [q \in Queues |-> IF q \in Names(d) THEN PartSet ELSE {}]
          /\ bound = [q \in Queues |-> q \in Names(d)] /\ stored = [p \in Procs |-> OptionsOf(d)]
    BY DEF Init
  <1>2. /\ OptionsOf(d) \in [Queues -> Options \cup {None}]
        /\ \A q \in Queues : OptionsOf(d)[q] = None <=> q \notin Names(d)
    BY OptionsOfType
  <1>3. /\ box = [q \in Queues |-> [b \in PartSet |-> {}]] /\ consumers = [q \in Queues |-> {}]
        /\ unacked = {} /\ home = [m \in Msgs |-> None] /\ done = {}
        /\ proc = [p \in Procs |-> Off] /\ call = [p \in Procs |-> NoCall]
        /\ spent = [k \in DOMAIN Bounds |-> 0]
    BY DEF Init
  <1>4. BrokerTypes
    <2>1. exists \in [Queues -> SUBSET PartSet]
      BY <1>1
    <2>2. bound \in [Queues -> BOOLEAN]
      BY <1>1
    <2>3. opts \in [Queues -> Options \cup {None}]
      BY <1>1, <1>2
    <2>4. box \in [Queues -> [PartSet -> SUBSET Msgs]] /\ consumers \in [Queues -> SUBSET Procs]
      BY <1>3
    <2> QED BY <1>3, <2>1, <2>2, <2>3, <2>4 DEF BrokerTypes
  <1>5. BrokerOK /\ BoxHome /\ UnackedHome
    <2>1. \A q \in Queues, b \in PartSet : box[q][b] = {}
      BY <1>3
    <2>2. \A q \in Queues : consumers[q] = {}
      BY <1>3
    <2>3. "main" \in PartSet
      BY DEF PartSet
    <2>4. \A q \in Queues : opts[q] = None <=> "main" \notin exists[q]
      BY <1>1, <1>2, <2>3
    <2>5. \A q \in Queues : bound[q] => "main" \in exists[q]
      BY <1>1, <2>3
    <2> QED BY <1>3, <2>1, <2>2, <2>4, <2>5 DEF BrokerOK, BoxHome, UnackedHome
  <1>6. StatesInv
    <2>1. PICK st : st = Fresh("off", <<>>, FALSE)
      OBVIOUS
    <2>2. Off = st /\ st \in ProcStates /\ StateOK(st) /\ MemOf(st)
      BY <2>1, FreshOK, FreshIsOff
    <2>3. PICK c : c = NoCall
      OBVIOUS
    <2>4. c \in CallStates /\ CallOK(c) /\ HeldOf(c)
      BY <2>3, IdleOK
    <2>5. proc = [p \in Procs |-> st] /\ call = [p \in Procs |-> c]
      BY <1>3, <2>2, <2>3
    <2> QED BY <2>2, <2>4, <2>5 DEF StatesInv, ProcOK
  <1>7. RestInv
    <2>1. \A k \in DOMAIN Bounds : Bounds[k] \in Nat
      BY SetupAssumption DEF Bounds
    <2>2. spent \in [DOMAIN Bounds -> Nat] /\ \A k \in DOMAIN Bounds : spent[k] = 0
      BY <1>3
    <2>3. home \in [Msgs -> Queues \cup {None}] /\ stored \in [Procs -> [Queues -> Options \cup {None}]]
      BY <1>1, <1>2, <1>3
    <2> QED BY <1>3, <2>1, <2>2, <2>3 DEF RestInv
  <1> QED BY <1>4, <1>5, <1>6, <1>7 DEF SetupInv, BrokerInv

LEMMA SetupInvStep == SetupInv /\ [Next]_vars => SetupInv'
  <1> SUFFICES ASSUME SetupInv, [Next]_vars PROVE SetupInv'
    OBVIOUS
  <1>1. CASE UNCHANGED vars
    <2>1. UNCHANGED broker /\ UNCHANGED <<home, done, stored, proc, call, spent>>
      BY <1>1 DEF vars
    <2> QED BY <2>1, BrokerKept, StatesKept, RestKept DEF SetupInv
  <1>2. ASSUME NEW p \in Procs, SetupStep(p) PROVE SetupInv'
    <2>1. CASE Refused(p)
      BY <2>1, FailOK DEF Refused
    <2>2. CASE Read(p) \/ Declare(p) \/ Receive(p) \/ Delete(p)
      BY <2>2, ReadOK, DeclareOK, ReceiveOK, DeleteOK
    <2>3. CASE Resend(p) \/ Bind(p) \/ Consume(p) \/ StoreOptions(p)
      BY <2>3, ResendOK, BindOK, ConsumeOK, StoreOptionsOK
    <2>4. CASE \E q \in Queues : Check(p, q) \/ DeleteOrphan(p, q)
      BY <2>4, CheckOK, DeleteOrphanOK
    <2> QED BY <1>2, <2>1, <2>2, <2>3, <2>4 DEF SetupStep
  <1>3. ASSUME NEW p \in Procs, CallStep(p) PROVE SetupInv'
    BY <1>3, ReceiveDeadOK, CloseOkOK, RepublishOK, RepublishAgainOK, ConfirmedOK, GiveUpOK
       DEF CallStep
  <1>4. ASSUME NEW p \in Procs, Boot(p) \/ Stop(p) \/ Crash(p) \/ Drop(p) \/ Retry(p) PROVE SetupInv'
    BY <1>4, BootOK, StopOK, CrashOK, DropOK, RetryOK
  <1>5. ASSUME NEW p \in Procs, NEW q \in Queues, Requeue(p, q) \/ Take(p, q) PROVE SetupInv'
    BY <1>5, RequeueOK, TakeOK
  <1>6. ASSUME NEW q \in Queues, Expire(q) \/ \E m \in Msgs : Publish(m, q) PROVE SetupInv'
    BY <1>6, ExpireOK, PublishOK
  <1>7. ASSUME NEW u \in unacked, Ends(u) PROVE SetupInv'
    BY <1>7, EndsOK
  <1> QED BY <1>1, <1>2, <1>3, <1>4, <1>5, <1>6, <1>7 DEF Next

LEMMA SetupAlways == Spec => []SetupInv
  BY SetupInit, SetupInvStep, PTL DEF Spec

(* The types, and what Setup's state is made of, whatever the deployments: no    *)
(* message is in a queue that does not exist, none is consumed from one, and a   *)
(* setup holds messages only between the drain and the resend of a migration.    *)
THEOREM SetupTypeCorrect == Spec => []SetupTypeOK
  <1>1. SetupInv => SetupTypeOK
    <2> SUFFICES ASSUME SetupInv PROVE SetupTypeOK
      OBVIOUS
    <2>1. \A q \in Queues : /\ exists[q] \subseteq PartSet /\ opts[q] \in Options \cup {None}
                            /\ opts[q] = None <=> "main" \notin exists[q]
                            /\ bound[q] => "main" \in exists[q]
                            /\ \A b \in PartSet \ exists[q] : box[q][b] = {}
                            /\ consumers[q] # {} => "main" \in exists[q]
      BY DEF SetupInv, BrokerInv, BrokerTypes, BrokerOK
    <2>2. unacked \subseteq [msg : Msgs, queue : Queues, by : Procs, live : BOOLEAN]
      BY DEF SetupInv, BrokerInv, BrokerTypes
    <2>3. ASSUME NEW p \in Procs
          PROVE  /\ proc[p].pc \in AtQueue \cup {"off", "read", "orphans", "up", "failed"}
                 /\ proc[p].pc \in AtQueue => proc[p].at \in 1 .. Len(proc[p].dep)
                 /\ proc[p].mem # {} => proc[p].pc \in AtQueue \ {"queue", "bind", "consume"}
                 /\ call[p].pc \in {"idle", "drain", "closing", "publish", "again"}
      <3>1. proc[p] \in ProcStates /\ StateOK(proc[p]) /\ call[p] \in CallStates
        BY DEF SetupInv, StatesInv, ProcOK
      <3>2. Moving \subseteq AtQueue \ {"queue", "bind", "consume"}
        BY DEF Moving, AtQueue
      <3> QED BY <3>1, <3>2 DEF ProcStates, PcStates, CallStates, StateOK
    <2>4. \A k \in DOMAIN Bounds : spent[k] \in 0 .. Bounds[k]
      BY SetupAssumption DEF SetupInv, RestInv, Bounds
    <2> QED BY <2>1, <2>2, <2>3, <2>4 DEF SetupTypeOK
  <1> QED BY <1>1, SetupAlways, PTL

-------------------------------------------------------------------------------
(* A message is in one place.                                                   *)
NoBox(m) == \A q \in Queues, b \in PartSet : m \notin box[q][b]
NoUnacked(m) == \A u \in unacked : u.msg # m
NoMem(m) == \A p \in Procs : m \notin proc[p].mem
NoHeld(m) == \A p \in Procs : m \notin call[p].held

OneBox(m) ==
    \A q, r \in Queues, b, c \in PartSet : m \in box[q][b] /\ m \in box[r][c] => q = r /\ b = c
OneUnacked(m) == \A u, v \in unacked : u.msg = m /\ v.msg = m => u = v
OneMem(m) == \A p, o \in Procs : m \in proc[p].mem /\ m \in proc[o].mem => p = o
OneHeld(m) == \A p, o \in Procs : m \in call[p].held /\ m \in call[o].held => p = o

Exclusive(m) ==
    /\ OneBox(m) /\ OneUnacked(m) /\ OneMem(m) /\ OneHeld(m)
    /\ NoBox(m) \/ (NoUnacked(m) /\ NoMem(m) /\ NoHeld(m))
    /\ NoUnacked(m) \/ (NoMem(m) /\ NoHeld(m))
    /\ NoMem(m) \/ NoHeld(m)
    /\ m \in done => NoBox(m) /\ NoUnacked(m) /\ NoMem(m) /\ NoHeld(m)

(* A step that puts the message nowhere, or moves it.                           *)
NoMoreBox(m) == \A q \in Queues, b \in PartSet : m \in box'[q][b] => m \in box[q][b]
NoMoreUnacked(m) == (NoUnacked(m) => NoUnacked(m)') /\ (OneUnacked(m) => OneUnacked(m)')
NoMoreMem(m) == \A p \in Procs : m \in proc'[p].mem => m \in proc[p].mem
NoMoreHeld(m) == \A p \in Procs : m \in call'[p].held => m \in call[p].held

LEMMA Shrinks ==
  ASSUME NEW m, Exclusive(m), NoMoreBox(m), NoMoreUnacked(m), NoMoreMem(m), NoMoreHeld(m),
         m \in done' => m \in done
  PROVE  Exclusive(m)'
  <1>1. (OneBox(m) => OneBox(m)') /\ (NoBox(m) => NoBox(m)')
    BY DEF NoMoreBox, OneBox, NoBox
  <1>2. (OneMem(m) => OneMem(m)') /\ (NoMem(m) => NoMem(m)')
    BY DEF NoMoreMem, OneMem, NoMem
  <1>3. (OneHeld(m) => OneHeld(m)') /\ (NoHeld(m) => NoHeld(m)')
    BY DEF NoMoreHeld, OneHeld, NoHeld
  <1> QED BY <1>1, <1>2, <1>3 DEF Exclusive, NoMoreUnacked

LEMMA Only ==
  ASSUME NEW m, m \notin done',
         \/ OneBox(m)' /\ NoUnacked(m)' /\ NoMem(m)' /\ NoHeld(m)'
         \/ NoBox(m)' /\ OneUnacked(m)' /\ NoMem(m)' /\ NoHeld(m)'
         \/ NoBox(m)' /\ NoUnacked(m)' /\ OneMem(m)' /\ NoHeld(m)'
         \/ NoBox(m)' /\ NoUnacked(m)' /\ NoMem(m)' /\ OneHeld(m)'
  PROVE  Exclusive(m)'
  <1>1. NoBox(m)' => OneBox(m)'
    BY DEF NoBox, OneBox
  <1>2. NoUnacked(m)' => OneUnacked(m)'
    BY DEF NoUnacked, OneUnacked
  <1>3. NoMem(m)' => OneMem(m)'
    BY DEF NoMem, OneMem
  <1>4. NoHeld(m)' => OneHeld(m)'
    BY DEF NoHeld, OneHeld
  <1> QED BY <1>1, <1>2, <1>3, <1>4 DEF Exclusive

LEMMA NoMore ==
  ASSUME NEW m
  PROVE  /\ box' = box => NoMoreBox(m) /\ (NoBox(m) => NoBox(m)')
         /\ unacked' \subseteq unacked => NoMoreUnacked(m) /\ (NoUnacked(m) => NoUnacked(m)')
         /\ proc' = proc => NoMoreMem(m) /\ (NoMem(m) => NoMem(m)')
         /\ call' = call => NoMoreHeld(m) /\ (NoHeld(m) => NoHeld(m)')
  <1>1. box' = box => NoMoreBox(m) /\ (NoBox(m) => NoBox(m)')
    BY DEF NoMoreBox, NoBox
  <1>2. unacked' \subseteq unacked => NoMoreUnacked(m) /\ (NoUnacked(m) => NoUnacked(m)')
    BY DEF NoMoreUnacked, NoUnacked, OneUnacked
  <1>3. proc' = proc => NoMoreMem(m) /\ (NoMem(m) => NoMem(m)')
    BY DEF NoMoreMem, NoMem
  <1>4. call' = call => NoMoreHeld(m) /\ (NoHeld(m) => NoHeld(m)')
    BY DEF NoMoreHeld, NoHeld
  <1> QED BY <1>1, <1>2, <1>3, <1>4

(* A process goes to a state; the others stay.                                  *)
Others(p) == \A o \in Procs : o # p => proc'[o] = proc[o]

LEMMA GoesMem ==
  ASSUME StatesInv, NEW p \in Procs, NEW st, Goes(p, st)
  PROVE  proc'[p] = st /\ Others(p)
  BY DEF Goes, StatesInv, Others

LEMMA GoesNoMore ==
  ASSUME NEW m, NEW p \in Procs, Others(p), m \in proc'[p].mem => m \in proc[p].mem
  PROVE  NoMoreMem(m)
  BY DEF NoMoreMem, Others

LEMMA FreshGoes ==
  ASSUME StatesInv, NEW p \in Procs, NEW pc, NEW d,
         \/ Goes(p, Off) \/ Goes(p, [Off EXCEPT !.pc = pc])
         \/ Goes(p, [Off EXCEPT !.pc = pc, !.dep = d])
         \/ Goes(p, [Off EXCEPT !.pc = pc, !.dep = d, !.recover = TRUE])
  PROVE  proc'[p].mem = {} /\ Others(p)
  <1>1. PICK r \in BOOLEAN : r = TRUE
    OBVIOUS
  <1>2. PICK f \in BOOLEAN : f = FALSE
    OBVIOUS
  <1>3. \/ Goes(p, Fresh("off", <<>>, f)) \/ Goes(p, Fresh(pc, <<>>, f))
        \/ Goes(p, Fresh(pc, d, f)) \/ Goes(p, Fresh(pc, d, r))
    BY <1>1, <1>2, FreshIsOff
  <1>4. \A st : Goes(p, st) => proc'[p] = st /\ Others(p)
    BY GoesMem
  <1>5. \A x, y, z : Fresh(x, y, z).mem = {}
    BY DEF Fresh
  <1> QED BY <1>3, <1>4, <1>5

LEMMA CallNoMore ==
  ASSUME NEW m, StatesInv, NEW p \in Procs, NEW c, call' = [call EXCEPT ![p] = c],
         m \in c.held => m \in call[p].held
  PROVE  NoMoreHeld(m)
  <1>1. \A o \in Procs : call'[o] = IF o = p THEN c ELSE call[o]
    BY DEF StatesInv
  <1> QED BY <1>1 DEF NoMoreHeld

(* Where it was, and nowhere else.                                              *)
LEMMA WasInBox ==
  ASSUME NEW m, Exclusive(m), NEW q \in Queues, NEW b \in PartSet, m \in box[q][b]
  PROVE  /\ NoUnacked(m) /\ NoMem(m) /\ NoHeld(m) /\ m \notin done
         /\ \A r \in Queues, c \in PartSet : m \in box[r][c] => r = q /\ c = b
  <1>1. ~NoBox(m)
    BY DEF NoBox
  <1> QED BY <1>1 DEF Exclusive, OneBox

LEMMA WasUnacked ==
  ASSUME NEW m, Exclusive(m), NEW u \in unacked, u.msg = m
  PROVE  /\ NoBox(m) /\ NoMem(m) /\ NoHeld(m) /\ m \notin done
         /\ \A v \in unacked : v.msg = m => v = u
  <1>1. ~NoUnacked(m)
    BY DEF NoUnacked
  <1> QED BY <1>1 DEF Exclusive, OneUnacked

LEMMA WasInMem ==
  ASSUME NEW m, Exclusive(m), NEW p \in Procs, m \in proc[p].mem
  PROVE  /\ NoBox(m) /\ NoUnacked(m) /\ NoHeld(m) /\ m \notin done
         /\ \A o \in Procs : m \in proc[o].mem => o = p
  <1>1. ~NoMem(m)
    BY DEF NoMem
  <1> QED BY <1>1 DEF Exclusive, OneMem

LEMMA WasHeld ==
  ASSUME NEW m, Exclusive(m), NEW p \in Procs, m \in call[p].held
  PROVE  /\ NoBox(m) /\ NoUnacked(m) /\ NoMem(m) /\ m \notin done
         /\ \A o \in Procs : m \in call[o].held => o = p
  <1>1. ~NoHeld(m)
    BY DEF NoHeld
  <1> QED BY <1>1 DEF Exclusive, OneHeld

(* The deliveries of a process that ends go back to their queues, and so does   *)
(* what the broker has not heard an ack of, which then is in no memory.         *)
LEMMA DisconnectedOne ==
  ASSUME NEW m, SetupInv, Exclusive(m), NEW p \in Procs, NEW back, Disconnected(p, back),
         NoMoreMem(m), NoMoreHeld(m), done' = done,
         m \in back /\ m \in proc[p].mem => NoMem(m)',
         m \in back /\ m \in AckedDead(p) => NoHeld(m)'
  PROVE  Exclusive(m)'
  <1>1. /\ unacked' = {u \in unacked : u.by # p}
        /\ \A q \in Queues, b \in PartSet : box'[q][b] = box[q][b] \cup Back(p, back, q)[b]
    BY DisconnectedBox
  <1>2. CASE \A q \in Queues, b \in PartSet : m \notin Back(p, back, q)[b]
    <2>1. NoMoreBox(m)
      BY <1>1, <1>2 DEF NoMoreBox
    <2>2. unacked' \subseteq unacked
      BY <1>1
    <2> QED BY <2>1, <2>2, NoMore, Shrinks
  <1>3. ASSUME NEW q \in Queues, NEW b \in PartSet, m \in Back(p, back, q)[b] PROVE Exclusive(m)'
    <2>1. ASSUME NoBox(m), NoUnacked(m)', NoMem(m)', NoHeld(m)', m \notin done,
                 \A r \in Queues, c \in PartSet : m \in Back(p, back, r)[c] => r = q /\ c = b
          PROVE  Exclusive(m)'
      <3>1. OneBox(m)'
        BY <1>1, <2>1 DEF OneBox, NoBox
      <3> QED BY <2>1, <3>1, Only
    <2>2. CASE m \in proc[p].mem
      <3>1. /\ NoBox(m) /\ NoUnacked(m) /\ NoHeld(m) /\ m \notin done
        BY <2>2, WasInMem
      <3>2. ASSUME NEW r \in Queues, NEW c \in PartSet, m \in Back(p, back, r)[c]
            PROVE  m \in back /\ r = Queue(p) /\ c = "main"
        BY <3>1, <3>2, BackFrom DEF NoUnacked, NoHeld
      <3>3. NoUnacked(m)' /\ NoMem(m)' /\ NoHeld(m)'
        BY <1>1, <1>3, <2>2, <3>1, <3>2 DEF NoUnacked, NoMoreHeld, NoHeld
      <3> QED BY <1>3, <2>1, <3>1, <3>2, <3>3
    <2>3. CASE m \in call[p].held
      <3>1. /\ NoBox(m) /\ NoUnacked(m) /\ NoMem(m) /\ m \notin done
        BY <2>3, WasHeld
      <3>2. ASSUME NEW r \in Queues, NEW c \in PartSet, m \in Back(p, back, r)[c]
            PROVE  m \in back /\ r = call[p].queue /\ c = "dlq"
        BY <3>1, <3>2, BackFrom DEF NoUnacked, NoMem
      <3>3. m \in AckedDead(p)
        BY <1>3, <3>1, <3>2 DEF Back, NoUnacked, NoMem, Acked
      <3>4. NoUnacked(m)' /\ NoMem(m)' /\ NoHeld(m)'
        BY <1>1, <1>3, <3>1, <3>2, <3>3 DEF NoUnacked, NoMoreMem, NoMem
      <3> QED BY <1>3, <2>1, <3>1, <3>2, <3>4
    <2>4. CASE m \notin proc[p].mem /\ m \notin call[p].held
      <3>1. PICK u \in unacked : u.msg = m /\ u.by = p /\ u.queue = q /\ b = "main"
        BY <1>3, <2>4, BackFrom
      <3>2. /\ NoBox(m) /\ NoMem(m) /\ NoHeld(m) /\ m \notin done
            /\ \A v \in unacked : v.msg = m => v = u
        BY <3>1, WasUnacked
      <3>3. ASSUME NEW r \in Queues, NEW c \in PartSet, m \in Back(p, back, r)[c]
            PROVE  r = q /\ c = b
        BY <2>4, <3>1, <3>2, <3>3, BackFrom
      <3>4. NoUnacked(m)' /\ NoMem(m)' /\ NoHeld(m)'
        BY <1>1, <3>1, <3>2 DEF NoUnacked, NoMoreMem, NoMem, NoMoreHeld, NoHeld
      <3> QED BY <2>1, <3>2, <3>3, <3>4
    <2> QED BY <2>2, <2>3, <2>4
  <1> QED BY <1>2, <1>3

LEMMA MainDeletedOne ==
  ASSUME NEW m, SetupInv, NEW q \in Queues, MainDeleted(q)
  PROVE  NoMoreBox(m) /\ NoMoreUnacked(m)
  <1>1. unacked' = {[u EXCEPT !.live = @ /\ u.queue # q] : u \in unacked} /\ box' = [box EXCEPT ![q]["main"] = {}]
    BY DEF MainDeleted
  <1>2. NoMoreBox(m)
    BY <1>1 DEF NoMoreBox, SetupInv, BrokerInv, BrokerTypes
  <1>3. ASSUME NEW w \in unacked'
        PROVE  \E u \in unacked : w.msg = u.msg /\ w = [u EXCEPT !.live = @ /\ u.queue # q]
    <2>1. PICK u \in unacked : w = [u EXCEPT !.live = @ /\ u.queue # q]
      BY <1>1
    <2>2. u \in [msg : Msgs, queue : Queues, by : Procs, live : BOOLEAN]
      BY DEF SetupInv, BrokerInv, BrokerTypes
    <2>3. (u.live /\ u.queue # q) \in BOOLEAN
      OBVIOUS
    <2> QED BY <2>1, <2>2, <2>3
  <1>4. NoUnacked(m) => NoUnacked(m)'
    BY <1>3 DEF NoUnacked
  <1>5. OneUnacked(m) => OneUnacked(m)'
    <2>1. ASSUME OneUnacked(m), NEW w \in unacked', NEW x \in unacked', w.msg = m, x.msg = m
          PROVE  w = x
      <3>1. PICK u \in unacked : w.msg = u.msg /\ w = [u EXCEPT !.live = @ /\ u.queue # q]
        BY <1>3
      <3>2. PICK v \in unacked : x.msg = v.msg /\ x = [v EXCEPT !.live = @ /\ v.queue # q]
        BY <1>3
      <3>3. u = v
        BY <2>1, <3>1, <3>2 DEF OneUnacked
      <3> QED BY <3>1, <3>2, <3>3
    <2> QED BY <2>1 DEF OneUnacked
  <1> QED BY <1>2, <1>4, <1>5 DEF NoMoreUnacked

LEMMA FailOne ==
  ASSUME NEW m, SetupInv, Exclusive(m), NEW p \in Procs, Fail(p)
  PROVE  Exclusive(m)'
  <1>1. PICK st : st = [proc[p] EXCEPT !.pc = "failed", !.mem = {}, !.left = 0]
    OBVIOUS
  <1>2. Goes(p, st) /\ call' = call /\ done' = done /\ (Disconnected(p, {}) \/ UNCHANGED broker)
    BY <1>1 DEF Fail
  <1>3. proc[p] \in ProcStates
    BY DEF SetupInv, StatesInv
  <1>4. st.mem = {}
    BY <1>1, <1>3 DEF ProcStates
  <1>5. NoMoreMem(m) /\ NoMoreHeld(m)
    BY <1>2, <1>4, GoesMem, GoesNoMore, NoMore DEF SetupInv
  <1>6. CASE UNCHANGED broker
    BY <1>2, <1>5, <1>6, NoMore, Shrinks DEF broker
  <1> QED BY <1>2, <1>5, <1>6, DisconnectedOne

LEMMA BootOne ==
  ASSUME NEW m, SetupInv, Exclusive(m), NEW p \in Procs, Boot(p)
  PROVE  Exclusive(m)'
  <1>1. PICK d \in Deployments :
          \/ Goes(p, [Off EXCEPT !.pc = "up"])
          \/ Goes(p, [Off EXCEPT !.pc = "read", !.dep = d])
    BY DEF Boot
  <1>2. proc'[p].mem = {} /\ Others(p)
    BY <1>1, FreshGoes DEF SetupInv
  <1>3. UNCHANGED <<box, unacked, call, done>>
    BY DEF Boot, broker
  <1> QED BY <1>2, <1>3, GoesNoMore, NoMore, Shrinks DEF SetupInv

(* What a call holds, and what it will send again, where it does not grow.      *)
CallOthers(p) == \A o \in Procs : o # p => call'[o] = call[o]

LEMMA CallGoesTo ==
  ASSUME StatesInv, NEW p \in Procs, NEW c, call' = [call EXCEPT ![p] = c]
  PROVE  call'[p] = c /\ CallOthers(p)
  BY DEF StatesInv, CallOthers

CallKept(p) == CallOthers(p) /\ call'[p].held = call[p].held /\ call'[p].lost \subseteq call[p].lost

LEMMA CallTurns ==
  ASSUME StatesInv, NEW p \in Procs, NEW c, call' = [call EXCEPT ![p] = c],
         c.held = call[p].held, c.lost \subseteq call[p].lost
  PROVE  CallKept(p)
  BY CallGoesTo DEF CallKept

LEMMA CallHolds ==
  ASSUME SetupInv, NEW p \in Procs,
         \/ CloseOk(p) \/ Confirmed(p) \/ Retry(p) \/ RepublishAgain(p)
         \/ \E q \in Queues : Requeue(p, q)
  PROVE  CallKept(p)
  <1>1. StatesInv /\ call[p] \in CallStates /\ call \in [Procs -> CallStates] /\ CallOK(call[p])
    BY CallType DEF SetupInv, StatesInv
  <1>2. NoCall.held = {} /\ NoCall.lost = {}
    BY DEF NoCall
  <1>3. CASE CloseOk(p)
    <2>1. PICK c : c = [call[p] EXCEPT !.pc = "publish"]
      OBVIOUS
    <2>2. call' = [call EXCEPT ![p] = c]
      BY <1>3, <2>1 DEF CloseOk
    <2>3. c.held = call[p].held /\ c.lost = call[p].lost
      BY <1>1, <2>1 DEF CallStates
    <2> QED BY <1>1, <2>2, <2>3, CallTurns
  <1>4. CASE Confirmed(p)
    <2>1. PICK m : call' = [call EXCEPT ![p] =
             IF call[p].held \cup call[p].lost = {} /\ call[p].sent = {m} THEN NoCall
             ELSE [call[p] EXCEPT !.sent = @ \ {m}]]
      BY <1>4 DEF Confirmed
    <2>2. PICK c : c = IF call[p].held \cup call[p].lost = {} /\ call[p].sent = {m} THEN NoCall
                       ELSE [call[p] EXCEPT !.sent = @ \ {m}]
      OBVIOUS
    <2>3. PICK d : d = [call[p] EXCEPT !.sent = @ \ {m}]
      OBVIOUS
    <2>4. d.held = call[p].held /\ d.lost = call[p].lost
      BY <1>1, <2>3 DEF CallStates
    <2>5. c.held = call[p].held /\ c.lost = call[p].lost
      <3>1. CASE call[p].held \cup call[p].lost = {} /\ call[p].sent = {m}
        BY <1>2, <2>2, <3>1
      <3>2. CASE ~(call[p].held \cup call[p].lost = {} /\ call[p].sent = {m})
        BY <2>2, <2>3, <2>4, <3>2
      <3> QED BY <3>1, <3>2
    <2>6. call' = [call EXCEPT ![p] = c]
      BY <2>1, <2>2
    <2> QED BY <1>1, <2>5, <2>6, CallTurns
  <1>5. CASE Retry(p)
    <2>1. PICK c : c = [call[p] EXCEPT !.pc = IF @ = "publish" THEN "again" ELSE @]
      OBVIOUS
    <2>2. call' = [call EXCEPT ![p] = c]
      BY <1>5, <2>1 DEF Retry
    <2>3. c.held = call[p].held /\ c.lost = call[p].lost
      BY <1>1, <2>1 DEF CallStates
    <2> QED BY <1>1, <2>2, <2>3, CallTurns
  <1>6. CASE RepublishAgain(p)
    <2>1. PICK m, x : call' = [call EXCEPT ![p].lost = @ \ {m}, ![p].sent = @ \cup {x}]
      BY <1>6 DEF RepublishAgain
    <2>2. PICK c : c = [call[p] EXCEPT !.lost = @ \ {m}, !.sent = @ \cup {x}]
      OBVIOUS
    <2>3. call' = [call EXCEPT ![p] = c]
      BY <1>1, <2>1, <2>2
    <2>4. c.held = call[p].held /\ c.lost \subseteq call[p].lost
      BY <1>1, <2>2 DEF CallStates
    <2> QED BY <1>1, <2>3, <2>4, CallTurns
  <1>7. ASSUME NEW q \in Queues, Requeue(p, q) PROVE CallKept(p)
    <2>1. PICK count : count = Cardinality(box[q]["dlq"])
      OBVIOUS
    <2>2. PICK c : c = IF count = 0 THEN NoCall ELSE [NoCall EXCEPT !.pc = "drain", !.queue = q, !.left = count]
      OBVIOUS
    <2>3. PICK d : d = [NoCall EXCEPT !.pc = "drain", !.queue = q, !.left = count]
      OBVIOUS
    <2>4. call' = [call EXCEPT ![p] = c] /\ call[p].pc = "idle"
      BY <1>7, <2>1, <2>2 DEF Requeue
    <2>5. d.held = {} /\ d.lost = {}
      BY <1>2, <2>3 DEF NoCall
    <2>6. c = NoCall \/ c = d
      BY <2>2, <2>3
    <2>7. c.held = {} /\ c.lost = {} /\ call[p].held = {}
      BY <1>1, <1>2, <2>4, <2>5, <2>6 DEF CallOK
    <2> QED BY <1>1, <2>4, <2>7, CallTurns
  <1> QED BY <1>3, <1>4, <1>5, <1>6, <1>7

LEMMA CallEnds ==
  ASSUME SetupInv, NEW p \in Procs, call' = [call EXCEPT ![p] = NoCall]
  PROVE  CallOthers(p) /\ call'[p].held = {} /\ call'[p].lost = {}
  <1>1. NoCall.held = {} /\ NoCall.lost = {}
    BY DEF NoCall
  <1>2. StatesInv
    BY DEF SetupInv
  <1> QED BY <1>1, <1>2, CallGoesTo

LEMMA CallSends ==
  ASSUME SetupInv, NEW p \in Procs, NEW x,
         call' = [call EXCEPT ![p].held = @ \ {x}, ![p].sent = @ \cup {x}]
  PROVE  CallOthers(p) /\ call'[p].held = call[p].held \ {x} /\ call'[p].lost = call[p].lost
  <1>1. StatesInv /\ call[p] \in CallStates /\ call \in [Procs -> CallStates]
    BY CallType DEF SetupInv, StatesInv
  <1>2. PICK c : c = [call[p] EXCEPT !.held = @ \ {x}, !.sent = @ \cup {x}]
    OBVIOUS
  <1>3. call' = [call EXCEPT ![p] = c]
    BY <1>1, <1>2
  <1>4. c.held = call[p].held \ {x} /\ c.lost = call[p].lost
    BY <1>1, <1>2 DEF CallStates
  <1> QED BY <1>1, <1>3, <1>4, CallGoesTo

LEMMA CallReceives ==
  ASSUME SetupInv, NEW p \in Procs, ReceiveDead(p)
  PROVE  CallOthers(p) /\ call'[p].lost = call[p].lost
  <1>1. StatesInv /\ call[p] \in CallStates /\ call \in [Procs -> CallStates]
    BY CallType DEF SetupInv, StatesInv
  <1>2. PICK m : call' = [call EXCEPT ![p].held = @ \cup {m}, ![p].left = @ - 1,
                                     ![p].pc = IF call[p].left = 1 THEN "closing" ELSE "drain"]
    BY DEF ReceiveDead
  <1>3. PICK c : c = [call[p] EXCEPT !.held = @ \cup {m}, !.left = @ - 1,
                                     !.pc = IF call[p].left = 1 THEN "closing" ELSE "drain"]
    OBVIOUS
  <1>4. call' = [call EXCEPT ![p] = c]
    BY <1>1, <1>2, <1>3 DEF CallStates
  <1>5. c.lost = call[p].lost
    BY <1>1, <1>3 DEF CallStates
  <1> QED BY <1>1, <1>4, <1>5, CallGoesTo

LEMMA HeldNoMore ==
  ASSUME NEW m, NEW p \in Procs, CallOthers(p), m \in call'[p].held => m \in call[p].held
  PROVE  NoMoreHeld(m)
  BY DEF NoMoreHeld, CallOthers

LEMMA RetryOne ==
  ASSUME NEW m, SetupInv, Exclusive(m), NEW p \in Procs, Retry(p)
  PROVE  Exclusive(m)'
  <1>1. proc'[p].mem = {} /\ Others(p)
    BY FreshGoes DEF Retry, SetupInv
  <1>2. UNCHANGED <<box, unacked, done>>
    BY DEF Retry, broker
  <1>3. NoMoreHeld(m)
    BY CallHolds, HeldNoMore DEF CallKept
  <1> QED BY <1>1, <1>2, <1>3, GoesNoMore, NoMore, Shrinks DEF SetupInv

LEMMA GoneOne ==
  ASSUME NEW m, SetupInv, Exclusive(m), NEW p \in Procs, Gone(p)
  PROVE  Exclusive(m)'
  <1>1. Goes(p, Off) /\ call' = [call EXCEPT ![p] = NoCall] /\ done' = done
    BY DEF Gone
  <1>2. proc'[p].mem = {} /\ Others(p) /\ NoCall.held = {}
    BY <1>1, FreshGoes DEF NoCall, SetupInv
  <1>3. call'[p].held = {} /\ CallOthers(p)
    BY <1>1, CallEnds
  <1>4. NoMoreMem(m) /\ NoMoreHeld(m)
    BY <1>2, <1>3, GoesNoMore, HeldNoMore
  <1>5. m \in proc[p].mem => NoMem(m)'
    BY <1>2, WasInMem DEF NoMem, Others
  <1>6. m \in AckedDead(p) => NoHeld(m)'
    BY <1>3, WasHeld DEF NoHeld, CallOthers, AckedDead
  <1>7. PICK back : Disconnected(p, back)
    BY DEF Gone
  <1> QED BY <1>1, <1>4, <1>5, <1>6, <1>7, DisconnectedOne

LEMMA DropOne ==
  ASSUME NEW m, SetupInv, Exclusive(m), NEW p \in Procs, Drop(p)
  PROVE  Exclusive(m)'
  <1>1. proc'[p].mem = {} /\ Others(p) /\ done' = done
    BY FreshGoes DEF Drop, SetupInv
  <1>2. PICK back \in SUBSET (Acked(p) \cup AckedDead(p)) :
          Disconnected(p, back) /\ call' = [call EXCEPT ![p] = Interrupted(p, back)]
    BY DEF Drop
  <1>3. PICK c : c = Interrupted(p, back)
    OBVIOUS
  <1>4. c.held \subseteq call[p].held /\ c.held \cap back \cap AckedDead(p) = {}
    BY <1>3, InterruptedOK
  <1>5. call'[p].held = c.held /\ CallOthers(p)
    BY <1>2, <1>3, CallGoesTo DEF SetupInv
  <1>6. NoMoreMem(m) /\ NoMoreHeld(m)
    BY <1>1, <1>4, <1>5, GoesNoMore, HeldNoMore
  <1>7. m \in proc[p].mem => NoMem(m)'
    BY <1>1, WasInMem DEF NoMem, Others
  <1>8. m \in back /\ m \in AckedDead(p) => NoHeld(m)'
    <2>1. SUFFICES ASSUME m \in back, m \in AckedDead(p) PROVE NoHeld(m)'
      OBVIOUS
    <2>2. m \in call[p].held /\ m \notin c.held
      BY <1>4, <2>1 DEF AckedDead
    <2> QED BY <1>5, <2>2, WasHeld DEF NoHeld, CallOthers
  <1> QED BY <1>1, <1>2, <1>6, <1>7, <1>8, DisconnectedOne

(* Steps that change only where setup is.                                       *)
LEMMA StepMem ==
  ASSUME SetupInv, NEW p \in Procs, ~Fail(p),
         Read(p) \/ Declare(p) \/ Bind(p) \/ Consume(p) \/ StoreOptions(p)
  PROVE  proc'[p].mem = proc[p].mem /\ Others(p)
  <1>0. proc[p] \in ProcStates
    BY DEF SetupInv, StatesInv
  <1>1. CASE Read(p)
    <2>1. PICK st : st = [proc[p] EXCEPT !.pc = "queue",
                                         !.known = IF proc[p].recover THEN Unknown ELSE Stored(p)]
      OBVIOUS
    <2>2. Goes(p, st)
      BY <1>1, <2>1 DEF Read
    <2>3. st.mem = proc[p].mem
      BY <1>0, <2>1 DEF ProcStates
    <2> QED BY <2>2, <2>3, GoesMem DEF SetupInv
  <1>2. CASE Declare(p)
    <2>1. PICK n, pc : \/ Goes(p, [proc[p] EXCEPT !.left = n, !.pc = pc])
                       \/ Goes(p, [proc[p] EXCEPT !.pc = pc])
      BY <1>2 DEF Declare, Step
    <2>2. PICK st, ts : st = [proc[p] EXCEPT !.left = n, !.pc = pc] /\ ts = [proc[p] EXCEPT !.pc = pc]
      OBVIOUS
    <2>3. st.mem = proc[p].mem /\ ts.mem = proc[p].mem
      BY <1>0, <2>2 DEF ProcStates
    <2> QED BY <2>1, <2>2, <2>3, GoesMem DEF SetupInv
  <1>3. CASE Bind(p)
    BY <1>0, <1>3, GoesMem DEF Bind, Step, ProcStates, SetupInv
  <1>4. CASE Consume(p)
    <2>1. PICK st : st = IF proc[p].at # Len(proc[p].dep) THEN [proc[p] EXCEPT !.pc = "queue", !.at = @ + 1]
                         ELSE [proc[p] EXCEPT !.pc = IF proc[p].recover THEN "up" ELSE "orphans"]
      OBVIOUS
    <2>2. Goes(p, st)
      BY <1>4, <2>1 DEF Consume
    <2>3. st.mem = proc[p].mem
      BY <1>0, <2>1 DEF ProcStates
    <2> QED BY <2>2, <2>3, GoesMem DEF SetupInv
  <1>5. CASE StoreOptions(p)
    <2>1. PICK st : st = [proc[p] EXCEPT !.pc = "up", !.known = Unknown]
      OBVIOUS
    <2>2. Goes(p, st)
      BY <1>5, <2>1 DEF StoreOptions
    <2>3. st.mem = proc[p].mem
      BY <1>0, <2>1 DEF ProcStates
    <2> QED BY <2>2, <2>3, GoesMem DEF SetupInv
  <1> QED BY <1>1, <1>2, <1>3, <1>4, <1>5

LEMMA StepOne ==
  ASSUME NEW m, SetupInv, Exclusive(m), NEW p \in Procs,
         Read(p) \/ Declare(p) \/ Bind(p) \/ Consume(p) \/ StoreOptions(p)
  PROVE  Exclusive(m)'
  <1>1. CASE Fail(p)
    BY <1>1, FailOne
  <1>2. CASE ~Fail(p)
    <2>1. UNCHANGED <<box, unacked, call, done>>
      BY <1>2 DEF Read, Declare, Bind, Consume, StoreOptions, broker
    <2>2. proc'[p].mem = proc[p].mem /\ Others(p)
      BY <1>2, StepMem
    <2> QED BY <2>1, <2>2, GoesNoMore, NoMore, Shrinks DEF SetupInv
  <1> QED BY <1>1, <1>2

(* The migration: a message goes from its queue to the memory, and back.        *)
LEMMA ReceiveOne ==
  ASSUME NEW m, SetupInv, Exclusive(m), NEW p \in Procs, Receive(p)
  PROVE  Exclusive(m)'
  <1>1. PICK q : q = Queue(p)
    OBVIOUS
  <1>2. proc[p].pc = "drain" /\ proc[p].pc \in AtQueue /\ UNCHANGED <<unacked, call, done>>
    BY DEF Receive, AtQueue
  <1>3. q \in Queues /\ proc[p] \in ProcStates /\ "main" \in PartSet /\ BrokerTypes
    BY <1>1, <1>2, QueueType DEF PartSet, SetupInv, BrokerInv
  <1>4. PICK x \in box[q]["main"] :
          /\ box' = Without(q, "main", x)
          /\ Goes(p, [proc[p] EXCEPT !.mem = @ \cup {x}, !.left = @ - 1,
                                     !.pc = IF proc[p].left = 1 THEN "delete" ELSE "drain"])
    BY <1>1 DEF Receive, Ack
  <1>5. proc'[p].mem = proc[p].mem \cup {x} /\ Others(p)
    <2>1. PICK st : st = [proc[p] EXCEPT !.mem = @ \cup {x}, !.left = @ - 1,
                                         !.pc = IF proc[p].left = 1 THEN "delete" ELSE "drain"]
      OBVIOUS
    <2>2. Goes(p, st)
      BY <1>4, <2>1
    <2>3. st.mem = proc[p].mem \cup {x}
      BY <1>3, <2>1 DEF ProcStates
    <2> QED BY <2>2, <2>3, GoesMem DEF SetupInv
  <1>6. \A r \in Queues, c \in PartSet :
          m \in box'[r][c] <=> m \in box[r][c] /\ ~(r = q /\ c = "main" /\ m = x)
    BY <1>3, <1>4, WithoutOK
  <1>7. CASE m = x
    <2>1. /\ NoUnacked(m) /\ NoMem(m) /\ NoHeld(m) /\ m \notin done
          /\ \A r \in Queues, c \in PartSet : m \in box[r][c] => r = q /\ c = "main"
      BY <1>3, <1>4, <1>7, WasInBox
    <2>2. NoBox(m)'
      BY <1>6, <1>7, <2>1 DEF NoBox
    <2>3. NoUnacked(m)' /\ NoHeld(m)' /\ m \notin done'
      BY <1>2, <2>1, NoMore
    <2>4. OneMem(m)'
      BY <1>5, <2>1 DEF OneMem, NoMem, Others
    <2> QED BY <2>2, <2>3, <2>4, Only
  <1>8. CASE m # x
    <2>1. NoMoreBox(m)
      BY <1>6 DEF NoMoreBox
    <2>2. NoMoreMem(m)
      BY <1>5, <1>8, GoesNoMore
    <2> QED BY <1>2, <2>1, <2>2, NoMore, Shrinks
  <1> QED BY <1>7, <1>8

LEMMA ResendOne ==
  ASSUME NEW m, SetupInv, Exclusive(m), NEW p \in Procs, Resend(p)
  PROVE  Exclusive(m)'
  <1>1. PICK q : q = Queue(p)
    OBVIOUS
  <1>2. /\ proc[p].pc = "resend" /\ proc[p].pc \in AtQueue /\ UNCHANGED <<unacked, call, done>>
        /\ box' = Into(box, q, "main", proc[p].mem)
    BY <1>1 DEF Resend, AtQueue
  <1>3. q \in Queues /\ proc[p] \in ProcStates /\ "main" \in PartSet
    BY <1>1, <1>2, QueueType DEF PartSet
  <1>4. proc'[p].mem = {} /\ Others(p)
    <2>1. PICK st : st = [proc[p] EXCEPT !.pc = "bind", !.mem = {}]
      OBVIOUS
    <2>2. Goes(p, st)
      BY <2>1 DEF Resend
    <2>3. st.mem = {}
      BY <1>3, <2>1 DEF ProcStates
    <2> QED BY <2>2, <2>3, GoesMem DEF SetupInv
  <1>5. \A r \in Queues, c \in PartSet :
          m \in box'[r][c] => m \in box[r][c] \/ (m \in proc[p].mem /\ r = q /\ c = "main")
    <2>1. box \in [Queues -> [PartSet -> SUBSET Msgs]] /\ proc[p].mem \subseteq Msgs
      BY <1>3 DEF ProcStates, SetupInv, BrokerInv, BrokerTypes
    <2> QED BY <1>2, <1>3, <2>1, IntoOK
  <1>6. NoMoreMem(m)
    BY <1>4, GoesNoMore
  <1>7. CASE m \in proc[p].mem
    <2>1. /\ NoBox(m) /\ NoUnacked(m) /\ NoHeld(m) /\ m \notin done
          /\ \A o \in Procs : m \in proc[o].mem => o = p
      BY <1>7, WasInMem
    <2>2. NoMem(m)'
      BY <1>4, <2>1 DEF NoMem, Others
    <2>3. OneBox(m)'
      BY <1>5, <2>1 DEF OneBox, NoBox
    <2>4. NoUnacked(m)' /\ NoHeld(m)' /\ m \notin done'
      BY <1>2, <2>1, NoMore
    <2> QED BY <2>2, <2>3, <2>4, Only
  <1>8. CASE m \notin proc[p].mem
    <2>1. NoMoreBox(m)
      BY <1>5, <1>8 DEF NoMoreBox
    <2> QED BY <1>2, <1>6, <2>1, NoMore, Shrinks
  <1> QED BY <1>7, <1>8

LEMMA CancelledMem ==
  ASSUME NEW m, StatesInv, NEW q, proc' = Cancelled(q)
  PROVE  NoMoreMem(m)
  BY CancelledOK DEF NoMoreMem

LEMMA DeleteOne ==
  ASSUME NEW m, SetupInv, Exclusive(m), NEW p \in Procs, Delete(p)
  PROVE  Exclusive(m)'
  <1>1. CASE Fail(p)
    BY <1>1, FailOne
  <1>2. CASE ~Fail(p)
    <2>1. PICK q : q = Queue(p)
      OBVIOUS
    <2>2. /\ MainDeleted(q) /\ proc' = [Cancelled(q) EXCEPT ![p].pc = "assert"]
          /\ UNCHANGED <<call, done>> /\ proc[p].pc \in AtQueue
      BY <1>2, <2>1 DEF Delete, AtQueue
    <2>3. q \in Queues
      BY <2>1, <2>2, QueueType
    <2>4. PICK cs : cs = Cancelled(q)
      OBVIOUS
    <2>5. cs \in [Procs -> ProcStates] /\ \A o \in Procs : cs[o].mem = proc[o].mem
      BY <2>4, CancelledOK DEF SetupInv
    <2>6. \A o \in Procs : proc'[o].mem = cs[o].mem
      BY <2>2, <2>4, <2>5 DEF ProcStates
    <2>7. NoMoreMem(m)
      BY <2>5, <2>6 DEF NoMoreMem
    <2> QED BY <2>2, <2>3, <2>7, MainDeletedOne, NoMore, Shrinks
  <1> QED BY <1>1, <1>2

LEMMA DeleteOrphanOne ==
  ASSUME NEW m, SetupInv, Exclusive(m), NEW p \in Procs, NEW q \in Queues, DeleteOrphan(p, q)
  PROVE  Exclusive(m)'
  <1>1. CASE Fail(p)
    BY <1>1, FailOne
  <1>2. CASE ~Fail(p)
    <2>1. PICK b : b = Head(orphan[p][q].left)
      OBVIOUS
    <2>2. /\ UNCHANGED <<call, done>>
          /\ \/ MainDeleted(q) /\ proc' = Cancelled(q)
             \/ box' = [box EXCEPT ![q][b] = {}] /\ UNCHANGED <<unacked, proc>>
      BY <1>2, <2>1 DEF DeleteOrphan
    <2>3. CASE MainDeleted(q) /\ proc' = Cancelled(q)
      BY <2>2, <2>3, MainDeletedOne, CancelledMem, NoMore, Shrinks DEF SetupInv
    <2>4. CASE box' = [box EXCEPT ![q][b] = {}] /\ UNCHANGED <<unacked, proc>>
      <3>1. NoMoreBox(m)
        BY <2>4 DEF NoMoreBox, SetupInv, BrokerInv, BrokerTypes
      <3> QED BY <2>2, <2>4, <3>1, NoMore, Shrinks
    <2> QED BY <2>2, <2>3, <2>4
  <1> QED BY <1>1, <1>2

(* requeueDeadLetters: from the dead letters to the hands of a call, and back.  *)
LEMMA CallOne ==
  ASSUME NEW m, SetupInv, Exclusive(m), NEW p \in Procs,
         GiveUp(p) \/ CloseOk(p) \/ Confirmed(p) \/ \E q \in Queues : Requeue(p, q)
  PROVE  Exclusive(m)'
  <1>1. UNCHANGED <<box, unacked, proc, done>>
    BY DEF GiveUp, CloseOk, Confirmed, Requeue, broker
  <1>2. CASE ~GiveUp(p)
    BY <1>2, CallHolds, HeldNoMore, <1>1, NoMore, Shrinks DEF CallKept
  <1>3. CASE GiveUp(p)
    <2>1. CallOthers(p) /\ call'[p].held = {}
      BY <1>3, CallEnds DEF GiveUp
    <2> QED BY <1>1, <2>1, HeldNoMore, NoMore, Shrinks
  <1> QED BY <1>2, <1>3

LEMMA ReceiveDeadOne ==
  ASSUME NEW m, SetupInv, Exclusive(m), NEW p \in Procs, ReceiveDead(p)
  PROVE  Exclusive(m)'
  <1>1. PICK q : q = call[p].queue
    OBVIOUS
  <1>2. call[p].pc = "drain" /\ UNCHANGED <<unacked, proc, done>>
    BY DEF ReceiveDead, Draining
  <1>3. q \in Queues /\ call[p] \in CallStates /\ "dlq" \in PartSet /\ BrokerTypes
    BY <1>1, <1>2, CallType DEF PartSet, SetupInv, BrokerInv
  <1>4. PICK x \in box[q]["dlq"] :
          /\ box' = Without(q, "dlq", x)
          /\ call' = [call EXCEPT ![p].held = @ \cup {x}, ![p].left = @ - 1,
                                  ![p].pc = IF call[p].left = 1 THEN "closing" ELSE "drain"]
    BY <1>1 DEF ReceiveDead
  <1>5. PICK c : c = [call[p] EXCEPT !.held = @ \cup {x}, !.left = @ - 1,
                                     !.pc = IF call[p].left = 1 THEN "closing" ELSE "drain"]
    OBVIOUS
  <1>6. c.held = call[p].held \cup {x} /\ call' = [call EXCEPT ![p] = c]
    <2>1. c.held = call[p].held \cup {x}
      BY <1>3, <1>5 DEF CallStates
    <2>2. call \in [Procs -> CallStates]
      BY DEF SetupInv, StatesInv
    <2>3. call' = [call EXCEPT ![p] = c]
      BY <1>3, <1>4, <1>5, <2>2 DEF CallStates
    <2> QED BY <2>1, <2>3
  <1>7. \A r \in Queues, b \in PartSet :
          m \in box'[r][b] <=> m \in box[r][b] /\ ~(r = q /\ b = "dlq" /\ m = x)
    BY <1>3, <1>4, WithoutOK
  <1>8. call'[p].held = call[p].held \cup {x} /\ \A o \in Procs : o # p => call'[o] = call[o]
    BY <1>6, CallGoesTo DEF SetupInv, CallOthers
  <1>9. CASE m = x
    <2>1. /\ NoUnacked(m) /\ NoMem(m) /\ NoHeld(m) /\ m \notin done
          /\ \A r \in Queues, b \in PartSet : m \in box[r][b] => r = q /\ b = "dlq"
      BY <1>3, <1>4, <1>9, WasInBox
    <2>2. NoBox(m)'
      BY <1>7, <1>9, <2>1 DEF NoBox
    <2>3. NoUnacked(m)' /\ NoMem(m)' /\ m \notin done'
      BY <1>2, <2>1, NoMore
    <2>4. OneHeld(m)'
      BY <1>8, <2>1 DEF OneHeld, NoHeld
    <2> QED BY <2>2, <2>3, <2>4, Only
  <1>10. CASE m # x
    <2>1. NoMoreBox(m)
      BY <1>7 DEF NoMoreBox
    <2>2. NoMoreHeld(m)
      BY <1>8, <1>10 DEF NoMoreHeld
    <2> QED BY <1>2, <2>1, <2>2, NoMore, Shrinks
  <1> QED BY <1>9, <1>10

LEMMA RepublishOne ==
  ASSUME NEW m, SetupInv, Exclusive(m), NEW p \in Procs, Republish(p)
  PROVE  Exclusive(m)'
  <1>1. PICK q : q = call[p].queue
    OBVIOUS
  <1>2. PICK x \in call[p].held :
          Sends(p, x) /\ call' = [call EXCEPT ![p].held = @ \ {x}, ![p].sent = @ \cup {x}]
    BY DEF Republish
  <1>3. /\ q \in Queues /\ call[p] \in CallStates /\ box' = Into(box, q, "main", {x})
        /\ UNCHANGED <<unacked, proc, done>>
    BY <1>1, <1>2, SendsOK
  <1>4. call'[p].held = call[p].held \ {x} /\ CallOthers(p)
    BY <1>2, CallSends
  <1>5. \A r \in Queues, b \in PartSet :
          m \in box'[r][b] => m \in box[r][b] \/ (m = x /\ r = q /\ b = "main")
    <2>1. /\ box \in [Queues -> [PartSet -> SUBSET Msgs]] /\ {x} \subseteq Msgs /\ "main" \in PartSet
      BY <1>2, <1>3 DEF CallStates, PartSet, SetupInv, BrokerInv, BrokerTypes
    <2> QED BY <1>3, <2>1, IntoOK
  <1>6. CASE m = x
    <2>1. /\ NoBox(m) /\ NoUnacked(m) /\ NoMem(m) /\ m \notin done
          /\ \A o \in Procs : m \in call[o].held => o = p
      BY <1>2, <1>6, WasHeld
    <2>2. NoHeld(m)'
      BY <1>4, <1>6, <2>1 DEF NoHeld, CallOthers
    <2>3. OneBox(m)'
      BY <1>5, <2>1 DEF OneBox, NoBox
    <2>4. NoUnacked(m)' /\ NoMem(m)' /\ m \notin done'
      BY <1>3, <2>1, NoMore
    <2> QED BY <2>2, <2>3, <2>4, Only
  <1>7. CASE m # x
    <2>1. NoMoreBox(m)
      BY <1>5, <1>7 DEF NoMoreBox
    <2>2. NoMoreHeld(m)
      BY <1>4, HeldNoMore
    <2> QED BY <1>3, <2>1, <2>2, NoMore, Shrinks
  <1> QED BY <1>6, <1>7

(* What has not been sent is nowhere.                                           *)
LEMMA Nowhere ==
  ASSUME SetupInv, NEW m, home[m] = None
  PROVE  NoBox(m) /\ NoUnacked(m) /\ NoMem(m) /\ NoHeld(m) /\ m \notin done
  <1>1. None \notin Queues
    BY SetupAssumption
  <1>2. NoBox(m)
    BY <1>1 DEF NoBox, SetupInv, BrokerInv, BoxHome
  <1>3. NoUnacked(m)
    BY <1>1 DEF NoUnacked, SetupInv, BrokerInv, BrokerTypes, UnackedHome
  <1>4. ASSUME NEW p \in Procs PROVE m \notin proc[p].mem
    <2>1. SUFFICES ASSUME m \in proc[p].mem PROVE FALSE
      OBVIOUS
    <2>2. proc[p].pc \in AtQueue
      BY <2>1 DEF SetupInv, StatesInv, ProcOK, StateOK, Moving, AtQueue
    <2>3. home[m] = Queue(p) /\ Queue(p) \in Queues
      BY <2>1, <2>2, QueueType DEF MemOf, Queue
    <2> QED BY <1>1, <2>3
  <1>5. ASSUME NEW p \in Procs PROVE m \notin call[p].held
    BY <1>1, CallType DEF CallOK, HeldOf
  <1>6. m \notin done
    BY DEF SetupInv, RestInv
  <1> QED BY <1>2, <1>3, <1>4, <1>5, <1>6 DEF NoMem, NoHeld

LEMMA NewOne ==
  ASSUME NEW m, SetupInv, Exclusive(m), NEW x \in Msgs, NEW q \in Queues, home[x] = None,
         box' = Into(box, q, "main", {x}), NoMoreHeld(m), UNCHANGED <<unacked, proc, done>>
  PROVE  Exclusive(m)'
  <1>1. \A r \in Queues, b \in PartSet :
          m \in box'[r][b] => m \in box[r][b] \/ (m = x /\ r = q /\ b = "main")
    <2>1. box \in [Queues -> [PartSet -> SUBSET Msgs]] /\ {x} \subseteq Msgs /\ "main" \in PartSet
      BY DEF PartSet, SetupInv, BrokerInv, BrokerTypes
    <2> QED BY <2>1, IntoOK
  <1>2. CASE m = x
    <2>1. NoBox(m) /\ NoUnacked(m) /\ NoMem(m) /\ NoHeld(m) /\ m \notin done
      BY <1>2, Nowhere
    <2>2. NoUnacked(m)' /\ NoMem(m)' /\ NoHeld(m)' /\ m \notin done'
      BY <2>1, NoMore DEF NoMoreHeld, NoHeld
    <2>3. OneBox(m)'
      BY <1>1, <2>1 DEF OneBox, NoBox
    <2> QED BY <2>2, <2>3, Only
  <1>3. CASE m # x
    <2>1. NoMoreBox(m)
      BY <1>1, <1>3 DEF NoMoreBox
    <2> QED BY <2>1, NoMore, Shrinks
  <1> QED BY <1>2, <1>3

LEMMA RepublishAgainOne ==
  ASSUME NEW m, SetupInv, Exclusive(m), NEW p \in Procs, RepublishAgain(p)
  PROVE  Exclusive(m)'
  <1>1. PICK s \in Spares : home[s] = None /\ Sends(p, s)
    BY DEF RepublishAgain
  <1>2. /\ call[p].queue \in Queues /\ box' = Into(box, call[p].queue, "main", {s})
        /\ UNCHANGED <<unacked, proc, done>> /\ s \in Msgs
    BY <1>1, SendsOK, SetupAssumption
  <1>3. NoMoreHeld(m)
    BY CallHolds, HeldNoMore DEF CallKept
  <1> QED BY <1>1, <1>2, <1>3, NewOne

LEMMA PublishOne ==
  ASSUME NEW m, SetupInv, Exclusive(m), NEW x \in Msgs, NEW q \in Queues, Publish(x, q)
  PROVE  Exclusive(m)'
  <1>1. /\ home[x] = None /\ box' = Into(box, q, "main", {x})
        /\ UNCHANGED <<unacked, proc, call, done>>
    BY DEF Publish
  <1> QED BY <1>1, NoMore, NewOne

LEMMA TakeOne ==
  ASSUME NEW m, SetupInv, Exclusive(m), NEW p \in Procs, NEW q \in Queues, Take(p, q)
  PROVE  Exclusive(m)'
  <1>1. UNCHANGED <<proc, call, done>>
    BY DEF Take
  <1>2. PICK x \in box[q]["main"] :
          /\ box' = Without(q, "main", x)
          /\ unacked' = unacked \cup {[msg |-> x, queue |-> q, by |-> p, live |-> TRUE]}
    BY DEF Take
  <1>3. PICK live \in BOOLEAN : live = TRUE
    OBVIOUS
  <1>4. PICK w : w = [msg |-> x, queue |-> q, by |-> p, live |-> live]
    OBVIOUS
  <1>5. unacked' = unacked \cup {w} /\ w.msg = x
    BY <1>2, <1>3, <1>4
  <1>6. "main" \in PartSet /\ BrokerTypes
    BY DEF PartSet, SetupInv, BrokerInv
  <1>7. \A r \in Queues, b \in PartSet :
          m \in box'[r][b] <=> m \in box[r][b] /\ ~(r = q /\ b = "main" /\ m = x)
    BY <1>2, <1>6, WithoutOK
  <1>8. CASE m = x
    <2>1. /\ NoUnacked(m) /\ NoMem(m) /\ NoHeld(m) /\ m \notin done
          /\ \A r \in Queues, b \in PartSet : m \in box[r][b] => r = q /\ b = "main"
      BY <1>2, <1>6, <1>8, WasInBox
    <2>2. NoBox(m)'
      BY <1>7, <1>8, <2>1 DEF NoBox
    <2>3. OneUnacked(m)'
      BY <1>5, <2>1 DEF OneUnacked, NoUnacked
    <2>4. NoMem(m)' /\ NoHeld(m)' /\ m \notin done'
      BY <1>1, <2>1, NoMore
    <2> QED BY <2>2, <2>3, <2>4, Only
  <1>9. CASE m # x
    <2>1. NoMoreBox(m)
      BY <1>7 DEF NoMoreBox
    <2>2. NoMoreUnacked(m)
      BY <1>5, <1>9 DEF NoMoreUnacked, NoUnacked, OneUnacked
    <2> QED BY <1>1, <2>1, <2>2, NoMore, Shrinks
  <1> QED BY <1>8, <1>9

LEMMA EndsOne ==
  ASSUME NEW m, SetupInv, Exclusive(m), NEW u \in unacked, Ends(u)
  PROVE  Exclusive(m)'
  <1>1. unacked' = unacked \ {u} /\ UNCHANGED <<proc, call>>
    BY DEF Ends
  <1>2. \/ done' = done \cup {u.msg} /\ box' = box
        \/ \E b \in PartSet : box' = Into(box, u.queue, b, {u.msg}) /\ done' = done
        \/ box' = box /\ done' = done
    BY DEF Ends, PartSet
  <1>3. /\ box \in [Queues -> [PartSet -> SUBSET Msgs]] /\ {u.msg} \subseteq Msgs /\ u.queue \in Queues
    BY DEF SetupInv, BrokerInv, BrokerTypes
  <1>4. CASE m = u.msg
    <2>1. /\ NoBox(m) /\ NoMem(m) /\ NoHeld(m) /\ m \notin done
          /\ \A v \in unacked : v.msg = m => v = u
      BY <1>4, WasUnacked
    <2>2. NoUnacked(m)' /\ NoMem(m)' /\ NoHeld(m)'
      BY <1>1, <2>1, NoMore DEF NoUnacked
    <2>3. CASE box' = box
      <3>1. NoBox(m)'
        BY <2>1, <2>3, NoMore
      <3> QED BY <2>2, <3>1 DEF Exclusive, OneBox, NoBox, OneUnacked, NoUnacked, OneMem, NoMem, OneHeld, NoHeld
    <2>4. ASSUME NEW b \in PartSet, box' = Into(box, u.queue, b, {u.msg}), done' = done
          PROVE  Exclusive(m)'
      <3>1. \A r \in Queues, c \in PartSet :
              m \in box'[r][c] => m \in box[r][c] \/ (r = u.queue /\ c = b)
        BY <1>3, <2>4, IntoOK
      <3>2. OneBox(m)'
        BY <2>1, <3>1 DEF OneBox, NoBox
      <3> QED BY <2>1, <2>2, <2>4, <3>2, Only
    <2> QED BY <1>2, <2>3, <2>4
  <1>5. CASE m # u.msg
    <2>1. NoMoreBox(m)
      <3>1. CASE box' = box
        BY <3>1, NoMore
      <3>2. ASSUME NEW b \in PartSet, box' = Into(box, u.queue, b, {u.msg})
            PROVE  NoMoreBox(m)
        BY <1>3, <1>5, <3>2, IntoOK DEF NoMoreBox
      <3> QED BY <1>2, <3>1, <3>2
    <2>2. m \in done' => m \in done
      BY <1>2, <1>5
    <2>3. unacked' \subseteq unacked
      BY <1>1
    <2> QED BY <1>1, <2>1, <2>2, <2>3, NoMore, Shrinks
  <1> QED BY <1>4, <1>5

LEMMA ExpireOne ==
  ASSUME NEW m, SetupInv, Exclusive(m), NEW q \in Queues, Expire(q)
  PROVE  Exclusive(m)'
  <1>1. UNCHANGED <<unacked, proc, call, done>>
    BY DEF Expire
  <1>2. PICK x, rest :
          x \in box[q]["schq"] /\ rest = Without(q, "schq", x) /\ box' = IF bound[q] THEN Into(rest, q, "main", {x}) ELSE rest
    BY DEF Expire
  <1>3. BrokerTypes /\ "schq" \in PartSet /\ "main" \in PartSet /\ {x} \subseteq Msgs
    BY <1>2 DEF PartSet, SetupInv, BrokerInv, BrokerTypes
  <1>4. /\ rest \in [Queues -> [PartSet -> SUBSET Msgs]]
        /\ \A r \in Queues, b \in PartSet :
             m \in rest[r][b] <=> m \in box[r][b] /\ ~(r = q /\ b = "schq" /\ m = x)
    BY <1>2, <1>3, WithoutOK
  <1>5. \A r \in Queues, b \in PartSet :
          m \in box'[r][b] => m \in rest[r][b] \/ (m = x /\ r = q /\ b = "main")
    <2>1. CASE box' = rest
      BY <2>1
    <2>2. CASE box' = Into(rest, q, "main", {x})
      BY <1>3, <1>4, <2>2, IntoOK
    <2> QED BY <1>2, <2>1, <2>2
  <1>6. CASE m = x
    <2>1. /\ NoUnacked(m) /\ NoMem(m) /\ NoHeld(m) /\ m \notin done
          /\ \A r \in Queues, b \in PartSet : m \in box[r][b] => r = q /\ b = "schq"
      BY <1>2, <1>3, <1>6, WasInBox
    <2>2. OneBox(m)'
      BY <1>4, <1>5, <1>6, <2>1 DEF OneBox
    <2>3. NoUnacked(m)' /\ NoMem(m)' /\ NoHeld(m)' /\ m \notin done'
      BY <1>1, <2>1, NoMore
    <2> QED BY <2>2, <2>3, Only
  <1>7. CASE m # x
    <2>1. NoMoreBox(m)
      BY <1>4, <1>5, <1>7 DEF NoMoreBox
    <2> QED BY <1>1, <2>1, NoMore, Shrinks
  <1> QED BY <1>6, <1>7

AllExclusive == \A m \in Msgs : Exclusive(m)

LEMMA ExclusiveInit == Init => AllExclusive
  <1> SUFFICES ASSUME Init, NEW m \in Msgs PROVE Exclusive(m)
    BY DEF AllExclusive
  <1>1. /\ box = [q \in Queues |-> [b \in PartSet |-> {}]] /\ unacked = {} /\ done = {}
        /\ proc = [p \in Procs |-> Off] /\ call = [p \in Procs |-> NoCall]
    BY DEF Init
  <1>2. Off.mem = {} /\ NoCall.held = {}
    <2>1. PICK f \in BOOLEAN : f = FALSE
      OBVIOUS
    <2>2. Off = Fresh("off", <<>>, f)
      BY <2>1, FreshIsOff
    <2> QED BY <2>2 DEF Fresh, NoCall
  <1>3. NoBox(m) /\ NoUnacked(m) /\ m \notin done
    BY <1>1 DEF NoBox, NoUnacked
  <1>4. NoMem(m) /\ NoHeld(m)
    BY <1>1, <1>2 DEF NoMem, NoHeld
  <1> QED BY <1>3, <1>4 DEF Exclusive, OneBox, NoBox, OneUnacked, NoUnacked, OneMem, NoMem, OneHeld, NoHeld

LEMMA ExclusiveStep == SetupInv /\ AllExclusive /\ [Next]_vars => AllExclusive'
  <1> SUFFICES ASSUME SetupInv, AllExclusive, [Next]_vars, NEW m \in Msgs PROVE Exclusive(m)'
    BY DEF AllExclusive
  <1>1. Exclusive(m)
    BY DEF AllExclusive
  <1>2. UNCHANGED <<box, unacked, proc, call, done>> => Exclusive(m)'
    BY <1>1, NoMore, Shrinks
  <1>3. CASE UNCHANGED vars
    BY <1>2, <1>3 DEF vars, broker
  <1>4. ASSUME NEW p \in Procs, SetupStep(p) PROVE Exclusive(m)'
    <2>1. CASE Refused(p)
      BY <1>1, <2>1, FailOne DEF Refused
    <2>2. CASE Read(p) \/ Declare(p) \/ Bind(p) \/ Consume(p) \/ StoreOptions(p)
      BY <1>1, <2>2, StepOne
    <2>3. CASE Receive(p) \/ Delete(p) \/ Resend(p)
      BY <1>1, <2>3, ReceiveOne, DeleteOne, ResendOne
    <2>4. ASSUME NEW q \in Queues, Check(p, q) PROVE Exclusive(m)'
      BY <1>2, <2>4 DEF Check, broker
    <2>5. ASSUME NEW q \in Queues, DeleteOrphan(p, q) PROVE Exclusive(m)'
      BY <1>1, <2>5, DeleteOrphanOne
    <2> QED BY <1>4, <2>1, <2>2, <2>3, <2>4, <2>5 DEF SetupStep
  <1>5. ASSUME NEW p \in Procs, CallStep(p) PROVE Exclusive(m)'
    BY <1>1, <1>5, ReceiveDeadOne, RepublishOne, RepublishAgainOne, CallOne DEF CallStep
  <1>6. ASSUME NEW p \in Procs, Boot(p) \/ Stop(p) \/ Crash(p) \/ Drop(p) \/ Retry(p) PROVE Exclusive(m)'
    BY <1>1, <1>6, BootOne, GoneOne, DropOne, RetryOne DEF Stop, Crash
  <1>7. ASSUME NEW p \in Procs, NEW q \in Queues, Requeue(p, q) \/ Take(p, q) PROVE Exclusive(m)'
    BY <1>1, <1>7, CallOne, TakeOne
  <1>8. ASSUME NEW q \in Queues, Expire(q) \/ \E x \in Msgs : Publish(x, q) PROVE Exclusive(m)'
    BY <1>1, <1>8, ExpireOne, PublishOne
  <1>9. ASSUME NEW u \in unacked, Ends(u) PROVE Exclusive(m)'
    BY <1>1, <1>9, EndsOne
  <1> QED BY <1>3, <1>4, <1>5, <1>6, <1>7, <1>8, <1>9 DEF Next

(* What is exclusive is in no more than one of the places that OnePlace counts. *)
LEMMA AtMostOne ==
  ASSUME NEW S, \A x, y \in S : x = y
  PROVE  Cardinality(S) <= 1 /\ (S = {} => Cardinality(S) = 0)
  <1>1. CASE S = {}
    BY <1>1, FS_EmptySet
  <1>2. CASE S # {}
    <2>1. PICK x \in S : S = {x}
      BY <1>2
    <2> QED BY <1>2, <2>1, FS_Singleton
  <1> QED BY <1>1, <1>2

LEMMA ExclusiveIsOnePlace ==
  ASSUME NEW m, Exclusive(m)
  PROVE  LET places == {at \in Queues \X PartSet : m \in box[at[1]][at[2]]}
                       \cup {u \in unacked : u.msg = m} \cup {p \in Procs : m \in proc[p].mem}
                       \cup {<<p>> : p \in {o \in Procs : m \in call[o].held}}
         IN Cardinality(places) <= IF m \in done THEN 0 ELSE 1
  <1> DEFINE B == {at \in Queues \X PartSet : m \in box[at[1]][at[2]]}
             U == {u \in unacked : u.msg = m}
             M == {p \in Procs : m \in proc[p].mem}
             H == {<<p>> : p \in {o \in Procs : m \in call[o].held}}
             places == B \cup U \cup M \cup H
  <1>1. /\ NoBox(m) => B = {}
        /\ NoUnacked(m) => U = {}
        /\ NoMem(m) => M = {}
        /\ NoHeld(m) => H = {}
    BY DEF NoBox, NoUnacked, NoMem, NoHeld
  <1>2. \A x, y \in B : x = y
    <2>1. ASSUME NEW x \in B, NEW y \in B PROVE x = y
      <3>1. x = <<x[1], x[2]>> /\ y = <<y[1], y[2]>>
        OBVIOUS
      <3>2. x[1] = y[1] /\ x[2] = y[2]
        BY DEF Exclusive, OneBox
      <3> QED BY <3>1, <3>2
    <2> QED BY <2>1
  <1>3. \A x, y \in U : x = y
    BY DEF Exclusive, OneUnacked
  <1>4. \A x, y \in M : x = y
    BY DEF Exclusive, OneMem
  <1>5. \A x, y \in H : x = y
    BY DEF Exclusive, OneHeld
  <1> HIDE DEF B, U, M, H
  <1>6. \A x, y \in places : x = y
    BY <1>1, <1>2, <1>3, <1>4, <1>5 DEF Exclusive
  <1>7. m \in done => places = {}
    BY <1>1 DEF Exclusive
  <1>8. Cardinality(places) <= IF m \in done THEN 0 ELSE 1
    <2> HIDE DEF places
    <2>1. Cardinality(places) <= 1 /\ (places = {} => Cardinality(places) = 0)
      BY <1>6, AtMostOne
    <2> QED BY <1>7, <2>1
  <1> QED BY <1>8 DEF places, B, U, M, H

LEMMA ExclusiveAlways == Spec => []AllExclusive
  BY ExclusiveInit, ExclusiveStep, SetupAlways, PTL DEF Spec

(* What was sent a second time, or will be, was on a connection that was lost.  *)
SentAgain == (\E s \in Spares : home[s] # None) \/ \E p \in Procs : call[p].lost # {}
FaultInv == SentAgain => spent["fault"] > 0

LEMMA FaultInit == Init => FaultInv
  <1> SUFFICES ASSUME Init PROVE ~SentAgain
    BY DEF FaultInv
  <1>1. NoCall.lost = {}
    BY DEF NoCall
  <1>2. \A s \in Spares : home[s] = None
    BY SetupAssumption DEF Init
  <1>3. \A p \in Procs : call[p].lost = {}
    BY <1>1 DEF Init
  <1> QED BY <1>2, <1>3 DEF SentAgain

LEMMA FaultKept ==
  ASSUME FaultInv, SetupInv, SentAgain' => SentAgain,
         spent' = spent \/ \E k \in DOMAIN Bounds : Spend(k)
  PROVE  FaultInv'
  <1>1. spent["fault"] > 0 => spent'["fault"] > 0
    <2>1. \A k \in DOMAIN Bounds : spent[k] \in Nat
      BY DEF SetupInv, RestInv
    <2>2. "fault" \in DOMAIN Bounds /\ spent \in [DOMAIN Bounds -> Nat]
      BY DEF Bounds, SetupInv, RestInv
    <2>3. ASSUME NEW k \in DOMAIN Bounds, Spend(k) PROVE spent["fault"] > 0 => spent'["fault"] > 0
      <3>1. spent' = [spent EXCEPT ![k] = @ + 1]
        BY <2>3 DEF Spend
      <3>2. spent'["fault"] = spent["fault"] \/ spent'["fault"] = spent["fault"] + 1
        BY <2>2, <3>1
      <3> QED BY <2>1, <2>2, <3>2
    <2> QED BY <2>3
  <1> QED BY <1>1 DEF FaultInv

LEMMA SpentFault ==
  ASSUME SetupInv, Spend("fault")
  PROVE  FaultInv'
  <1>1. "fault" \in DOMAIN Bounds /\ spent \in [DOMAIN Bounds -> Nat] /\ spent' = [spent EXCEPT !["fault"] = @ + 1]
    BY DEF Bounds, Spend, SetupInv, RestInv
  <1>2. spent'["fault"] = spent["fault"] + 1 /\ spent["fault"] \in Nat
    BY <1>1
  <1> QED BY <1>2 DEF FaultInv

LEMMA FaultStep == FaultInv /\ SetupInv /\ [Next]_vars => FaultInv'
  <1> SUFFICES ASSUME FaultInv, SetupInv, [Next]_vars PROVE FaultInv'
    OBVIOUS
  <1>1. UNCHANGED <<home, call, spent>> => FaultInv'
    BY DEF FaultInv, SentAgain
  <1>2. ASSUME NEW p \in Procs, CallOthers(p), call'[p].lost \subseteq call[p].lost, home' = home
        PROVE  SentAgain' => SentAgain
    BY <1>2 DEF SentAgain, CallOthers
  <1>3. CASE UNCHANGED vars
    BY <1>1, <1>3 DEF vars
  <1>4. ASSUME NEW p \in Procs, SetupStep(p) PROVE FaultInv'
    <2>1. CASE Fail(p)
      BY <1>1, <2>1 DEF Fail
    <2>2. CASE ~Fail(p)
      <3>1. UNCHANGED <<home, call, spent>>
        BY <1>4, <2>2 DEF SetupStep, Refused, Read, Declare, Receive, Delete, Resend, Bind, Consume,
                          StoreOptions, Check, DeleteOrphan
      <3> QED BY <1>1, <3>1
    <2> QED BY <2>1, <2>2
  <1>5. ASSUME NEW p \in Procs, CloseOk(p) \/ Confirmed(p) \/ Retry(p) PROVE FaultInv'
    <2>1. home' = home /\ spent' = spent
      BY <1>5 DEF CloseOk, Confirmed, Retry
    <2>2. CallKept(p)
      BY <1>5, CallHolds
    <2> QED BY <1>2, <2>1, <2>2, FaultKept DEF CallKept
  <1>6. ASSUME NEW p \in Procs, ReceiveDead(p) \/ GiveUp(p) \/ Republish(p) PROVE FaultInv'
    <2>1. home' = home /\ spent' = spent
      BY <1>6 DEF ReceiveDead, GiveUp, Republish, Sends
    <2>2. CASE ReceiveDead(p)
      BY <1>2, <2>1, <2>2, CallReceives, FaultKept
    <2>3. CASE GiveUp(p)
      <3>1. call' = [call EXCEPT ![p] = NoCall]
        BY <2>3 DEF GiveUp
      <3> QED BY <1>2, <2>1, <3>1, CallEnds, FaultKept
    <2>4. CASE Republish(p)
      <3>1. PICK x : call' = [call EXCEPT ![p].held = @ \ {x}, ![p].sent = @ \cup {x}]
        BY <2>4 DEF Republish
      <3>2. CallOthers(p) /\ call'[p].lost = call[p].lost
        BY <3>1, CallSends
      <3> QED BY <1>2, <2>1, <3>2, FaultKept
    <2> QED BY <1>6, <2>2, <2>3, <2>4
  <1>7. ASSUME NEW p \in Procs, RepublishAgain(p) PROVE FaultInv'
    <2>1. spent' = spent /\ call[p].lost # {}
      BY <1>7 DEF RepublishAgain, Sends
    <2> QED BY <2>1 DEF FaultInv, SentAgain
  <1>8. ASSUME NEW p \in Procs, Boot(p) PROVE FaultInv'
    <2>1. UNCHANGED <<home, call>> /\ Spend("boot") /\ "boot" \in DOMAIN Bounds
      BY <1>8 DEF Boot, Bounds
    <2>2. SentAgain' => SentAgain
      BY <2>1 DEF SentAgain
    <2> QED BY <2>1, <2>2, FaultKept
  <1>9. ASSUME NEW p \in Procs, Stop(p) PROVE FaultInv'
    <2>1. home' = home /\ spent' = spent /\ call' = [call EXCEPT ![p] = NoCall]
      BY <1>9 DEF Stop, Gone
    <2>2. CallOthers(p) /\ call'[p].lost \subseteq call[p].lost
      BY <2>1, CallEnds
    <2> QED BY <1>2, <2>1, <2>2, FaultKept
  <1>10. ASSUME NEW p \in Procs, Crash(p) \/ Drop(p) PROVE FaultInv'
    BY <1>10, SpentFault DEF Crash, Drop
  <1>11. ASSUME NEW p \in Procs, NEW q \in Queues, Requeue(p, q) PROVE FaultInv'
    <2>1. home' = home /\ Spend("call") /\ "call" \in DOMAIN Bounds
      BY <1>11 DEF Requeue, Bounds
    <2>2. CallOthers(p) /\ call'[p].lost \subseteq call[p].lost
      BY <1>11, CallHolds DEF CallKept
    <2> QED BY <1>2, <2>1, <2>2, FaultKept
  <1>12. ASSUME NEW q \in Queues, NEW m \in Msgs, Publish(m, q) PROVE FaultInv'
    <2>1. m \notin Spares /\ home' = [home EXCEPT ![m] = q] /\ UNCHANGED <<call, spent>>
      BY <1>12 DEF Publish
    <2>2. \A s \in Spares : home'[s] = home[s]
      BY <2>1, SetupAssumption DEF SetupInv, RestInv
    <2>3. SentAgain' => SentAgain
      BY <2>1, <2>2 DEF SentAgain
    <2> QED BY <2>1, <2>3, FaultKept
  <1>13. ASSUME NEW p \in Procs, NEW q \in Queues, Take(p, q) PROVE FaultInv'
    BY <1>1, <1>13 DEF Take
  <1>14. ASSUME NEW q \in Queues, Expire(q) PROVE FaultInv'
    BY <1>1, <1>14 DEF Expire
  <1>15. ASSUME NEW u \in unacked, Ends(u) PROVE FaultInv'
    BY <1>1, <1>15 DEF Ends
  <1> QED BY <1>3, <1>4, <1>5, <1>6, <1>7, <1>8, <1>9, <1>10, <1>11, <1>12, <1>13, <1>14, <1>15
          DEF Next, CallStep

LEMMA FaultAlways == Spec => []FaultInv
  BY FaultInit, FaultStep, SetupAlways, PTL DEF Spec

(* consumeAllMessages acks what it keeps: whatever migrations, requeues, crashes *)
(* and recoveries meet, acks that did not arrive and publications that were not  *)
(* confirmed among them, a copy of a message is in one queue, or one delivery, or*)
(* the memory of one setup, or one requeueDeadLetters; and nowhere after its     *)
(* success. There is no second copy unless a connection was lost or a process    *)
(* has crashed.                                                                  *)
THEOREM NeverTwice == Spec => []OnePlace
  <1>1. AllExclusive /\ FaultInv => OnePlace
    <2> SUFFICES ASSUME AllExclusive, FaultInv PROVE OnePlace
      OBVIOUS
    <2>1. ASSUME NEW m \in Msgs
          PROVE  LET places == {at \in Queues \X PartSet : m \in box[at[1]][at[2]]}
                               \cup {u \in unacked : u.msg = m} \cup {p \in Procs : m \in proc[p].mem}
                               \cup {<<p>> : p \in {o \in Procs : m \in call[o].held}}
                 IN Cardinality(places) <= IF m \in done THEN 0 ELSE 1
      <3>1. Exclusive(m)
        BY DEF AllExclusive
      <3> QED BY <3>1, ExclusiveIsOnePlace
    <2>2. (\E s \in Spares : home[s] # None) => spent["fault"] > 0
      BY DEF FaultInv, SentAgain
    <2> QED BY <2>1, <2>2 DEF OnePlace
  <1> QED BY <1>1, ExclusiveAlways, FaultAlways, PTL

-------------------------------------------------------------------------------
(* What may be lost.                                                            *)
Accounted(m) == m \in Owed' \cup done' \/ Stopped(m) \/ Cut(m) \/ Unroutable(m)
BoxAccounted(m) == \A q \in Queues, b \in PartSet : m \in box[q][b] => Accounted(m)
UnackedAccounted(m) == \A u \in unacked : u.msg = m => Accounted(m)
MemAccounted(m) == \A p \in Procs : m \in proc[p].mem => Accounted(m)
HeldAccounted(m) == \A p \in Procs : m \in call[p].held => Accounted(m)

LEMMA OwedIs ==
  ASSUME NEW m
  PROVE  m \in Owed <=> ~(NoBox(m) /\ NoUnacked(m) /\ NoMem(m) /\ NoHeld(m))
  <1>1. (\E q \in Queues : m \in InBox(q)) <=> ~NoBox(m)
    BY DEF InBox, NoBox
  <1>2. m \in Delivered <=> ~NoUnacked(m)
    BY DEF Delivered, NoUnacked
  <1>3. (\E p \in Procs : m \in Held(p)) <=> ~(NoMem(m) /\ NoHeld(m))
    BY DEF Held, NoMem, NoHeld
  <1>4. m \in Owed <=> \/ \E q \in Queues : m \in InBox(q)
                       \/ m \in Delivered
                       \/ \E p \in Procs : m \in Held(p)
    <2>1. PICK inBoxes : inBoxes = UNION {InBox(q) : q \in Queues}
      OBVIOUS
    <2>2. PICK held : held = UNION {Held(p) : p \in Procs}
      OBVIOUS
    <2>3. Owed = inBoxes \cup Delivered \cup held
      BY <2>1, <2>2 DEF Owed
    <2>4. m \in inBoxes <=> \E q \in Queues : m \in InBox(q)
      BY <2>1
    <2>5. m \in held <=> \E p \in Procs : m \in Held(p)
      BY <2>2
    <2> QED BY <2>3, <2>4, <2>5
  <1> QED BY <1>1, <1>2, <1>3, <1>4

LEMMA OwedThen ==
  ASSUME NEW m
  PROVE  m \in Owed' <=> ~(NoBox(m)' /\ NoUnacked(m)' /\ NoMem(m)' /\ NoHeld(m)')
  <1>1. (\E q \in Queues : m \in InBox(q)') <=> ~NoBox(m)'
    BY DEF InBox, NoBox
  <1>2. m \in Delivered' <=> ~NoUnacked(m)'
    BY DEF Delivered, NoUnacked
  <1>3. (\E p \in Procs : m \in Held(p)') <=> ~(NoMem(m)' /\ NoHeld(m)')
    BY DEF Held, NoMem, NoHeld
  <1>4. m \in Owed' <=> \/ \E q \in Queues : m \in InBox(q)'
                        \/ m \in Delivered'
                        \/ \E p \in Procs : m \in Held(p)'
    <2>1. PICK inBoxes : inBoxes = UNION {InBox(q)' : q \in Queues}
      OBVIOUS
    <2>2. PICK held : held = UNION {Held(p)' : p \in Procs}
      OBVIOUS
    <2>3. Owed' = inBoxes \cup Delivered' \cup held
      BY <2>1, <2>2 DEF Owed
    <2>4. m \in inBoxes <=> \E q \in Queues : m \in InBox(q)'
      BY <2>1
    <2>5. m \in held <=> \E p \in Procs : m \in Held(p)'
      BY <2>2
    <2> QED BY <2>3, <2>4, <2>5
  <1> QED BY <1>1, <1>2, <1>3, <1>4

LEMMA AllAccounted ==
  ASSUME NEW m, BoxAccounted(m), UnackedAccounted(m), MemAccounted(m), HeldAccounted(m)
  PROVE  m \in Owed => Accounted(m)
  BY OwedIs DEF BoxAccounted, UnackedAccounted, MemAccounted, HeldAccounted,
                NoBox, NoUnacked, NoMem, NoHeld

(* It is somewhere in the next state.                                           *)
LEMMA Somewhere ==
  ASSUME NEW m
  PROVE  /\ \A q \in Queues, b \in PartSet : m \in box'[q][b] => Accounted(m)
         /\ \A u \in unacked' : u.msg = m => Accounted(m)
         /\ \A p \in Procs : m \in proc'[p].mem => Accounted(m)
         /\ \A p \in Procs : m \in call'[p].held => Accounted(m)
  <1>1. m \in Owed' => Accounted(m)
    BY DEF Accounted
  <1>2. \A q \in Queues, b \in PartSet : m \in box'[q][b] => m \in Owed'
    BY OwedThen DEF NoBox
  <1>3. \A u \in unacked' : u.msg = m => m \in Owed'
    BY OwedThen DEF NoUnacked
  <1>4. \A p \in Procs : m \in proc'[p].mem => m \in Owed'
    BY OwedThen DEF NoMem
  <1>5. \A p \in Procs : m \in call'[p].held => m \in Owed'
    BY OwedThen DEF NoHeld
  <1> QED BY <1>1, <1>2, <1>3, <1>4, <1>5

LEMMA Stays ==
  ASSUME NEW m
  PROVE  /\ (\A q \in Queues, b \in PartSet : m \in box[q][b] => m \in box'[q][b]) => BoxAccounted(m)
         /\ box' = box => BoxAccounted(m)
         /\ unacked \subseteq unacked' => UnackedAccounted(m)
         /\ (\A p \in Procs : m \in proc[p].mem => m \in proc'[p].mem) => MemAccounted(m)
         /\ proc' = proc => MemAccounted(m)
         /\ call' = call => HeldAccounted(m)
  <1>1. (\A q \in Queues, b \in PartSet : m \in box[q][b] => m \in box'[q][b]) => BoxAccounted(m)
    BY Somewhere DEF BoxAccounted
  <1>2. box' = box => BoxAccounted(m)
    BY Somewhere DEF BoxAccounted
  <1>3. unacked \subseteq unacked' => UnackedAccounted(m)
    BY Somewhere DEF UnackedAccounted
  <1>4. (\A p \in Procs : m \in proc[p].mem => m \in proc'[p].mem) => MemAccounted(m)
    BY Somewhere DEF MemAccounted
  <1>5. proc' = proc => MemAccounted(m)
    BY Somewhere DEF MemAccounted
  <1>6. call' = call => HeldAccounted(m)
    BY Somewhere DEF HeldAccounted
  <1> QED BY <1>1, <1>2, <1>3, <1>4, <1>5, <1>6

(* The process that holds it stops, fails or begins again.                      *)
LEMMA StopsAccount ==
  ASSUME NEW m, NEW p \in Procs, Others(p), proc'[p].pc \in {"off", "failed", "read"}
  PROVE  MemAccounted(m) /\ (m \in call[p].held => Accounted(m))
  <1>1. m \in Held(p) => Accounted(m)
    BY DEF Accounted, Stopped
  <1>2. ASSUME NEW o \in Procs, m \in proc[o].mem PROVE Accounted(m)
    <2>1. CASE o = p
      BY <1>1, <1>2, <2>1 DEF Held
    <2>2. CASE o # p
      <3>1. m \in proc'[o].mem
        BY <1>2, <2>2 DEF Others
      <3> QED BY <3>1, Somewhere
    <2> QED BY <2>1, <2>2
  <1> QED BY <1>1, <1>2 DEF MemAccounted, Held

LEMMA DisconnectedAccount ==
  ASSUME NEW m, SetupInv, NEW p \in Procs, NEW back, Disconnected(p, back)
  PROVE  BoxAccounted(m) /\ UnackedAccounted(m)
  <1>1. /\ unacked' = {u \in unacked : u.by # p}
        /\ \A q \in Queues, b \in PartSet : box'[q][b] = box[q][b] \cup Back(p, back, q)[b]
    BY DisconnectedBox
  <1>2. \A q \in Queues, b \in PartSet : m \in box[q][b] => m \in box'[q][b]
    BY <1>1
  <1>3. ASSUME NEW u \in unacked, u.msg = m PROVE Accounted(m)
    <2>1. CASE u.by # p
      <3>1. u \in unacked'
        BY <1>1, <2>1
      <3> QED BY <1>3, <3>1, Somewhere
    <2>2. CASE u.by = p /\ u.live
      <3>1. u.queue \in Queues /\ "main" \in exists[u.queue] /\ "main" \in PartSet
        BY <2>2 DEF SetupInv, BrokerInv, BrokerTypes, BrokerOK, PartSet
      <3>2. m \in Back(p, back, u.queue)["main"]
        BY <1>3, <2>2, <3>1 DEF Back
      <3>3. m \in box'[u.queue]["main"]
        BY <1>1, <3>1, <3>2
      <3> QED BY <3>1, <3>3, Somewhere
    <2>3. CASE ~u.live
      BY <1>3, <2>3 DEF Accounted, Cut
    <2> QED BY <2>1, <2>2, <2>3
  <1> QED BY <1>2, <1>3, Stays DEF UnackedAccounted

LEMMA FailAccount ==
  ASSUME NEW m, SetupInv, NEW p \in Procs, Fail(p)
  PROVE  m \in Owed => Accounted(m)
  <1>1. PICK st : st = [proc[p] EXCEPT !.pc = "failed", !.mem = {}, !.left = 0]
    OBVIOUS
  <1>2. Goes(p, st) /\ call' = call /\ (Disconnected(p, {}) \/ UNCHANGED broker)
    BY <1>1 DEF Fail
  <1>3. st.pc = "failed"
    BY <1>1 DEF SetupInv, StatesInv, ProcStates
  <1>4. proc'[p].pc = "failed" /\ Others(p)
    BY <1>2, <1>3, GoesMem DEF SetupInv
  <1>5. MemAccounted(m) /\ HeldAccounted(m)
    BY <1>2, <1>4, StopsAccount, Stays
  <1>6. BoxAccounted(m) /\ UnackedAccounted(m)
    BY <1>2, DisconnectedAccount, Stays DEF broker
  <1> QED BY <1>5, <1>6, AllAccounted

LEMMA FreshPc ==
  ASSUME StatesInv, NEW p \in Procs, NEW pc, NEW d,
         \/ Goes(p, Off) /\ pc = "off"
         \/ Goes(p, [Off EXCEPT !.pc = pc])
         \/ Goes(p, [Off EXCEPT !.pc = pc, !.dep = d])
         \/ Goes(p, [Off EXCEPT !.pc = pc, !.dep = d, !.recover = TRUE])
  PROVE  proc'[p].pc = pc
  <1>1. PICK r \in BOOLEAN : r = TRUE
    OBVIOUS
  <1>2. PICK f \in BOOLEAN : f = FALSE
    OBVIOUS
  <1>3. \/ Goes(p, Fresh("off", <<>>, f)) /\ pc = "off"
        \/ Goes(p, Fresh(pc, <<>>, f))
        \/ Goes(p, Fresh(pc, d, f)) \/ Goes(p, Fresh(pc, d, r))
    BY <1>1, <1>2, FreshIsOff
  <1>4. \A st : Goes(p, st) => proc'[p] = st
    BY GoesMem
  <1>5. \A x, y, z : Fresh(x, y, z).pc = x
    BY DEF Fresh
  <1> QED BY <1>3, <1>4, <1>5

LEMMA GoneAccount ==
  ASSUME NEW m, SetupInv, NEW p \in Procs, Gone(p) \/ Drop(p)
  PROVE  m \in Owed => Accounted(m)
  <1>1. PICK back, c : Disconnected(p, back) /\ call' = [call EXCEPT ![p] = c]
    BY DEF Gone, Drop
  <1>2. proc'[p].pc \in {"off", "failed", "read"} /\ Others(p)
    BY FreshPc, FreshGoes DEF Gone, Drop, SetupInv
  <1>3. MemAccounted(m) /\ (m \in call[p].held => Accounted(m))
    BY <1>2, StopsAccount
  <1>4. HeldAccounted(m)
    <2>1. ASSUME NEW o \in Procs, o # p, m \in call[o].held PROVE Accounted(m)
      <3>1. m \in call'[o].held
        BY <1>1, <2>1, CallGoesTo DEF CallOthers, SetupInv
      <3> QED BY <3>1, Somewhere
    <2> QED BY <1>3, <2>1 DEF HeldAccounted
  <1> QED BY <1>1, <1>3, <1>4, DisconnectedAccount, AllAccounted

LEMMA ReceiveAccount ==
  ASSUME NEW m, SetupInv, NEW p \in Procs, Receive(p)
  PROVE  m \in Owed => Accounted(m)
  <1>1. PICK q : q = Queue(p)
    OBVIOUS
  <1>2. proc[p].pc = "drain" /\ proc[p].pc \in AtQueue /\ UNCHANGED <<unacked, call>>
    BY DEF Receive, AtQueue
  <1>3. q \in Queues /\ proc[p] \in ProcStates /\ "main" \in PartSet /\ BrokerTypes
    BY <1>1, <1>2, QueueType DEF PartSet, SetupInv, BrokerInv
  <1>4. PICK x \in box[q]["main"] :
          /\ box' = Without(q, "main", x)
          /\ Goes(p, [proc[p] EXCEPT !.mem = @ \cup {x}, !.left = @ - 1,
                                     !.pc = IF proc[p].left = 1 THEN "delete" ELSE "drain"])
    BY <1>1 DEF Receive, Ack
  <1>5. proc'[p].mem = proc[p].mem \cup {x} /\ Others(p)
    <2>1. PICK st : st = [proc[p] EXCEPT !.mem = @ \cup {x}, !.left = @ - 1,
                                         !.pc = IF proc[p].left = 1 THEN "delete" ELSE "drain"]
      OBVIOUS
    <2>2. Goes(p, st)
      BY <1>4, <2>1
    <2>3. st.mem = proc[p].mem \cup {x}
      BY <1>3, <2>1 DEF ProcStates
    <2> QED BY <2>2, <2>3, GoesMem DEF SetupInv
  <1>6. BoxAccounted(m)
    <2>1. \A r \in Queues, c \in PartSet :
            m \in box'[r][c] <=> m \in box[r][c] /\ ~(r = q /\ c = "main" /\ m = x)
      BY <1>3, <1>4, WithoutOK
    <2>2. m = x => Accounted(m)
      BY <1>5, Somewhere
    <2> QED BY <2>1, <2>2, Somewhere DEF BoxAccounted
  <1>7. MemAccounted(m)
    <2>1. \A o \in Procs : m \in proc[o].mem => m \in proc'[o].mem
      BY <1>5 DEF Others
    <2> QED BY <2>1, Stays
  <1>8. UnackedAccounted(m) /\ HeldAccounted(m)
    BY <1>2, Stays
  <1> QED BY <1>6, <1>7, <1>8, AllAccounted

LEMMA ResendAccount ==
  ASSUME NEW m, SetupInv, NEW p \in Procs, Resend(p)
  PROVE  m \in Owed => Accounted(m)
  <1>1. PICK q : q = Queue(p)
    OBVIOUS
  <1>2. /\ proc[p].pc = "resend" /\ proc[p].pc \in AtQueue /\ UNCHANGED <<unacked, call>>
        /\ box' = Into(box, q, "main", proc[p].mem)
    BY <1>1 DEF Resend, AtQueue
  <1>3. q \in Queues /\ proc[p] \in ProcStates /\ "main" \in PartSet /\ MemOf(proc[p])
    BY <1>1, <1>2, QueueType DEF PartSet
  <1>4. Others(p)
    BY GoesMem DEF Resend, SetupInv
  <1>5. \A r \in Queues, c \in PartSet :
          m \in box'[r][c] <=>
            m \in box[r][c] \/ (m \in proc[p].mem /\ r = q /\ c = "main" /\ "main" \in exists[q])
    <2>1. box \in [Queues -> [PartSet -> SUBSET Msgs]] /\ proc[p].mem \subseteq Msgs
      BY <1>3 DEF ProcStates, SetupInv, BrokerInv, BrokerTypes
    <2> QED BY <1>2, <1>3, <2>1, IntoOK
  <1>6. BoxAccounted(m)
    BY <1>5, Stays
  <1>7. ASSUME m \in proc[p].mem PROVE Accounted(m)
    <2>1. CASE "main" \in exists[q]
      <3>1. m \in box'[q]["main"]
        BY <1>3, <1>5, <1>7, <2>1
      <3> QED BY <1>3, <3>1, Somewhere
    <2>2. CASE "main" \notin exists[q]
      <3>1. home[m] = q
        BY <1>1, <1>3, <1>7 DEF MemOf, Queue
      <3>2. Unroutable(m)
        BY <1>7, <2>2, <3>1 DEF Unroutable, Held
      <3> QED BY <3>2 DEF Accounted
    <2> QED BY <2>1, <2>2
  <1>8. MemAccounted(m)
    BY <1>4, <1>7, Somewhere DEF MemAccounted, Others
  <1>9. UnackedAccounted(m) /\ HeldAccounted(m)
    BY <1>2, Stays
  <1> QED BY <1>6, <1>8, <1>9, AllAccounted

(* A queue is deleted only empty, and the deliveries from it remain.            *)
LEMMA MainDeletedAccount ==
  ASSUME NEW m, SetupInv, NEW q \in Queues, MainDeleted(q), box[q]["main"] = {}
  PROVE  BoxAccounted(m) /\ UnackedAccounted(m)
  <1>1. unacked' = {[u EXCEPT !.live = @ /\ u.queue # q] : u \in unacked} /\ box' = [box EXCEPT ![q]["main"] = {}]
    BY DEF MainDeleted
  <1>2. \A r \in Queues, b \in PartSet : m \in box[r][b] => m \in box'[r][b]
    BY <1>1 DEF SetupInv, BrokerInv, BrokerTypes
  <1>3. ASSUME NEW u \in unacked, u.msg = m PROVE Accounted(m)
    <2>1. PICK live \in BOOLEAN : live = (u.live /\ u.queue # q)
      OBVIOUS
    <2>2. PICK w : w = [u EXCEPT !.live = live]
      OBVIOUS
    <2>3. u \in [msg : Msgs, queue : Queues, by : Procs, live : BOOLEAN]
      BY DEF SetupInv, BrokerInv, BrokerTypes
    <2>4. w.msg = m
      BY <1>3, <2>2, <2>3
    <2>5. w \in unacked'
      <3>1. w = [u EXCEPT !.live = @ /\ u.queue # q]
        BY <2>1, <2>2, <2>3
      <3> QED BY <1>1, <3>1
    <2> QED BY <2>4, <2>5, Somewhere
  <1> QED BY <1>2, <1>3, Stays DEF UnackedAccounted

LEMMA CancelledAccount ==
  ASSUME NEW m, StatesInv, NEW q, \A o \in Procs : proc'[o].mem = Cancelled(q)[o].mem
  PROVE  MemAccounted(m)
  BY CancelledOK, Stays

LEMMA DeleteAccount ==
  ASSUME NEW m, SetupInv, NEW p \in Procs, Delete(p)
  PROVE  m \in Owed => Accounted(m)
  <1>1. CASE Fail(p)
    BY <1>1, FailAccount
  <1>2. CASE ~Fail(p)
    <2>1. PICK q : q = Queue(p)
      OBVIOUS
    <2>2. /\ MainDeleted(q) /\ proc' = [Cancelled(q) EXCEPT ![p].pc = "assert"]
          /\ call' = call /\ proc[p].pc \in AtQueue /\ box[q]["main"] = {}
      BY <1>2, <2>1 DEF Delete, AtQueue, NotEmpty
    <2>3. q \in Queues
      BY <2>1, <2>2, QueueType
    <2>4. PICK cs : cs = Cancelled(q)
      OBVIOUS
    <2>5. cs \in [Procs -> ProcStates]
      BY <2>4, CancelledOK DEF SetupInv
    <2>6. \A o \in Procs : proc'[o].mem = cs[o].mem
      BY <2>2, <2>4, <2>5 DEF ProcStates
    <2>7. MemAccounted(m)
      BY <2>4, <2>6, CancelledAccount DEF SetupInv
    <2> QED BY <2>2, <2>3, <2>7, MainDeletedAccount, Stays, AllAccounted
  <1> QED BY <1>1, <1>2

LEMMA DeleteOrphanAccount ==
  ASSUME NEW m, SetupInv, NEW p \in Procs, NEW q \in Queues, DeleteOrphan(p, q)
  PROVE  m \in Owed => Accounted(m)
  <1>1. CASE Fail(p)
    BY <1>1, FailAccount
  <1>2. CASE ~Fail(p)
    <2>1. PICK b : b = Head(orphan[p][q].left)
      OBVIOUS
    <2>2. /\ call' = call /\ box[q][b] = {}
          /\ \/ b = "main" /\ MainDeleted(q) /\ proc' = Cancelled(q)
             \/ box' = [box EXCEPT ![q][b] = {}] /\ UNCHANGED <<unacked, proc>>
      BY <1>2, <2>1 DEF DeleteOrphan, Deletable, Idle
    <2>3. CASE b = "main" /\ MainDeleted(q) /\ proc' = Cancelled(q)
      <3>1. MemAccounted(m)
        BY <2>3, CancelledAccount DEF SetupInv
      <3> QED BY <2>2, <2>3, <3>1, MainDeletedAccount, Stays, AllAccounted
    <2>4. CASE box' = [box EXCEPT ![q][b] = {}] /\ UNCHANGED <<unacked, proc>>
      <3>1. \A r \in Queues, c \in PartSet : m \in box[r][c] => m \in box'[r][c]
        BY <2>2, <2>4 DEF SetupInv, BrokerInv, BrokerTypes
      <3>2. BoxAccounted(m) /\ UnackedAccounted(m) /\ MemAccounted(m) /\ HeldAccounted(m)
        BY <2>2, <2>4, <3>1, Stays
      <3> QED BY <3>2, AllAccounted
    <2> QED BY <2>2, <2>3, <2>4
  <1> QED BY <1>1, <1>2

LEMMA ReceiveDeadAccount ==
  ASSUME NEW m, SetupInv, NEW p \in Procs, ReceiveDead(p)
  PROVE  m \in Owed => Accounted(m)
  <1>1. PICK q : q = call[p].queue
    OBVIOUS
  <1>2. call[p].pc = "drain" /\ UNCHANGED <<unacked, proc>>
    BY DEF ReceiveDead, Draining
  <1>3. q \in Queues /\ call[p] \in CallStates /\ "dlq" \in PartSet /\ BrokerTypes
    BY <1>1, <1>2, CallType DEF PartSet, SetupInv, BrokerInv
  <1>4. PICK x \in box[q]["dlq"] :
          /\ box' = Without(q, "dlq", x)
          /\ call' = [call EXCEPT ![p].held = @ \cup {x}, ![p].left = @ - 1,
                                  ![p].pc = IF call[p].left = 1 THEN "closing" ELSE "drain"]
    BY <1>1 DEF ReceiveDead
  <1>5. PICK c : c = [call[p] EXCEPT !.held = @ \cup {x}, !.left = @ - 1,
                                     !.pc = IF call[p].left = 1 THEN "closing" ELSE "drain"]
    OBVIOUS
  <1>6. c.held = call[p].held \cup {x} /\ call' = [call EXCEPT ![p] = c]
    <2>1. c.held = call[p].held \cup {x}
      BY <1>3, <1>5 DEF CallStates
    <2>2. call \in [Procs -> CallStates]
      BY DEF SetupInv, StatesInv
    <2>3. call' = [call EXCEPT ![p] = c]
      BY <1>3, <1>4, <1>5, <2>2 DEF CallStates
    <2> QED BY <2>1, <2>3
  <1>7. call'[p].held = call[p].held \cup {x} /\ \A o \in Procs : o # p => call'[o] = call[o]
    BY <1>6, CallGoesTo DEF SetupInv, CallOthers
  <1>8. BoxAccounted(m)
    <2>1. \A r \in Queues, b \in PartSet :
            m \in box'[r][b] <=> m \in box[r][b] /\ ~(r = q /\ b = "dlq" /\ m = x)
      BY <1>3, <1>4, WithoutOK
    <2>2. m = x => Accounted(m)
      BY <1>7, Somewhere
    <2> QED BY <2>1, <2>2, Somewhere DEF BoxAccounted
  <1>9. HeldAccounted(m)
    <2>1. \A o \in Procs : m \in call[o].held => m \in call'[o].held
      BY <1>7
    <2> QED BY <2>1, Somewhere DEF HeldAccounted
  <1> QED BY <1>2, <1>8, <1>9, Stays, AllAccounted

LEMMA SendsAccount ==
  ASSUME NEW m, SetupInv, NEW p \in Procs, NEW x \in Msgs, Sends(p, x)
  PROVE  /\ BoxAccounted(m) /\ UnackedAccounted(m) /\ MemAccounted(m)
         /\ m = x /\ m \in call[p].held => Accounted(m)
  <1>1. PICK q : q = call[p].queue
    OBVIOUS
  <1>2. /\ q \in Queues /\ HeldOf(call[p]) /\ box' = Into(box, q, "main", {x})
        /\ UNCHANGED <<unacked, proc>> /\ "main" \in PartSet
    BY <1>1, SendsOK DEF PartSet
  <1>3. \A r \in Queues, b \in PartSet :
          m \in box'[r][b] <=> m \in box[r][b] \/ (m = x /\ r = q /\ b = "main" /\ "main" \in exists[q])
    <2>1. box \in [Queues -> [PartSet -> SUBSET Msgs]] /\ {x} \subseteq Msgs
      BY DEF SetupInv, BrokerInv, BrokerTypes
    <2> QED BY <1>2, <2>1, IntoOK
  <1>4. ASSUME m = x, m \in call[p].held PROVE Accounted(m)
    <2>1. CASE "main" \in exists[q]
      <3>1. m \in box'[q]["main"]
        BY <1>2, <1>3, <1>4, <2>1
      <3> QED BY <1>2, <3>1, Somewhere
    <2>2. CASE "main" \notin exists[q]
      <3>1. home[m] = q
        BY <1>1, <1>2, <1>4 DEF HeldOf
      <3>2. Unroutable(m)
        BY <1>4, <2>2, <3>1 DEF Unroutable, Held
      <3> QED BY <3>2 DEF Accounted
    <2> QED BY <2>1, <2>2
  <1> QED BY <1>2, <1>3, <1>4, Stays

LEMMA RepublishAccount ==
  ASSUME NEW m, SetupInv, NEW p \in Procs, Republish(p)
  PROVE  m \in Owed => Accounted(m)
  <1>1. PICK x \in call[p].held :
          Sends(p, x) /\ call' = [call EXCEPT ![p].held = @ \ {x}, ![p].sent = @ \cup {x}]
    BY DEF Republish
  <1>2. x \in Msgs
    BY <1>1, CallType DEF CallStates
  <1>3. call'[p].held = call[p].held \ {x} /\ CallOthers(p)
    BY <1>1, CallSends
  <1>4. BoxAccounted(m) /\ UnackedAccounted(m) /\ MemAccounted(m) /\ (m = x => Accounted(m))
    BY <1>1, <1>2, SendsAccount
  <1>5. HeldAccounted(m)
    <2>1. \A o \in Procs : m \in call[o].held /\ m # x => m \in call'[o].held
      BY <1>3 DEF CallOthers
    <2> QED BY <1>4, <2>1, Somewhere DEF HeldAccounted
  <1> QED BY <1>4, <1>5, AllAccounted

LEMMA HoldsAccount ==
  ASSUME NEW m, NEW p \in Procs, CallKept(p)
  PROVE  HeldAccounted(m)
  <1>1. \A o \in Procs : m \in call[o].held => m \in call'[o].held
    BY DEF CallKept, CallOthers
  <1> QED BY <1>1, Somewhere DEF HeldAccounted

LEMMA RepublishAgainAccount ==
  ASSUME NEW m, SetupInv, NEW p \in Procs, RepublishAgain(p)
  PROVE  m \in Owed => Accounted(m)
  <1>1. PICK s \in Spares : Sends(p, s)
    BY DEF RepublishAgain
  <1>2. s \in Msgs
    BY SetupAssumption
  <1>3. HeldAccounted(m)
    BY CallHolds, HoldsAccount
  <1> QED BY <1>1, <1>2, <1>3, SendsAccount, AllAccounted

LEMMA EndsAccount ==
  ASSUME NEW m, SetupInv, NEW u \in unacked, Ends(u)
  PROVE  m \in Owed => Accounted(m)
  <1>1. unacked' = unacked \ {u} /\ UNCHANGED <<proc, call>>
    BY DEF Ends
  <1>2. \/ done' = done \cup {u.msg} /\ box' = box
        \/ box' = Into(box, u.queue, "schq", {u.msg})
        \/ u.live /\ box' = Into(box, u.queue, "dlq", {u.msg})
        \/ ~u.live /\ box' = box
    BY DEF Ends
  <1>3. /\ box \in [Queues -> [PartSet -> SUBSET Msgs]] /\ {u.msg} \subseteq Msgs /\ u.queue \in Queues
        /\ "schq" \in PartSet /\ "dlq" \in PartSet /\ home[u.msg] = u.queue
    BY DEF PartSet, SetupInv, BrokerInv, BrokerTypes, UnackedHome
  <1>4. BoxAccounted(m) /\ (u.msg = m => Accounted(m))
    <2>1. CASE box' = box /\ (u.msg \in done' \/ ~u.live)
      BY <2>1, Stays DEF Accounted, Cut
    <2>2. ASSUME NEW b \in {"schq", "dlq"}, box' = Into(box, u.queue, b, {u.msg})
          PROVE  BoxAccounted(m) /\ (u.msg = m => Accounted(m))
      <3>1. \A r \in Queues, c \in PartSet :
              m \in box'[r][c] <=> m \in box[r][c] \/ (m = u.msg /\ r = u.queue /\ c = b /\ b \in exists[u.queue])
        BY <1>3, <2>2, IntoOK
      <3>2. CASE b \in exists[u.queue]
        <4>1. m = u.msg => m \in box'[u.queue][b]
          BY <1>3, <2>2, <3>1, <3>2
        <4> QED BY <1>3, <2>2, <3>1, <4>1, Stays, Somewhere
      <3>3. CASE b \notin exists[u.queue]
        <4>1. Unroutable(u.msg)
          BY <1>3, <2>2, <3>3 DEF Unroutable, Delivered
        <4> QED BY <3>1, <4>1, Stays DEF Accounted
      <3> QED BY <3>2, <3>3
    <2> QED BY <1>2, <2>1, <2>2
  <1>5. UnackedAccounted(m)
    BY <1>1, <1>4, Somewhere DEF UnackedAccounted
  <1> QED BY <1>1, <1>4, <1>5, Stays, AllAccounted

LEMMA ExpireAccount ==
  ASSUME NEW m, SetupInv, NEW q \in Queues, Expire(q)
  PROVE  m \in Owed => Accounted(m)
  <1>1. UNCHANGED <<unacked, proc, call>>
    BY DEF Expire
  <1>2. PICK x, rest :
          x \in box[q]["schq"] /\ rest = Without(q, "schq", x) /\ box' = IF bound[q] THEN Into(rest, q, "main", {x}) ELSE rest
    BY DEF Expire
  <1>3. /\ BrokerTypes /\ "schq" \in PartSet /\ "main" \in PartSet /\ {x} \subseteq Msgs /\ home[x] = q
        /\ bound[q] => "main" \in exists[q]
    BY <1>2 DEF PartSet, SetupInv, BrokerInv, BrokerTypes, BrokerOK, BoxHome
  <1>4. /\ rest \in [Queues -> [PartSet -> SUBSET Msgs]]
        /\ \A r \in Queues, b \in PartSet :
             m \in rest[r][b] <=> m \in box[r][b] /\ ~(r = q /\ b = "schq" /\ m = x)
    BY <1>2, <1>3, WithoutOK
  <1>5. \A r \in Queues, b \in PartSet : m \in rest[r][b] => m \in box'[r][b]
    <2>1. CASE box' = rest
      BY <2>1
    <2>2. CASE box' = Into(rest, q, "main", {x})
      BY <1>3, <1>4, <2>2, IntoOK
    <2> QED BY <1>2, <2>1, <2>2
  <1>6. m = x => Accounted(m)
    <2>1. CASE bound[q]
      <3>1. x \in box'[q]["main"]
        <4>1. box' = Into(rest, q, "main", {x})
          BY <1>2, <2>1
        <4> QED BY <1>3, <1>4, <2>1, <4>1, IntoOK
      <3> QED BY <1>3, <3>1, Somewhere
    <2>2. CASE ~bound[q]
      <3>1. Unroutable(x)
        BY <1>2, <1>3, <2>2 DEF Unroutable
      <3> QED BY <3>1 DEF Accounted
    <2> QED BY <2>1, <2>2
  <1>7. BoxAccounted(m)
    BY <1>4, <1>5, <1>6, Somewhere DEF BoxAccounted
  <1> QED BY <1>1, <1>7, Stays, AllAccounted

(* Steps of setup that leave what it holds.                                     *)
LEMMA StepAccount ==
  ASSUME NEW m, SetupInv, NEW p \in Procs,
         Read(p) \/ Declare(p) \/ Bind(p) \/ Consume(p) \/ StoreOptions(p)
  PROVE  m \in Owed => Accounted(m)
  <1>1. CASE Fail(p)
    BY <1>1, FailAccount
  <1>2. CASE ~Fail(p)
    <2>1. UNCHANGED <<box, unacked, call>>
      BY <1>2 DEF Read, Declare, Bind, Consume, StoreOptions, broker
    <2>2. proc'[p].mem = proc[p].mem /\ Others(p)
      BY <1>2, StepMem
    <2>3. MemAccounted(m)
      <3>1. \A o \in Procs : m \in proc[o].mem => m \in proc'[o].mem
        BY <2>2 DEF Others
      <3> QED BY <3>1, Stays
    <2> QED BY <2>1, <2>3, Stays, AllAccounted
  <1> QED BY <1>1, <1>2

(* A boot, and a recovery that is tried again, begin with nothing in memory.    *)
LEMMA BeginAccount ==
  ASSUME NEW m, SetupInv, NEW p \in Procs, Boot(p) \/ Retry(p)
  PROVE  m \in Owed => Accounted(m)
  <1>1. proc[p].mem = {} /\ UNCHANGED <<box, unacked>>
    BY DEF Boot, Retry, broker, SetupInv, StatesInv, ProcOK, StateOK, Moving
  <1>2. Others(p)
    BY FreshGoes DEF Boot, Retry, SetupInv
  <1>3. MemAccounted(m)
    <2>1. \A o \in Procs : m \in proc[o].mem => m \in proc'[o].mem
      BY <1>1, <1>2 DEF Others
    <2> QED BY <2>1, Stays
  <1>4. HeldAccounted(m)
    <2>1. CASE Boot(p)
      BY <2>1, Stays DEF Boot
    <2>2. CASE Retry(p)
      BY <2>2, CallHolds, HoldsAccount
    <2> QED BY <2>1, <2>2
  <1> QED BY <1>1, <1>3, <1>4, Stays, AllAccounted

LEMMA CallAccount ==
  ASSUME NEW m, SetupInv, NEW p \in Procs,
         CloseOk(p) \/ Confirmed(p) \/ \E q \in Queues : Requeue(p, q)
  PROVE  m \in Owed => Accounted(m)
  <1>1. UNCHANGED <<box, unacked, proc>>
    BY DEF CloseOk, Confirmed, Requeue, broker
  <1>2. HeldAccounted(m)
    BY CallHolds, HoldsAccount
  <1> QED BY <1>1, <1>2, Stays, AllAccounted

LEMMA GiveUpAccount ==
  ASSUME NEW m, SetupInv, NEW p \in Procs, GiveUp(p)
  PROVE  m \in Owed => Accounted(m)
  <1>1. proc[p].pc = "failed" /\ UNCHANGED <<box, unacked, proc>>
    BY DEF GiveUp, broker
  <1>2. \A o \in Procs : o # p => call'[o] = call[o]
    BY DEF GiveUp, SetupInv, StatesInv
  <1>3. m \in call[p].held => Accounted(m)
    BY <1>1 DEF Accounted, Stopped, Held
  <1>4. HeldAccounted(m)
    BY <1>2, <1>3, Somewhere DEF HeldAccounted
  <1> QED BY <1>1, <1>4, Stays, AllAccounted

LEMMA PublishAccount ==
  ASSUME NEW m, SetupInv, NEW x \in Msgs, NEW q \in Queues, Publish(x, q)
  PROVE  m \in Owed => Accounted(m)
  <1>1. box' = Into(box, q, "main", {x}) /\ UNCHANGED <<unacked, proc, call>>
    BY DEF Publish
  <1>2. box \in [Queues -> [PartSet -> SUBSET Msgs]] /\ {x} \subseteq Msgs /\ "main" \in PartSet
    BY DEF PartSet, SetupInv, BrokerInv, BrokerTypes
  <1>3. \A r \in Queues, b \in PartSet : m \in box[r][b] => m \in box'[r][b]
    BY <1>1, <1>2, IntoOK
  <1> QED BY <1>1, <1>3, Stays, AllAccounted

LEMMA TakeAccount ==
  ASSUME NEW m, SetupInv, NEW p \in Procs, NEW q \in Queues, Take(p, q)
  PROVE  m \in Owed => Accounted(m)
  <1>1. UNCHANGED <<proc, call>>
    BY DEF Take
  <1>2. PICK x \in box[q]["main"] :
          /\ box' = Without(q, "main", x)
          /\ unacked' = unacked \cup {[msg |-> x, queue |-> q, by |-> p, live |-> TRUE]}
    BY DEF Take
  <1>3. PICK live \in BOOLEAN : live = TRUE
    OBVIOUS
  <1>4. PICK w : w = [msg |-> x, queue |-> q, by |-> p, live |-> live]
    OBVIOUS
  <1>5. unacked' = unacked \cup {w} /\ w.msg = x
    BY <1>2, <1>3, <1>4
  <1>6. "main" \in PartSet /\ BrokerTypes
    BY DEF PartSet, SetupInv, BrokerInv
  <1>7. \A r \in Queues, b \in PartSet :
          m \in box'[r][b] <=> m \in box[r][b] /\ ~(r = q /\ b = "main" /\ m = x)
    BY <1>2, <1>6, WithoutOK
  <1>8. m = x => Accounted(m)
    BY <1>5, Somewhere
  <1>9. BoxAccounted(m)
    BY <1>7, <1>8, Somewhere DEF BoxAccounted
  <1>10. unacked \subseteq unacked'
    BY <1>5
  <1> QED BY <1>1, <1>9, <1>10, Stays, AllAccounted

LEMMA LossStepHolds == SetupInv /\ [Next]_vars => [LossStep]_vars
  <1> SUFFICES ASSUME SetupInv, Next, NEW m \in Owed PROVE Accounted(m)
    BY DEF LossStep, Accounted
  <1>1. ASSUME NEW p \in Procs, SetupStep(p) PROVE Accounted(m)
    <2>1. CASE Refused(p)
      BY <2>1, FailAccount DEF Refused
    <2>2. CASE Read(p) \/ Declare(p) \/ Bind(p) \/ Consume(p) \/ StoreOptions(p)
      BY <2>2, StepAccount
    <2>3. CASE Receive(p) \/ Delete(p) \/ Resend(p)
      BY <2>3, ReceiveAccount, DeleteAccount, ResendAccount
    <2>4. ASSUME NEW q \in Queues, Check(p, q) PROVE Accounted(m)
      <3>1. UNCHANGED <<box, unacked, proc, call>>
        BY <2>4 DEF Check, broker
      <3> QED BY <3>1, Stays, AllAccounted
    <2>5. ASSUME NEW q \in Queues, DeleteOrphan(p, q) PROVE Accounted(m)
      BY <2>5, DeleteOrphanAccount
    <2> QED BY <1>1, <2>1, <2>2, <2>3, <2>4, <2>5 DEF SetupStep
  <1>2. ASSUME NEW p \in Procs, CallStep(p) PROVE Accounted(m)
    BY <1>2, ReceiveDeadAccount, RepublishAccount, RepublishAgainAccount, CallAccount, GiveUpAccount
       DEF CallStep
  <1>3. ASSUME NEW p \in Procs, Boot(p) \/ Stop(p) \/ Crash(p) \/ Drop(p) \/ Retry(p) PROVE Accounted(m)
    BY <1>3, BeginAccount, GoneAccount DEF Stop, Crash
  <1>4. ASSUME NEW p \in Procs, NEW q \in Queues, Requeue(p, q) \/ Take(p, q) PROVE Accounted(m)
    BY <1>4, CallAccount, TakeAccount
  <1>5. ASSUME NEW q \in Queues, Expire(q) \/ \E x \in Msgs : Publish(x, q) PROVE Accounted(m)
    BY <1>5, ExpireAccount, PublishAccount
  <1>6. ASSUME NEW u \in unacked, Ends(u) PROVE Accounted(m)
    BY <1>6, EndsAccount
  <1> QED BY <1>1, <1>2, <1>3, <1>4, <1>5, <1>6 DEF Next

(* setup.ts moves the messages of a changed queue and deletes only what is empty:*)
(* a message that is owed is lost in no step but with the process that holds it, *)
(* with a delivery its queue was deleted under, or to a queue that is not there. *)
THEOREM LossesAreFailures == Spec => LostOnlyByFailure
  BY SetupAlways, LossStepHolds, PTL DEF Spec, LostOnlyByFailure

-------------------------------------------------------------------------------
(* Who loses its consumers.                                                     *)
LEMMA FailPc ==
  ASSUME SetupInv, NEW p \in Procs, Fail(p)
  PROVE  proc'[p].pc = "failed"
  <1>1. PICK st : st = [proc[p] EXCEPT !.pc = "failed", !.mem = {}, !.left = 0]
    OBVIOUS
  <1>2. Goes(p, st) /\ st.pc = "failed"
    BY <1>1 DEF Fail, SetupInv, StatesInv, ProcStates
  <1> QED BY <1>2, GoesMem DEF SetupInv

LEMMA CancelStepHolds == SetupInv /\ [Next]_vars => [CancelStep]_vars
  <1> SUFFICES ASSUME SetupInv, Next,
                      NEW q \in Queues, NEW c \in consumers[q] \ consumers'[q]
               PROVE  \/ proc'[c].pc \in {"off", "read", "failed"}
                      \/ \E o \in Procs : proc[o].pc = "delete" /\ Queue(o) = q
    BY DEF CancelStep
  <1>1. c \in Procs /\ consumers' # consumers
    BY DEF SetupInv, BrokerInv, BrokerTypes
  <1>2. ASSUME NEW p \in Procs, NEW back, Disconnected(p, back) PROVE c = p
    BY <1>2 DEF Disconnected
  <1>3. ASSUME NEW p \in Procs, Fail(p) PROVE proc'[c].pc = "failed"
    <2>1. Disconnected(p, {})
      BY <1>1, <1>3 DEF Fail, broker
    <2> QED BY <1>2, <1>3, <2>1, FailPc
  <1>4. ASSUME NEW r \in Queues, MainDeleted(r) PROVE q = r
    BY <1>4 DEF MainDeleted, SetupInv, BrokerInv, BrokerTypes
  <1>5. ASSUME NEW p \in Procs, Delete(p), ~Fail(p) PROVE proc[p].pc = "delete" /\ Queue(p) = q
    <2>1. proc[p].pc = "delete" /\ MainDeleted(Queue(p))
      BY <1>5 DEF Delete
    <2>2. Queue(p) \in Queues
      BY <2>1, QueueType DEF AtQueue
    <2> QED BY <1>4, <2>1, <2>2
  <1>6. ASSUME NEW p \in Procs, NEW r \in Queues, DeleteOrphan(p, r), ~Fail(p) PROVE FALSE
    <2>1. MainDeleted(r) /\ consumers[r] = {}
      BY <1>1, <1>6 DEF DeleteOrphan, Deletable, Idle, InUse
    <2> QED BY <1>4, <2>1
  <1>7. ASSUME NEW p \in Procs, Consume(p), ~Fail(p) PROVE FALSE
    BY <1>7 DEF Consume, SetupInv, BrokerInv, BrokerTypes
  <1>8. ASSUME NEW p \in Procs, Gone(p) \/ Drop(p) PROVE proc'[c].pc \in {"off", "read"}
    <2>1. PICK back : Disconnected(p, back)
      BY <1>8 DEF Gone, Drop
    <2>2. proc'[p].pc \in {"off", "read"}
      BY <1>8, FreshPc DEF Gone, Drop, SetupInv
    <2> QED BY <1>2, <2>1, <2>2
  <1>9. ASSUME NEW p \in Procs, SetupStep(p)
        PROVE  \/ proc'[c].pc \in {"off", "read", "failed"}
               \/ \E o \in Procs : proc[o].pc = "delete" /\ Queue(o) = q
    <2>1. CASE Fail(p)
      BY <1>3, <2>1
    <2>2. CASE ~Fail(p)
      <3>1. ~(Read(p) \/ Refused(p) \/ Declare(p) \/ Receive(p) \/ Resend(p) \/ Bind(p) \/ StoreOptions(p))
        BY <1>1, <2>2 DEF Read, Refused, Declare, Receive, Resend, Bind, StoreOptions, broker
      <3>2. \A r \in Queues : ~Check(p, r)
        BY <1>1 DEF Check, broker
      <3> QED BY <1>5, <1>6, <1>7, <1>9, <2>2, <3>1, <3>2 DEF SetupStep
    <2> QED BY <2>1, <2>2
  <1>10. ASSUME NEW p \in Procs, Boot(p) \/ Retry(p) \/ CallStep(p) PROVE FALSE
    BY <1>1, <1>10 DEF Boot, Retry, CallStep, ReceiveDead, CloseOk, Republish, RepublishAgain, Sends,
                       Confirmed, GiveUp, broker
  <1>11. ASSUME NEW p \in Procs, NEW r \in Queues, Requeue(p, r) \/ Take(p, r) PROVE FALSE
    BY <1>1, <1>11 DEF Requeue, Take
  <1>12. ASSUME NEW r \in Queues, Expire(r) \/ \E m \in Msgs : Publish(m, r) PROVE FALSE
    BY <1>1, <1>12 DEF Expire, Publish
  <1>13. ASSUME NEW u \in unacked, Ends(u) PROVE FALSE
    BY <1>1, <1>13 DEF Ends
  <1> QED BY <1>8, <1>9, <1>10, <1>11, <1>12, <1>13 DEF Next, Stop, Crash

(* setup.ts deletes orphans with ifUnused: a process that consumes a queue goes  *)
(* on consuming it until it stops, fails or reconnects, but when a migration     *)
(* deletes the queue.                                                            *)
THEOREM OrphansAreUnused == Spec => OrphansUnused
  BY SetupAlways, CancelStepHolds, PTL DEF Spec, OrphansUnused

-------------------------------------------------------------------------------
(* The options of the queues are those the storage has, while setups come one   *)
(* after the other (OptionsKnown): an inductive invariant, with SetupInv.       *)

OrphanStates == [step : {"no", "check", "kept", "delete"}, left : Seq(PartSet), kept : BOOLEAN]

(* A setup begins at the first subscriber. Only a boot has orphans, once its own*)
(* queues are there, and none is one of its own.                                *)
OrphanOK(p) ==
    /\ proc[p].pc = "read" => proc[p].at = 1
    /\ proc[p].pc = "orphans" => ~proc[p].recover
    /\ \A q \in Queues : orphan[p][q].step # "no" => proc[p].pc = "orphans" /\ q \notin Names(proc[p].dep)
OrphansOK == orphan \in [Procs -> [Queues -> OrphanStates]] /\ \A p \in Procs : OrphanOK(p)

(* What the processes of a service share, with Redis.                           *)
Shared == stored[CHOOSE o \in Procs : TRUE]
AsShared == \A q \in Queues : opts[q] # None => Shared[q] = opts[q]

(* The subscriber whose queue has been declared with its options, in setup.     *)
IsDeclared(st, i) ==
    \/ i < st.at
    \/ i = st.at /\ st.pc \in {"resend", "bind", "consume"}
    \/ st.pc = "orphans"

(* A queue has the options of its subscriber, or still those that were stored.  *)
Explained(st, q, o) ==
    \/ \E i \in DOMAIN st.dep : IsDeclared(st, i) /\ st.dep[i].queue = q /\ st.dep[i].opts = o
    \/ (\A i \in DOMAIN st.dep : IsDeclared(st, i) => st.dep[i].queue # q) /\ st.known[q] = o

InOrder(p) ==
    /\ \A q \in Queues : opts[q] # None => Explained(proc[p], q, opts[q])
    /\ proc[p].pc = "assert" => opts[Queue(p)] = None
    /\ \A q \in Queues : orphan[p][q].step = "delete" /\ orphan[p][q].left # Parts => opts[q] = None
    /\ \A q \in Queues : proc[p].pc = "orphans" /\ orphan[p][q].step = "no" /\ opts[q] # None =>
                           q \in Names(proc[p].dep)

(* The setup that is under way; a recovery does not read the storage.           *)
SetupOf(p) == IF proc[p].recover \/ proc[p].pc = "read" THEN AsShared ELSE InOrder(p)

CleanOK ==
    /\ \A p, o \in Procs : Booting(p) /\ Booting(o) => p = o
    /\ (\A p \in Procs : ~Booting(p)) => AsShared
    /\ \A p \in Procs : Booting(p) => SetupOf(p)

OptionsInv == OrphansOK /\ (clean /\ Redis => CleanOK)

-------------------------------------------------------------------------------
(* Where each step of a setup takes its process.                                *)
Keeps(p) ==
    /\ Others(p) /\ proc'[p].dep = proc[p].dep /\ proc'[p].recover = proc[p].recover
MovesIn(p) == Keeps(p) /\ proc'[p].at = proc[p].at /\ proc'[p].known = proc[p].known

LEMMA ReadGoes ==
  ASSUME SetupInv, NEW p \in Procs, Read(p)
  PROVE  /\ proc'[p].pc = "queue" /\ Keeps(p) /\ proc'[p].at = proc[p].at
         /\ proc'[p].known = IF proc[p].recover THEN Unknown ELSE Stored(p)
  <1>1. PICK known : known = IF proc[p].recover THEN Unknown ELSE Stored(p)
    OBVIOUS
  <1>2. PICK st : st = [proc[p] EXCEPT !.pc = "queue", !.known = known]
    OBVIOUS
  <1>3. Goes(p, st)
    BY <1>1, <1>2 DEF Read
  <1>4. /\ st.pc = "queue" /\ st.dep = proc[p].dep /\ st.recover = proc[p].recover
        /\ st.at = proc[p].at /\ st.known = known
    BY <1>2 DEF SetupInv, StatesInv, ProcStates
  <1> QED BY <1>1, <1>3, <1>4, GoesMem DEF Keeps, SetupInv

LEMMA DeclareGoes ==
  ASSUME SetupInv, NEW p \in Procs, Declare(p)
  PROVE  /\ MovesIn(p)
         /\ IF proc[p].pc = "queue" /\ Changed(p) THEN proc'[p].pc \in {"delete", "drain"}
            ELSE proc'[p].pc = IF proc[p].pc = "assert" THEN "resend" ELSE "bind"
  <1>0. proc[p] \in ProcStates
    BY DEF SetupInv, StatesInv
  <1>1. CASE proc[p].pc = "queue" /\ Changed(p)
    <2>1. PICK n, pc : n = Counted(Queue(p)) /\ pc = IF n = 0 THEN "delete" ELSE "drain"
      OBVIOUS
    <2>2. PICK st : st = [proc[p] EXCEPT !.left = n, !.pc = pc]
      OBVIOUS
    <2>3. Goes(p, st)
      BY <1>1, <2>1, <2>2 DEF Declare
    <2>4. /\ st.pc = pc /\ st.dep = proc[p].dep /\ st.recover = proc[p].recover
          /\ st.at = proc[p].at /\ st.known = proc[p].known
      BY <1>0, <2>2 DEF ProcStates
    <2>5. pc \in {"delete", "drain"}
      BY <2>1
    <2> QED BY <1>1, <2>3, <2>4, <2>5, GoesMem DEF Keeps, MovesIn, SetupInv
  <1>2. CASE ~(proc[p].pc = "queue" /\ Changed(p))
    <2>1. PICK pc : pc = IF proc[p].pc = "assert" THEN "resend" ELSE "bind"
      OBVIOUS
    <2>2. PICK st : st = [proc[p] EXCEPT !.pc = pc]
      OBVIOUS
    <2>3. Goes(p, st)
      BY <1>2, <2>1, <2>2 DEF Declare, Step
    <2>4. /\ st.pc = pc /\ st.dep = proc[p].dep /\ st.recover = proc[p].recover
          /\ st.at = proc[p].at /\ st.known = proc[p].known
      BY <1>0, <2>2 DEF ProcStates
    <2> QED BY <1>2, <2>1, <2>3, <2>4, GoesMem DEF Keeps, MovesIn, SetupInv
  <1> QED BY <1>1, <1>2

LEMMA ReceiveGoes ==
  ASSUME SetupInv, NEW p \in Procs, Receive(p)
  PROVE  MovesIn(p) /\ proc[p].pc = "drain" /\ proc'[p].pc \in {"delete", "drain"}
  <1>1. PICK mem, n : Goes(p, [proc[p] EXCEPT !.mem = mem, !.left = n,
                                              !.pc = IF proc[p].left = 1 THEN "delete" ELSE "drain"])
    BY DEF Receive
  <1>2. PICK pc \in {"delete", "drain"} : pc = IF proc[p].left = 1 THEN "delete" ELSE "drain"
    OBVIOUS
  <1>3. PICK st : st = [proc[p] EXCEPT !.mem = mem, !.left = n, !.pc = pc]
    OBVIOUS
  <1>4. Goes(p, st)
    BY <1>1, <1>2, <1>3
  <1>5. /\ st.pc = pc /\ st.dep = proc[p].dep /\ st.recover = proc[p].recover
        /\ st.at = proc[p].at /\ st.known = proc[p].known
    BY <1>3 DEF SetupInv, StatesInv, ProcStates
  <1> QED BY <1>4, <1>5, GoesMem DEF Keeps, MovesIn, Receive, SetupInv

LEMMA ResendGoes ==
  ASSUME SetupInv, NEW p \in Procs, Resend(p)
  PROVE  MovesIn(p) /\ proc[p].pc = "resend" /\ proc'[p].pc = "bind"
  <1>1. PICK st : st = [proc[p] EXCEPT !.pc = "bind", !.mem = {}]
    OBVIOUS
  <1>2. Goes(p, st)
    BY <1>1 DEF Resend
  <1>3. /\ st.pc = "bind" /\ st.dep = proc[p].dep /\ st.recover = proc[p].recover
        /\ st.at = proc[p].at /\ st.known = proc[p].known
    BY <1>1 DEF SetupInv, StatesInv, ProcStates
  <1> QED BY <1>2, <1>3, GoesMem DEF Keeps, MovesIn, Resend, SetupInv

LEMMA BindGoes ==
  ASSUME SetupInv, NEW p \in Procs, Bind(p), ~Fail(p)
  PROVE  MovesIn(p) /\ proc[p].pc = "bind" /\ proc'[p].pc = "consume"
  <1>1. PICK st : st = [proc[p] EXCEPT !.pc = "consume"]
    OBVIOUS
  <1>2. Goes(p, st)
    BY <1>1 DEF Bind, Step
  <1>3. /\ st.pc = "consume" /\ st.dep = proc[p].dep /\ st.recover = proc[p].recover
        /\ st.at = proc[p].at /\ st.known = proc[p].known
    BY <1>1 DEF SetupInv, StatesInv, ProcStates
  <1> QED BY <1>2, <1>3, GoesMem DEF Keeps, MovesIn, Bind, SetupInv

LEMMA ConsumeGoes ==
  ASSUME SetupInv, NEW p \in Procs, Consume(p), ~Fail(p)
  PROVE  /\ Keeps(p) /\ proc'[p].known = proc[p].known /\ proc[p].pc = "consume"
         /\ IF proc[p].at # Len(proc[p].dep)
            THEN proc'[p].at = proc[p].at + 1 /\ proc'[p].pc = "queue"
            ELSE /\ proc'[p].at = proc[p].at
                 /\ proc'[p].pc = IF proc[p].recover THEN "up" ELSE "orphans"
  <1>0. proc[p] \in ProcStates /\ proc[p].pc = "consume"
    BY DEF SetupInv, StatesInv, Consume
  <1>1. CASE proc[p].at # Len(proc[p].dep)
    <2>1. PICK st : st = [proc[p] EXCEPT !.pc = "queue", !.at = @ + 1]
      OBVIOUS
    <2>2. Goes(p, st)
      BY <1>1, <2>1 DEF Consume
    <2>3. /\ st.pc = "queue" /\ st.dep = proc[p].dep /\ st.recover = proc[p].recover
          /\ st.at = proc[p].at + 1 /\ st.known = proc[p].known
      BY <1>0, <2>1 DEF ProcStates
    <2> QED BY <1>0, <1>1, <2>2, <2>3, GoesMem DEF Keeps, SetupInv
  <1>2. CASE proc[p].at = Len(proc[p].dep)
    <2>1. PICK pc : pc = IF proc[p].recover THEN "up" ELSE "orphans"
      OBVIOUS
    <2>2. PICK st : st = [proc[p] EXCEPT !.pc = pc]
      OBVIOUS
    <2>3. Goes(p, st)
      BY <1>2, <2>1, <2>2 DEF Consume
    <2>4. /\ st.pc = pc /\ st.dep = proc[p].dep /\ st.recover = proc[p].recover
          /\ st.at = proc[p].at /\ st.known = proc[p].known
      BY <1>0, <2>2 DEF ProcStates
    <2> QED BY <1>0, <1>2, <2>1, <2>3, <2>4, GoesMem DEF Keeps, SetupInv
  <1> QED BY <1>1, <1>2

LEMMA StoreGoes ==
  ASSUME SetupInv, NEW p \in Procs, StoreOptions(p)
  PROVE  Keeps(p) /\ proc[p].pc = "orphans" /\ proc'[p].pc = "up"
  <1>1. PICK st : st = [proc[p] EXCEPT !.pc = "up", !.known = Unknown]
    OBVIOUS
  <1>2. Goes(p, st)
    BY <1>1 DEF StoreOptions
  <1>3. st.pc = "up" /\ st.dep = proc[p].dep /\ st.recover = proc[p].recover
    BY <1>1 DEF SetupInv, StatesInv, ProcStates
  <1> QED BY <1>2, <1>3, GoesMem DEF Keeps, StoreOptions, SetupInv

(* The deletion of a queue, which another drain is stuck on.                    *)
SameSetups ==
    \A o \in Procs : /\ proc'[o].dep = proc[o].dep /\ proc'[o].at = proc[o].at
                     /\ proc'[o].known = proc[o].known /\ proc'[o].recover = proc[o].recover
                     /\ \/ proc'[o].pc = proc[o].pc
                        \/ proc[o].pc = "drain" /\ proc'[o].pc = "stuck"

LEMMA CancelGoes ==
  ASSUME SetupInv, NEW q, proc' = Cancelled(q)
  PROVE  SameSetups
  BY CancelledOK DEF SameSetups, SetupInv

LEMMA DeleteGoes ==
  ASSUME SetupInv, NEW p \in Procs, Delete(p), ~Fail(p)
  PROVE  /\ proc[p].pc = "delete" /\ proc'[p].pc = "assert"
         /\ proc'[p].dep = proc[p].dep /\ proc'[p].at = proc[p].at
         /\ proc'[p].known = proc[p].known /\ proc'[p].recover = proc[p].recover
         /\ \A o \in Procs :
              o # p => proc'[o] = proc[o] \/ (proc[o].pc = "drain" /\ proc'[o].pc = "stuck")
  <1>1. PICK q, cs : q = Queue(p) /\ cs = Cancelled(q)
    OBVIOUS
  <1>2. proc[p].pc = "delete" /\ proc' = [cs EXCEPT ![p].pc = "assert"]
    BY <1>1 DEF Delete
  <1>3. /\ cs \in [Procs -> ProcStates]
        /\ \A o \in Procs : cs[o] = proc[o] \/ (proc[o].pc = "drain" /\ cs[o].pc = "stuck")
    BY <1>1, CancelledOK DEF SetupInv, Cancelled
  <1>4. cs[p] = proc[p] /\ proc[p] \in ProcStates
    BY <1>2, <1>3 DEF SetupInv, StatesInv
  <1>5. proc'[p] = [proc[p] EXCEPT !.pc = "assert"] /\ \A o \in Procs : o # p => proc'[o] = cs[o]
    BY <1>2, <1>3, <1>4
  <1>6. /\ proc'[p].pc = "assert" /\ proc'[p].dep = proc[p].dep /\ proc'[p].at = proc[p].at
        /\ proc'[p].known = proc[p].known /\ proc'[p].recover = proc[p].recover
    BY <1>4, <1>5 DEF ProcStates
  <1>7. \A o \in Procs : o # p => proc'[o] = cs[o]
    BY <1>5
  <1>8. \A o \in Procs : o # p => proc'[o] = proc[o] \/ (proc[o].pc = "drain" /\ proc'[o].pc = "stuck")
    BY <1>3, <1>7
  <1>9. proc[p].pc = "delete"
    BY <1>2
  <1> QED BY <1>6, <1>8, <1>9

-------------------------------------------------------------------------------
(* The orphans are those of a boot that has set up its own queues.              *)
LEMMA OrphansKept ==
  ASSUME OrphansOK, orphan' = orphan,
         \A o \in Procs : \/ proc'[o] = proc[o]
                          \/ /\ proc[o].pc # "orphans" /\ proc'[o].pc # "orphans"
                             /\ proc'[o].pc = "read" => proc'[o].at = 1
  PROVE  OrphansOK'
  <1>1. ASSUME NEW o \in Procs PROVE OrphanOK(o)'
    <2>1. OrphanOK(o)
      BY DEF OrphansOK
    <2>2. CASE proc'[o] = proc[o]
      BY <2>1, <2>2 DEF OrphanOK
    <2>3. CASE /\ proc[o].pc # "orphans" /\ proc'[o].pc # "orphans"
               /\ proc'[o].pc = "read" => proc'[o].at = 1
      BY <2>1, <2>3 DEF OrphanOK
    <2> QED BY <2>2, <2>3
  <1> QED BY <1>1 DEF OrphansOK

LEMMA OrphansGone ==
  ASSUME OrphansOK, NEW p \in Procs, orphan' = [orphan EXCEPT ![p] = NoOrphans], Others(p),
         proc'[p].pc # "orphans", proc'[p].pc = "read" => proc'[p].at = 1
  PROVE  OrphansOK'
  <1>1. PICK f \in BOOLEAN : f = FALSE
    OBVIOUS
  <1>2. PICK e \in Seq(PartSet) : e = <<>>
    BY EmptySeq
  <1>3. NoOrphans = [q \in Queues |-> [step |-> "no", left |-> e, kept |-> f]]
    BY <1>1, <1>2 DEF NoOrphans
  <1>4. NoOrphans \in [Queues -> OrphanStates] /\ \A q \in Queues : NoOrphans[q].step = "no"
    BY <1>3 DEF OrphanStates
  <1>5. /\ orphan' \in [Procs -> [Queues -> OrphanStates]] /\ orphan'[p] = NoOrphans
        /\ \A o \in Procs : o # p => orphan'[o] = orphan[o]
    BY <1>4 DEF OrphansOK
  <1>6. ASSUME NEW o \in Procs PROVE OrphanOK(o)'
    <2>1. CASE o = p
      BY <1>4, <1>5, <2>1 DEF OrphanOK
    <2>2. CASE o # p
      <3>1. OrphanOK(o) /\ orphan'[o] = orphan[o] /\ proc'[o] = proc[o]
        BY <1>5, <2>2 DEF OrphansOK, Others
      <3> QED BY <3>1 DEF OrphanOK
    <2> QED BY <2>1, <2>2
  <1> QED BY <1>5, <1>6 DEF OrphansOK

LEMMA OrphanGoes ==
  ASSUME OrphansOK, NEW p \in Procs, NEW q \in Queues, orphan[p][q].step # "no",
         NEW s \in OrphanStates, orphan' = [orphan EXCEPT ![p][q] = s],
         proc'[p] = proc[p],
         \A o \in Procs : proc'[o] = proc[o] \/ (proc[o].pc = "drain" /\ proc'[o].pc = "stuck")
  PROVE  OrphansOK'
  <1>1. proc[p].pc = "orphans" /\ q \notin Names(proc[p].dep)
    BY DEF OrphansOK, OrphanOK
  <1>2. /\ orphan' \in [Procs -> [Queues -> OrphanStates]]
        /\ \A o \in Procs, r \in Queues : orphan'[o][r] = orphan[o][r] \/ (o = p /\ r = q)
    BY DEF OrphansOK
  <1>3. ASSUME NEW o \in Procs PROVE OrphanOK(o)'
    <2>1. OrphanOK(o)
      BY DEF OrphansOK
    <2>2. CASE o = p
      BY <1>1, <1>2, <2>1, <2>2 DEF OrphanOK
    <2>3. CASE o # p
      <3>1. \A r \in Queues : orphan'[o][r] = orphan[o][r]
        BY <1>2, <2>3
      <3>2. CASE proc'[o] = proc[o]
        BY <2>1, <3>1, <3>2 DEF OrphanOK
      <3>3. CASE proc[o].pc = "drain" /\ proc'[o].pc = "stuck"
        BY <2>1, <3>1, <3>3 DEF OrphanOK
      <3> QED BY <3>2, <3>3
    <2> QED BY <2>2, <2>3
  <1> QED BY <1>2, <1>3 DEF OrphansOK

LEMMA CheckOrphans ==
  ASSUME OrphansOK, NEW p \in Procs, NEW q \in Queues, Check(p, q)
  PROVE  /\ OrphansOK' /\ proc[p].pc = "orphans"
         /\ \A r \in Queues : orphan'[p][r].step = "no" <=> orphan[p][r].step = "no"
         /\ \A r \in Queues : orphan'[p][r].step = "delete" =>
                              orphan'[p][r] = orphan[p][r] \/ orphan'[p][r].left = Parts
  <1>1. PICK o : o = orphan[p][q]
    OBVIOUS
  <1>2. o \in OrphanStates /\ o.step = "check" /\ proc' = proc
    BY <1>1 DEF OrphansOK, Check
  <1>3. PICK kept \in BOOLEAN : kept = (o.kept \/ ~Idle(q, Head(o.left)))
    OBVIOUS
  <1>4. PICK t \in BOOLEAN : t = TRUE
    OBVIOUS
  <1>5. PICK f \in BOOLEAN : f = FALSE
    OBVIOUS
  <1>6. PICK e \in Seq(PartSet) : e = <<>>
    BY EmptySeq
  <1>7. PICK parts \in Seq(PartSet) : parts = Parts
    <2>1. Parts \in [1 .. 3 -> PartSet]
      BY DEF Parts, PartSet
    <2>2. Parts \in UNION {[1 .. n -> PartSet] : n \in Nat}
      BY <2>1
    <2>3. Parts \in Seq(PartSet)
      BY <2>2, SeqDef, Zenon
    <2> QED BY <2>3
  <1>8. PICK s : s = IF Len(o.left) > 1 THEN [o EXCEPT !.left = Tail(@), !.kept = kept]
                     ELSE IF kept THEN [step |-> "kept", left |-> e, kept |-> t]
                     ELSE [step |-> "delete", left |-> parts, kept |-> f]
    OBVIOUS
  <1>9. orphan' = [orphan EXCEPT ![p][q] = s]
    BY <1>1, <1>3, <1>4, <1>5, <1>6, <1>7, <1>8 DEF Check
  <1>10. s \in OrphanStates /\ s.step # "no" /\ (s.step = "delete" => s.left = Parts)
    <2>1. CASE Len(o.left) > 1
      <3>1. PICK tail \in Seq(PartSet) : tail = Tail(o.left)
        <4>1. o.left \in Seq(PartSet) /\ o.left # <<>>
          BY <1>2, <2>1, EmptySeq DEF OrphanStates
        <4> QED BY <4>1, HeadTailProperties
      <3>2. s = [o EXCEPT !.left = tail, !.kept = kept]
        BY <1>2, <1>8, <2>1, <3>1 DEF OrphanStates
      <3> QED BY <1>2, <3>2 DEF OrphanStates
    <2>2. CASE ~(Len(o.left) > 1) /\ kept
      <3>1. s = [step |-> "kept", left |-> e, kept |-> t]
        BY <1>8, <2>2
      <3> QED BY <3>1 DEF OrphanStates
    <2>3. CASE ~(Len(o.left) > 1) /\ ~kept
      <3>1. s = [step |-> "delete", left |-> parts, kept |-> f]
        BY <1>8, <2>3
      <3> QED BY <1>7, <3>1 DEF OrphanStates
    <2> QED BY <2>1, <2>2, <2>3
  <1>11. OrphansOK'
    BY <1>1, <1>2, <1>9, <1>10, OrphanGoes
  <1>12. \A r \in Queues : orphan'[p][r] = IF r = q THEN s ELSE orphan[p][r]
    BY <1>9 DEF OrphansOK
  <1>13. proc[p].pc = "orphans"
    BY <1>1, <1>2 DEF OrphansOK, OrphanOK
  <1> QED BY <1>1, <1>2, <1>10, <1>11, <1>12, <1>13

LEMMA DeleteOrphans ==
  ASSUME SetupInv, OrphansOK, NEW p \in Procs, NEW q \in Queues, DeleteOrphan(p, q), ~Fail(p)
  PROVE  /\ OrphansOK' /\ proc[p].pc = "orphans" /\ orphan[p][q].step = "delete"
         /\ \A r \in Queues : r # q => orphan'[p][r] = orphan[p][r] /\ opts'[r] = opts[r]
         /\ opts'[q] = None \/ (opts' = opts /\ orphan[p][q].left # Parts)
         /\ SameSetups /\ stored' = stored /\ clean' = clean
  <1>1. PICK o, b : o = orphan[p][q] /\ b = Head(o.left)
    OBVIOUS
  <1>2. /\ o \in OrphanStates /\ o.step = "delete" /\ stored' = stored /\ clean' = clean
        /\ \/ b = "main" /\ MainDeleted(q) /\ proc' = Cancelled(q)
           \/ b # "main" /\ UNCHANGED <<opts, proc>>
    BY <1>1 DEF OrphansOK, DeleteOrphan
  <1>3. proc[p].pc = "orphans"
    BY <1>1, <1>2 DEF OrphansOK, OrphanOK
  <1>4. PICK s : s = IF Len(o.left) > 1 THEN [o EXCEPT !.left = Tail(@)] ELSE NoOrphans[q]
    OBVIOUS
  <1>5. orphan' = [orphan EXCEPT ![p][q] = s]
    BY <1>1, <1>4 DEF DeleteOrphan
  <1>6. s \in OrphanStates
    <2>1. CASE Len(o.left) > 1
      <3>1. PICK tail \in Seq(PartSet) : tail = Tail(o.left)
        <4>1. o.left \in Seq(PartSet) /\ o.left # <<>>
          BY <1>2, <2>1, EmptySeq DEF OrphanStates
        <4> QED BY <4>1, HeadTailProperties
      <3>2. s = [o EXCEPT !.left = tail]
        BY <1>2, <1>4, <2>1, <3>1 DEF OrphanStates
      <3> QED BY <1>2, <3>2 DEF OrphanStates
    <2>2. CASE ~(Len(o.left) > 1)
      <3>1. PICK f \in BOOLEAN : f = FALSE
        OBVIOUS
      <3>2. PICK e \in Seq(PartSet) : e = <<>>
        BY EmptySeq
      <3>3. s = [step |-> "no", left |-> e, kept |-> f]
        BY <1>4, <2>2, <3>1, <3>2 DEF NoOrphans
      <3> QED BY <3>3 DEF OrphanStates
    <2> QED BY <2>1, <2>2
  <1>7. proc' = Cancelled(q) \/ proc' = proc
    BY <1>2
  <1>8. SameSetups
    BY <1>7, CancelGoes DEF SameSetups
  <1>9. proc'[p] = proc[p] /\ \A x \in Procs : proc'[x] = proc[x] \/ (proc[x].pc = "drain" /\ proc'[x].pc = "stuck")
    <2>1. CASE proc' = proc
      BY <2>1
    <2>2. CASE proc' = Cancelled(q)
      <3>1. \A x \in Procs : proc'[x] = proc[x] \/ (proc[x].pc = "drain" /\ proc'[x].pc = "stuck")
        BY <2>2, CancelledOK DEF Cancelled, SetupInv
      <3> QED BY <1>3, <3>1
    <2> QED BY <1>7, <2>1, <2>2
  <1>10. OrphansOK'
    BY <1>1, <1>2, <1>5, <1>6, <1>9, OrphanGoes
  <1>11. \A r \in Queues : r # q => orphan'[p][r] = orphan[p][r]
    BY <1>5 DEF OrphansOK
  <1>12. CASE b = "main" /\ MainDeleted(q)
    <2>1. \A r \in Queues : opts'[r] = IF r = q THEN None ELSE opts[r]
      BY <1>12 DEF MainDeleted, SetupInv, BrokerInv, BrokerTypes
    <2> QED BY <1>1, <1>2, <1>3, <1>8, <1>10, <1>11, <2>1
  <1>13. CASE b # "main" /\ opts' = opts
    <2>1. o.left # Parts
      BY <1>1, <1>13 DEF Parts
    <2> QED BY <1>1, <1>2, <1>3, <1>8, <1>10, <1>11, <1>13, <2>1
  <1> QED BY <1>2, <1>12, <1>13

LEMMA ConsumeOrphans ==
  ASSUME SetupInv, OrphansOK, NEW p \in Procs, Consume(p), ~Fail(p)
  PROVE  /\ OrphansOK'
         /\ proc[p].at = Len(proc[p].dep) /\ ~proc[p].recover =>
              \A q \in Queues : orphan'[p][q].step = "no" <=>
                                  proc[p].known[q] = None \/ q \in Names(proc[p].dep)
         /\ orphan'[p] = orphan[p] \/ \A q \in Queues : orphan'[p][q].step \in {"no", "check"}
  <1>1. /\ Keeps(p) /\ proc[p].pc = "consume"
        /\ IF proc[p].at # Len(proc[p].dep) THEN proc'[p].pc = "queue"
           ELSE proc'[p].pc = IF proc[p].recover THEN "up" ELSE "orphans"
    BY ConsumeGoes
  <1>2. CASE proc[p].at = Len(proc[p].dep) /\ ~proc[p].recover
    <2>1. orphan' = [orphan EXCEPT ![p] = Orphans(p)] /\ proc'[p].pc = "orphans"
      BY <1>1, <1>2 DEF Consume
    <2>2. PICK f \in BOOLEAN : f = FALSE
      OBVIOUS
    <2>3. PICK e \in Seq(PartSet) : e = <<>>
      BY EmptySeq
    <2>4. PICK parts \in Seq(PartSet) : parts = Parts
      <3>1. Parts \in [1 .. 3 -> PartSet]
        BY DEF Parts, PartSet
      <3>2. Parts \in UNION {[1 .. n -> PartSet] : n \in Nat}
        BY <3>1
      <3>3. Parts \in Seq(PartSet)
        BY <3>2, SeqDef, Zenon
      <3> QED BY <3>3
    <2>5. PICK os : os = [q \in Queues |->
                            IF proc[p].known[q] # None /\ q \notin Names(proc[p].dep)
                            THEN [step |-> "check", left |-> parts, kept |-> f]
                            ELSE [step |-> "no", left |-> e, kept |-> f]]
      OBVIOUS
    <2>6. os = Orphans(p)
      BY <2>2, <2>3, <2>4, <2>5 DEF Orphans, NoOrphans
    <2>7. os \in [Queues -> OrphanStates]
      BY <2>5 DEF OrphanStates
    <2>8. \A q \in Queues : /\ os[q].step \in {"no", "check"}
                            /\ os[q].step = "no" <=> proc[p].known[q] = None \/ q \in Names(proc[p].dep)
      BY <2>5
    <2>9. /\ orphan' \in [Procs -> [Queues -> OrphanStates]] /\ orphan'[p] = os
          /\ \A o \in Procs : o # p => orphan'[o] = orphan[o]
      BY <2>1, <2>6, <2>7 DEF OrphansOK
    <2>10. ASSUME NEW o \in Procs PROVE OrphanOK(o)'
      <3>1. CASE o = p
        <4>1. proc'[p].dep = proc[p].dep /\ ~proc'[p].recover
          BY <1>1, <1>2 DEF Keeps
        <4> QED BY <2>1, <2>8, <2>9, <3>1, <4>1 DEF OrphanOK, Names
      <3>2. CASE o # p
        <4>1. OrphanOK(o) /\ orphan'[o] = orphan[o] /\ proc'[o] = proc[o]
          BY <1>1, <2>9, <3>2 DEF OrphansOK, Keeps, Others
        <4> QED BY <4>1 DEF OrphanOK
      <3> QED BY <3>1, <3>2
    <2> QED BY <2>8, <2>9, <2>10 DEF OrphansOK
  <1>3. CASE ~(proc[p].at = Len(proc[p].dep) /\ ~proc[p].recover)
    <2>1. orphan' = orphan
      BY <1>3 DEF Consume
    <2>2. proc'[p].pc \in {"queue", "up"}
      BY <1>1, <1>3
    <2>3. OrphansOK'
      BY <1>1, <2>1, <2>2, OrphansKept DEF Keeps, Others
    <2> QED BY <1>3, <2>1, <2>3
  <1> QED BY <1>2, <1>3

(* A setup that begins, or a process that is gone.                              *)
LEMMA FreshAt ==
  ASSUME StatesInv, NEW p \in Procs, NEW pc, NEW d,
         \/ Goes(p, Off) \/ Goes(p, [Off EXCEPT !.pc = pc])
         \/ Goes(p, [Off EXCEPT !.pc = pc, !.dep = d])
         \/ Goes(p, [Off EXCEPT !.pc = pc, !.dep = d, !.recover = TRUE])
  PROVE  proc'[p].at = 1 /\ Others(p)
  <1>1. PICK r \in BOOLEAN : r = TRUE
    OBVIOUS
  <1>2. PICK f \in BOOLEAN : f = FALSE
    OBVIOUS
  <1>3. \/ Goes(p, Fresh("off", <<>>, f)) \/ Goes(p, Fresh(pc, <<>>, f))
        \/ Goes(p, Fresh(pc, d, f)) \/ Goes(p, Fresh(pc, d, r))
    BY <1>1, <1>2, FreshIsOff
  <1>4. \A st : Goes(p, st) => proc'[p] = st /\ Others(p)
    BY GoesMem
  <1>5. \A x, y, z : Fresh(x, y, z).at = 1
    BY DEF Fresh
  <1> QED BY <1>3, <1>4, <1>5

LEMMA FailOrphans ==
  ASSUME SetupInv, OrphansOK, NEW p \in Procs, Fail(p)
  PROVE  OrphansOK'
  <1>1. proc'[p].pc = "failed" /\ orphan' = [orphan EXCEPT ![p] = NoOrphans]
    BY FailPc DEF Fail
  <1>2. Others(p)
    BY GoesMem DEF Fail, SetupInv
  <1> QED BY <1>1, <1>2, OrphansGone

LEMMA OrphansStep ==
  ASSUME SetupInv, OrphansOK, [Next]_vars
  PROVE  OrphansOK'
  <1>1. CASE UNCHANGED <<proc, orphan>>
    BY <1>1, OrphansKept
  <1>2. ASSUME NEW p \in Procs, SetupStep(p) PROVE OrphansOK'
    <2>1. CASE Fail(p)
      BY <2>1, FailOrphans
    <2>2. CASE ~Fail(p)
      <3>1. CASE Read(p)
        <4>1. proc'[p].pc = "queue" /\ Others(p) /\ proc[p].pc = "read" /\ orphan' = orphan
          BY <3>1, ReadGoes DEF Read, Keeps
        <4> QED BY <4>1, OrphansKept DEF Others
      <3>2. CASE Declare(p)
        <4>1. /\ proc'[p].pc \in {"delete", "drain", "resend", "bind"} /\ Others(p)
              /\ proc[p].pc \in {"queue", "assert"} /\ orphan' = orphan
          BY <3>2, DeclareGoes DEF Declare, Keeps, MovesIn
        <4> QED BY <4>1, OrphansKept DEF Others
      <3>3. CASE Receive(p) \/ Resend(p) \/ Bind(p)
        <4>1. MovesIn(p) /\ orphan' = orphan
          BY <2>2, <3>3, ReceiveGoes, ResendGoes, BindGoes DEF Receive, Resend, Bind
        <4>2. /\ proc[p].pc \in {"drain", "resend", "bind"}
              /\ proc'[p].pc \in {"delete", "drain", "bind", "consume"}
          BY <2>2, <3>3, ReceiveGoes, ResendGoes, BindGoes
        <4> QED BY <4>1, <4>2, OrphansKept DEF MovesIn, Keeps, Others
      <3>4. CASE Delete(p)
        <4>1. orphan' = orphan
          BY <2>2, <3>4 DEF Delete
        <4>2. /\ proc[p].pc = "delete" /\ proc'[p].pc = "assert"
              /\ \A o \in Procs :
                   o # p => proc'[o] = proc[o] \/ (proc[o].pc = "drain" /\ proc'[o].pc = "stuck")
          BY <2>2, <3>4, DeleteGoes
        <4> QED BY <4>1, <4>2, OrphansKept
      <3>5. CASE Consume(p)
        BY <2>2, <3>5, ConsumeOrphans
      <3>6. CASE StoreOptions(p)
        <4>1. proc'[p].pc = "up" /\ Others(p) /\ orphan' = [orphan EXCEPT ![p] = NoOrphans]
          BY <3>6, StoreGoes DEF StoreOptions, Keeps
        <4> QED BY <4>1, OrphansGone
      <3>7. CASE \E q \in Queues : Check(p, q) \/ DeleteOrphan(p, q)
        BY <2>2, <3>7, CheckOrphans, DeleteOrphans
      <3> QED BY <1>2, <2>2, <3>1, <3>2, <3>3, <3>4, <3>5, <3>6, <3>7 DEF SetupStep, Refused
    <2> QED BY <2>1, <2>2
  <1>3. ASSUME NEW p \in Procs, Boot(p) \/ Retry(p) PROVE OrphansOK'
    <2>1. proc'[p].pc \in {"up", "read"} /\ proc'[p].at = 1 /\ Others(p)
      BY <1>3, FreshPc, FreshAt DEF Boot, Retry, SetupInv
    <2>2. orphan' = orphan /\ proc[p].pc # "orphans"
      BY <1>3 DEF Boot, Retry
    <2> QED BY <2>1, <2>2, OrphansKept DEF Others
  <1>4. ASSUME NEW p \in Procs, Gone(p) \/ Drop(p) PROVE OrphansOK'
    <2>1. proc'[p].pc \in {"off", "read"} /\ proc'[p].at = 1 /\ Others(p)
      BY <1>4, FreshPc, FreshAt DEF Gone, Drop, SetupInv
    <2>2. orphan' = [orphan EXCEPT ![p] = NoOrphans]
      BY <1>4 DEF Gone, Drop
    <2> QED BY <2>1, <2>2, OrphansGone
  <1>5. ASSUME NEW p \in Procs, CallStep(p) PROVE UNCHANGED <<proc, orphan>>
    BY <1>5 DEF CallStep, ReceiveDead, CloseOk, Republish, RepublishAgain, Sends, Confirmed, GiveUp, broker
  <1>6. ASSUME NEW p \in Procs, NEW q \in Queues, Requeue(p, q) \/ Take(p, q) PROVE UNCHANGED <<proc, orphan>>
    BY <1>6 DEF Requeue, Take
  <1>7. ASSUME NEW q \in Queues, Expire(q) \/ \E m \in Msgs : Publish(m, q) PROVE UNCHANGED <<proc, orphan>>
    BY <1>7 DEF Expire, Publish
  <1>8. ASSUME NEW u \in unacked, Ends(u) PROVE UNCHANGED <<proc, orphan>>
    BY <1>8 DEF Ends
  <1>9. CASE UNCHANGED vars
    BY <1>1, <1>9 DEF vars
  <1> QED BY <1>1, <1>2, <1>3, <1>4, <1>5, <1>6, <1>7, <1>8, <1>9 DEF Next, Stop, Crash

-------------------------------------------------------------------------------
(* While setups come one after the other, the options are explained.            *)
LEMMA SharedIs ==
  ASSUME SetupInv, Redis
  PROVE  Shared \in [Queues -> Options \cup {None}] /\ \A p \in Procs : Stored(p) = Shared
  <1>1. (CHOOSE o \in Procs : TRUE) \in Procs
    BY SetupAssumption
  <1> QED BY <1>1 DEF SetupInv, RestInv, Stored, Shared

LEMMA ExplainedKept ==
  ASSUME NEW st, NEW ts, NEW q, NEW o, Explained(st, q, o), ts.dep = st.dep, ts.known = st.known,
         \A i \in DOMAIN st.dep : IsDeclared(ts, i) <=> IsDeclared(st, i)
  PROVE  Explained(ts, q, o)
  BY DEF Explained

(* Who is in a setup.                                                           *)
LEMMA NoOther ==
  ASSUME CleanOK, NEW p \in Procs, Booting(p)
  PROVE  SetupOf(p) /\ \A o \in Procs : o # p => ~Booting(o)
  BY DEF CleanOK

LEMMA OnlyOne ==
  ASSUME NEW p \in Procs, \A o \in Procs : o # p => ~Booting(o)',
         Booting(p)' => SetupOf(p)', ~Booting(p)' => AsShared'
  PROVE  CleanOK'
  BY DEF CleanOK

LEMMA OthersStay ==
  ASSUME NEW p \in Procs, Others(p), NEW o \in Procs, o # p
  PROVE  Booting(o)' <=> Booting(o)
  BY DEF Others, Booting, AtQueue

(* What the recovery and the beginning of a setup leave: the options are as the *)
(* storage has them, or the queue is gone.                                      *)
LEMMA SharedKept ==
  ASSUME AsShared, stored' = stored, \A q \in Queues : opts'[q] \in {None, opts[q]}
  PROVE  AsShared'
  BY DEF AsShared, Shared

LEMMA SetupOfShared ==
  ASSUME NEW p \in Procs, AsShared', proc'[p].recover \/ proc'[p].pc = "read"
  PROVE  SetupOf(p)'
  BY DEF SetupOf

(* The steps of a boot, each from an explained state to another.                *)
LEMMA ReadInOrder ==
  ASSUME SetupInv, OrphansOK, Redis, NEW p \in Procs, Read(p), ~proc[p].recover, AsShared
  PROVE  InOrder(p)'
  <1>1. /\ proc'[p].pc = "queue" /\ proc'[p].at = 1 /\ proc'[p].dep = proc[p].dep
        /\ proc'[p].known = Shared
    BY ReadGoes, SharedIs DEF Read, Keeps, OrphansOK, OrphanOK
  <1>2. UNCHANGED <<opts, orphan, stored>> /\ proc[p].pc = "read"
    BY DEF Read, broker
  <1>3. proc[p] \in ProcStates
    BY DEF SetupInv, StatesInv
  <1>4. DOMAIN proc[p].dep = 1 .. Len(proc[p].dep) /\ Len(proc[p].dep) \in Nat
    BY <1>3, DeploymentTypes DEF ProcStates
  <1>5. \A i \in DOMAIN proc[p].dep : ~IsDeclared(proc[p], i)'
    BY <1>1, <1>4 DEF IsDeclared
  <1>6. \A q \in Queues : orphan[p][q].step = "no"
    BY <1>2 DEF OrphansOK, OrphanOK
  <1>7. ASSUME NEW q \in Queues, opts[q] # None PROVE Explained(proc[p], q, opts[q])'
    BY <1>1, <1>2, <1>5, <1>7 DEF AsShared, Explained
  <1> QED BY <1>1, <1>2, <1>6, <1>7 DEF InOrder

LEMMA NotDeclared ==
  ASSUME SetupInv, NEW p \in Procs, proc[p].pc \in AtQueue \ {"resend", "bind", "consume"},
         NEW i \in DOMAIN proc[p].dep
  PROVE  /\ IsDeclared(proc[p], i) <=> i < proc[p].at
         /\ IsDeclared(proc[p], i) => proc[p].dep[i].queue # Queue(p)
  <1>1. proc[p] \in ProcStates /\ proc[p].at \in 1 .. Len(proc[p].dep)
    BY QueueType
  <1>2. proc[p].dep \in Deployments \cup {<<>>}
    BY <1>1 DEF ProcStates
  <1>3. DOMAIN proc[p].dep = 1 .. Len(proc[p].dep) /\ Len(proc[p].dep) \in Nat
    BY <1>2, DeploymentTypes
  <1>4. IsDeclared(proc[p], i) <=> i < proc[p].at
    BY DEF IsDeclared, AtQueue
  <1>5. i < proc[p].at => proc[p].dep[i].queue # Queue(p)
    BY <1>1, <1>2, <1>3, DeploymentTypes DEF Queue
  <1> QED BY <1>4, <1>5

LEMMA DeclareInOrder ==
  ASSUME SetupInv, OrphansOK, NEW p \in Procs, Declare(p), InOrder(p)
  PROVE  InOrder(p)'
  <1>1. PICK q : q = Queue(p)
    OBVIOUS
  <1>2. /\ proc[p].pc \in {"queue", "assert"} /\ orphan' = orphan
        /\ opts' = [opts EXCEPT ![q] = Asserted(p)]
    BY <1>1 DEF Declare
  <1>3. q \in Queues /\ proc[p] \in ProcStates /\ proc[p].at \in 1 .. Len(proc[p].dep)
    BY <1>1, <1>2, QueueType DEF AtQueue
  <1>4. \A r \in Queues : opts'[r] = IF r = q THEN Asserted(p) ELSE opts[r]
    BY <1>2, <1>3 DEF SetupInv, BrokerInv, BrokerTypes
  <1>5. proc'[p].dep = proc[p].dep /\ proc'[p].at = proc[p].at /\ proc'[p].known = proc[p].known
    BY DeclareGoes DEF MovesIn, Keeps
  <1>6. \A r \in Queues : orphan'[p][r].step = "no"
    BY <1>2 DEF OrphansOK, OrphanOK
  <1>7. \A i \in DOMAIN proc[p].dep : /\ IsDeclared(proc[p], i) <=> i < proc[p].at
                                      /\ IsDeclared(proc[p], i) => proc[p].dep[i].queue # q
    BY <1>1, <1>2, NotDeclared DEF AtQueue
  <1>8. CASE proc[p].pc = "queue" /\ Changed(p)
    <2>1. proc'[p].pc \in {"delete", "drain"} /\ Asserted(p) = proc[p].known[q]
      BY <1>1, <1>8, DeclareGoes DEF Asserted
    <2>2. \A i \in DOMAIN proc[p].dep : IsDeclared(proc[p], i)' <=> IsDeclared(proc[p], i)
      BY <1>5, <1>7, <2>1 DEF IsDeclared
    <2>3. ASSUME NEW r \in Queues, opts'[r] # None PROVE Explained(proc[p], r, opts[r])'
      <3>1. CASE r = q
        BY <1>4, <1>5, <1>7, <2>1, <2>2, <3>1 DEF Explained
      <3>2. CASE r # q
        <4>1. opts'[r] = opts[r] /\ Explained(proc[p], r, opts[r])
          BY <1>4, <2>3, <3>2 DEF InOrder
        <4> QED BY <1>5, <2>2, <4>1 DEF Explained
      <3> QED BY <3>1, <3>2
    <2> QED BY <1>6, <2>1, <2>3 DEF InOrder
  <1>9. CASE ~(proc[p].pc = "queue" /\ Changed(p))
    <2>1. proc'[p].pc \in {"resend", "bind"} /\ Asserted(p) = proc[p].dep[proc[p].at].opts
      BY <1>9, DeclareGoes DEF Asserted, Current
    <2>2. DOMAIN proc[p].dep = 1 .. Len(proc[p].dep) /\ proc[p].dep[proc[p].at].queue = q
      BY <1>1, <1>3, DeploymentTypes DEF ProcStates, Queue
    <2>3. \A i \in DOMAIN proc[p].dep :
            IsDeclared(proc[p], i)' <=> IsDeclared(proc[p], i) \/ i = proc[p].at
      BY <1>5, <1>7, <2>1 DEF IsDeclared
    <2>4. ASSUME NEW r \in Queues, opts'[r] # None PROVE Explained(proc[p], r, opts[r])'
      <3>1. CASE r = q
        BY <1>3, <1>4, <1>5, <2>1, <2>2, <2>3, <3>1 DEF Explained
      <3>2. CASE r # q
        <4>1. opts'[r] = opts[r] /\ Explained(proc[p], r, opts[r])
          BY <1>4, <2>4, <3>2 DEF InOrder
        <4> QED BY <1>5, <2>2, <2>3, <3>2, <4>1 DEF Explained
      <3> QED BY <3>1, <3>2
    <2> QED BY <1>6, <2>1, <2>4 DEF InOrder
  <1> QED BY <1>8, <1>9

LEMMA MoveInOrder ==
  ASSUME SetupInv, OrphansOK, NEW p \in Procs, Receive(p) \/ Resend(p) \/ Bind(p), ~Fail(p), InOrder(p)
  PROVE  InOrder(p)'
  <1>1. MovesIn(p) /\ UNCHANGED <<opts, orphan>>
    BY ReceiveGoes, ResendGoes, BindGoes DEF Receive, Resend, Bind
  <1>2. \/ proc[p].pc = "drain" /\ proc'[p].pc \in {"delete", "drain"}
        \/ proc[p].pc \in {"resend", "bind"} /\ proc'[p].pc \in {"bind", "consume"}
    BY ReceiveGoes, ResendGoes, BindGoes
  <1>3. proc'[p].dep = proc[p].dep /\ proc'[p].at = proc[p].at /\ proc'[p].known = proc[p].known
    BY <1>1 DEF MovesIn, Keeps
  <1>4. \A i \in DOMAIN proc[p].dep : IsDeclared(proc[p], i)' <=> IsDeclared(proc[p], i)
    BY <1>2, <1>3 DEF IsDeclared
  <1>5. \A q \in Queues : orphan[p][q].step = "no"
    BY <1>2 DEF OrphansOK, OrphanOK
  <1>6. ASSUME NEW q \in Queues, opts[q] # None PROVE Explained(proc[p], q, opts[q])'
    <2>1. Explained(proc[p], q, opts[q])
      BY <1>6 DEF InOrder
    <2> QED BY <1>1, <1>3, <1>4, <2>1 DEF Explained
  <1> QED BY <1>1, <1>2, <1>5, <1>6 DEF InOrder

LEMMA DeleteInOrder ==
  ASSUME SetupInv, OrphansOK, NEW p \in Procs, Delete(p), ~Fail(p), InOrder(p)
  PROVE  InOrder(p)'
  <1>1. PICK q : q = Queue(p)
    OBVIOUS
  <1>2. /\ proc[p].pc = "delete" /\ proc'[p].pc = "assert" /\ proc'[p].dep = proc[p].dep
        /\ proc'[p].at = proc[p].at /\ proc'[p].known = proc[p].known
    BY DeleteGoes
  <1>3. q \in Queues /\ MainDeleted(q) /\ orphan' = orphan
    BY <1>1, <1>2, QueueType DEF Delete, AtQueue
  <1>4. \A r \in Queues : opts'[r] = IF r = q THEN None ELSE opts[r]
    BY <1>3 DEF MainDeleted, SetupInv, BrokerInv, BrokerTypes
  <1>5. \A i \in DOMAIN proc[p].dep : IsDeclared(proc[p], i)' <=> IsDeclared(proc[p], i)
    BY <1>2 DEF IsDeclared
  <1>6. \A r \in Queues : orphan[p][r].step = "no"
    BY <1>2 DEF OrphansOK, OrphanOK
  <1>7. Queue(p)' = q
    BY <1>1, <1>2 DEF Queue
  <1>8. ASSUME NEW r \in Queues, opts'[r] # None PROVE Explained(proc[p], r, opts[r])'
    <2>1. opts'[r] = opts[r] /\ Explained(proc[p], r, opts[r])
      BY <1>4, <1>8 DEF InOrder
    <2> QED BY <1>2, <1>5, <2>1 DEF Explained
  <1> QED BY <1>2, <1>3, <1>4, <1>6, <1>7, <1>8 DEF InOrder

LEMMA ConsumeInOrder ==
  ASSUME SetupInv, OrphansOK, NEW p \in Procs, Consume(p), ~Fail(p), ~proc[p].recover, InOrder(p)
  PROVE  InOrder(p)'
  <1>1. /\ proc[p].pc = "consume" /\ proc'[p].dep = proc[p].dep /\ proc'[p].known = proc[p].known
        /\ IF proc[p].at # Len(proc[p].dep)
           THEN proc'[p].at = proc[p].at + 1 /\ proc'[p].pc = "queue"
           ELSE proc'[p].at = proc[p].at /\ proc'[p].pc = "orphans"
    BY ConsumeGoes DEF Keeps
  <1>2. opts' = opts
    BY DEF Consume
  <1>3. proc[p] \in ProcStates /\ proc[p].at \in 1 .. Len(proc[p].dep)
    BY <1>1, QueueType DEF AtQueue
  <1>4. DOMAIN proc[p].dep = 1 .. Len(proc[p].dep) /\ Len(proc[p].dep) \in Nat
    BY <1>3, DeploymentTypes DEF ProcStates
  <1>5. \A i \in DOMAIN proc[p].dep : IsDeclared(proc[p], i)' <=> IsDeclared(proc[p], i)
    BY <1>1, <1>3, <1>4 DEF IsDeclared
  <1>6. ASSUME NEW q \in Queues, opts[q] # None PROVE Explained(proc[p], q, opts[q])'
    <2>1. Explained(proc[p], q, opts[q])
      BY <1>6 DEF InOrder
    <2> QED BY <1>1, <1>2, <1>5, <2>1 DEF Explained
  <1>7. \A q \in Queues : orphan[p][q].step = "no"
    BY <1>1 DEF OrphansOK, OrphanOK
  <1>8. \A q \in Queues : orphan'[p][q].step # "delete"
    BY <1>7, ConsumeOrphans
  <1>9. ASSUME NEW q \in Queues, proc'[p].pc = "orphans", orphan'[p][q].step = "no", opts[q] # None
        PROVE  q \in Names(proc[p].dep)
    <2>1. proc[p].known[q] = None \/ q \in Names(proc[p].dep)
      BY <1>1, <1>9, ConsumeOrphans
    <2>2. Explained(proc[p], q, opts[q])
      BY <1>9 DEF InOrder
    <2> QED BY <1>9, <2>1, <2>2 DEF Explained, Names
  <1> QED BY <1>1, <1>2, <1>6, <1>8, <1>9 DEF InOrder

LEMMA OrphanInOrder ==
  ASSUME SetupInv, OrphansOK, NEW p \in Procs, NEW q \in Queues, Check(p, q) \/ DeleteOrphan(p, q),
         ~Fail(p), InOrder(p)
  PROVE  InOrder(p)'
  <1>1. CASE Check(p, q)
    <2>1. UNCHANGED <<opts, proc>>
      BY <1>1 DEF Check, broker
    <2>2. \A r \in Queues : opts[r] # None => Explained(proc[p], r, opts[r])'
      BY <2>1 DEF InOrder, Explained, IsDeclared
    <2>3. proc[p].pc = "orphans"
      BY <1>1, CheckOrphans
    <2>4. \A r \in Queues : orphan'[p][r].step = "delete" /\ orphan'[p][r].left # Parts => opts[r] = None
      BY <1>1, CheckOrphans DEF InOrder
    <2>5. \A r \in Queues : orphan'[p][r].step = "no" /\ opts[r] # None => r \in Names(proc[p].dep)
      BY <1>1, <2>3, CheckOrphans DEF InOrder
    <2> QED BY <2>1, <2>2, <2>3, <2>4, <2>5 DEF InOrder
  <1>2. CASE DeleteOrphan(p, q)
    <2>1. /\ proc[p].pc = "orphans" /\ orphan[p][q].step = "delete" /\ SameSetups
          /\ \A r \in Queues : r # q => orphan'[p][r] = orphan[p][r] /\ opts'[r] = opts[r]
          /\ opts'[q] = None \/ (opts' = opts /\ orphan[p][q].left # Parts)
      BY <1>2, DeleteOrphans
    <2>2. opts'[q] = None
      BY <2>1 DEF InOrder
    <2>3. /\ proc'[p].dep = proc[p].dep /\ proc'[p].at = proc[p].at
          /\ proc'[p].known = proc[p].known /\ proc'[p].pc = "orphans"
      BY <2>1 DEF SameSetups
    <2>4. \A i \in DOMAIN proc[p].dep : IsDeclared(proc[p], i)' <=> IsDeclared(proc[p], i)
      BY <2>1, <2>3 DEF IsDeclared
    <2>5. ASSUME NEW r \in Queues, opts'[r] # None
          PROVE  /\ Explained(proc[p], r, opts[r])'
                 /\ ~(orphan'[p][r].step = "delete" /\ orphan'[p][r].left # Parts)
                 /\ orphan'[p][r].step = "no" => r \in Names(proc[p].dep)
      <3>1. opts'[r] = opts[r] /\ orphan'[p][r] = orphan[p][r]
        BY <2>1, <2>2, <2>5
      <3>2. Explained(proc[p], r, opts[r])
        BY <2>5, <3>1 DEF InOrder
      <3> QED BY <2>1, <2>3, <2>4, <2>5, <3>1, <3>2 DEF Explained, InOrder
    <2> QED BY <2>3, <2>5 DEF InOrder
  <1> QED BY <1>1, <1>2

(* What is stored at the end of a boot.                                         *)
LEMMA StoreShared ==
  ASSUME SetupInv, OrphansOK, Redis, NEW p \in Procs, StoreOptions(p), InOrder(p)
  PROVE  AsShared'
  <1>1. PICK new : new = NewOptions(p)
    OBVIOUS
  <1>2. /\ proc[p].pc = "orphans" /\ opts' = opts /\ stored' = [o \in Procs |-> new]
        /\ \A q \in Queues : orphan[p][q].step \in {"no", "kept"}
    BY <1>1 DEF StoreOptions, Store, broker
  <1>3. Shared' = new
    <2>1. (CHOOSE o \in Procs : TRUE) \in Procs
      BY SetupAssumption
    <2> QED BY <1>2, <2>1 DEF Shared
  <1>4. proc[p].dep \in Deployments \cup {<<>>}
    BY DEF SetupInv, StatesInv, ProcStates
  <1>5. ASSUME NEW q \in Queues, opts[q] # None PROVE new[q] = opts[q]
    <2>1. Explained(proc[p], q, opts[q])
      BY <1>5 DEF InOrder
    <2>2. CASE q \in Names(proc[p].dep)
      <3>1. orphan[p][q].step = "no"
        BY <1>2, <2>2 DEF OrphansOK, OrphanOK
      <3>2. PICK i \in DOMAIN proc[p].dep : proc[p].dep[i].queue = q /\ proc[p].dep[i].opts = opts[q]
        BY <1>2, <2>1, <2>2 DEF Explained, IsDeclared, Names
      <3>3. OptionsOf(proc[p].dep)[q] = opts[q]
        BY <1>4, <3>2, OptionsOfType
      <3> QED BY <1>1, <3>1, <3>3 DEF NewOptions
    <2>3. CASE q \notin Names(proc[p].dep)
      <3>1. proc[p].known[q] = opts[q]
        BY <2>1, <2>3 DEF Explained, Names
      <3>2. orphan[p][q].step = "kept"
        BY <1>2, <1>5, <2>3 DEF InOrder
      <3> QED BY <1>1, <3>1, <3>2 DEF NewOptions
    <2> QED BY <2>2, <2>3
  <1> QED BY <1>2, <1>3, <1>5 DEF AsShared

(* The steps that leave the setup that is under way alone.                      *)
LEMMA Unmoved ==
  ASSUME CleanOK, UNCHANGED <<opts, stored>>,
         \A o \in Procs : /\ Booting(o)' <=> Booting(o)
                          /\ Booting(o) => proc'[o] = proc[o] /\ orphan'[o] = orphan[o]
  PROVE  CleanOK'
  <1>1. AsShared' <=> AsShared
    BY DEF AsShared, Shared
  <1>2. ASSUME NEW o \in Procs, Booting(o) PROVE SetupOf(o)'
    <2>1. SetupOf(o) /\ proc'[o] = proc[o] /\ orphan'[o] = orphan[o]
      BY <1>2 DEF CleanOK
    <2>2. InOrder(o) => InOrder(o)'
      BY <2>1 DEF InOrder, Explained, IsDeclared, Queue
    <2> QED BY <1>1, <2>1, <2>2 DEF SetupOf
  <1> QED BY <1>1, <1>2 DEF CleanOK

(* The steps of a setup.                                                        *)
LEMMA RecoveryStep ==
  ASSUME SetupInv, OrphansOK, clean', NEW p \in Procs, SetupStep(p), ~Fail(p), proc[p].recover, AsShared
  PROVE  AsShared' /\ proc'[p].recover
  <1>1. ASSUME NEW q \in Queues, Check(p, q) \/ DeleteOrphan(p, q) PROVE FALSE
    BY <1>1, CheckOrphans, DeleteOrphans DEF OrphansOK, OrphanOK
  <1>2. ~StoreOptions(p)
    BY DEF StoreOptions, OrphansOK, OrphanOK
  <1>3. CASE Declare(p)
    <2>1. PICK q : q = Queue(p)
      OBVIOUS
    <2>2. proc[p].pc \in {"queue", "assert"} /\ opts' = [opts EXCEPT ![q] = Asserted(p)] /\ stored' = stored
      BY <1>3, <2>1 DEF Declare
    <2>3. opts[q] = Asserted(p)
      BY <1>3, <2>1, <2>2 DEF Declare, Mismatch
    <2>4. opts' = opts
      BY <2>2, <2>3 DEF SetupInv, BrokerInv, BrokerTypes
    <2>5. proc'[p].recover
      BY <1>3, DeclareGoes DEF MovesIn, Keeps
    <2> QED BY <2>2, <2>4, <2>5, SharedKept
  <1>4. CASE Delete(p)
    <2>1. proc[p].pc = "delete" /\ proc'[p].recover
      BY <1>4, DeleteGoes
    <2>2. MainDeleted(Queue(p)) /\ stored' = stored
      BY <1>4 DEF Delete
    <2>3. \A q \in Queues : opts'[q] \in {None, opts[q]}
      BY <2>2 DEF MainDeleted, SetupInv, BrokerInv, BrokerTypes
    <2> QED BY <2>1, <2>2, <2>3, SharedKept
  <1>5. CASE Read(p) \/ Receive(p) \/ Resend(p) \/ Bind(p) \/ Consume(p)
    <2>1. UNCHANGED <<opts, stored>>
      BY <1>5 DEF Read, Receive, Resend, Bind, Consume, broker
    <2>2. proc'[p].recover
      BY <1>5, ReadGoes, ReceiveGoes, ResendGoes, BindGoes, ConsumeGoes DEF MovesIn, Keeps
    <2> QED BY <2>1, <2>2, SharedKept
  <1> QED BY <1>1, <1>2, <1>3, <1>4, <1>5 DEF SetupStep, Refused

LEMMA BootStep ==
  ASSUME SetupInv, OrphansOK, Redis, NEW p \in Procs, SetupStep(p), ~Fail(p), ~proc[p].recover,
         SetupOf(p)
  PROVE  IF StoreOptions(p) THEN AsShared' /\ ~Booting(p)' ELSE InOrder(p)'
  <1>1. CASE Read(p)
    <2>1. proc[p].pc = "read" /\ ~StoreOptions(p)
      BY <1>1 DEF Read, StoreOptions
    <2> QED BY <1>1, <2>1, ReadInOrder DEF SetupOf
  <1>2. CASE ~Read(p)
    <2>1. proc[p].pc # "read"
      BY <1>2, CheckOrphans, DeleteOrphans
         DEF SetupStep, Refused, Declare, Receive, Delete, Resend, Bind, Consume, StoreOptions
    <2>2. InOrder(p)
      BY <2>1 DEF SetupOf
    <2>3. StoreOptions(p) => AsShared' /\ ~Booting(p)'
      BY <2>2, StoreShared, StoreGoes DEF Booting, AtQueue
    <2> QED BY <1>2, <2>2, <2>3, DeclareInOrder, MoveInOrder, DeleteInOrder, ConsumeInOrder, OrphanInOrder
            DEF SetupStep, Refused
  <1> QED BY <1>1, <1>2

LEMMA SetupStepStays ==
  ASSUME SetupInv, OrphansOK, NEW p \in Procs, SetupStep(p), ~Fail(p)
  PROVE  /\ Booting(p)
         /\ clean' => clean
         /\ ~proc[p].recover => ~proc'[p].recover
         /\ Booting(p)' => proc'[p].pc # "read"
         /\ \A o \in Procs : o # p /\ ~Booting(o) => ~Booting(o)'
  <1>1. CASE \E q \in Queues : DeleteOrphan(p, q)
    <2>1. SameSetups /\ clean' = clean /\ proc[p].pc = "orphans"
      BY <1>1, DeleteOrphans
    <2>2. proc'[p].pc = "orphans" /\ proc'[p].recover = proc[p].recover
      BY <2>1 DEF SameSetups
    <2>3. \A o \in Procs : Booting(o)' => Booting(o)
      BY <2>1 DEF SameSetups, Booting, AtQueue
    <2> QED BY <2>1, <2>2, <2>3 DEF Booting
  <1>2. CASE \E q \in Queues : Check(p, q)
    <2>1. UNCHANGED <<proc, clean>> /\ proc[p].pc = "orphans"
      BY <1>2, CheckOrphans DEF Check
    <2> QED BY <2>1 DEF Booting
  <1>3. CASE Delete(p)
    <2>1. clean' = clean
      BY <1>3 DEF Delete
    <2> QED BY <1>3, <2>1, DeleteGoes DEF Booting, AtQueue
  <1>4. CASE Read(p) \/ Declare(p) \/ Receive(p) \/ Resend(p) \/ Bind(p) \/ Consume(p) \/ StoreOptions(p)
    <2>1. Keeps(p) /\ proc'[p].pc # "read"
      BY <1>4, ReadGoes, DeclareGoes, ReceiveGoes, ResendGoes, BindGoes, ConsumeGoes, StoreGoes DEF MovesIn
    <2>2. Booting(p)
      BY <1>4 DEF Read, Declare, Receive, Resend, Bind, Consume, StoreOptions, Booting, AtQueue
    <2>3. clean' => clean
      BY <1>4 DEF Read, Declare, Receive, Resend, Bind, Consume, StoreOptions
    <2> QED BY <2>1, <2>2, <2>3, OthersStay DEF Keeps
  <1> QED BY <1>1, <1>2, <1>3, <1>4 DEF SetupStep, Refused

LEMMA CleanSetupStep ==
  ASSUME SetupInv, OrphansOK, Redis, clean => CleanOK, clean', NEW p \in Procs, SetupStep(p)
  PROVE  CleanOK'
  <1>1. ~Fail(p)
    BY DEF Fail
  <1>2. Booting(p) /\ clean
    BY <1>1, SetupStepStays
  <1>3. SetupOf(p) /\ \A o \in Procs : o # p => ~Booting(o)'
    BY <1>1, <1>2, NoOther, SetupStepStays
  <1>4. CASE proc[p].recover
    <2>1. AsShared' /\ proc'[p].recover
      BY <1>1, <1>3, <1>4, RecoveryStep DEF SetupOf
    <2> QED BY <1>3, <2>1, OnlyOne, SetupOfShared
  <1>5. CASE ~proc[p].recover
    <2>1. IF StoreOptions(p) THEN AsShared' /\ ~Booting(p)' ELSE InOrder(p)'
      BY <1>1, <1>3, <1>5, BootStep
    <2>2. CASE StoreOptions(p)
      BY <1>3, <2>1, <2>2, OnlyOne
    <2>3. CASE ~StoreOptions(p)
      <3>1. Booting(p)'
        <4>1. CASE \E q \in Queues : Check(p, q) \/ DeleteOrphan(p, q)
          <5>1. proc[p].pc = "orphans" /\ proc'[p].pc = proc[p].pc
            BY <1>1, <4>1, CheckOrphans, DeleteOrphans DEF Check, SameSetups
          <5> QED BY <5>1 DEF Booting
        <4>2. CASE Consume(p)
          BY <1>1, <1>5, <4>2, ConsumeGoes DEF Booting, AtQueue
        <4>3. CASE Read(p) \/ Declare(p) \/ Receive(p) \/ Delete(p) \/ Resend(p) \/ Bind(p)
          BY <1>1, <4>3, ReadGoes, DeclareGoes, ReceiveGoes, DeleteGoes, ResendGoes, BindGoes
             DEF Booting, AtQueue
        <4> QED BY <1>1, <2>3, <4>1, <4>2, <4>3 DEF SetupStep, Refused
      <3>2. ~proc'[p].recover /\ proc'[p].pc # "read"
        BY <1>1, <1>5, <3>1, SetupStepStays
      <3>3. SetupOf(p)'
        BY <2>1, <2>3, <3>2 DEF SetupOf
      <3> QED BY <1>3, <3>1, <3>3, OnlyOne
    <2> QED BY <2>2, <2>3
  <1> QED BY <1>4, <1>5

(* A setup begins alone.                                                        *)
LEMMA BeginsAlone ==
  ASSUME CleanOK, NEW p \in Procs, ~Booting(p), Alone(p), UNCHANGED <<opts, stored>>, Others(p),
         proc'[p].pc = "read"
  PROVE  CleanOK'
  <1>1. \A o \in Procs : ~Booting(o)
    BY DEF Alone
  <1>2. AsShared'
    BY <1>1 DEF CleanOK, AsShared, Shared
  <1>3. \A o \in Procs : o # p => ~Booting(o)'
    BY <1>1, OthersStay
  <1>4. Booting(p)'
    BY DEF Booting
  <1> QED BY <1>2, <1>3, <1>4, OnlyOne, SetupOfShared

(* A process that begins nothing, or that is gone.                              *)
LEMMA NotBooting ==
  ASSUME CleanOK, NEW p \in Procs, ~Booting(p), UNCHANGED <<opts, stored>>, Others(p),
         proc'[p].pc \in {"up", "off"}, \A o \in Procs : o # p => orphan'[o] = orphan[o]
  PROVE  CleanOK'
  <1>1. ~Booting(p)'
    BY DEF Booting, AtQueue
  <1>2. ASSUME NEW o \in Procs
        PROVE  /\ Booting(o)' <=> Booting(o)
               /\ Booting(o) => proc'[o] = proc[o] /\ orphan'[o] = orphan[o]
    <2>1. CASE o = p
      BY <1>1, <2>1
    <2>2. CASE o # p
      BY <2>2, OthersStay DEF Others
    <2> QED BY <2>1, <2>2
  <1> QED BY <1>2, Unmoved

LEMMA CleanBegin ==
  ASSUME SetupInv, OrphansOK, Redis, clean => CleanOK, clean', NEW p \in Procs, Boot(p) \/ Retry(p) \/ Drop(p)
  PROVE  CleanOK'
  <1>1. CASE Boot(p)
    <2>1. PICK d \in Deployments :
            IF d = <<>> THEN /\ Goes(p, [Off EXCEPT !.pc = "up"]) /\ clean' = clean
                             /\ stored' = IF Redis THEN stored ELSE [stored EXCEPT ![p] = Unknown]
            ELSE /\ Goes(p, [Off EXCEPT !.pc = "read", !.dep = d])
                 /\ clean' = (clean /\ Alone(p)) /\ stored' = stored
      BY <1>1 DEF Boot
    <2>2. ~Booting(p) /\ UNCHANGED <<opts, orphan>>
      BY <1>1 DEF Boot, broker, Booting, AtQueue
    <2>3. CASE d = <<>>
      <3>1. proc'[p].pc = "up" /\ Others(p)
        BY <2>1, <2>3, FreshPc, FreshAt DEF SetupInv
      <3>2. clean /\ stored' = stored
        BY <2>1, <2>3
      <3> QED BY <2>2, <3>1, <3>2, NotBooting
    <2>4. CASE d # <<>>
      <3>1. proc'[p].pc = "read" /\ Others(p)
        BY <2>1, <2>4, FreshPc, FreshAt DEF SetupInv
      <3>2. clean /\ Alone(p) /\ stored' = stored
        BY <2>1, <2>4
      <3> QED BY <2>2, <3>1, <3>2, BeginsAlone
    <2> QED BY <2>3, <2>4
  <1>2. CASE Retry(p) \/ Drop(p)
    <2>1. proc'[p].pc = "read" /\ Others(p)
      BY <1>2, FreshPc, FreshAt DEF Retry, Drop, SetupInv
    <2>2. UNCHANGED <<opts, stored>> /\ clean /\ Alone(p)
      BY <1>2 DEF Retry, Drop, broker
    <2>3. ~Booting(p)
      BY <1>2 DEF Retry, Drop, Booting, AtQueue
    <2> QED BY <2>1, <2>2, <2>3, BeginsAlone
  <1> QED BY <1>1, <1>2

LEMMA CleanGone ==
  ASSUME SetupInv, OrphansOK, clean => CleanOK, clean', NEW p \in Procs, Stop(p) \/ Crash(p)
  PROVE  CleanOK'
  <1>1. Gone(p) /\ clean /\ ~Booting(p)
    BY DEF Stop, Crash, Booting, AtQueue
  <1>2. proc'[p].pc = "off" /\ Others(p)
    BY <1>1, FreshPc, FreshAt DEF Gone, SetupInv
  <1>3. UNCHANGED <<opts, stored>> /\ \A o \in Procs : o # p => orphan'[o] = orphan[o]
    BY <1>1 DEF Gone, OrphansOK
  <1> QED BY <1>1, <1>2, <1>3, NotBooting

LEMMA CleanStep ==
  ASSUME SetupInv, OptionsInv, [Next]_vars, clean', Redis
  PROVE  CleanOK'
  <1>0. OrphansOK /\ (clean => CleanOK)
    BY DEF OptionsInv
  <1>1. CASE UNCHANGED <<opts, proc, orphan, stored, clean>>
    <2>1. \A o \in Procs : Booting(o)' <=> Booting(o)
      BY <1>1 DEF Booting
    <2> QED BY <1>0, <1>1, <2>1, Unmoved
  <1>2. ASSUME NEW p \in Procs, SetupStep(p) \/ Boot(p) \/ Retry(p) \/ Drop(p) \/ Stop(p) \/ Crash(p)
        PROVE  CleanOK'
    BY <1>0, <1>2, CleanSetupStep, CleanBegin, CleanGone
  <1>3. ASSUME NEW p \in Procs, CallStep(p) PROVE UNCHANGED <<opts, proc, orphan, stored, clean>>
    BY <1>3 DEF CallStep, ReceiveDead, CloseOk, Republish, RepublishAgain, Sends, Confirmed, GiveUp, broker
  <1>4. ASSUME NEW p \in Procs, NEW q \in Queues, Requeue(p, q) \/ Take(p, q)
        PROVE  UNCHANGED <<opts, proc, orphan, stored, clean>>
    BY <1>4 DEF Requeue, Take
  <1>5. ASSUME NEW q \in Queues, Expire(q) \/ \E m \in Msgs : Publish(m, q)
        PROVE  UNCHANGED <<opts, proc, orphan, stored, clean>>
    BY <1>5 DEF Expire, Publish
  <1>6. ASSUME NEW u \in unacked, Ends(u) PROVE UNCHANGED <<opts, proc, orphan, stored, clean>>
    BY <1>6 DEF Ends
  <1>7. CASE UNCHANGED vars
    BY <1>1, <1>7 DEF vars, broker
  <1> QED BY <1>1, <1>2, <1>3, <1>4, <1>5, <1>6, <1>7 DEF Next

LEMMA OptionsInit == Init => OptionsInv
  <1> SUFFICES ASSUME Init PROVE OptionsInv
    OBVIOUS
  <1>1. PICK d \in Deployments \cup {<<>>} : opts = OptionsOf(d) /\ stored = [p \in Procs |-> OptionsOf(d)]
    BY DEF Init
  <1>2. proc = [p \in Procs |-> Off] /\ orphan = [p \in Procs |-> NoOrphans]
    BY DEF Init
  <1>3. Off.pc = "off"
    BY DEF Off
  <1>4. NoOrphans \in [Queues -> OrphanStates] /\ \A q \in Queues : NoOrphans[q].step = "no"
    <2>1. PICK f \in BOOLEAN : f = FALSE
      OBVIOUS
    <2>2. PICK e \in Seq(PartSet) : e = <<>>
      BY EmptySeq
    <2>3. NoOrphans = [q \in Queues |-> [step |-> "no", left |-> e, kept |-> f]]
      BY <2>1, <2>2 DEF NoOrphans
    <2> QED BY <2>3 DEF OrphanStates
  <1>5. OrphansOK
    BY <1>2, <1>3, <1>4 DEF OrphansOK, OrphanOK
  <1>6. \A p \in Procs : ~Booting(p)
    BY <1>2, <1>3 DEF Booting, AtQueue
  <1>7. AsShared
    <2>1. (CHOOSE o \in Procs : TRUE) \in Procs
      BY SetupAssumption
    <2> QED BY <1>1, <2>1 DEF AsShared, Shared
  <1> QED BY <1>5, <1>6, <1>7 DEF OptionsInv, CleanOK

LEMMA OptionsStep == SetupInv /\ OptionsInv /\ [Next]_vars => OptionsInv'
  <1> SUFFICES ASSUME SetupInv, OptionsInv, [Next]_vars PROVE OptionsInv'
    OBVIOUS
  <1>1. OrphansOK'
    BY OrphansStep DEF OptionsInv
  <1> QED BY <1>1, CleanStep DEF OptionsInv

LEMMA OptionsHold == SetupInv /\ OptionsInv => OptionsKnown
  <1> SUFFICES ASSUME SetupInv, OptionsInv, clean, Redis
               PROVE  /\ \A p \in Procs : Mismatch(p) => proc[p].recover
                      /\ (\A p \in Procs : ~Booting(p)) =>
                            \A q \in Queues : opts[q] # None => \E p \in Procs : Stored(p)[q] = opts[q]
    BY DEF OptionsKnown
  <1>0. CleanOK
    BY DEF OptionsInv
  <1>1. ASSUME NEW p \in Procs, Mismatch(p), ~proc[p].recover PROVE FALSE
    <2>1. PICK q : q = Queue(p)
      OBVIOUS
    <2>2. proc[p].pc \in {"queue", "assert"} /\ opts[q] # None /\ opts[q] # Asserted(p)
      BY <1>1, <2>1 DEF Mismatch
    <2>3. q \in Queues /\ InOrder(p)
      BY <1>0, <1>1, <2>1, <2>2, NoOther, QueueType DEF SetupOf, Booting, AtQueue
    <2>4. proc[p].pc = "queue" /\ Explained(proc[p], q, opts[q])
      BY <2>1, <2>2, <2>3 DEF InOrder
    <2>5. \A i \in DOMAIN proc[p].dep : IsDeclared(proc[p], i) => proc[p].dep[i].queue # q
      BY <2>1, <2>4, NotDeclared DEF AtQueue
    <2>6. proc[p].known[q] = opts[q]
      BY <2>4, <2>5 DEF Explained
    <2> QED BY <2>1, <2>2, <2>4, <2>6 DEF Asserted, Changed
  <1>2. ASSUME \A p \in Procs : ~Booting(p), NEW q \in Queues, opts[q] # None
        PROVE  \E p \in Procs : Stored(p)[q] = opts[q]
    <2>1. Shared[q] = opts[q]
      BY <1>0, <1>2 DEF CleanOK, AsShared
    <2>2. PICK p \in Procs : TRUE
      BY SetupAssumption
    <2> QED BY <2>1, <2>2, SharedIs
  <1> QED BY <1>1, <1>2

(* setup.ts stores the options of the queues at the end of each boot: however    *)
(* many deployments come one after the other, no assertQueue of a boot is refused*)
(* (406), and between two setups the storage has the options of every queue.     *)
THEOREM StoredOptionsAreThose == Spec => []OptionsKnown
  <1>1. SetupInv /\ OptionsInv /\ [Next]_vars => (SetupInv /\ OptionsInv)'
    BY SetupInvStep, OptionsStep
  <1> QED BY SetupInit, OptionsInit, OptionsHold, <1>1, PTL DEF Spec
===============================================================================
