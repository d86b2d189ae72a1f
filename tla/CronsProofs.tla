------------------------------ MODULE CronsProofs ------------------------------
(* What holds of Crons for every number of servers and of workers, every list of*)
(* crons and every schedule.                                                    *)
EXTENDS Crons, Integers, TLAPS, FiniteSetTheorems, WellFoundedInduction

-------------------------------------------------------------------------------
(* The inductive invariant.                                                     *)

(* Types.                                                                       *)
ProcStates == [pc : Booting \cup {"off", "timer", "failed", "up"}, at : Nat, left : Nat, due : Nat]
RunStates == [pc : {"idle", "publish", "running"}, msg : SUBSET Messages, due : Nat]

PlaceTypes ==
    /\ queue \subseteq Messages /\ work \subseteq Messages /\ held \in [Procs -> SUBSET Messages]
    /\ run \in [Workers -> RunStates]
ControlTypes ==
    /\ now \in Nat /\ declared \in BOOLEAN /\ routed \in BOOLEAN
    /\ proc \in [Procs -> ProcStates] /\ boots \in [Procs -> 0 .. MaxBoots]
    /\ locks \in [Workers -> SUBSET (Crons \X Dates)]
Bounded ==
    /\ now <= MaxTime /\ spent \in [DOMAIN Faults -> Nat]
    /\ \A f \in DOMAIN Faults : spent[f] <= Faults[f]

(* The next position in the scheduler queue is that of no message.              *)
Countable == IsFiniteSet(Pending) /\ \E b \in Nat : \A m \in Pending : m.pos <= b

(* A process in its boot, with the queues it has declared.                      *)
ServerPcs ==
    {"off", "ensure", "count", "drain", "closing", "empty", "publish", "resend", "failed", "up"}
WorkerPcs == {"off", "timer", "peek", "get", "missing", "publish", "resend", "failed", "up"}
StateOK(st) ==
    /\ st.pc \in Booting => st.at \in 1 .. Len(Order)
    /\ st.pc = "ensure" => st.at = 1
    /\ st.pc = "drain" => st.left >= 1
    /\ st.pc \in {"get", "missing", "publish", "resend"} => Order[st.at] \in Active
    /\ st.pc = "publish" => st.due = NextDate(Order[st.at])
    /\ st.pc = "resend" => /\ st.due \in Dates /\ st.due <= NextDate(Order[st.at])
                           /\ st.due > now => st.due = NextDate(Order[st.at])
ProcOK(p) ==
    /\ StateOK(proc[p]) /\ proc[p].pc \in (IF p \in Servers THEN ServerPcs ELSE WorkerPcs)
    /\ proc[p].pc \notin {"drain", "closing", "get"} => held[p] = {}
    /\ proc[p].pc # "off" => boots[p] >= 1
    /\ proc[p].pc \in {"count", "drain", "closing", "empty", "publish", "resend"} => declared

(* A worker's consumer, and its cache.                                          *)
RunOK(r) ==
    /\ r.pc = "idle" => r.msg = {}
    /\ r.pc # "idle" => \E m \in Messages : r.msg = {m}
    /\ r.pc = "publish" => \A m \in r.msg : m.cron \in Active /\ r.due = NextDate(m.cron)
WorkerOK(w) ==
    /\ RunOK(run[w]) /\ (proc[w].pc = "off" => run[w] = Waiting /\ locks[w] = {})
    /\ proc[w].pc # "off" => declared /\ routed
    /\ \A l \in locks[w] : l[2] = NextDate(l[1])

MessageOK(m) == m.due <= NextDate(m.cron) /\ m.by[2] <= boots[m.by[1]]

CronsInv ==
    /\ PlaceTypes /\ ControlTypes /\ Bounded /\ Countable
    /\ \A p \in Procs : ProcOK(p)
    /\ \A w \in Workers : WorkerOK(w)
    /\ \A m \in Pending : MessageOK(m)

-------------------------------------------------------------------------------
(* Published once: a message is in one place.                                   *)
Apart ==
    /\ queue \cap work = {}
    /\ \A p \in Procs : held[p] \cap (queue \cup work) = {}
    /\ \A w \in Workers : run[w].msg \cap (queue \cup work) = {}
    /\ \A p, o \in Procs : p # o => held[p] \cap held[o] = {}
    /\ \A w, v \in Workers : w # v => run[w].msg \cap run[v].msg = {}
    /\ \A p \in Procs, w \in Workers : held[p] \cap run[w].msg = {}

(* What a process has published in this life of its own.                        *)
Own(p) == {m \in Pending : m.by = <<p, boots[p]>>}

(* A server has published crons it has passed, and the one it sends again.      *)
ServerOnce(s) ==
    proc[s].pc \in Booting =>
      \A m \in Own(s) : \/ \E j \in 1 .. proc[s].at - 1 : m.cron = Order[j]
                        \/ proc[s].pc = "resend" /\ m.cron = Cron(s) /\ m.send = 1

(* A worker has the lock of what it has published and of what it is about to.   *)
Unpublished(w, c) ==
    <<c, NextDate(c)>> \in locks[w] /\ \A m \in Own(w) : m.cron = c => m.due # NextDate(c)
SentOnce(w) ==
    /\ proc[w].due > now => <<Cron(w), proc[w].due>> \in locks[w]
    /\ \A m \in Own(w) : m.cron = Cron(w) /\ m.due = proc[w].due => m.send = 1
Competes(w, c) ==
    Cron(w) = c /\ (proc[w].pc = "publish" \/ (proc[w].pc = "resend" /\ proc[w].due = NextDate(c)))
WorkerOnce(w) ==
    proc[w].pc # "off" =>
      /\ \A m \in Own(w) : m.due > now => <<m.cron, m.due>> \in locks[w]
      /\ proc[w].pc = "publish" => Unpublished(w, Cron(w))
      /\ proc[w].pc = "resend" => SentOnce(w)
      /\ run[w].pc = "publish" =>
           \A m \in run[w].msg : Unpublished(w, m.cron) /\ ~Competes(w, m.cron)

(* Two copies of one execution are the two sendings of one publish, and the     *)
(* second follows a failure.                                                    *)
Pairs == \A m, n \in Pending : m.cron = n.cron /\ m.due = n.due /\ m.by = n.by /\ m # n
                              => m.send # n.send
OnceInv ==
    /\ Apart /\ Pairs
    /\ \A s \in Servers : ServerOnce(s)
    /\ \A w \in Workers : WorkerOnce(w)
ResentInv ==
    /\ \A p \in Procs : proc[p].pc = "resend" => spent["fault"] > 0
    /\ \A m \in Pending : m.send = 2 => spent["fault"] > 0

-------------------------------------------------------------------------------
(* The chain of a cron. A boot has passed it; no process has still to.          *)
Past(p, c) ==
    \/ proc[p].pc = "up"
    \/ proc[p].pc \in Booting /\ \A j \in DOMAIN Order : Order[j] = c => j < proc[p].at
Settled(p, c) == boots[p] = 0 \/ Past(p, c)

(* Its next execution is in the scheduler queue; or a consumer is about to      *)
(* publish it; or it has one that is still to be handled.                       *)
Waits(m) == m \in queue \/ \E p \in Procs : m \in held[p]
Scheduled(c) == \E m \in Messages : Waits(m) /\ m.cron = c /\ m.due = NextDate(c)
Handling(w, c) == run[w].pc = "publish" /\ \E m \in run[w].msg : m.cron = c
Alive(c) ==
    \/ \E m \in Messages : (Waits(m) \/ m \in work) /\ m.cron = c
    \/ \E w \in Workers : Handling(w, c)

(* A rewrite whose publish is late: what it drained was of an earlier date.     *)
Late(s, c) == proc[s].pc = "resend" /\ Cron(s) = c /\ proc[s].due # NextDate(c)
Rewritten(s, c) == Settled(s, c) \/ Late(s, c)

(* A publish lock stands for an execution, but for that of a repair which has   *)
(* not published yet, or has failed to.                                         *)
LockStands(w, c) ==
    /\ <<c, NextDate(c)>> \in locks[w]
    /\ \A s \in Servers : Rewritten(s, c)
    /\ proc[w].pc # "failed"
    /\ ~Competes(w, c)
    => Scheduled(c) \/ Handling(w, c)
Repaired(c) ==
    (\E w \in Workers : Past(w, c)) /\ (\A p \in Procs : Settled(p, c)) => Alive(c)

ChainInv ==
    /\ \A w \in Workers, c \in Active : LockStands(w, c)
    /\ \A c \in Active : Repaired(c)

-------------------------------------------------------------------------------
(* The constants and the operators.                                             *)

LEMMA LeastExists ==
  ASSUME NEW S, S \subseteq Nat, S # {}
  PROVE  \E x \in S : \A y \in S : x <= y
  <1>1. PICK x \in S : \A y \in S : ~(<<y, x>> \in OpToRel(<, Nat))
    BY NatLessThanWellFounded, WFMin
  <1>2. \A y \in S : ~(y < x)
    BY <1>1 DEF OpToRel
  <1> QED BY <1>2

LEMMA Division ==
  ASSUME NEW n \in Nat, NEW d \in Nat \ {0}
  PROVE  /\ n \div d \in Nat /\ d * (n \div d) <= n
         /\ n < d * (n \div d + 1) /\ d * (n \div d + 1) \in Nat
  OBVIOUS

LEMMA Factor ==
  ASSUME NEW d \in Nat \ {0}, NEW a \in Int, NEW b \in Int, d * a < d * b
  PROVE  a < b
  <1> SUFFICES ASSUME b <= a PROVE FALSE
    OBVIOUS
  <1>1. PICK e \in Nat : a = b + e
    <2>1. a - b \in Nat /\ a = b + (a - b)
      OBVIOUS
    <2> QED BY <2>1
  <1>2. d * a = d * b + d * e /\ d * e >= 0
    BY <1>1
  <1>3. d * a \in Int /\ d * b \in Int /\ d * e \in Int
    OBVIOUS
  <1> QED BY <1>2, <1>3

(* While its date has not come, the next date of a cron stays what it is.       *)
LEMMA SameDate ==
  ASSUME NEW n \in Nat, NEW d \in Nat \ {0}, d * (n \div d + 1) > n + 1
  PROVE  d * (n \div d + 1) = d * ((n + 1) \div d + 1)
  <1>1. PICK q \in Nat, r \in Nat : q = n \div d /\ r = (n + 1) \div d
    BY SMTT(60), Division
  <1>2. n + 1 \in Nat
    OBVIOUS
  <1>3. d * q <= n /\ d * r <= n + 1 /\ n + 1 < d * (r + 1) /\ n + 1 < d * (q + 1)
    BY <1>1, <1>2, Division
  <1>4. d * q \in Int /\ d * r \in Int /\ d * (r + 1) \in Int /\ d * (q + 1) \in Int
    BY <1>1
  <1>5. d * q < d * (r + 1) /\ d * r < d * (q + 1)
    BY <1>3, <1>4
  <1>6. q < r + 1 /\ r < q + 1
    BY <1>5, Factor
  <1>7. q = r
    BY <1>6
  <1> QED BY <1>1, <1>7

LEMMA LaterDate ==
  ASSUME NEW n \in Nat, NEW d \in Nat \ {0}
  PROVE  d * (n \div d + 1) <= d * ((n + 1) \div d + 1)
  OBVIOUS

LEMMA NextDates ==
  ASSUME now \in Nat, NEW c \in Crons
  PROVE  NextDate(c) \in Dates /\ NextDate(c) > now
  <1>1. PICK d \in Nat \ {0} : d = Period[c]
    BY CronsAssumption
  <1>2. NextDate(c) = d * (now \div d + 1)
    BY <1>1 DEF NextDate
  <1>3. d * (now \div d + 1) \in Nat /\ now < d * (now \div d + 1)
    BY <1>1, Division
  <1>4. NextDate(c) \in Nat /\ now < NextDate(c)
    BY <1>2, <1>3
  <1> QED BY <1>4 DEF Dates

LEMMA Orders ==
  /\ Len(Order) \in Nat /\ DOMAIN Order = 1 .. Len(Order)
  /\ \A i \in 1 .. Len(Order) : Order[i] \in Crons
  /\ \A c \in Crons : \E i \in 1 .. Len(Order) : Order[i] = c
  /\ \A i, j \in 1 .. Len(Order) : Order[i] = Order[j] => i = j
  <1>1. Order \in Seq(Crons) /\ Range(Order) = Crons /\ IsInjective(Order)
    BY CronsAssumption
  <1>2. /\ Len(Order) \in Nat /\ DOMAIN Order = 1 .. Len(Order)
        /\ \A i \in 1 .. Len(Order) : Order[i] \in Crons
    BY <1>1
  <1> QED BY <1>1, <1>2 DEF Range, IsInjective

LEMMA Kinds ==
  /\ Servers \subseteq Procs /\ Workers \subseteq Procs /\ Procs = Servers \cup Workers
  /\ \A p \in Procs : p \in Workers <=> p \notin Servers
  BY CronsAssumption DEF Procs

LEMMA Entries ==
  ASSUME NEW p \in Procs, NEW i \in Nat, i >= 1
  PROVE  /\ Entry(p, i) \in ProcStates /\ StateOK(Entry(p, i))
         /\ i > Len(Order) => Entry(p, i).pc = "up"
         /\ i <= Len(Order) => /\ Entry(p, i).pc = IF p \in Servers THEN "count" ELSE "peek"
                               /\ Entry(p, i).at = i
  <1>1. CASE i > Len(Order)
    <2>1. Entry(p, i) = [pc |-> "up", at |-> 0, left |-> 0, due |-> 0]
      BY <1>1 DEF Entry, Off
    <2> QED BY <1>1, <2>1, Orders DEF ProcStates, StateOK, Booting
  <1>2. CASE ~(i > Len(Order))
    <2>1. PICK pc \in {"count", "peek"} : pc = IF p \in Servers THEN "count" ELSE "peek"
      OBVIOUS
    <2>2. Entry(p, i) = [pc |-> pc, at |-> i, left |-> 0, due |-> 0]
      BY <1>2, <2>1 DEF Entry, Off
    <2> QED BY <1>2, <2>1, <2>2, Orders DEF ProcStates, StateOK, Booting
  <1> QED BY <1>1, <1>2

-------------------------------------------------------------------------------
(* The messages and their positions.                                            *)

LEMMA Places ==
  \A m : m \in Pending <=> \/ m \in queue \/ m \in work
                           \/ \E p \in Procs : m \in held[p]
                           \/ \E w \in Workers : m \in run[w].msg
  BY DEF Pending, Running

LEMMA PlacesNext ==
  \A m : m \in Pending' <=> \/ m \in queue' \/ m \in work'
                            \/ \E p \in Procs : m \in held'[p]
                            \/ \E w \in Workers : m \in run'[w].msg
  BY DEF Pending, Running

LEMMA AllMessages ==
  ASSUME CronsInv
  PROVE  Pending \subseteq Messages
  <1>1. \A w \in Workers : run[w].msg \subseteq Messages
    BY DEF CronsInv, PlaceTypes, RunStates
  <1> QED BY <1>1, Places DEF CronsInv, PlaceTypes

LEMMA FirstOfQueue ==
  ASSUME CronsInv, queue # {}
  PROVE  First(queue) \in queue
  <1> DEFINE S == {m.pos : m \in queue}
  <1>1. S \subseteq Nat /\ S # {}
    BY DEF CronsInv, PlaceTypes, Messages
  <1>2. PICK x \in S : \A y \in S : x <= y
    BY <1>1, LeastExists
  <1>3. \E m \in queue : \A n \in queue : m.pos <= n.pos
    BY <1>2
  <1> QED BY <1>3 DEF First

LEMMA Counts ==
  ASSUME CronsInv
  PROVE  Cardinality(queue) \in Nat /\ (queue # {} => Cardinality(queue) >= 1)
  <1>1. IsFiniteSet(queue)
    BY Places, FS_Subset DEF CronsInv, Countable
  <1>2. PICK k : k = Cardinality(queue)
    OBVIOUS
  <1>3. k \in Nat /\ (k = 0 <=> queue = {})
    BY <1>1, <1>2, FS_CardinalityType, FS_EmptySet
  <1> QED BY <1>2, <1>3

LEMMA Positions ==
  ASSUME CronsInv
  PROVE  Position \in Nat /\ \A m \in Pending : m.pos < Position
  <1> DEFINE S == {m.pos : m \in Pending} \cup {0}
  <1>1. S \subseteq Nat
    BY AllMessages DEF Messages
  <1>2. PICK b \in Nat : \A x \in S : x <= b
    BY DEF CronsInv, Countable
  <1> DEFINE B == {n \in Nat : \A x \in S : x <= n}
  <1>3. PICK k \in B : \A n \in B : k <= n
    <2>1. B \subseteq Nat /\ B # {}
      BY <1>2
    <2> HIDE DEF B
    <2> QED BY <2>1, LeastExists
  <1>4. k \in Nat /\ \A x \in S : x <= k
    BY <1>3
  <1>5. k \in S
    <2> SUFFICES ASSUME k \notin S PROVE FALSE
      OBVIOUS
    <2>1. k # 0
      OBVIOUS
    <2>2. k - 1 \in Nat
      BY <1>4, <2>1
    <2>3. \A x \in S : x <= k - 1
      <3>1. \A x \in S : x \in Nat /\ x <= k /\ x # k
        BY <1>1, <1>4
      <3> HIDE DEF S
      <3> QED BY <1>4, <3>1
    <2>4. k - 1 \in B
      BY <2>2, <2>3
    <2> QED BY <1>3, <1>4, <2>4
  <1> HIDE DEF S, B
  <1>6. PICK x : x = Max(S)
    OBVIOUS
  <1>7. \E y \in S : \A z \in S : y >= z
    BY <1>1, <1>4, <1>5
  <1>8. x \in S /\ \A z \in S : x >= z
    BY <1>6, <1>7 DEF Max
  <1>9. x \in Nat /\ Position = 1 + x
    BY <1>1, <1>6, <1>8 DEF Position, S
  <1>10. \A m \in Pending : m.pos \in S
    BY DEF S
  <1>11. \A m \in Pending : m.pos \in Nat /\ x >= m.pos
    BY <1>1, <1>8, <1>10
  <1> QED BY <1>9, <1>11

(* The message a publish puts in the scheduler queue.                           *)
New(p, c, due, send) ==
    [cron |-> c, due |-> due, pos |-> Position, by |-> <<p, boots[p]>>, send |-> send]

LEMMA NewMessage ==
  ASSUME CronsInv, NEW p \in Procs, NEW c \in Crons, NEW due \in Dates, NEW send \in 1 .. 2
  PROVE  /\ New(p, c, due, send) \in Messages /\ New(p, c, due, send) \notin Pending
         /\ New(p, c, due, send).cron = c /\ New(p, c, due, send).due = due
         /\ New(p, c, due, send).by = <<p, boots[p]>> /\ New(p, c, due, send).send = send
         /\ declared => Put(p, c, due, send) = queue \cup {New(p, c, due, send)}
         /\ ~declared => Put(p, c, due, send) = queue
  <1>1. boots[p] \in 0 .. MaxBoots /\ Position \in Nat
    BY Positions DEF CronsInv, ControlTypes
  <1>2. New(p, c, due, send) \in Messages
    BY <1>1 DEF New, Messages
  <1>3. New(p, c, due, send).pos = Position
    BY DEF New
  <1>4. New(p, c, due, send) \notin Pending
    BY <1>1, <1>3, Positions
  <1> QED BY <1>2, <1>4 DEF New, Put

-------------------------------------------------------------------------------
(* The inductive invariant holds at first, and every step keeps it.             *)

LEMMA InitTypes ==
  ASSUME Init
  PROVE  CronsInv
  <1> USE DEF Init
  <1>1. PICK by \in Procs : by = CHOOSE o \in Procs : TRUE
    BY CronsAssumption DEF Procs
  <1>2. MaxBoots \in Nat /\ MaxTime \in Nat /\ \A f \in DOMAIN Faults : Faults[f] \in Nat
    BY CronsAssumption DEF Faults
  <1>3. \A c \in Crons : /\ Leftover(c) \in Messages /\ MessageOK(Leftover(c))
                         /\ Leftover(c).pos = 1
    <2> SUFFICES ASSUME NEW c \in Crons
                 PROVE  Leftover(c) \in Messages /\ MessageOK(Leftover(c)) /\ Leftover(c).pos = 1
      OBVIOUS
    <2>1. PICK d \in Nat \ {0} : d = Period[c]
      BY CronsAssumption
    <2>2. Leftover(c) = [cron |-> c, due |-> d, pos |-> 1, by |-> <<by, 0>>, send |-> 1]
      BY <1>1, <2>1 DEF Leftover
    <2>3. NextDate(c) = d * (0 \div d + 1)
      BY <2>1 DEF NextDate
    <2>4. d <= d * (0 \div d + 1)
      OBVIOUS
    <2>5. Leftover(c) \in Messages
      BY <1>2, <2>1, <2>2 DEF Messages, Dates
    <2>6. Leftover(c).due = d /\ Leftover(c).by = <<by, 0>> /\ Leftover(c).cron = c
      BY <2>2
    <2> QED BY <1>2, <2>2, <2>3, <2>4, <2>5, <2>6 DEF MessageOK
  <1>4. Waiting \in RunStates /\ Off \in ProcStates /\ Off.pc = "off" /\ Waiting.pc = "idle" /\ Waiting.msg = {}
    BY DEF Waiting, Off, RunStates, ProcStates, Booting
  <1>5. Pending = queue /\ IsFiniteSet(queue) /\ \A m \in queue : \E c \in Crons : m = Leftover(c)
    <2>1. \A c \in Crons : IsFiniteSet({Leftover(c)})
      BY FS_EmptySet, FS_AddElement
    <2>2. IsFiniteSet(queue)
      BY <2>1, FS_EmptySet
    <2>3. \A m \in queue : \E c \in Crons : m = Leftover(c)
      OBVIOUS
    <2>4. \A w \in Workers : run[w].msg = {}
      BY <1>4
    <2>5. \A p \in Procs : held[p] = {}
      OBVIOUS
    <2>6. \A m : m \in Pending <=> m \in queue
      BY <2>4, <2>5, Places
    <2> QED BY <2>2, <2>3, <2>6
  <1>6. PlaceTypes
    BY <1>3, <1>4, <1>5 DEF PlaceTypes
  <1>7. ControlTypes
    <2>1. declared \in BOOLEAN /\ routed \in BOOLEAN
      OBVIOUS
    <2>2. proc \in [Procs -> ProcStates] /\ boots \in [Procs -> 0 .. MaxBoots]
      BY <1>2, <1>4
    <2> QED BY <2>1, <2>2 DEF ControlTypes
  <1>8. Bounded
    BY <1>2 DEF Bounded
  <1>9. Countable
    BY <1>3, <1>5 DEF Countable
  <1>10. \A p \in Procs : ProcOK(p)
    <2>1. StateOK(Off)
      BY <1>4 DEF StateOK, Booting
    <2> QED BY <1>4, <2>1, Kinds DEF ProcOK, ServerPcs, WorkerPcs
  <1>11. \A w \in Workers : WorkerOK(w)
    BY <1>4, Kinds DEF WorkerOK, RunOK
  <1>12. \A m \in Pending : MessageOK(m)
    BY <1>3, <1>5
  <1> QED BY <1>6, <1>7, <1>8, <1>9, <1>10, <1>11, <1>12 DEF CronsInv

(* Lives are counted up.                                                        *)
Grows == /\ boots' \in [Procs -> 0 .. MaxBoots] /\ \A q \in Procs : boots'[q] >= boots[q]
         /\ declared' \in BOOLEAN /\ routed' \in BOOLEAN
         /\ (declared => declared') /\ (routed => routed')
LEMMA SameGrows ==
  ASSUME CronsInv, UNCHANGED <<boots, declared, routed>>
  PROVE  Grows
  BY DEF Grows, CronsInv, ControlTypes

(* One process moves, and the rest stay.                                        *)
LEMMA ProcMoves ==
  ASSUME CronsInv, Grows, now' = now, NEW p \in Procs, NEW st \in ProcStates, Goes(p, st), StateOK(st),
         st.pc \in (IF p \in Servers THEN ServerPcs ELSE WorkerPcs),
         \A q \in Procs : q # p => held'[q] = held[q],
         st.pc \notin {"drain", "closing", "get"} => held'[p] = {},
         st.pc # "off" => boots'[p] >= 1,
         st.pc \in {"count", "drain", "closing", "empty", "publish", "resend"} => declared'
  PROVE  /\ proc' \in [Procs -> ProcStates] /\ proc'[p] = st
         /\ \A q \in Procs : q # p => proc'[q] = proc[q]
         /\ \A q \in Procs : ProcOK(q)'
  <1>1. proc \in [Procs -> ProcStates]
    BY DEF CronsInv, ControlTypes
  <1>2. /\ proc' \in [Procs -> ProcStates] /\ proc'[p] = st
        /\ \A q \in Procs : q # p => proc'[q] = proc[q]
    BY <1>1 DEF Goes
  <1>3. \A x : StateOK(x) => StateOK(x)'
    BY DEF StateOK, NextDate
  <1>4. ProcOK(p)'
    BY <1>2, <1>3 DEF ProcOK
  <1>5. ASSUME NEW q \in Procs, q # p PROVE ProcOK(q)'
    <2>1. boots[q] \in Nat /\ boots'[q] \in Nat /\ boots'[q] >= boots[q] /\ (declared => declared')
      BY DEF CronsInv, ControlTypes, Grows
    <2>2. ProcOK(q) /\ proc'[q] = proc[q] /\ held'[q] = held[q]
      BY <1>2, <1>5 DEF CronsInv
    <2>3. proc[q].pc # "off" => boots'[q] >= 1
      BY <2>1, <2>2 DEF ProcOK
    <2>4. StateOK(proc[q])'
      BY <1>3, <2>2 DEF ProcOK
    <2> QED BY <2>1, <2>2, <2>3, <2>4 DEF ProcOK
  <1> QED BY <1>2, <1>4, <1>5

LEMMA ProcsStay ==
  ASSUME CronsInv, Grows, now' = now, proc' = proc,
         \A q \in Procs : proc[q].pc # "closing" => held'[q] = held[q]
  PROVE  /\ proc' \in [Procs -> ProcStates] /\ \A q \in Procs : ProcOK(q)'
  <1>1. proc' \in [Procs -> ProcStates]
    BY DEF CronsInv, ControlTypes
  <1>2. ASSUME NEW q \in Procs PROVE ProcOK(q)'
    <2>1. boots[q] \in Nat /\ boots'[q] \in Nat /\ boots'[q] >= boots[q] /\ (declared => declared')
      BY DEF CronsInv, ControlTypes, Grows
    <2>2. ProcOK(q)
      BY DEF CronsInv
    <2>3. StateOK(proc[q])'
      BY <2>2 DEF ProcOK, StateOK, NextDate
    <2> QED BY <2>1, <2>2, <2>3 DEF ProcOK
  <1> QED BY <1>1, <1>2

(* ... of the consumers, that of p at most.                                     *)
LEMMA WorkersMove ==
  ASSUME CronsInv, Grows, now' = now, NEW p \in Procs,
         \A w \in Workers : w # p => /\ proc'[w].pc = proc[w].pc /\ run'[w] = run[w]
                                     /\ locks'[w] = locks[w],
         p \in Workers => WorkerOK(p)'
  PROVE  \A w \in Workers : WorkerOK(w)'
  <1> SUFFICES ASSUME NEW w \in Workers, w # p PROVE WorkerOK(w)'
    OBVIOUS
  <1>1. WorkerOK(w) /\ proc'[w].pc = proc[w].pc /\ run'[w] = run[w] /\ locks'[w] = locks[w]
    BY DEF CronsInv
  <1>2. RunOK(run[w])'
    BY <1>1 DEF WorkerOK, RunOK, NextDate
  <1>3. \A l \in locks'[w] : l[2] = NextDate(l[1])'
    BY <1>1 DEF WorkerOK, NextDate
  <1> QED BY <1>1, <1>2, <1>3 DEF WorkerOK, Grows

LEMMA WorkersStay ==
  ASSUME CronsInv, Grows, now' = now, UNCHANGED <<run, locks>>,
         \A w \in Workers : proc'[w].pc = "off" <=> proc[w].pc = "off"
  PROVE  \A w \in Workers : WorkerOK(w)'
  <1> SUFFICES ASSUME NEW w \in Workers PROVE WorkerOK(w)'
    OBVIOUS
  <1>1. WorkerOK(w)
    BY DEF CronsInv
  <1>2. RunOK(run[w])'
    BY <1>1 DEF WorkerOK, RunOK, NextDate
  <1>3. \A l \in locks[w] : l[2] = NextDate(l[1])'
    BY <1>1 DEF WorkerOK, NextDate
  <1> QED BY <1>1, <1>2, <1>3 DEF WorkerOK, Grows

(* The messages are those that were there, and one more at most.                *)
LEMMA OneMessage ==
  ASSUME CronsInv, Grows, now' = now, NEW x \in Messages, MessageOK(x),
         Pending' \subseteq Pending \cup {x}
  PROVE  Countable' /\ \A m \in Pending' : MessageOK(m)'
  <1>1. IsFiniteSet(Pending')
    BY FS_AddElement, FS_Subset DEF CronsInv, Countable
  <1>2. PICK b \in Nat : \A m \in Pending : m.pos <= b
    BY DEF CronsInv, Countable
  <1>3. x.pos \in Nat /\ \A m \in Pending : m.pos \in Nat
    BY AllMessages DEF Messages
  <1>4. b + x.pos \in Nat /\ x.pos <= b + x.pos /\ \A m \in Pending : m.pos <= b + x.pos
    BY <1>2, <1>3
  <1>5. \A m \in Pending' : m.pos <= b + x.pos
    BY <1>4
  <1>6. \A m \in Pending' : MessageOK(m) /\ m \in Messages
    BY AllMessages DEF CronsInv
  <1>7. ASSUME NEW m \in Pending' PROVE MessageOK(m)'
    <2>1. m.by[1] \in Procs /\ m.by[2] \in Nat
      BY <1>6 DEF Messages
    <2>2. PICK o \in Procs : o = m.by[1]
      BY <2>1
    <2>3. boots'[o] \in Int /\ boots[o] \in Int /\ boots'[o] >= boots[o]
      BY DEF Grows, CronsInv, ControlTypes
    <2> QED BY <1>6, <2>1, <2>2, <2>3 DEF MessageOK, NextDate
  <1> QED BY <1>1, <1>4, <1>5, <1>7 DEF Countable

LEMMA NoMessage ==
  ASSUME CronsInv, Grows, now' = now, Pending' \subseteq Pending
  PROVE  Countable' /\ \A m \in Pending' : MessageOK(m)'
  <1>1. IsFiniteSet(Pending')
    BY FS_Subset DEF CronsInv, Countable
  <1>2. \E b \in Nat : \A m \in Pending' : m.pos <= b
    BY DEF CronsInv, Countable
  <1>3. ASSUME NEW m \in Pending' PROVE MessageOK(m)'
    <2>0. MessageOK(m) /\ m \in Messages
      BY AllMessages DEF CronsInv
    <2>1. m.by[1] \in Procs /\ m.by[2] \in Nat
      BY <2>0 DEF Messages
    <2>2. PICK o \in Procs : o = m.by[1]
      BY <2>1
    <2>3. boots'[o] \in Int /\ boots[o] \in Int /\ boots'[o] >= boots[o]
      BY DEF Grows, CronsInv, ControlTypes
    <2> QED BY <2>0, <2>1, <2>2, <2>3 DEF MessageOK, NextDate
  <1> QED BY <1>1, <1>2, <1>3 DEF Countable

LEMMA Spends ==
  ASSUME CronsInv, NEW f \in DOMAIN Faults, Spend(f) \/ UNCHANGED spent, now' = now
  PROVE  Bounded'
  <1>1. /\ spent \in [DOMAIN Faults -> Nat] /\ \A g \in DOMAIN Faults : spent[g] <= Faults[g] /\ Faults[g] \in Nat
    BY CronsAssumption DEF CronsInv, Bounded, Faults
  <1>2. spent' \in [DOMAIN Faults -> Nat] /\ \A g \in DOMAIN Faults : spent'[g] <= Faults[g]
    BY <1>1 DEF Spend
  <1> QED BY <1>2 DEF CronsInv, Bounded

(* Where the messages go: back to the queue, out of it, or into it.             *)
LEMMA Returns ==
  ASSUME CronsInv, NEW p \in Procs, queue' = queue \cup held[p], held' = [held EXCEPT ![p] = {}],
         UNCHANGED <<work, run>>
  PROVE  /\ PlaceTypes' /\ Pending' \subseteq Pending
         /\ held'[p] = {} /\ \A q \in Procs : q # p => held'[q] = held[q]
  <1>1. held'[p] = {} /\ \A q \in Procs : q # p => held'[q] = held[q]
    BY DEF CronsInv, PlaceTypes
  <1>2. PlaceTypes'
    BY DEF CronsInv, PlaceTypes
  <1>3. \A m : m \in Pending' => m \in Pending
    BY <1>1, Places, PlacesNext
  <1> QED BY <1>1, <1>2, <1>3

LEMMA Takes ==
  ASSUME CronsInv, NEW p \in Procs, queue # {}, queue' = queue \ {First(queue)},
         NEW h, h \subseteq held[p] \cup {First(queue)}, held' = [held EXCEPT ![p] = h],
         UNCHANGED <<work, run>>
  PROVE  /\ PlaceTypes' /\ Pending' \subseteq Pending
         /\ held'[p] = h /\ \A q \in Procs : q # p => held'[q] = held[q]
  <1>0. PICK f \in queue : f = First(queue)
    BY FirstOfQueue
  <1>1. held'[p] = h /\ \A q \in Procs : q # p => held'[q] = held[q]
    BY DEF CronsInv, PlaceTypes
  <1>2. h \subseteq Messages
    BY <1>0 DEF CronsInv, PlaceTypes
  <1>3. PlaceTypes'
    BY <1>2 DEF CronsInv, PlaceTypes
  <1>4. \A m : m \in Pending' => m \in Pending
    BY <1>0, <1>1, Places, PlacesNext
  <1> QED BY <1>1, <1>3, <1>4

LEMMA Puts ==
  ASSUME CronsInv, Grows, now' = now, NEW p \in Procs, NEW c \in Crons, NEW due \in Dates,
         due <= NextDate(c), NEW send \in 1 .. 2, queue' \in {queue, Put(p, c, due, send)},
         UNCHANGED <<held, work>>, run' \in [Workers -> RunStates],
         \A w \in Workers : run'[w].msg = run[w].msg
  PROVE  PlaceTypes' /\ Countable' /\ \A m \in Pending' : MessageOK(m)'
  <1>1. PICK x \in Messages : x = New(p, c, due, send)
    BY NewMessage
  <1>2. x.cron = c /\ x.due = due /\ x.by = <<p, boots[p]>> /\ (queue' = queue \cup {x} \/ queue' = queue)
    BY <1>1, NewMessage DEF CronsInv, ControlTypes
  <1>3. PlaceTypes'
    BY <1>2 DEF CronsInv, PlaceTypes
  <1>4. \A m : m \in Pending' => m \in Pending \cup {x}
    BY <1>2, Places, PlacesNext
  <1>5. MessageOK(x)
    <2>1. boots[p] \in Nat
      BY DEF CronsInv, ControlTypes
    <2> QED BY <1>2, <2>1 DEF MessageOK
  <1> QED BY <1>3, <1>4, <1>5, OneMessage

LEMMA Settles ==
  ASSUME CronsInv, now' = now, boots' \in [Procs -> 0 .. MaxBoots], declared' \in BOOLEAN, routed' \in BOOLEAN,
         locks' = locks, proc' \in [Procs -> ProcStates]
  PROVE  ControlTypes'
  BY DEF CronsInv, ControlTypes

(* A process moves on, and nothing else changes but the queues it declares.     *)
Alone == UNCHANGED <<now, queue, held, work, run, locks, spent>>

LEMMA TypesAlone ==
  ASSUME CronsInv, Grows, Alone, NEW p \in Procs, NEW st \in ProcStates, Goes(p, st), StateOK(st),
         st.pc \in (IF p \in Servers THEN ServerPcs ELSE WorkerPcs),
         st.pc # "off", boots'[p] >= 1,
         st.pc \notin {"drain", "closing", "get"} => held[p] = {},
         st.pc \in {"count", "drain", "closing", "empty", "publish", "resend"} => declared',
         p \in Workers => declared' /\ routed'
  PROVE  CronsInv'
  <1>1. UNCHANGED <<now, queue, held, work, run, locks, spent>>
    BY DEF Alone
  <1>2. /\ proc' \in [Procs -> ProcStates] /\ proc'[p] = st
        /\ \A q \in Procs : q # p => proc'[q] = proc[q]
        /\ \A q \in Procs : ProcOK(q)'
    BY <1>1, ProcMoves
  <1>3. \A w \in Workers : WorkerOK(w)'
    <2>1. ASSUME p \in Workers PROVE WorkerOK(p)'
      <3>1. WorkerOK(p)
        BY <2>1 DEF CronsInv
      <3>2. RunOK(run[p])' /\ \A l \in locks[p] : l[2] = NextDate(l[1])'
        BY <1>1, <3>1 DEF WorkerOK, RunOK, NextDate
      <3> QED BY <1>1, <1>2, <2>1, <3>2 DEF WorkerOK
    <2> QED BY <1>1, <1>2, <2>1, Kinds, WorkersMove
  <1>4. Countable' /\ \A m \in Pending' : MessageOK(m)'
    <2>1. Pending' \subseteq Pending
      BY <1>1, Places, PlacesNext
    <2> QED BY <1>1, <2>1, NoMessage
  <1>5. PlaceTypes' /\ Bounded'
    BY <1>1 DEF CronsInv, PlaceTypes, Bounded
  <1>6. ControlTypes'
    BY <1>1, <1>2, Settles DEF Grows
  <1> QED BY <1>2, <1>3, <1>4, <1>5, <1>6 DEF CronsInv

LEMMA TypesBootServer ==
  ASSUME CronsInv, NEW s \in Servers, BootServer(s)
  PROVE  CronsInv'
  <1>0. s \in Procs /\ s \notin Workers /\ ProcOK(s) /\ boots[s] \in 0 .. MaxBoots
    BY Kinds DEF CronsInv, ControlTypes
  <1>1. PICK st \in ProcStates : st = [Off EXCEPT !.pc = "ensure", !.at = 1]
    BY DEF Off, ProcStates, Booting
  <1>2. Goes(s, st) /\ st.pc = "ensure" /\ st.at = 1
    BY <1>1 DEF BootServer, Off
  <1>3. boots' = [boots EXCEPT ![s] = boots[s] + 1] /\ boots \in [Procs -> 0 .. MaxBoots] /\ boots[s] + 1 \in 0 .. MaxBoots
    BY <1>0, CronsAssumption DEF BootServer, CronsInv, ControlTypes
  <1>4. Grows /\ boots'[s] >= 1
    BY <1>0, <1>3 DEF BootServer, Grows, CronsInv, ControlTypes
  <1>5. StateOK(st)
    <2>1. Len(Order) >= 1
      BY CronsAssumption, Orders
    <2> QED BY <1>2, <2>1, Orders DEF StateOK
  <1>6. Alone /\ held[s] = {}
    BY <1>0 DEF BootServer, Alone, ProcOK
  <1> QED BY <1>0, <1>2, <1>4, <1>5, <1>6, Kinds, TypesAlone DEF ServerPcs

LEMMA TypesBootWorker ==
  ASSUME CronsInv, NEW w \in Workers, BootWorker(w)
  PROVE  CronsInv'
  <1>0. w \in Procs /\ w \notin Servers /\ ProcOK(w) /\ boots[w] \in 0 .. MaxBoots
    BY Kinds DEF CronsInv, ControlTypes
  <1>1. PICK st \in ProcStates : st = [Off EXCEPT !.pc = "timer"]
    BY DEF Off, ProcStates, Booting
  <1>2. Goes(w, st) /\ st.pc = "timer"
    BY <1>1 DEF BootWorker, Off
  <1>3. boots' = [boots EXCEPT ![w] = boots[w] + 1] /\ boots \in [Procs -> 0 .. MaxBoots] /\ boots[w] + 1 \in 0 .. MaxBoots
    BY <1>0, CronsAssumption DEF BootWorker, CronsInv, ControlTypes
  <1>4. declared' = TRUE /\ routed' = TRUE
    BY DEF BootWorker
  <1>5. Grows /\ boots'[w] >= 1
    BY <1>0, <1>3, <1>4 DEF Grows, CronsInv, ControlTypes
  <1>6. StateOK(st)
    BY <1>2 DEF StateOK, Booting
  <1>7. Alone /\ held[w] = {}
    BY <1>0 DEF BootWorker, Alone, ProcOK
  <1> QED BY <1>0, <1>2, <1>4, <1>5, <1>6, <1>7, TypesAlone DEF WorkerPcs

LEMMA TypesEnsure ==
  ASSUME CronsInv, NEW s \in Servers, Ensure(s)
  PROVE  CronsInv'
  <1>0. s \in Procs /\ s \notin Workers /\ ProcOK(s) /\ boots[s] \in 0 .. MaxBoots
    BY Kinds DEF CronsInv, ControlTypes
  <1>1. PICK st \in ProcStates : st = Entry(s, 1)
    BY <1>0, Entries
  <1>2. Goes(s, st) /\ StateOK(st) /\ st.pc \in {"up", "count"}
    BY <1>0, <1>1, Entries, Orders DEF Ensure
  <1>3. declared' = TRUE
    BY DEF Ensure
  <1>4. Grows /\ boots'[s] >= 1 /\ Alone /\ held[s] = {}
    BY <1>0, <1>3 DEF Ensure, Grows, Alone, ProcOK, CronsInv, ControlTypes
  <1> QED BY <1>0, <1>2, <1>3, <1>4, TypesAlone DEF ServerPcs

LEMMA TypesRepairBegins ==
  ASSUME CronsInv, NEW w \in Workers, RepairBegins(w)
  PROVE  CronsInv'
  <1>0. w \in Procs /\ w \notin Servers /\ ProcOK(w) /\ WorkerOK(w)
    BY Kinds DEF CronsInv
  <1>1. PICK st \in ProcStates : st = Entry(w, 1)
    BY <1>0, Entries
  <1>2. Goes(w, st) /\ StateOK(st) /\ st.pc \in {"up", "peek"}
    BY <1>0, <1>1, Entries, Orders DEF RepairBegins
  <1>3. Grows /\ Alone
    BY SameGrows DEF RepairBegins, Alone
  <1>4. boots'[w] >= 1 /\ held[w] = {} /\ declared' /\ routed'
    BY <1>0 DEF RepairBegins, ProcOK, WorkerOK
  <1> QED BY <1>0, <1>2, <1>3, <1>4, TypesAlone DEF WorkerPcs

(* A process that is at a cron, and the next one.                               *)
LEMMA AtCron ==
  ASSUME CronsInv, NEW p \in Procs, proc[p].pc \in Booting
  PROVE  /\ proc[p].at \in 1 .. Len(Order) /\ proc[p].at \in Nat /\ Cron(p) \in Crons
         /\ boots[p] >= 1 /\ boots[p] \in Nat
         /\ NextCron(p) \in ProcStates /\ StateOK(NextCron(p))
         /\ NextCron(p).pc \in (IF p \in Servers THEN {"up", "count"} ELSE {"up", "peek"})
         /\ NextCron(p).pc = "up" <=> proc[p].at = Len(Order)
         /\ NextCron(p).pc # "up" => NextCron(p).at = proc[p].at + 1
         /\ p \in Workers => declared /\ routed
  <1>1. ProcOK(p) /\ proc[p] \in ProcStates /\ (p \in Workers => WorkerOK(p))
    BY DEF CronsInv, ControlTypes
  <1>2. proc[p].at \in 1 .. Len(Order) /\ Cron(p) \in Crons
    BY <1>1, Orders DEF ProcOK, StateOK, Cron
  <1>3. boots[p] >= 1 /\ boots[p] \in Nat /\ (p \in Workers => declared /\ routed)
    BY <1>1 DEF ProcOK, WorkerOK, CronsInv, ControlTypes, Booting
  <1>4. PICK i \in Nat : i = proc[p].at + 1
    BY <1>2
  <1>5. NextCron(p) = Entry(p, i) /\ i >= 1 /\ (i > Len(Order) <=> proc[p].at = Len(Order))
    BY <1>2, <1>4, Orders DEF NextCron
  <1>6. Len(Order) \in Nat
    BY Orders
  <1> QED BY <1>2, <1>3, <1>4, <1>5, <1>6, Entries

LEMMA TypesSkipInactive ==
  ASSUME CronsInv, NEW w \in Workers, SkipInactive(w)
  PROVE  CronsInv'
  <1>0. w \in Procs /\ w \notin Servers /\ ProcOK(w) /\ proc[w].pc = "peek"
    BY Kinds DEF CronsInv, SkipInactive
  <1>1. PICK st \in ProcStates : st = NextCron(w)
    BY <1>0, AtCron DEF Booting
  <1>2. Goes(w, st) /\ StateOK(st) /\ st.pc \in {"up", "peek"} /\ declared /\ routed /\ boots[w] >= 1
    BY <1>0, <1>1, AtCron DEF SkipInactive, Booting
  <1>3. Grows /\ Alone
    BY SameGrows DEF SkipInactive, Alone
  <1>4. boots'[w] >= 1 /\ held[w] = {} /\ declared' /\ routed'
    BY <1>0, <1>2 DEF SkipInactive, ProcOK
  <1> QED BY <1>0, <1>2, <1>3, <1>4, TypesAlone DEF WorkerPcs

LEMMA TypesCount ==
  ASSUME CronsInv, NEW s \in Servers, Count(s)
  PROVE  CronsInv'
  <1>0. s \in Procs /\ s \notin Workers /\ ProcOK(s) /\ proc[s] \in ProcStates /\ proc[s].pc = "count"
    BY Kinds DEF CronsInv, ControlTypes, Count
  <1>1. PICK n \in Nat : n = Cardinality(queue) /\ (queue # {} => n >= 1)
    BY Counts
  <1>2. PICK pc \in {"empty", "drain"} : pc = IF queue = {} THEN "empty" ELSE "drain"
    OBVIOUS
  <1>3. PICK k \in Nat : k = IF queue = {} THEN proc[s].left ELSE n
    BY <1>0 DEF ProcStates
  <1>4. PICK st : st = [proc[s] EXCEPT !.pc = pc, !.left = k]
    OBVIOUS
  <1>5. /\ st \in ProcStates /\ st.pc = pc /\ st.at = proc[s].at /\ st.left = k
        /\ st = IF queue = {} THEN [proc[s] EXCEPT !.pc = "empty"]
                ELSE [proc[s] EXCEPT !.pc = "drain", !.left = Cardinality(queue)]
    BY <1>0, <1>1, <1>2, <1>3, <1>4 DEF ProcStates, Booting
  <1>6. Goes(s, st)
    BY <1>5 DEF Count
  <1>7. StateOK(st)
    BY <1>0, <1>1, <1>2, <1>3, <1>5 DEF StateOK, ProcOK, Booting
  <1>8. Grows /\ Alone
    BY SameGrows DEF Count, Alone
  <1>9. boots'[s] >= 1 /\ held[s] = {} /\ declared'
    BY <1>0 DEF Count, ProcOK
  <1>10. st.pc # "off" /\ st.pc \in ServerPcs
    BY <1>2, <1>5 DEF ServerPcs
  <1> QED BY <1>0, <1>5, <1>6, <1>7, <1>8, <1>9, <1>10, TypesAlone

LEMMA TypesPeek ==
  ASSUME CronsInv, NEW w \in Workers, Peek(w)
  PROVE  CronsInv'
  <1>0. w \in Procs /\ w \notin Servers /\ ProcOK(w) /\ proc[w] \in ProcStates /\ proc[w].pc = "peek"
    BY Kinds DEF CronsInv, ControlTypes, Peek
  <1>1. PICK n \in Nat : n = Cardinality(queue)
    BY Counts
  <1>2. PICK st : st = [proc[w] EXCEPT !.pc = "get", !.left = n]
    OBVIOUS
  <1>3. st \in ProcStates /\ st.pc = "get" /\ st.at = proc[w].at
    BY <1>0, <1>1, <1>2 DEF ProcStates, Booting
  <1>4. Goes(w, st) /\ Cron(w) \in Active
    BY <1>1, <1>2 DEF Peek
  <1>5. StateOK(st)
    BY <1>0, <1>3, <1>4 DEF StateOK, ProcOK, Booting, Cron
  <1>6. Grows /\ Alone
    BY SameGrows DEF Peek, Alone
  <1>7. boots'[w] >= 1 /\ held[w] = {} /\ declared' /\ routed'
    BY <1>0, AtCron DEF Peek, ProcOK, Booting
  <1> QED BY <1>0, <1>3, <1>4, <1>5, <1>6, <1>7, TypesAlone DEF WorkerPcs

(* A process that takes the head of the queue, or puts back what it has.        *)
Steady == UNCHANGED <<now, declared, routed, work, run, boots, locks>>

LEMMA TypesSteady ==
  ASSUME CronsInv, Steady, NEW p \in Procs, NEW st \in ProcStates, Goes(p, st), StateOK(st),
         st.pc \in (IF p \in Servers THEN ServerPcs ELSE WorkerPcs), st.pc # "off", proc[p].pc # "off",
         st.pc \notin {"drain", "closing", "get"} => held'[p] = {},
         st.pc \in {"count", "drain", "closing", "empty", "publish", "resend"} => declared,
         PlaceTypes', Pending' \subseteq Pending, \A q \in Procs : q # p => held'[q] = held[q],
         Spend("fault") \/ UNCHANGED spent
  PROVE  CronsInv'
  <1>1. Grows /\ UNCHANGED <<now, declared, routed, work, run, boots, locks>>
    BY SameGrows DEF Steady
  <1>2. ProcOK(p) /\ (p \in Workers => WorkerOK(p))
    BY DEF CronsInv
  <1>3. /\ proc' \in [Procs -> ProcStates] /\ proc'[p] = st
        /\ \A q \in Procs : q # p => proc'[q] = proc[q]
        /\ \A q \in Procs : ProcOK(q)'
    <2>1. boots'[p] >= 1 /\ (declared => declared')
      BY <1>1, <1>2 DEF ProcOK
    <2> QED BY <1>1, <2>1, ProcMoves
  <1>4. \A w \in Workers : WorkerOK(w)'
    BY <1>1, <1>3, WorkersStay, Kinds
  <1>5. Countable' /\ \A m \in Pending' : MessageOK(m)'
    BY <1>1, NoMessage
  <1>6. Bounded'
    BY <1>1, Spends DEF Faults
  <1>7. ControlTypes'
    BY <1>1, <1>3, Settles DEF Grows
  <1> QED BY <1>3, <1>4, <1>5, <1>6, <1>7 DEF CronsInv

LEMMA TypesReceive ==
  ASSUME CronsInv, NEW s \in Servers, Receive(s)
  PROVE  CronsInv'
  <1>0. s \in Procs /\ s \notin Workers /\ ProcOK(s) /\ proc[s] \in ProcStates /\ proc[s].pc = "drain"
    BY Kinds DEF CronsInv, ControlTypes, Receive
  <1>1. PICK k \in Nat : k = proc[s].left - 1 /\ (k = 0 <=> proc[s].left = 1)
    BY <1>0 DEF ProcOK, StateOK, ProcStates
  <1>2. PICK pc \in {"closing", "drain"} : pc = IF LastCounted(s) THEN "closing" ELSE "drain"
    OBVIOUS
  <1>3. PICK st : st = [proc[s] EXCEPT !.left = k, !.pc = pc]
    OBVIOUS
  <1>4. st \in ProcStates /\ st.pc = pc /\ st.at = proc[s].at /\ st.left = k
    BY <1>0, <1>1, <1>2, <1>3 DEF ProcStates, Booting
  <1>5. Goes(s, st)
    BY <1>1, <1>2, <1>3 DEF Receive
  <1>6. StateOK(st)
    <2>1. pc = "drain" => k # 0
      <3>1. pc = "drain" => ~LastCounted(s)
        BY <1>2
      <3>2. ~LastCounted(s) => proc[s].left # 1
        BY DEF LastCounted
      <3> QED BY <1>1, <3>1, <3>2
    <2>2. st.pc = "drain" => st.left >= 1
      <3>1. k # 0 => k >= 1
        OBVIOUS
      <3>2. st.pc = pc /\ st.left = k
        BY <1>4
      <3> QED BY <2>1, <3>1, <3>2
    <2>3. st.at \in 1 .. Len(Order)
      BY <1>0, <1>4 DEF StateOK, ProcOK, Booting
    <2> QED BY <1>2, <1>4, <2>2, <2>3 DEF StateOK
  <1>7. PICK h : h = Kept(s, First(queue))
    OBVIOUS
  <1>8. h \subseteq held[s] \cup {First(queue)}
    BY <1>7 DEF Kept
  <1>9. Steady /\ UNCHANGED <<spent, work, run>> /\ queue # {} /\ queue' = queue \ {First(queue)} /\ held' = [held EXCEPT ![s] = h]
    BY <1>7 DEF Receive, Steady
  <1>10. /\ PlaceTypes' /\ Pending' \subseteq Pending
         /\ \A q \in Procs : q # s => held'[q] = held[q]
    BY <1>0, <1>8, <1>9, Takes
  <1>11. st.pc # "off" /\ st.pc \in ServerPcs /\ st.pc \in {"drain", "closing"} /\ declared
    BY <1>0, <1>2, <1>4 DEF ServerPcs, ProcOK
  <1> QED BY <1>0, <1>4, <1>5, <1>6, <1>9, <1>10, <1>11, TypesSteady

LEMMA TypesPush ==
  ASSUME CronsInv, NEW s \in Servers, Push(s)
  PROVE  CronsInv'
  <1>0. s \in Procs /\ s \notin Workers /\ ProcOK(s) /\ proc[s] \in ProcStates /\ proc[s].pc = "closing"
    BY Kinds DEF CronsInv, ControlTypes, Push
  <1>1. PICK st \in ProcStates : st = proc[s]
    BY <1>0
  <1>2. Goes(s, st)
    BY <1>1 DEF Push, Goes, CronsInv, ControlTypes
  <1>3. PICK h : h = held[s] \cup {First(queue)}
    OBVIOUS
  <1>4. Steady /\ UNCHANGED <<spent, work, run>> /\ queue # {} /\ queue' = queue \ {First(queue)} /\ held' = [held EXCEPT ![s] = h]
    BY <1>3 DEF Push, Steady
  <1>5. /\ PlaceTypes' /\ Pending' \subseteq Pending
        /\ \A q \in Procs : q # s => held'[q] = held[q]
    BY <1>0, <1>3, <1>4, Takes
  <1>6. st.pc = "closing" /\ st.pc \in ServerPcs /\ declared /\ StateOK(st)
    BY <1>0, <1>1 DEF ServerPcs, ProcOK
  <1> QED BY <1>0, <1>2, <1>4, <1>5, <1>6, TypesSteady

LEMMA TypesGet ==
  ASSUME CronsInv, NEW w \in Workers, Get(w)
  PROVE  CronsInv'
  <1>0. w \in Procs /\ w \notin Servers /\ ProcOK(w) /\ proc[w] \in ProcStates /\ proc[w].pc = "get"
    BY Kinds DEF CronsInv, ControlTypes, Get
  <1>1. PICK k \in Nat : k = proc[w].left - 1
    BY <1>0 DEF Get, ProcStates
  <1>2. PICK st : st = [proc[w] EXCEPT !.left = k]
    OBVIOUS
  <1>3. st \in ProcStates /\ st.pc = "get" /\ st.at = proc[w].at
    BY <1>0, <1>1, <1>2 DEF ProcStates
  <1>4. Goes(w, st)
    BY <1>1, <1>2 DEF Get
  <1>5. StateOK(st)
    BY <1>0, <1>3 DEF StateOK, ProcOK, Booting
  <1>6. PICK h : h = held[w] \cup {First(queue)}
    OBVIOUS
  <1>7. Steady /\ UNCHANGED <<spent, work, run>> /\ queue # {} /\ queue' = queue \ {First(queue)} /\ held' = [held EXCEPT ![w] = h]
    BY <1>6 DEF Get, Steady
  <1>8. /\ PlaceTypes' /\ Pending' \subseteq Pending
        /\ \A q \in Procs : q # w => held'[q] = held[q]
    BY <1>0, <1>6, <1>7, Takes
  <1>9. st.pc \in WorkerPcs
    BY <1>3 DEF WorkerPcs
  <1> QED BY <1>0, <1>3, <1>4, <1>5, <1>7, <1>8, <1>9, TypesSteady

(* What a step that gives back what was held leaves.                            *)
LEMMA TypesGiveBack ==
  ASSUME CronsInv, Steady, NEW p \in Procs, NEW st \in ProcStates, Goes(p, st), StateOK(st),
         st.pc \in (IF p \in Servers THEN ServerPcs ELSE WorkerPcs), st.pc # "off", proc[p].pc # "off",
         st.pc \in {"count", "drain", "closing", "empty", "publish", "resend"} => declared,
         queue' = queue \cup held[p], held' = [held EXCEPT ![p] = {}],
         Spend("fault") \/ UNCHANGED spent
  PROVE  CronsInv'
  <1>1. UNCHANGED <<work, run>>
    BY DEF Steady
  <1>2. /\ PlaceTypes' /\ Pending' \subseteq Pending
        /\ held'[p] = {} /\ \A q \in Procs : q # p => held'[q] = held[q]
    BY <1>1, Returns
  <1> QED BY <1>2, TypesSteady

LEMMA TypesClosed ==
  ASSUME CronsInv, NEW s \in Servers, Closed(s)
  PROVE  CronsInv'
  <1>0. /\ s \in Procs /\ s \notin Workers /\ ProcOK(s) /\ proc[s] \in ProcStates
        /\ proc[s].pc \in {"closing", "empty"} /\ proc[s].pc \in Booting /\ declared
    BY Kinds DEF CronsInv, ControlTypes, Closed, Booting, ProcOK
  <1>1. Steady /\ queue' = queue \cup held[s] /\ held' = [held EXCEPT ![s] = {}] /\ UNCHANGED spent
    BY DEF Closed, Steady
  <1>2. CASE Cron(s) \in Active
    <2>1. PICK due \in Nat : due = NextDate(Cron(s))
      BY <1>0, AtCron, NextDates DEF CronsInv, ControlTypes, Dates
    <2>2. PICK st : st = [proc[s] EXCEPT !.pc = "publish", !.due = due]
      OBVIOUS
    <2>3. st \in ProcStates /\ st.pc = "publish" /\ st.at = proc[s].at /\ st.due = due
      BY <1>0, <2>1, <2>2 DEF ProcStates, Booting
    <2>4. Goes(s, st)
      BY <1>2, <2>1, <2>2 DEF Closed
    <2>5. StateOK(st)
      BY <1>0, <1>2, <2>1, <2>3 DEF StateOK, ProcOK, Cron, Booting
    <2> QED BY <1>0, <1>1, <2>3, <2>4, <2>5, TypesGiveBack DEF ServerPcs
  <1>3. CASE Cron(s) \notin Active
    <2>1. PICK st \in ProcStates : st = NextCron(s)
      BY <1>0, AtCron
    <2>2. Goes(s, st) /\ StateOK(st) /\ st.pc \in {"up", "count"}
      BY <1>0, <1>3, <2>1, AtCron DEF Closed
    <2> QED BY <1>0, <1>1, <2>2, TypesGiveBack DEF ServerPcs
  <1> QED BY <1>2, <1>3

(* Where a repair is before its publish.                                        *)
LEMMA Misses ==
  ASSUME CronsInv, NEW w \in Workers, proc[w].pc \in {"peek", "get"}, Cron(w) \in Active,
         NEW st, st = [proc[w] EXCEPT !.pc = "missing"]
  PROVE  st \in ProcStates /\ st.pc = "missing" /\ st.at = proc[w].at /\ StateOK(st)
  <1>0. w \in Procs /\ ProcOK(w) /\ proc[w] \in ProcStates
    BY Kinds DEF CronsInv, ControlTypes
  <1>1. st \in ProcStates /\ st.pc = "missing" /\ st.at = proc[w].at
    BY <1>0 DEF ProcStates, Booting
  <1> QED BY <1>0, <1>1 DEF StateOK, ProcOK, Booting, Cron

LEMMA TypesRead ==
  ASSUME CronsInv, NEW w \in Workers, Read(w)
  PROVE  CronsInv'
  <1>0. /\ w \in Procs /\ w \notin Servers /\ ProcOK(w) /\ proc[w].pc = "get" /\ proc[w].pc \in Booting
        /\ Cron(w) \in Active
    BY Kinds DEF CronsInv, Read, Booting, ProcOK, StateOK, Cron
  <1>1. Steady /\ queue' = queue \cup held[w] /\ held' = [held EXCEPT ![w] = {}] /\ UNCHANGED spent
    BY DEF Read, Steady
  <1>2. CASE Found(w)
    <2>1. PICK st \in ProcStates : st = NextCron(w)
      BY <1>0, AtCron
    <2>2. Goes(w, st) /\ StateOK(st) /\ st.pc \in {"up", "peek"}
      BY <1>0, <1>2, <2>1, AtCron DEF Read
    <2> QED BY <1>0, <1>1, <2>2, TypesGiveBack DEF WorkerPcs
  <1>3. CASE ~Found(w)
    <2>1. PICK st : st = [proc[w] EXCEPT !.pc = "missing"]
      OBVIOUS
    <2>2. Goes(w, st) /\ st \in ProcStates /\ st.pc = "missing" /\ StateOK(st)
      BY <1>0, <1>3, <2>1, Misses DEF Read
    <2> QED BY <1>0, <1>1, <2>2, TypesGiveBack DEF WorkerPcs
  <1> QED BY <1>2, <1>3

LEMMA TypesPeekFails ==
  ASSUME CronsInv, NEW w \in Workers, PeekFails(w)
  PROVE  CronsInv'
  <1>0. w \in Procs /\ w \notin Servers /\ proc[w].pc \in {"peek", "get"} /\ Cron(w) \in Active
    BY Kinds DEF PeekFails
  <1>1. Steady /\ queue' = queue \cup held[w] /\ held' = [held EXCEPT ![w] = {}] /\ Spend("fault")
    BY DEF PeekFails, Steady
  <1>2. PICK st : st = [proc[w] EXCEPT !.pc = "missing"]
    OBVIOUS
  <1>3. Goes(w, st) /\ st \in ProcStates /\ st.pc = "missing" /\ StateOK(st)
    BY <1>0, <1>2, Misses DEF PeekFails
  <1> QED BY <1>0, <1>1, <1>3, TypesGiveBack DEF WorkerPcs

LEMMA TypesFails ==
  ASSUME CronsInv, NEW p \in Procs, Fails(p)
  PROVE  CronsInv'
  <1>1. Steady /\ queue' = queue \cup held[p] /\ held' = [held EXCEPT ![p] = {}] /\ Spend("fault")
    BY DEF Fails, Steady
  <1>2. PICK st \in ProcStates : st = [Off EXCEPT !.pc = "failed"]
    BY DEF Off, ProcStates
  <1>3. Goes(p, st) /\ st.pc = "failed"
    BY <1>2 DEF Fails, Off
  <1>4. StateOK(st) /\ st.pc \in ServerPcs /\ st.pc \in WorkerPcs
    BY <1>3 DEF StateOK, Booting, ServerPcs, WorkerPcs
  <1>5. proc[p].pc # "off"
    BY DEF Fails
  <1> QED BY <1>1, <1>3, <1>4, <1>5, TypesGiveBack

LEMMA TypesLockRepair ==
  ASSUME CronsInv, NEW w \in Workers, LockRepair(w)
  PROVE  CronsInv'
  <1>0. /\ w \in Procs /\ w \notin Servers /\ ProcOK(w) /\ WorkerOK(w) /\ proc[w] \in ProcStates
        /\ proc[w].pc = "missing" /\ proc[w].pc \in Booting /\ Cron(w) \in Active /\ held[w] = {}
    BY Kinds DEF CronsInv, ControlTypes, LockRepair, Booting, ProcOK, StateOK, Cron
  <1>1. Grows /\ UNCHANGED <<now, declared, routed, queue, held, work, run, boots, spent>>
    BY SameGrows DEF LockRepair
  <1>2. /\ Cron(w) \in Crons /\ boots[w] >= 1 /\ declared /\ routed
    BY <1>0, AtCron
  <1>3. CASE Locked(w, Cron(w), NextDate(Cron(w)))
    <2>1. PICK st \in ProcStates : st = NextCron(w)
      BY <1>0, AtCron
    <2>2. Goes(w, st) /\ StateOK(st) /\ st.pc \in {"up", "peek"} /\ Alone
      BY <1>0, <1>1, <1>3, <2>1, AtCron DEF LockRepair, Alone
    <2> QED BY <1>0, <1>1, <1>2, <2>2, TypesAlone DEF WorkerPcs
  <1>4. CASE ~Locked(w, Cron(w), NextDate(Cron(w)))
    <2>1. PICK due \in Dates : due = NextDate(Cron(w))
      BY <1>2, NextDates DEF CronsInv, ControlTypes
    <2>2. PICK st : st = [proc[w] EXCEPT !.pc = "publish", !.due = due]
      OBVIOUS
    <2>3. st \in ProcStates /\ st.pc = "publish" /\ st.at = proc[w].at /\ st.due = due
      BY <1>0, <2>1, <2>2 DEF ProcStates, Booting, Dates
    <2>4. Goes(w, st) /\ locks' = [locks EXCEPT ![w] = locks[w] \cup {<<Cron(w), due>>}]
      BY <1>4, <2>1, <2>2 DEF LockRepair, Locks
    <2>5. StateOK(st)
      BY <1>0, <2>1, <2>3 DEF StateOK, ProcOK, Cron, Booting
    <2>6. PICK c \in Crons : c = Cron(w)
      BY <1>2
    <2>7. /\ locks' \in [Workers -> SUBSET (Crons \X Dates)]
          /\ locks'[w] = locks[w] \cup {<<c, due>>}
          /\ \A v \in Workers : v # w => locks'[v] = locks[v]
      BY <2>4, <2>6 DEF CronsInv, ControlTypes
    <2>8. /\ proc' \in [Procs -> ProcStates] /\ proc'[w] = st
          /\ \A q \in Procs : q # w => proc'[q] = proc[q]
          /\ \A q \in Procs : ProcOK(q)'
      <3>1. st.pc \in WorkerPcs /\ held'[w] = {} /\ boots'[w] >= 1 /\ declared'
        BY <1>0, <1>1, <1>2, <2>3 DEF WorkerPcs
      <3> QED BY <1>0, <1>1, <2>3, <2>4, <2>5, <3>1, ProcMoves
    <2>9. WorkerOK(w)'
      <3>1. RunOK(run[w])' /\ \A l \in locks[w] : l[2] = NextDate(l[1])'
        BY <1>0, <1>1 DEF WorkerOK, RunOK, NextDate
      <3>2. due = NextDate(c)'
        BY <1>1, <2>1, <2>6 DEF NextDate
      <3>3. \A l \in locks'[w] : l[2] = NextDate(l[1])'
        BY <2>7, <3>1, <3>2
      <3> QED BY <1>1, <1>2, <2>3, <2>8, <3>1, <3>3 DEF WorkerOK
    <2>10. \A v \in Workers : WorkerOK(v)'
      BY <1>0, <1>1, <2>7, <2>8, <2>9, Kinds, WorkersMove
    <2>11. Countable' /\ \A m \in Pending' : MessageOK(m)'
      <3>1. Pending' \subseteq Pending
        BY <1>1, Places, PlacesNext
      <3> QED BY <1>1, <3>1, NoMessage
    <2>12. PlaceTypes' /\ Bounded'
      BY <1>1 DEF CronsInv, PlaceTypes, Bounded
    <2>13. ControlTypes'
      BY <1>1, <2>7, <2>8 DEF CronsInv, ControlTypes
    <2> QED BY <2>8, <2>10, <2>11, <2>12, <2>13 DEF CronsInv
  <1> QED BY <1>3, <1>4

(* A publish that is confirmed, that is not, and that is not a second time.     *)
Sent(p) == IF proc[p].pc = "publish" THEN 1 ELSE 2
Sends(p, st) ==
    /\ proc[p].pc \in {"publish", "resend"} /\ queue' \in {queue, Sending(p)} /\ Goes(p, st)
    /\ Spend("fault") \/ UNCHANGED spent
    /\ UNCHANGED <<now, declared, routed, held, work, run, boots, locks>>

LEMMA AtPublish ==
  ASSUME CronsInv, NEW p \in Procs, proc[p].pc \in {"publish", "resend"}
  PROVE  /\ proc[p].pc \in Booting /\ held[p] = {} /\ declared /\ proc[p] \in ProcStates
         /\ Cron(p) \in Active /\ Cron(p) \in Crons /\ boots[p] >= 1
         /\ proc[p].due \in Dates /\ proc[p].due <= NextDate(Cron(p))
         /\ proc[p].due > now => proc[p].due = NextDate(Cron(p))
         /\ proc[p].pc = "publish" => proc[p].due = NextDate(Cron(p))
         /\ Sent(p) \in 1 .. 2 /\ Sending(p) = Put(p, Cron(p), proc[p].due, Sent(p))
  <1>1. ProcOK(p) /\ proc[p] \in ProcStates /\ proc[p].pc \in Booting
    BY DEF CronsInv, ControlTypes, Booting
  <1>2. Cron(p) \in Crons /\ boots[p] >= 1
    BY <1>1, AtCron
  <1>3. NextDate(Cron(p)) \in Dates /\ NextDate(Cron(p)) \in Nat /\ NextDate(Cron(p)) > now
    BY <1>2, NextDates DEF CronsInv, ControlTypes, Dates
  <1>4. StateOK(proc[p]) /\ declared /\ held[p] = {}
    BY <1>1 DEF ProcOK
  <1>5. /\ Cron(p) \in Active /\ proc[p].due \in Dates /\ proc[p].due <= NextDate(Cron(p))
        /\ proc[p].due > now => proc[p].due = NextDate(Cron(p))
        /\ proc[p].pc = "publish" => proc[p].due = NextDate(Cron(p))
    <2>0. PICK c \in Crons : c = Cron(p)
      BY <1>2
    <2>1. PICK d \in Nat : d = NextDate(c) /\ d <= d
      BY <1>3, <2>0
    <2>2. c = Order[proc[p].at] /\ d \in Dates
      BY <1>3, <2>0, <2>1 DEF Cron
    <2>3. CASE proc[p].pc = "publish"
      BY <1>4, <2>0, <2>1, <2>2, <2>3 DEF StateOK
    <2>4. CASE proc[p].pc = "resend"
      BY <1>4, <2>0, <2>1, <2>2, <2>4 DEF StateOK
    <2> QED BY <2>3, <2>4
  <1> QED BY <1>1, <1>2, <1>4, <1>5 DEF Sent, Sending

LEMMA Sendings ==
  ASSUME CronsInv, NEW p \in Procs
  PROVE  /\ Publish(p) => Sends(p, NextCron(p)) /\ queue' = Sending(p) /\ UNCHANGED spent
         /\ Unconfirmed(p) => /\ Sends(p, [proc[p] EXCEPT !.pc = "resend"])
                              /\ proc[p].pc = "publish" /\ Spend("fault")
         /\ UnconfirmedAgain(p) => /\ Sends(p, [Off EXCEPT !.pc = "failed"])
                                   /\ proc[p].pc = "resend" /\ UNCHANGED spent
  <1>1. Publish(p) => Sends(p, NextCron(p)) /\ queue' = Sending(p) /\ UNCHANGED spent
    BY DEF Publish, Sends
  <1>2. Unconfirmed(p) => /\ Sends(p, [proc[p] EXCEPT !.pc = "resend"])
                          /\ proc[p].pc = "publish" /\ Spend("fault")
    BY DEF Unconfirmed, Sends
  <1>3. UnconfirmedAgain(p) => /\ Sends(p, [Off EXCEPT !.pc = "failed"])
                               /\ proc[p].pc = "resend" /\ UNCHANGED spent
    BY DEF UnconfirmedAgain, Sends
  <1> QED BY <1>1, <1>2, <1>3

LEMMA TypesSends ==
  ASSUME CronsInv, NEW p \in Procs, NEW st \in ProcStates, Sends(p, st), StateOK(st),
         st.pc \in (IF p \in Servers THEN ServerPcs ELSE WorkerPcs), st.pc # "off"
  PROVE  CronsInv'
  <1>0. /\ held[p] = {} /\ Cron(p) \in Crons /\ boots[p] >= 1 /\ declared /\ proc[p].pc # "off"
        /\ proc[p].due \in Dates /\ proc[p].due <= NextDate(Cron(p)) /\ Sent(p) \in 1 .. 2
        /\ queue' \in {queue, Put(p, Cron(p), proc[p].due, Sent(p))}
    BY AtPublish DEF Sends
  <1>1. Grows /\ UNCHANGED <<now, declared, routed, held, work, run, boots, locks>>
    BY SameGrows DEF Sends
  <1>2. PlaceTypes' /\ Countable' /\ \A m \in Pending' : MessageOK(m)'
    <2>1. run' \in [Workers -> RunStates] /\ \A w \in Workers : run'[w].msg = run[w].msg
      BY <1>1 DEF CronsInv, PlaceTypes
    <2> QED BY <1>0, <1>1, <2>1, Puts
  <1>3. /\ proc' \in [Procs -> ProcStates] /\ proc'[p] = st
        /\ \A q \in Procs : q # p => proc'[q] = proc[q]
        /\ \A q \in Procs : ProcOK(q)'
    <2>1. held'[p] = {} /\ boots'[p] >= 1 /\ declared' /\ \A q \in Procs : q # p => held'[q] = held[q]
      BY <1>0, <1>1
    <2>2. Goes(p, st)
      BY DEF Sends
    <2> QED BY <1>1, <2>1, <2>2, ProcMoves
  <1>4. \A w \in Workers : WorkerOK(w)'
    <2>1. \A w \in Workers : proc'[w].pc = "off" <=> proc[w].pc = "off"
      BY <1>0, <1>3, Kinds
    <2> QED BY <1>1, <2>1, WorkersStay
  <1>5. Bounded'
    <2>1. "fault" \in DOMAIN Faults /\ (Spend("fault") \/ UNCHANGED spent)
      BY DEF Sends, Faults
    <2> QED BY <1>1, <2>1, Spends
  <1>6. ControlTypes'
    BY <1>1, <1>3 DEF CronsInv, ControlTypes
  <1> QED BY <1>2, <1>3, <1>4, <1>5, <1>6 DEF CronsInv

LEMMA TypesPublish ==
  ASSUME CronsInv, NEW p \in Procs, Publish(p)
  PROVE  CronsInv'
  <1>0. proc[p].pc \in Booting
    BY DEF Publish, Booting
  <1>1. PICK st \in ProcStates : st = NextCron(p)
    BY <1>0, AtCron
  <1>2. StateOK(st) /\ st.pc \in (IF p \in Servers THEN {"up", "count"} ELSE {"up", "peek"})
    BY <1>0, <1>1, AtCron
  <1>3. st.pc \in (IF p \in Servers THEN ServerPcs ELSE WorkerPcs) /\ st.pc # "off"
    BY <1>2 DEF ServerPcs, WorkerPcs
  <1> QED BY <1>1, <1>2, <1>3, Sendings, TypesSends

(* Where a process is before it sends again.                                    *)
LEMMA Resends ==
  ASSUME CronsInv, NEW p \in Procs, proc[p].pc = "publish",
         NEW st, st = [proc[p] EXCEPT !.pc = "resend"]
  PROVE  /\ st \in ProcStates /\ st.pc = "resend" /\ st.at = proc[p].at /\ st.due = proc[p].due
         /\ StateOK(st)
  <1>1. /\ ProcOK(p) /\ proc[p] \in ProcStates /\ Cron(p) \in Active /\ proc[p].due \in Dates
        /\ proc[p].due = NextDate(Cron(p))
    BY AtPublish DEF CronsInv
  <1>2. st \in ProcStates /\ st.pc = "resend" /\ st.at = proc[p].at /\ st.due = proc[p].due
    BY <1>1 DEF ProcStates, Booting
  <1>3. proc[p].at \in 1 .. Len(Order) /\ proc[p].due \in Nat
    BY <1>1 DEF ProcOK, StateOK, Booting, Dates
  <1> QED BY <1>1, <1>2, <1>3 DEF StateOK, Cron

LEMMA TypesUnconfirmed ==
  ASSUME CronsInv, NEW p \in Procs, Unconfirmed(p)
  PROVE  CronsInv'
  <1>1. proc[p].pc = "publish" /\ Sends(p, [proc[p] EXCEPT !.pc = "resend"])
    BY Sendings
  <1>2. PICK st : st = [proc[p] EXCEPT !.pc = "resend"]
    OBVIOUS
  <1>3. st \in ProcStates /\ st.pc = "resend" /\ StateOK(st)
    BY <1>1, <1>2, Resends
  <1>4. st.pc \in (IF p \in Servers THEN ServerPcs ELSE WorkerPcs) /\ st.pc # "off"
    BY <1>3 DEF ServerPcs, WorkerPcs
  <1> QED BY <1>1, <1>2, <1>3, <1>4, TypesSends

LEMMA TypesUnconfirmedAgain ==
  ASSUME CronsInv, NEW p \in Procs, UnconfirmedAgain(p)
  PROVE  CronsInv'
  <1>1. PICK st \in ProcStates : st = [Off EXCEPT !.pc = "failed"]
    BY DEF Off, ProcStates
  <1>2. st.pc = "failed"
    BY <1>1 DEF Off
  <1>3. StateOK(st) /\ st.pc \in (IF p \in Servers THEN ServerPcs ELSE WorkerPcs) /\ st.pc # "off"
    BY <1>2 DEF StateOK, Booting, ServerPcs, WorkerPcs
  <1> QED BY <1>1, <1>3, Sendings, TypesSends

LEMMA TypesExpire ==
  ASSUME CronsInv, Expire
  PROVE  CronsInv'
  <1>1. Grows /\ UNCHANGED <<now, declared, routed, held, run, proc, boots, locks>>
    BY SameGrows DEF Expire
  <1>2. PICK f \in queue : f = First(queue)
    BY FirstOfQueue DEF Expire, Due
  <1>3. PICK x : x = [f EXCEPT !.pos = 0]
    OBVIOUS
  <1>4. f \in Messages /\ MessageOK(f)
    BY Places DEF CronsInv, PlaceTypes
  <1>5. x \in Messages /\ x.cron = f.cron /\ x.due = f.due /\ x.by = f.by
    BY <1>3, <1>4 DEF Messages
  <1>6. queue' = queue \ {f} /\ (work' = work \cup {x} \/ work' = work)
    BY <1>2, <1>3 DEF Expire
  <1>7. PlaceTypes'
    BY <1>1, <1>5, <1>6 DEF CronsInv, PlaceTypes
  <1>8. Countable' /\ \A m \in Pending' : MessageOK(m)'
    <2>1. MessageOK(x)
      BY <1>4, <1>5 DEF MessageOK
    <2>2. Pending' \subseteq Pending \cup {x}
      BY <1>1, <1>6, Places, PlacesNext
    <2> QED BY <1>1, <1>5, <2>1, <2>2, OneMessage
  <1>9. proc' \in [Procs -> ProcStates] /\ \A q \in Procs : ProcOK(q)'
    BY <1>1, ProcsStay
  <1>10. \A w \in Workers : WorkerOK(w)'
    BY <1>1, WorkersStay
  <1>11. Bounded'
    BY <1>1, Spends DEF Expire, Faults
  <1>12. ControlTypes'
    BY <1>1, <1>9, Settles DEF Grows
  <1> QED BY <1>7, <1>8, <1>9, <1>10, <1>11, <1>12 DEF CronsInv

(* The consumer of a worker.                                                    *)
Consumes == UNCHANGED <<now, declared, routed, held, proc, boots, spent>>

LEMMA TypesConsumer ==
  ASSUME CronsInv, Consumes, NEW w \in Workers, proc[w].pc # "off",
         run' \in [Workers -> RunStates], \A v \in Workers : v # w => run'[v] = run[v],
         locks' \in [Workers -> SUBSET (Crons \X Dates)], \A v \in Workers : v # w => locks'[v] = locks[v],
         \A l \in locks'[w] : l[2] = NextDate(l[1]), RunOK(run[w])',
         PlaceTypes', Countable', \A m \in Pending' : MessageOK(m)'
  PROVE  CronsInv'
  <1>1. Grows /\ UNCHANGED <<now, declared, routed, held, proc, boots, spent>>
    BY SameGrows DEF Consumes
  <1>2. proc' \in [Procs -> ProcStates] /\ \A q \in Procs : ProcOK(q)'
    BY <1>1, ProcsStay
  <1>3. \A l \in locks'[w] : l[2] = NextDate(l[1])'
    BY <1>1 DEF NextDate
  <1>4. WorkerOK(w)'
    BY <1>1, <1>3 DEF CronsInv, WorkerOK
  <1>5. \A v \in Workers : WorkerOK(v)'
    BY <1>1, <1>4, Kinds, WorkersMove
  <1>6. Bounded' /\ ControlTypes'
    BY <1>1, <1>2 DEF CronsInv, Bounded, ControlTypes
  <1> QED BY <1>2, <1>5, <1>6 DEF CronsInv

(* What the consumer of a worker does with a message it is given.               *)
Discarded(w, m) == m.cron \notin Active /\ UNCHANGED <<run, locks>>
RunAtOnce(w, m) ==
    /\ m.cron \in Active /\ <<m.cron, NextDate(m.cron)>> \in locks[w] /\ UNCHANGED locks
    /\ run' = [run EXCEPT ![w] = [Waiting EXCEPT !.pc = "running", !.msg = {m}]]
Schedules(w, m) ==
    /\ m.cron \in Active /\ <<m.cron, NextDate(m.cron)>> \notin locks[w]
    /\ locks' = [locks EXCEPT ![w] = @ \cup {<<m.cron, NextDate(m.cron)>>}]
    /\ run' = [run EXCEPT ![w] = [pc |-> "publish", msg |-> {m}, due |-> NextDate(m.cron)]]

LEMMA Handles ==
  ASSUME CronsInv, NEW w \in Workers, Handle(w)
  PROVE  /\ Consumes /\ queue' = queue /\ proc[w].pc # "off" /\ run[w].pc = "idle" /\ run[w].msg = {}
         /\ \E m \in work : /\ m \in Messages /\ work' = work \ {m}
                            /\ Discarded(w, m) \/ RunAtOnce(w, m) \/ Schedules(w, m)
  <1>1. Consumes /\ queue' = queue /\ proc[w].pc # "off" /\ run[w].pc = "idle" /\ run[w].msg = {}
    BY DEF Handle, Consumes, CronsInv, WorkerOK, RunOK
  <1>2. PICK m \in work :
          /\ work' = work \ {m}
          /\ \/ /\ m.cron \notin Active
                /\ UNCHANGED <<run, locks>>
             \/ /\ m.cron \in Active /\ Locked(w, m.cron, NextDate(m.cron))
                /\ run' = [run EXCEPT ![w] = [Waiting EXCEPT !.pc = "running", !.msg = {m}]]
                /\ UNCHANGED locks
             \/ /\ m.cron \in Active /\ ~Locked(w, m.cron, NextDate(m.cron))
                /\ run' = [run EXCEPT ![w] = [pc |-> "publish", msg |-> {m}, due |-> NextDate(m.cron)]]
                /\ Locks(w, m.cron, NextDate(m.cron))
    BY DEF Handle
  <1>4. m \in Messages
    BY DEF CronsInv, PlaceTypes
  <1>5. Discarded(w, m) \/ RunAtOnce(w, m) \/ Schedules(w, m)
    BY <1>2 DEF Discarded, RunAtOnce, Schedules, Locked, Locks
  <1> QED BY <1>1, <1>2, <1>4, <1>5

LEMMA TypesHandle ==
  ASSUME CronsInv, NEW w \in Workers, Handle(w)
  PROVE  CronsInv'
  <1>0. /\ Consumes /\ queue' = queue /\ proc[w].pc # "off" /\ run[w].msg = {}
        /\ w \in Procs /\ WorkerOK(w) /\ UNCHANGED <<held, now>>
    BY Handles, Kinds DEF CronsInv, Consumes
  <1>1. PICK m \in work : /\ m \in Messages /\ work' = work \ {m}
                          /\ Discarded(w, m) \/ RunAtOnce(w, m) \/ Schedules(w, m)
    BY Handles
  <1>2. PICK c \in Crons, due \in Dates : c = m.cron /\ due = NextDate(c) /\ due \in Nat
    BY <1>1, NextDates DEF Messages, CronsInv, ControlTypes, Dates
  <1>3. /\ run \in [Workers -> RunStates] /\ locks \in [Workers -> SUBSET (Crons \X Dates)]
        /\ \A l \in locks[w] : l[2] = NextDate(l[1])
    BY <1>0 DEF CronsInv, PlaceTypes, ControlTypes, WorkerOK
  <1>4. PICK pc \in {"idle", "running", "publish"}, ms \in SUBSET {m}, d \in {0, due} :
          /\ run' \in [Workers -> RunStates] /\ \A v \in Workers : v # w => run'[v] = run[v]
          /\ run'[w].pc = pc /\ run'[w].msg = ms
          /\ pc = "idle" => ms = {}
          /\ pc # "idle" => ms = {m}
          /\ pc = "publish" => run'[w].due = due /\ m.cron \in Active
    <2>1. CASE Discarded(w, m)
      BY <1>0, <1>3, <2>1, Handles DEF Discarded
    <2>2. CASE RunAtOnce(w, m)
      <3>1. PICK r : r = [Waiting EXCEPT !.pc = "running", !.msg = {m}]
        OBVIOUS
      <3>2. r \in RunStates /\ r.pc = "running" /\ r.msg = {m}
        BY <1>1, <3>1 DEF RunStates, Waiting
      <3>3. run' = [run EXCEPT ![w] = r]
        BY <2>2, <3>1 DEF RunAtOnce
      <3> QED BY <1>3, <3>2, <3>3
    <2>3. CASE Schedules(w, m)
      <3>1. PICK r \in RunStates : r = [pc |-> "publish", msg |-> {m}, due |-> due]
        BY <1>1, <1>2 DEF RunStates
      <3>2. run' = [run EXCEPT ![w] = r] /\ r.pc = "publish" /\ r.msg = {m} /\ r.due = due /\ m.cron \in Active
        BY <1>2, <2>3, <3>1 DEF Schedules
      <3> QED BY <1>3, <3>2
    <2> QED BY <1>1, <2>1, <2>2, <2>3
  <1>5. RunOK(run[w])'
    <2>1. due = NextDate(c)'
      BY <1>0, <1>2 DEF NextDate
    <2> QED BY <1>1, <1>2, <1>4, <2>1 DEF RunOK
  <1>6. /\ locks' \in [Workers -> SUBSET (Crons \X Dates)] /\ \A v \in Workers : v # w => locks'[v] = locks[v]
        /\ \A l \in locks'[w] : l[2] = NextDate(l[1])
    <2>1. CASE locks' = locks
      BY <1>3, <2>1
    <2>2. CASE locks' = [locks EXCEPT ![w] = @ \cup {<<c, due>>}]
      <3>1. locks' \in [Workers -> SUBSET (Crons \X Dates)]
        BY <1>2, <1>3, <2>2
      <3>2. locks'[w] = locks[w] \cup {<<c, due>>} /\ \A v \in Workers : v # w => locks'[v] = locks[v]
        BY <1>3, <2>2
      <3> QED BY <1>2, <1>3, <3>1, <3>2
    <2> QED BY <1>1, <1>2, <2>1, <2>2 DEF Discarded, RunAtOnce, Schedules
  <1>7. PlaceTypes'
    BY <1>0, <1>1, <1>4 DEF CronsInv, PlaceTypes
  <1>8. Countable' /\ \A x \in Pending' : MessageOK(x)'
    <2>1. \A x : x \in Pending' => x \in Pending
      BY <1>0, <1>1, <1>4, Places, PlacesNext
    <2> QED BY <1>0, <2>1, NoMessage, SameGrows DEF Consumes
  <1> QED BY <1>0, <1>4, <1>5, <1>6, <1>7, <1>8, TypesConsumer

LEMMA TypesPublishNext ==
  ASSUME CronsInv, NEW w \in Workers, PublishNext(w)
  PROVE  CronsInv'
  <1>0. /\ w \in Procs /\ WorkerOK(w) /\ run \in [Workers -> RunStates] /\ run[w].pc = "publish"
        /\ Consumes /\ UNCHANGED <<locks, held, work>> /\ locks \in [Workers -> SUBSET (Crons \X Dates)]
    BY Kinds DEF CronsInv, PlaceTypes, ControlTypes, PublishNext, Consumes
  <1>1. PICK m \in Messages : run[w].msg = {m} /\ m.cron \in Active /\ run[w].due = NextDate(m.cron)
    BY <1>0 DEF WorkerOK, RunOK
  <1>2. proc[w].pc # "off"
    BY <1>0 DEF WorkerOK, Waiting
  <1>3. PICK r : r = [run[w] EXCEPT !.pc = "running", !.due = 0]
    OBVIOUS
  <1>4. r \in RunStates /\ r.pc = "running" /\ r.msg = {m} /\ run' = [run EXCEPT ![w] = r]
    BY <1>0, <1>1, <1>3 DEF RunStates, PublishNext
  <1>5. /\ run' \in [Workers -> RunStates] /\ run'[w] = r
        /\ \A v \in Workers : v # w => run'[v] = run[v]
    BY <1>0, <1>4
  <1>6. PlaceTypes' /\ Countable' /\ \A x \in Pending' : MessageOK(x)'
    <2>0. PICK c \in Crons : c = m.cron
      BY DEF Messages
    <2>1. PICK due \in Dates : due = NextDate(c) /\ due <= NextDate(c)
      <3>1. NextDate(c) \in Dates
        BY NextDates DEF CronsInv, ControlTypes
      <3> QED BY <3>1 DEF Dates
    <2>2. queue' = Put(w, c, due, 1)
      BY <1>1, <2>0, <2>1 DEF PublishNext
    <2>3. \A v \in Workers : run'[v].msg = run[v].msg
      BY <1>1, <1>4, <1>5
    <2>4. Grows /\ now' = now
      BY <1>0, SameGrows DEF Consumes
    <2>5. 1 \in 1 .. 2
      OBVIOUS
    <2> QED BY <1>0, <1>5, <2>1, <2>2, <2>3, <2>4, <2>5, Puts
  <1>7. RunOK(run[w])'
    BY <1>4, <1>5 DEF RunOK
  <1>8. \A l \in locks'[w] : l[2] = NextDate(l[1])
    BY <1>0 DEF WorkerOK
  <1> QED BY <1>0, <1>2, <1>5, <1>6, <1>7, <1>8, TypesConsumer

LEMMA TypesEnds ==
  ASSUME CronsInv, NEW w \in Workers, Ends(w)
  PROVE  CronsInv'
  <1>0. /\ w \in Procs /\ WorkerOK(w) /\ run \in [Workers -> RunStates] /\ run[w].pc = "running"
        /\ Consumes /\ UNCHANGED <<locks, held, work, queue, now>> /\ locks \in [Workers -> SUBSET (Crons \X Dates)]
    BY Kinds DEF CronsInv, PlaceTypes, ControlTypes, Ends, Consumes
  <1>1. PICK r \in RunStates : r = Waiting
    BY DEF RunStates, Waiting
  <1>2. r.pc = "idle" /\ r.msg = {} /\ run' = [run EXCEPT ![w] = r]
    BY <1>1 DEF Ends, Waiting
  <1>3. /\ run' \in [Workers -> RunStates] /\ run'[w] = r
        /\ \A v \in Workers : v # w => run'[v] = run[v]
    BY <1>0, <1>2
  <1>4. proc[w].pc # "off"
    BY <1>0 DEF WorkerOK, Waiting
  <1>5. PlaceTypes'
    BY <1>0, <1>3 DEF CronsInv, PlaceTypes
  <1>6. Countable' /\ \A x \in Pending' : MessageOK(x)'
    <2>1. \A x : x \in Pending' => x \in Pending
      BY <1>0, <1>2, <1>3, Places, PlacesNext
    <2> QED BY <1>0, <2>1, NoMessage, SameGrows DEF Consumes
  <1>7. RunOK(run[w])'
    BY <1>2, <1>3 DEF RunOK
  <1>8. \A l \in locks'[w] : l[2] = NextDate(l[1])
    BY <1>0 DEF WorkerOK
  <1> QED BY <1>0, <1>3, <1>4, <1>5, <1>6, <1>7, <1>8, TypesConsumer

(* A second passes: what is not due yet keeps its date.                         *)
LEMMA TickDates ==
  ASSUME CronsInv, Tick, NEW c \in Crons
  PROVE  /\ NextDate(c)' \in Nat /\ NextDate(c) \in Nat /\ NextDate(c) <= NextDate(c)'
         /\ NextDate(c) > now' => NextDate(c)' = NextDate(c)
  <1>1. PICK d \in Nat \ {0} : d = Period[c]
    BY CronsAssumption
  <1>2. PICK n \in Nat : n = now /\ now' = n + 1
    BY DEF CronsInv, ControlTypes, Tick
  <1>3. PICK a \in Nat, b \in Nat : a = d * (n \div d + 1) /\ b = d * ((n + 1) \div d + 1)
    <2>1. n + 1 \in Nat
      OBVIOUS
    <2>2. d * (n \div d + 1) \in Nat /\ d * ((n + 1) \div d + 1) \in Nat
      BY <2>1, Division
    <2> QED BY <2>2
  <1>4. a <= b
    BY <1>3, LaterDate
  <1>5. a > n + 1 => a = b
    BY <1>3, SameDate
  <1>6. NextDate(c) = a /\ NextDate(c)' = b
    BY <1>1, <1>2, <1>3 DEF NextDate
  <1> QED BY <1>2, <1>4, <1>5, <1>6

LEMMA TypesTick ==
  ASSUME CronsInv, Tick
  PROVE  CronsInv'
  <1>1. /\ UNCHANGED <<declared, routed, queue, held, work, run, proc, boots, spent>>
        /\ now \in Nat /\ now' = now + 1 /\ now' <= MaxTime
        /\ locks' = [w \in Workers |-> {l \in locks[w] : l[2] > now'}]
        /\ locks \in [Workers -> SUBSET (Crons \X Dates)]
        /\ \A p \in Procs : proc[p].pc # "publish"
        /\ \A w \in Workers : run[w].pc # "publish"
    BY CronsAssumption DEF Tick, CronsInv, ControlTypes
  <1>2. ControlTypes'
    <2>1. locks' \in [Workers -> SUBSET (Crons \X Dates)]
      BY <1>1
    <2>2. now' \in Nat
      BY <1>1
    <2> QED BY <1>1, <2>1, <2>2 DEF CronsInv, ControlTypes
  <1>3. PlaceTypes' /\ Bounded'
    BY <1>1 DEF CronsInv, PlaceTypes, Bounded
  <1>4. \A m : m \in Pending' <=> m \in Pending
    BY <1>1, Places, PlacesNext
  <1>5. Countable'
    <2>1. Pending' = Pending
      BY <1>4
    <2> QED BY <2>1 DEF CronsInv, Countable
  <1>6. ASSUME NEW p \in Procs PROVE ProcOK(p)'
    <2>1. ProcOK(p) /\ proc[p].pc # "publish"
      BY <1>1 DEF CronsInv
    <2>2. CASE proc[p].pc = "resend"
      <3>0. Cron(p) \in Crons /\ proc[p].due \in Nat
        BY <2>2, AtPublish DEF Dates
      <3>1. PICK c \in Crons, due \in Nat : c = Order[proc[p].at] /\ due = proc[p].due
        BY <3>0 DEF Cron
      <3>2. c \in Active /\ due \in Dates /\ due <= NextDate(c) /\ (due > now => due = NextDate(c))
        BY <2>1, <2>2, <3>1 DEF ProcOK, StateOK
      <3>3. /\ NextDate(c)' \in Nat /\ NextDate(c) \in Nat /\ NextDate(c) <= NextDate(c)'
            /\ NextDate(c) > now' => NextDate(c)' = NextDate(c)
        BY TickDates
      <3>4. due <= NextDate(c)' /\ (due > now' => due > now)
        BY <1>1, <3>2, <3>3
      <3>5. StateOK(proc[p])'
        BY <1>1, <2>1, <2>2, <3>1, <3>2, <3>3, <3>4 DEF ProcOK, StateOK
      <3> QED BY <1>1, <2>1, <3>5 DEF ProcOK
    <2>3. CASE proc[p].pc # "resend"
      BY <1>1, <2>1, <2>3 DEF ProcOK, StateOK
    <2> QED BY <2>2, <2>3
  <1>7. ASSUME NEW w \in Workers PROVE WorkerOK(w)'
    <2>1. WorkerOK(w)
      BY DEF CronsInv
    <2>2. RunOK(run[w])'
      BY <1>1, <2>1 DEF WorkerOK, RunOK
    <2>3. ASSUME NEW l \in locks'[w] PROVE l[2] = NextDate(l[1])'
      <3>1. l \in locks[w] /\ l[2] > now'
        BY <1>1
      <3>2. PICK c \in Crons : c = l[1]
        BY <1>1, <3>1
      <3>3. l[2] = NextDate(c)
        BY <2>1, <3>1, <3>2 DEF WorkerOK
      <3> QED BY <3>1, <3>2, <3>3, TickDates
    <2>4. locks[w] = {} => locks'[w] = {}
      BY <1>1
    <2> QED BY <1>1, <2>1, <2>2, <2>3, <2>4 DEF WorkerOK
  <1>8. ASSUME NEW m \in Pending' PROVE MessageOK(m)'
    <2>1. m \in Messages /\ MessageOK(m)
      BY <1>4, AllMessages DEF CronsInv
    <2>2. PICK c \in Crons, due \in Nat : c = m.cron /\ due = m.due
      BY <2>1 DEF Messages, Dates
    <2>3. due <= NextDate(c)
      BY <2>1, <2>2 DEF MessageOK
    <2>4. due <= NextDate(c)'
      BY <2>3, TickDates
    <2> QED BY <1>1, <2>1, <2>2, <2>4 DEF MessageOK
  <1> QED BY <1>2, <1>3, <1>5, <1>6, <1>7, <1>8 DEF CronsInv

LEMMA CrashPlaces ==
  ASSUME CronsInv, NEW p \in Procs, Crash(p)
  PROVE  /\ PlaceTypes' /\ Pending' \subseteq Pending
         /\ queue' = queue \cup held[p]
         /\ held'[p] = {} /\ \A q \in Procs : q # p => held'[q] = held[q]
         /\ \A w \in Workers : w # p => run'[w] = run[w]
         /\ p \in Workers => run'[p] = Waiting /\ run'[p].msg = {} /\ work' = work \cup run[p].msg
         /\ p \notin Workers => work' = work
  <1>1. PICK r \in RunStates : r = Waiting
    BY DEF RunStates, Waiting
  <1>2. r.msg = {}
    BY <1>1 DEF Waiting
  <1>3. /\ queue' = queue \cup held[p] /\ held' = [held EXCEPT ![p] = {}]
        /\ IF p \in Workers THEN work' = work \cup run[p].msg /\ run' = [run EXCEPT ![p] = r]
                            ELSE work' = work /\ run' = run
    BY <1>1 DEF Crash
  <1>4. /\ held \in [Procs -> SUBSET Messages] /\ run \in [Workers -> RunStates]
        /\ queue \subseteq Messages /\ work \subseteq Messages
    BY DEF CronsInv, PlaceTypes
  <1>5. held'[p] = {} /\ (\A q \in Procs : q # p => held'[q] = held[q]) /\ held' \in [Procs -> SUBSET Messages]
    BY <1>3, <1>4
  <1>6. CASE p \in Workers
    <2>1. run' \in [Workers -> RunStates] /\ run'[p] = r /\ \A w \in Workers : w # p => run'[w] = run[w]
      BY <1>3, <1>4, <1>6
    <2>2. run[p].msg \subseteq Messages
      BY <1>4, <1>6 DEF RunStates
    <2>3. work' = work \cup run[p].msg
      BY <1>3, <1>6
    <2>4. PlaceTypes'
      BY <1>3, <1>4, <1>5, <2>1, <2>2, <2>3 DEF PlaceTypes
    <2>5. \A m : m \in Pending' => m \in Pending
      BY <1>2, <1>3, <1>5, <1>6, <2>1, <2>3, Places, PlacesNext
    <2> QED BY <1>1, <1>2, <1>3, <1>5, <1>6, <2>1, <2>3, <2>4, <2>5
  <1>7. CASE p \notin Workers
    <2>1. run' = run /\ work' = work
      BY <1>3, <1>7
    <2>2. PlaceTypes'
      BY <1>3, <1>4, <1>5, <2>1 DEF PlaceTypes
    <2>3. \A m : m \in Pending' => m \in Pending
      BY <1>3, <1>5, <2>1, Places, PlacesNext
    <2> QED BY <1>3, <1>5, <1>7, <2>1, <2>2, <2>3
  <1> QED BY <1>6, <1>7

LEMMA TypesCrash ==
  ASSUME CronsInv, NEW p \in Procs, Crash(p)
  PROVE  CronsInv'
  <1>1. /\ PlaceTypes' /\ Pending' \subseteq Pending
        /\ held'[p] = {} /\ \A q \in Procs : q # p => held'[q] = held[q]
        /\ \A w \in Workers : w # p => run'[w] = run[w]
        /\ p \in Workers => run'[p] = Waiting
    BY CrashPlaces
  <1>2. Grows /\ UNCHANGED <<now, declared, routed, boots>> /\ Spend("fault")
    BY SameGrows DEF Crash
  <1>3. PICK st \in ProcStates : st = Off
    BY DEF Off, ProcStates
  <1>4. Goes(p, st) /\ st.pc = "off" /\ st.pc \in ServerPcs /\ st.pc \in WorkerPcs /\ StateOK(st)
    BY <1>3 DEF Crash, Off, ServerPcs, WorkerPcs, StateOK, Booting
  <1>5. /\ proc' \in [Procs -> ProcStates] /\ proc'[p] = st
        /\ \A q \in Procs : q # p => proc'[q] = proc[q]
        /\ \A q \in Procs : ProcOK(q)'
    BY <1>1, <1>2, <1>4, ProcMoves
  <1>6. locks \in [Workers -> SUBSET (Crons \X Dates)]
    BY DEF CronsInv, ControlTypes
  <1>7. IF p \in Workers THEN locks' = [locks EXCEPT ![p] = {}] ELSE locks' = locks
    BY DEF Crash
  <1>8. /\ locks' \in [Workers -> SUBSET (Crons \X Dates)]
        /\ \A w \in Workers : w # p => locks'[w] = locks[w]
        /\ p \in Workers => locks'[p] = {}
    BY <1>6, <1>7
  <1>9. ASSUME p \in Workers PROVE WorkerOK(p)'
    <2>1. run'[p].pc = "idle" /\ run'[p].msg = {}
      BY <1>1, <1>9 DEF Waiting
    <2>2. RunOK(run[p])'
      BY <2>1 DEF RunOK
    <2> QED BY <1>1, <1>4, <1>5, <1>8, <1>9, <2>2 DEF WorkerOK
  <1>10. \A w \in Workers : WorkerOK(w)'
    BY <1>1, <1>2, <1>5, <1>8, <1>9, Kinds, WorkersMove
  <1>11. Countable' /\ \A m \in Pending' : MessageOK(m)'
    BY <1>1, <1>2, NoMessage
  <1>12. Bounded'
    BY <1>2, Spends DEF Faults
  <1>13. ControlTypes'
    BY <1>2, <1>5, <1>8 DEF CronsInv, ControlTypes
  <1> QED BY <1>1, <1>5, <1>10, <1>11, <1>12, <1>13 DEF CronsInv

LEMMA TypesStep ==
  ASSUME CronsInv, [Next]_vars
  PROVE  CronsInv'
  <1>1. CASE Expire \/ Tick
    BY <1>1, TypesExpire, TypesTick
  <1>2. CASE \E s \in Servers : BootServer(s) \/ Push(s)
    BY <1>2, TypesBootServer, TypesPush
  <1>3. CASE \E w \in Workers : BootWorker(w) \/ PeekFails(w) \/ Handle(w) \/ PublishNext(w) \/ Ends(w)
    BY <1>3, TypesBootWorker, TypesPeekFails, TypesHandle, TypesPublishNext, TypesEnds
  <1>4. CASE \E p \in Procs : BootStep(p) \/ Unconfirmed(p) \/ UnconfirmedAgain(p) \/ Fails(p) \/ Crash(p)
    <2>1. CASE \E p \in Procs : Publish(p) \/ Unconfirmed(p) \/ UnconfirmedAgain(p) \/ Fails(p) \/ Crash(p)
      BY <2>1, TypesPublish, TypesUnconfirmed, TypesUnconfirmedAgain, TypesFails, TypesCrash
    <2>2. CASE \E s \in Servers : Ensure(s) \/ Count(s) \/ Receive(s) \/ Closed(s)
      BY <2>2, TypesEnsure, TypesCount, TypesReceive, TypesClosed
    <2>3. CASE \E w \in Workers : \/ RepairBegins(w) \/ SkipInactive(w) \/ Peek(w) \/ Get(w) \/ Read(w)
                                  \/ LockRepair(w)
      BY <2>3, TypesRepairBegins, TypesSkipInactive, TypesPeek, TypesGet, TypesRead, TypesLockRepair
    <2> QED BY <1>4, <2>1, <2>2, <2>3 DEF BootStep
  <1>5. CASE UNCHANGED vars
    <2>1. /\ PlaceTypes' /\ ControlTypes' /\ Bounded' /\ Pending' = Pending
          /\ \A c : NextDate(c)' = NextDate(c)
      BY <1>5 DEF vars, CronsInv, PlaceTypes, ControlTypes, Bounded, Pending, Running, NextDate
    <2>2. Countable' /\ \A m \in Pending' : MessageOK(m)'
      BY <1>5, <2>1 DEF vars, CronsInv, Countable, MessageOK
    <2>3. ASSUME NEW p \in Procs PROVE ProcOK(p)'
      BY <1>5, <2>1 DEF vars, CronsInv, ProcOK, StateOK
    <2>4. ASSUME NEW w \in Workers PROVE WorkerOK(w)'
      BY <1>5, <2>1 DEF vars, CronsInv, WorkerOK, RunOK
    <2> QED BY <2>1, <2>2, <2>3, <2>4 DEF CronsInv
  <1> QED BY <1>1, <1>2, <1>3, <1>4, <1>5 DEF Next

LEMMA TypesHold ==
  ASSUME CronsInv
  PROVE  CronsTypeOK
  <1>1. /\ now \in 0 .. MaxTime /\ declared \in BOOLEAN /\ routed \in BOOLEAN
        /\ boots \in [Procs -> 0 .. MaxBoots] /\ locks \in [Workers -> SUBSET (Crons \X Dates)]
    BY CronsAssumption DEF CronsInv, ControlTypes, Bounded
  <1>2. Pending \subseteq Messages /\ \A m \in Pending : m.due <= NextDate(m.cron)
    BY AllMessages DEF CronsInv, MessageOK
  <1>3. ASSUME NEW w \in Workers
        PROVE  /\ run[w].pc \in {"idle", "publish", "running"}
               /\ Cardinality(run[w].msg) = IF run[w].pc = "idle" THEN 0 ELSE 1
    <2>1. run[w].pc \in {"idle", "publish", "running"} /\ RunOK(run[w])
      BY DEF CronsInv, PlaceTypes, RunStates, WorkerOK
    <2>2. CASE run[w].pc = "idle"
      BY <2>1, <2>2, FS_EmptySet DEF RunOK
    <2>3. CASE run[w].pc # "idle"
      <3>1. PICK m \in Messages : run[w].msg = {m}
        BY <2>1, <2>3 DEF RunOK
      <3>2. Cardinality({m}) = 1
        BY FS_Singleton
      <3> QED BY <2>1, <2>3, <3>1, <3>2
    <2> QED BY <2>2, <2>3
  <1>4. ASSUME NEW p \in Procs
        PROVE  /\ proc[p].pc \in Booting \cup {"off", "timer", "failed", "up"}
               /\ proc[p].pc \in Booting => proc[p].at \in 1 .. Len(Order)
               /\ proc[p].left \in Nat
               /\ proc[p].pc \notin {"drain", "closing", "get"} => held[p] = {}
               /\ proc[p].pc = "off" /\ p \in Workers => run[p] = Waiting
    BY DEF CronsInv, ControlTypes, ProcStates, ProcOK, StateOK, WorkerOK
  <1>5. \A f \in DOMAIN Faults : spent[f] \in 0 .. Faults[f]
    BY CronsAssumption DEF CronsInv, Bounded, Faults
  <1> QED BY <1>1, <1>2, <1>3, <1>4, <1>5 DEF CronsTypeOK

(* CronsTypeOK: what is scheduled is never due after the next date of its cron. *)
THEOREM CronsTypeCorrect == Spec => []CronsTypeOK
  <1>1. Init => CronsInv
    BY InitTypes
  <1>2. CronsInv /\ [Next]_vars => CronsInv'
    BY TypesStep
  <1>3. CronsInv => CronsTypeOK
    BY TypesHold
  <1> QED BY <1>1, <1>2, <1>3, PTL DEF Spec

-------------------------------------------------------------------------------
(* Where each step takes the messages.                                          *)

LEMMA Taken ==
  ASSUME CronsInv, NEW p \in Procs, Receive(p) \/ Push(p) \/ Get(p)
  PROVE  /\ UNCHANGED <<work, run, boots, now, locks, declared, routed>>
         /\ \A q \in Procs : q # p => held'[q] = held[q] /\ proc'[q] = proc[q]
         /\ \E f \in queue : /\ queue' = queue \ {f} /\ held'[p] \subseteq held[p] \cup {f}
                             /\ \/ held'[p] = held[p] \cup {f}
                                \/ Receive(p) /\ f.cron = Cron(p) /\ held'[p] = held[p]
  <1>1. /\ UNCHANGED <<work, run, boots, now, locks, declared, routed>>
        /\ queue # {} /\ queue' = queue \ {First(queue)}
    BY DEF Receive, Push, Get
  <1>2. PICK f \in queue : f = First(queue)
    BY <1>1, FirstOfQueue
  <1>3. PICK h : /\ held' = [held EXCEPT ![p] = h]
                 /\ h = held[p] \cup {f} \/ (Receive(p) /\ f.cron = Cron(p) /\ h = held[p])
    <2>1. CASE Receive(p)
      BY <1>2, <2>1 DEF Receive, Kept
    <2>2. CASE Push(p) \/ Get(p)
      BY <1>2, <2>2 DEF Push, Get
    <2> QED BY <2>1, <2>2
  <1>4. held'[p] = h /\ \A q \in Procs : q # p => held'[q] = held[q]
    BY <1>3 DEF CronsInv, PlaceTypes
  <1>5. \A q \in Procs : q # p => proc'[q] = proc[q]
    BY DEF Receive, Push, Get, Goes, CronsInv, ControlTypes
  <1> QED BY <1>1, <1>2, <1>3, <1>4, <1>5

LEMMA Returned ==
  ASSUME CronsInv, NEW p \in Procs, Closed(p) \/ Read(p) \/ PeekFails(p) \/ Fails(p)
  PROVE  /\ UNCHANGED <<work, run, boots, now, locks, declared, routed>>
         /\ queue' = queue \cup held[p] /\ held'[p] = {}
         /\ \A q \in Procs : q # p => held'[q] = held[q] /\ proc'[q] = proc[q]
  <1>1. /\ UNCHANGED <<work, run, boots, now, locks, declared, routed>>
        /\ queue' = queue \cup held[p] /\ held' = [held EXCEPT ![p] = {}]
    BY DEF Closed, Read, PeekFails, Fails
  <1>2. \A q \in Procs : q # p => proc'[q] = proc[q]
    BY DEF Closed, Read, PeekFails, Fails, Goes, CronsInv, ControlTypes
  <1> QED BY <1>1, <1>2 DEF CronsInv, PlaceTypes

LEMMA Expired ==
  ASSUME CronsInv, Expire
  PROVE  /\ UNCHANGED <<now, declared, routed, held, run, proc, boots, locks>>
         /\ \E f \in queue, x \in Messages :
              /\ x.cron = f.cron /\ x.due = f.due /\ x.by = f.by /\ x.send = f.send /\ f.due <= now
              /\ queue' = queue \ {f}
              /\ work' = IF routed THEN work \cup {x} ELSE work
  <1>1. UNCHANGED <<now, declared, routed, held, run, proc, boots, locks>>
    BY DEF Expire
  <1>2. PICK f \in queue : f = First(queue) /\ f.due <= now
    BY FirstOfQueue DEF Expire, Due
  <1>3. PICK x : x = [f EXCEPT !.pos = 0]
    OBVIOUS
  <1>4. x \in Messages /\ x.cron = f.cron /\ x.due = f.due /\ x.by = f.by /\ x.send = f.send
    BY <1>3 DEF CronsInv, PlaceTypes, Messages
  <1>5. queue' = queue \ {f} /\ work' = IF routed THEN work \cup {x} ELSE work
    BY <1>2, <1>3 DEF Expire
  <1> QED BY <1>1, <1>2, <1>4, <1>5

(* A publish, of a boot or of a consumer.                                       *)
Publishes(p, c, due, send) ==
    /\ UNCHANGED <<now, declared, routed, held, work, boots, locks>>
    /\ \E x \in Messages : /\ x \notin Pending /\ x.cron = c /\ x.due = due /\ x.send = send
                           /\ x.by = <<p, boots[p]>> /\ queue' = queue \cup {x}
LEMMA WasSent ==
  ASSUME CronsInv, NEW p \in Procs, NEW st, Sends(p, st)
  PROVE  /\ \/ queue' = Sending(p) /\ Publishes(p, Cron(p), proc[p].due, Sent(p))
            \/ queue' # Sending(p) /\ queue' = queue
         /\ UNCHANGED <<now, declared, routed, held, work, boots, locks, run>>
         /\ proc'[p] = st /\ \A q \in Procs : q # p => proc'[q] = proc[q]
  <1>1. /\ proc[p].pc \in {"publish", "resend"} /\ queue' \in {queue, Sending(p)}
        /\ UNCHANGED <<now, declared, routed, held, work, boots, locks, run>>
    BY DEF Sends
  <1>2. /\ declared /\ Cron(p) \in Crons /\ proc[p].due \in Dates /\ Sent(p) \in 1 .. 2
        /\ Sending(p) = Put(p, Cron(p), proc[p].due, Sent(p))
    BY <1>1, AtPublish
  <1>3. PICK c \in Crons, due \in Dates, send \in 1 .. 2 : c = Cron(p) /\ due = proc[p].due /\ send = Sent(p)
    BY <1>2
  <1>4. PICK x \in Messages : x = New(p, c, due, send)
    BY NewMessage
  <1>5. /\ x \notin Pending /\ x.cron = c /\ x.due = due /\ x.by = <<p, boots[p]>> /\ x.send = send
        /\ Sending(p) = queue \cup {x}
    BY <1>2, <1>3, <1>4, NewMessage
  <1>6. queue' = Sending(p) => Publishes(p, c, due, send)
    BY <1>1, <1>5 DEF Publishes
  <1>7. proc'[p] = st /\ \A q \in Procs : q # p => proc'[q] = proc[q]
    BY DEF Sends, Goes, CronsInv, ControlTypes
  <1> QED BY <1>1, <1>3, <1>6, <1>7

LEMMA Published ==
  ASSUME CronsInv, NEW p \in Procs, Publish(p)
  PROVE  /\ Publishes(p, Cron(p), proc[p].due, Sent(p)) /\ run' = run /\ proc'[p] = NextCron(p)
         /\ Cron(p) \in Crons
         /\ \A q \in Procs : q # p => proc'[q] = proc[q]
  <1>1. Sends(p, NextCron(p)) /\ queue' = Sending(p)
    BY Sendings
  <1>2. Cron(p) \in Crons
    BY AtPublish DEF Publish
  <1> QED BY <1>1, <1>2, WasSent

LEMMA PublishedNext ==
  ASSUME CronsInv, NEW w \in Workers, PublishNext(w)
  PROVE  /\ \E m \in Messages : run[w].msg = {m} /\ Publishes(w, m.cron, NextDate(m.cron), 1)
         /\ proc' = proc /\ proc[w].pc # "off"
         /\ run[w].pc = "publish" /\ run'[w].pc = "running" /\ run'[w].msg = run[w].msg
         /\ \A v \in Workers : v # w => run'[v] = run[v]
  <1>0. w \in Procs /\ run[w].pc = "publish" /\ RunOK(run[w]) /\ WorkerOK(w) /\ run \in [Workers -> RunStates]
    BY Kinds DEF PublishNext, CronsInv, WorkerOK, PlaceTypes
  <1>1. PICK m \in Messages : run[w].msg = {m} /\ m.cron \in Active /\ run[w].due = NextDate(m.cron)
    BY <1>0 DEF RunOK
  <1>2. proc[w].pc # "off" /\ declared
    BY <1>0 DEF WorkerOK, Waiting
  <1>3. PICK c \in Crons, due \in Dates : c = m.cron /\ due = NextDate(c)
    BY <1>1, NextDates, CronsAssumption DEF CronsInv, ControlTypes
  <1>4. queue' = Put(w, c, due, 1) /\ 1 \in 1 .. 2
    BY <1>1, <1>3 DEF PublishNext
  <1>5. PICK x \in Messages : x = New(w, c, due, 1)
    BY <1>0, <1>4, NewMessage
  <1>6. /\ x \notin Pending /\ x.cron = c /\ x.due = due /\ x.by = <<w, boots[w]>> /\ x.send = 1
        /\ queue' = queue \cup {x}
    BY <1>0, <1>2, <1>4, <1>5, NewMessage
  <1>7. UNCHANGED <<now, declared, routed, held, work, proc, boots, locks, spent>>
    BY DEF PublishNext
  <1>8. Publishes(w, m.cron, NextDate(m.cron), 1)
    BY <1>3, <1>6, <1>7 DEF Publishes
  <1>9. PICK r : r = [run[w] EXCEPT !.pc = "running", !.due = 0]
    OBVIOUS
  <1>10. r.pc = "running" /\ r.msg = run[w].msg /\ run' = [run EXCEPT ![w] = r]
    BY <1>0, <1>9 DEF RunStates, PublishNext
  <1>11. run'[w] = r /\ \A v \in Workers : v # w => run'[v] = run[v]
    BY <1>0, <1>10
  <1> QED BY <1>0, <1>1, <1>2, <1>7, <1>8, <1>10, <1>11

LEMMA Handled ==
  ASSUME CronsInv, NEW w \in Workers, Handle(w)
  PROVE  /\ Consumes /\ queue' = queue /\ proc[w].pc # "off" /\ run[w].pc = "idle" /\ run[w].msg = {}
         /\ \A v \in Workers : v # w => run'[v] = run[v] /\ locks'[v] = locks[v]
         /\ \E m \in work :
              /\ m \in Messages /\ work' = work \ {m}
              /\ \/ m.cron \notin Active /\ UNCHANGED <<run, locks>>
                 \/ /\ m.cron \in Active /\ <<m.cron, NextDate(m.cron)>> \in locks[w] /\ locks' = locks
                    /\ run'[w].pc = "running" /\ run'[w].msg = {m}
                 \/ /\ m.cron \in Active /\ <<m.cron, NextDate(m.cron)>> \notin locks[w]
                    /\ locks'[w] = locks[w] \cup {<<m.cron, NextDate(m.cron)>>}
                    /\ run'[w].pc = "publish" /\ run'[w].msg = {m}
  <1>1. PICK m \in work : /\ m \in Messages /\ work' = work \ {m}
                          /\ Discarded(w, m) \/ RunAtOnce(w, m) \/ Schedules(w, m)
    BY Handles
  <1>2. run \in [Workers -> RunStates] /\ locks \in [Workers -> SUBSET (Crons \X Dates)]
    BY DEF CronsInv, PlaceTypes, ControlTypes
  <1>3. CASE Discarded(w, m)
    BY <1>1, <1>3, Handles DEF Discarded
  <1>4. CASE RunAtOnce(w, m)
    <2>1. PICK r : r = [Waiting EXCEPT !.pc = "running", !.msg = {m}]
      OBVIOUS
    <2>2. r.pc = "running" /\ r.msg = {m}
      BY <2>1 DEF Waiting
    <2>3. run' = [run EXCEPT ![w] = r]
      BY <1>4, <2>1 DEF RunAtOnce
    <2>4. run'[w] = r /\ \A v \in Workers : v # w => run'[v] = run[v]
      BY <1>2, <2>3
    <2> QED BY <1>1, <1>4, <2>2, <2>4, Handles DEF RunAtOnce
  <1>5. CASE Schedules(w, m)
    <2>1. PICK r : r = [pc |-> "publish", msg |-> {m}, due |-> NextDate(m.cron)]
      OBVIOUS
    <2>2. r.pc = "publish" /\ r.msg = {m}
      BY <2>1
    <2>3. run' = [run EXCEPT ![w] = r]
      BY <1>5, <2>1 DEF Schedules
    <2>4. run'[w] = r /\ \A v \in Workers : v # w => run'[v] = run[v]
      BY <1>2, <2>3
    <2>5. /\ locks'[w] = locks[w] \cup {<<m.cron, NextDate(m.cron)>>}
          /\ \A v \in Workers : v # w => locks'[v] = locks[v]
      BY <1>2, <1>5 DEF Schedules
    <2> QED BY <1>1, <1>5, <2>2, <2>4, <2>5, Handles DEF Schedules
  <1> QED BY <1>1, <1>3, <1>4, <1>5

LEMMA Ended ==
  ASSUME CronsInv, NEW w \in Workers, Ends(w)
  PROVE  /\ UNCHANGED <<now, declared, routed, queue, held, work, proc, boots, locks, spent>>
         /\ run'[w].pc = "idle" /\ run'[w].msg = {} /\ run[w].pc = "running"
         /\ \A v \in Workers : v # w => run'[v] = run[v]
  <1>1. PICK r : r = Waiting
    OBVIOUS
  <1>2. r.pc = "idle" /\ r.msg = {} /\ run' = [run EXCEPT ![w] = r]
    BY <1>1 DEF Ends, Waiting
  <1>3. run'[w] = r /\ \A v \in Workers : v # w => run'[v] = run[v]
    BY <1>2 DEF CronsInv, PlaceTypes
  <1> QED BY <1>2, <1>3 DEF Ends

(* The other steps of a boot leave the messages where they are.                 *)
Quiet(p) == BootServer(p) \/ Ensure(p) \/ BootWorker(p) \/ RepairBegins(p) \/ SkipInactive(p)
            \/ Count(p) \/ Peek(p) \/ LockRepair(p)
LEMMA QuietSteps ==
  ASSUME CronsInv, NEW p \in Procs, Quiet(p)
  PROVE  /\ UNCHANGED <<now, queue, held, work, run>>
         /\ \A q \in Procs : q # p => proc'[q] = proc[q] /\ boots'[q] = boots[q]
  <1>1. UNCHANGED <<now, queue, held, work, run>>
    BY DEF Quiet, BootServer, Ensure, BootWorker, RepairBegins, SkipInactive, Count, Peek, LockRepair
  <1>2. ASSUME NEW q \in Procs, q # p PROVE proc'[q] = proc[q]
    BY <1>2 DEF Quiet, BootServer, Ensure, BootWorker, RepairBegins, SkipInactive, Count, Peek, LockRepair,
           Goes, CronsInv, ControlTypes
  <1>3. ASSUME NEW q \in Procs, q # p PROVE boots'[q] = boots[q]
    BY <1>3 DEF Quiet, BootServer, Ensure, BootWorker, RepairBegins, SkipInactive, Count, Peek, LockRepair,
           CronsInv, ControlTypes
  <1> QED BY <1>1, <1>2, <1>3

-------------------------------------------------------------------------------
(* No message is in two places.                                                 *)

LEMMA ApartTaken ==
  ASSUME Apart, NEW p \in Procs, NEW f \in queue, queue' = queue \ {f}, held'[p] \subseteq held[p] \cup {f},
         \A q \in Procs : q # p => held'[q] = held[q], UNCHANGED <<work, run>>
  PROVE  Apart'
  <1>1. queue' \cap work' = {}
    BY DEF Apart
  <1>2. \A q \in Procs : held'[q] \cap (queue' \cup work') = {}
    BY DEF Apart
  <1>3. \A w \in Workers : run'[w].msg \cap (queue' \cup work') = {}
    BY DEF Apart
  <1>4. \A q, o \in Procs : q # o => held'[q] \cap held'[o] = {}
    BY DEF Apart
  <1>5. \A q \in Procs, w \in Workers : held'[q] \cap run'[w].msg = {}
    BY DEF Apart
  <1>6. \A w, v \in Workers : w # v => run'[w].msg \cap run'[v].msg = {}
    BY DEF Apart
  <1> QED BY <1>1, <1>2, <1>3, <1>4, <1>5, <1>6 DEF Apart

LEMMA ApartReturned ==
  ASSUME Apart, NEW p \in Procs, queue' = queue \cup held[p], held'[p] = {},
         \A q \in Procs : q # p => held'[q] = held[q],
         \/ UNCHANGED <<work, run>>
         \/ /\ p \in Workers /\ work' = work \cup run[p].msg /\ run'[p].msg = {}
            /\ \A v \in Workers : v # p => run'[v] = run[v]
  PROVE  Apart'
  <1>0. \/ work' = work /\ \A v \in Workers : run'[v] = run[v]
        \/ /\ p \in Workers /\ work' = work \cup run[p].msg /\ run'[p].msg = {}
           /\ \A v \in Workers : v # p => run'[v] = run[v]
    OBVIOUS
  <1>1. queue' \cap work' = {}
    BY <1>0 DEF Apart
  <1>2. \A q \in Procs : held'[q] \cap (queue' \cup work') = {}
    BY <1>0 DEF Apart
  <1>3. \A w \in Workers : run'[w].msg \cap (queue' \cup work') = {}
    BY <1>0 DEF Apart
  <1>4. \A q, o \in Procs : q # o => held'[q] \cap held'[o] = {}
    BY DEF Apart
  <1>5. \A q \in Procs, w \in Workers : held'[q] \cap run'[w].msg = {}
    BY <1>0 DEF Apart
  <1>6. \A w, v \in Workers : w # v => run'[w].msg \cap run'[v].msg = {}
    BY <1>0 DEF Apart
  <1> QED BY <1>1, <1>2, <1>3, <1>4, <1>5, <1>6 DEF Apart

LEMMA ApartPut ==
  ASSUME Apart, NEW x, x \notin Pending, queue' = queue \cup {x}, UNCHANGED <<held, work>>,
         \A v \in Workers : run'[v].msg = run[v].msg
  PROVE  Apart'
  <1>0. /\ x \notin queue /\ x \notin work /\ \A q \in Procs : x \notin held[q]
        /\ \A w \in Workers : x \notin run[w].msg
    BY Places
  <1>1. queue' \cap work' = {}
    BY <1>0 DEF Apart
  <1>2. \A q \in Procs : held'[q] \cap (queue' \cup work') = {}
    BY <1>0 DEF Apart
  <1>3. \A w \in Workers : run'[w].msg \cap (queue' \cup work') = {}
    BY <1>0 DEF Apart
  <1>4. \A q, o \in Procs : q # o => held'[q] \cap held'[o] = {}
    BY DEF Apart
  <1>5. \A q \in Procs, w \in Workers : held'[q] \cap run'[w].msg = {}
    BY DEF Apart
  <1>6. \A w, v \in Workers : w # v => run'[w].msg \cap run'[v].msg = {}
    BY DEF Apart
  <1> QED BY <1>1, <1>2, <1>3, <1>4, <1>5, <1>6 DEF Apart

LEMMA ApartExpired ==
  ASSUME Apart, NEW f \in queue, NEW x, x = f \/ x \notin Pending, queue' = queue \ {f},
         work' = IF routed THEN work \cup {x} ELSE work, UNCHANGED <<held, run>>
  PROVE  Apart'
  <1>0. /\ work' \subseteq work \cup {x} /\ x \notin queue' /\ f \in queue
        /\ (\A q \in Procs : x \notin held[q]) /\ \A w \in Workers : x \notin run[w].msg
    BY Places DEF Apart
  <1>1. queue' \cap work' = {}
    BY <1>0 DEF Apart
  <1>2. \A q \in Procs : held'[q] \cap (queue' \cup work') = {}
    BY <1>0 DEF Apart
  <1>3. \A w \in Workers : run'[w].msg \cap (queue' \cup work') = {}
    BY <1>0 DEF Apart
  <1>4. \A q, o \in Procs : q # o => held'[q] \cap held'[o] = {}
    BY DEF Apart
  <1>5. \A q \in Procs, w \in Workers : held'[q] \cap run'[w].msg = {}
    BY DEF Apart
  <1>6. \A w, v \in Workers : w # v => run'[w].msg \cap run'[v].msg = {}
    BY DEF Apart
  <1> QED BY <1>1, <1>2, <1>3, <1>4, <1>5, <1>6 DEF Apart

LEMMA ApartConsumed ==
  ASSUME Apart, NEW w \in Workers, NEW S, S \subseteq work, work' = work \ S, run'[w].msg \subseteq S,
         \A v \in Workers : v # w => run'[v] = run[v], UNCHANGED <<queue, held>>
  PROVE  Apart'
  <1>1. queue' \cap work' = {}
    BY DEF Apart
  <1>2. \A q \in Procs : held'[q] \cap (queue' \cup work') = {}
    BY DEF Apart
  <1>3. \A v \in Workers : run'[v].msg \cap (queue' \cup work') = {}
    BY DEF Apart
  <1>4. \A q, o \in Procs : q # o => held'[q] \cap held'[o] = {}
    BY DEF Apart
  <1>5. \A q \in Procs, v \in Workers : held'[q] \cap run'[v].msg = {}
    BY DEF Apart
  <1>6. \A v, u \in Workers : v # u => run'[v].msg \cap run'[u].msg = {}
    BY DEF Apart
  <1> QED BY <1>1, <1>2, <1>3, <1>4, <1>5, <1>6 DEF Apart

-------------------------------------------------------------------------------
(* No process publishes an execution twice.                                     *)
SameAs(m, n) == m.cron = n.cron /\ m.due = n.due /\ m.by = n.by /\ m.send = n.send

(* A step that publishes nothing: each message was there.                       *)
Traced == \A m \in Pending' : \E n \in Pending : SameAs(m, n)

(* What p has published in this life, it had.                                   *)
OwnTraced(p) ==
    \A m \in Own(p)' : \E n \in Own(p) : m.cron = n.cron /\ m.due = n.due /\ m.send = n.send

LEMMA OwnIsTraced ==
  ASSUME Traced, NEW p \in Procs, boots'[p] = boots[p]
  PROVE  OwnTraced(p)
  <1> SUFFICES ASSUME NEW m \in Own(p)'
               PROVE  \E n \in Own(p) : m.cron = n.cron /\ m.due = n.due /\ m.send = n.send
    BY DEF OwnTraced
  <1>1. m \in Pending' /\ m.by = <<p, boots[p]>>
    BY DEF Own
  <1>2. PICK n \in Pending : SameAs(m, n)
    BY <1>1 DEF Traced
  <1> QED BY <1>1, <1>2 DEF SameAs, Own

LEMMA OthersTraced ==
  ASSUME NEW o, NEW x, x.by = <<o, boots[o]>>, Pending' \subseteq Pending \cup {x},
         NEW p \in Procs, p # o, boots'[p] = boots[p]
  PROVE  OwnTraced(p)
  <1> SUFFICES ASSUME NEW m \in Own(p)'
               PROVE  \E n \in Own(p) : m.cron = n.cron /\ m.due = n.due /\ m.send = n.send
    BY DEF OwnTraced
  <1>1. m \in Pending' /\ m.by = <<p, boots[p]>>
    BY DEF Own
  <1>2. m \in Pending
    BY <1>1
  <1> QED BY <1>1, <1>2 DEF Own

(* In its next life it has published nothing.                                   *)
LEMMA NothingYet ==
  ASSUME CronsInv, NEW p \in Procs, boots'[p] = boots[p] + 1, Pending' \subseteq Pending
  PROVE  Own(p)' = {}
  <1> SUFFICES ASSUME NEW m \in Own(p)' PROVE FALSE
    OBVIOUS
  <1>1. m \in Pending /\ m.by = <<p, boots'[p]>>
    BY DEF Own
  <1>2. MessageOK(m) /\ boots[p] \in Nat
    BY <1>1 DEF CronsInv, ControlTypes
  <1>3. m.by[1] = p /\ m.by[2] = boots[p] + 1
    BY <1>1
  <1> QED BY <1>2, <1>3 DEF MessageOK

LEMMA ServerKeeps ==
  ASSUME CronsInv, CronsInv', NEW s \in Servers, ServerOnce(s), OwnTraced(s),
         proc'[s].pc \in Booting =>
           /\ proc[s].pc \in Booting /\ proc[s].at <= proc'[s].at
           /\ proc[s].pc = "resend" => proc'[s] = proc[s]
  PROVE  ServerOnce(s)'
  <1> SUFFICES ASSUME proc'[s].pc \in Booting, NEW m \in Own(s)'
               PROVE  \/ \E j \in 1 .. proc'[s].at - 1 : m.cron = Order[j]
                      \/ proc'[s].pc = "resend" /\ m.cron = Cron(s)' /\ m.send = 1
    BY DEF ServerOnce
  <1>1. PICK n \in Own(s) : m.cron = n.cron /\ m.send = n.send
    BY DEF OwnTraced
  <1>2. CASE \E j \in 1 .. proc[s].at - 1 : n.cron = Order[j]
    <2>1. PICK j \in 1 .. proc[s].at - 1 : n.cron = Order[j]
      BY <1>2
    <2>2. proc[s].at \in Nat /\ proc'[s].at \in Nat /\ proc[s].at <= proc'[s].at
      BY Kinds DEF CronsInv, ControlTypes, ProcStates
    <2>3. j \in 1 .. proc'[s].at - 1
      BY <2>1, <2>2
    <2> QED BY <1>1, <2>1, <2>3
  <1>3. CASE proc[s].pc = "resend" /\ n.cron = Cron(s) /\ n.send = 1
    BY <1>1, <1>3 DEF Cron
  <1> QED BY <1>1, <1>2, <1>3 DEF ServerOnce

LEMMA UnpublishedStays ==
  ASSUME NEW w \in Workers, NEW c, Unpublished(w, c), OwnTraced(w), now' = now, locks[w] \subseteq locks'[w]
  PROVE  Unpublished(w, c)'
  BY DEF Unpublished, OwnTraced, NextDate

LEMMA SentOnceStays ==
  ASSUME NEW w \in Workers, SentOnce(w), OwnTraced(w), now' = now, locks[w] \subseteq locks'[w],
         proc'[w] = proc[w]
  PROVE  SentOnce(w)'
  BY DEF SentOnce, OwnTraced, Cron

LEMMA WorkerKeeps ==
  ASSUME NEW w \in Workers, WorkerOnce(w), OwnTraced(w), now' = now, locks'[w] = locks[w],
         proc'[w].pc # "off" => proc[w].pc # "off",
         proc'[w].pc = "publish" => proc[w].pc = "publish" /\ Cron(w)' = Cron(w),
         proc'[w].pc = "resend" => proc'[w] = proc[w],
         run'[w].pc = "publish" => run[w].pc = "publish" /\ run'[w].msg = run[w].msg
  PROVE  WorkerOnce(w)'
  <1> SUFFICES ASSUME proc'[w].pc # "off" PROVE WorkerOnce(w)'
    BY DEF WorkerOnce
  <1>1. \A m \in Own(w)' : m.due > now' => <<m.cron, m.due>> \in locks'[w]
    BY DEF WorkerOnce, OwnTraced
  <1>2. proc'[w].pc = "publish" => Unpublished(w, Cron(w))'
    <2> SUFFICES ASSUME proc'[w].pc = "publish" PROVE Unpublished(w, Cron(w))'
      OBVIOUS
    <2>1. PICK c : c = Cron(w) /\ Cron(w)' = c
      OBVIOUS
    <2>2. Unpublished(w, c)'
      BY <2>1, UnpublishedStays DEF WorkerOnce
    <2> QED BY <2>1, <2>2
  <1>3. ASSUME run'[w].pc = "publish", NEW m \in run'[w].msg
        PROVE  Unpublished(w, m.cron)' /\ ~Competes(w, m.cron)'
    <2>0. m \in run[w].msg /\ run[w].pc = "publish" /\ proc[w].pc # "off"
      BY <1>3
    <2>1. Unpublished(w, m.cron) /\ ~Competes(w, m.cron)
      BY <2>0 DEF WorkerOnce
    <2>2. PICK c : c = m.cron
      OBVIOUS
    <2>3. Unpublished(w, c)'
      BY <2>1, <2>2, UnpublishedStays
    <2>4. ~Competes(w, c)'
      <3>1. ~Competes(w, c) /\ NextDate(c)' = NextDate(c)
        BY <2>1, <2>2 DEF NextDate
      <3>2. proc'[w].pc = "publish" => proc[w].pc = "publish" /\ Cron(w)' = Cron(w)
        OBVIOUS
      <3>3. proc'[w].pc = "resend" => proc'[w] = proc[w] /\ Cron(w)' = Cron(w)
        BY DEF Cron
      <3> QED BY <3>1, <3>2, <3>3 DEF Competes
    <2> QED BY <2>2, <2>3, <2>4
  <1>4. proc'[w].pc = "resend" => SentOnce(w)'
    BY SentOnceStays DEF WorkerOnce
  <1> QED BY <1>1, <1>2, <1>3, <1>4 DEF WorkerOnce

(* A step without a publish or a new lock or life.                              *)
ServerStays(s) ==
    proc'[s].pc \in Booting =>
      /\ proc[s].pc \in Booting /\ proc[s].at <= proc'[s].at
      /\ proc[s].pc = "resend" => proc'[s] = proc[s]
LEMMA OnceKept ==
  ASSUME CronsInv, CronsInv', OnceInv, Apart', now' = now, boots' = boots, Traced, Pairs',
         \A s \in Servers : ServerStays(s),
         \A w \in Workers :
           proc'[w].pc # "off" =>
             /\ locks'[w] = locks[w] /\ proc[w].pc # "off"
             /\ proc'[w].pc = "publish" => proc[w].pc = "publish" /\ Cron(w)' = Cron(w)
             /\ proc'[w].pc = "resend" => proc'[w] = proc[w]
             /\ run'[w].pc = "publish" => run[w].pc = "publish" /\ run'[w].msg = run[w].msg
  PROVE  OnceInv'
  <1>1. \A p \in Procs : OwnTraced(p)
    BY OwnIsTraced
  <1>2. \A s \in Servers : ServerOnce(s)'
    BY <1>1, ServerKeeps, Kinds DEF OnceInv, ServerStays
  <1>3. ASSUME NEW w \in Workers PROVE WorkerOnce(w)'
    <2>1. CASE proc'[w].pc = "off"
      BY <2>1 DEF WorkerOnce
    <2>2. CASE proc'[w].pc # "off"
      BY <1>1, <2>2, WorkerKeeps, Kinds DEF OnceInv
    <2> QED BY <2>1, <2>2
  <1> QED BY <1>2, <1>3 DEF OnceInv

LEMMA OnceSubset ==
  ASSUME Pairs, Pending' \subseteq Pending
  PROVE  Pairs' /\ Traced
  BY DEF Pairs, Traced, SameAs

(* A boot that moves on to its next cron.                                       *)
LEMMA MovesOn ==
  ASSUME CronsInv, NEW p \in Procs, proc[p].pc \in Booting, proc'[p] = NextCron(p)
  PROVE  proc'[p].pc \in Booting => proc[p].at <= proc'[p].at /\ proc'[p].at = proc[p].at + 1
  <1>1. proc[p].at \in Nat
    BY AtCron
  <1>2. proc'[p].pc # "up" => proc'[p].at = proc[p].at + 1
    BY AtCron
  <1> QED BY <1>1, <1>2 DEF Booting

LEMMA OnceTaken ==
  ASSUME CronsInv, CronsInv', OnceInv, NEW p \in Procs,
         (p \in Servers /\ (Receive(p) \/ Push(p))) \/ (p \in Workers /\ Get(p))
  PROVE  OnceInv'
  <1>1. /\ UNCHANGED <<work, run, boots, now, locks>>
        /\ \A q \in Procs : q # p => held'[q] = held[q] /\ proc'[q] = proc[q]
    BY Taken
  <1>2. PICK f \in queue : queue' = queue \ {f} /\ held'[p] \subseteq held[p] \cup {f}
    BY Taken
  <1>3. Apart'
    BY <1>1, <1>2, ApartTaken DEF OnceInv
  <1>4. \A m : m \in Pending' => m \in Pending
    BY <1>1, <1>2, Places, PlacesNext
  <1>5. Pairs' /\ Traced
    BY <1>4, OnceSubset DEF OnceInv
  <1>6. /\ proc[p].pc \in Booting \ {"publish", "resend"} /\ proc'[p].pc \notin {"publish", "resend"}
        /\ proc'[p].at = proc[p].at
    <2>0. proc \in [Procs -> ProcStates]
      BY DEF CronsInv, ControlTypes
    <2>1. CASE Receive(p)
      BY <2>0, <2>1 DEF Receive, Goes, ProcStates, Booting
    <2>2. CASE Push(p)
      BY <2>0, <2>2 DEF Push, Booting
    <2>3. CASE Get(p)
      BY <2>0, <2>3 DEF Get, Goes, ProcStates, Booting
    <2> QED BY <2>1, <2>2, <2>3
  <1>7. proc[p].at \in Nat
    BY DEF CronsInv, ControlTypes, ProcStates
  <1>8. proc[p].pc # "off"
    BY <1>6 DEF Booting
  <1>9. \A s \in Servers : ServerStays(s)
    <2>1. \A s \in Procs : proc[s].at \in Nat
      BY DEF CronsInv, ControlTypes, ProcStates
    <2> QED BY <1>1, <1>6, <2>1, Kinds DEF ServerStays
  <1>10. \A w \in Workers :
           proc'[w].pc # "off" =>
             /\ locks'[w] = locks[w] /\ proc[w].pc # "off"
             /\ proc'[w].pc = "publish" => proc[w].pc = "publish" /\ Cron(w)' = Cron(w)
             /\ proc'[w].pc = "resend" => proc'[w] = proc[w]
             /\ run'[w].pc = "publish" => run[w].pc = "publish" /\ run'[w].msg = run[w].msg
    BY <1>1, <1>6, <1>8, Kinds DEF Cron
  <1> QED BY <1>1, <1>3, <1>5, <1>9, <1>10, OnceKept

LEMMA OnceReturned ==
  ASSUME CronsInv, CronsInv', OnceInv, NEW p \in Procs,
         Fails(p) \/ (p \in Servers /\ Closed(p)) \/ (p \in Workers /\ (Read(p) \/ PeekFails(p)))
  PROVE  OnceInv'
  <1>1. /\ UNCHANGED <<work, run, boots, now, locks>> /\ queue' = queue \cup held[p] /\ held'[p] = {}
        /\ \A q \in Procs : q # p => held'[q] = held[q] /\ proc'[q] = proc[q]
    BY Returned
  <1>2. Apart'
    BY <1>1, ApartReturned DEF OnceInv
  <1>3. \A m : m \in Pending' => m \in Pending
    BY <1>1, Places, PlacesNext
  <1>4. Pairs' /\ Traced
    BY <1>3, OnceSubset DEF OnceInv
  <1>5. proc[p].pc \in Booting /\ proc[p].pc # "off" /\ proc[p].pc # "resend"
    BY DEF Closed, Read, PeekFails, Fails, Booting
  <1>6. /\ proc'[p].pc \in Booting => proc[p].at <= proc'[p].at
        /\ p \in Workers => proc'[p].pc \notin {"publish", "resend"}
    <2>0. proc \in [Procs -> ProcStates]
      BY DEF CronsInv, ControlTypes
    <2>1. CASE Fails(p)
      <3>1. proc'[p].pc = "failed"
        BY <2>0, <2>1 DEF Fails, Goes, Off
      <3> QED BY <3>1 DEF Booting
    <2>2. CASE p \in Servers /\ Closed(p)
      <3>1. CASE Cron(p) \in Active
        <4>1. proc'[p].at = proc[p].at /\ proc[p].at \in Nat
          BY <2>0, <2>2, <3>1 DEF Closed, Goes, ProcStates
        <4> QED BY <2>2, <4>1, Kinds
      <3>2. CASE Cron(p) \notin Active
        <4>1. proc'[p] = NextCron(p)
          BY <2>0, <2>2, <3>2 DEF Closed, Goes
        <4> QED BY <1>5, <2>2, <4>1, MovesOn, Kinds
      <3> QED BY <3>1, <3>2
    <2>3. CASE p \in Workers /\ (Read(p) \/ PeekFails(p))
      <3>1. CASE Read(p) /\ Found(p)
        <4>1. proc'[p] = NextCron(p)
          BY <2>0, <3>1 DEF Read, Goes
        <4>2. proc'[p].pc \in {"up", "peek"}
          BY <1>5, <2>3, <4>1, AtCron, Kinds
        <4> QED BY <1>5, <4>1, <4>2, MovesOn
      <3>2. CASE ~(Read(p) /\ Found(p))
        <4>1. proc'[p].pc = "missing" /\ proc'[p].at = proc[p].at /\ proc[p].at \in Nat
          BY <2>0, <2>3, <3>2 DEF Read, PeekFails, Goes, ProcStates
        <4> QED BY <4>1
      <3> QED BY <3>1, <3>2
    <2> QED BY <2>1, <2>2, <2>3
  <1>7. \A s \in Servers : ServerStays(s)
    <2>1. \A s \in Procs : proc[s].at \in Nat
      BY DEF CronsInv, ControlTypes, ProcStates
    <2> QED BY <1>1, <1>5, <1>6, <2>1, Kinds DEF ServerStays
  <1>8. \A w \in Workers :
           proc'[w].pc # "off" =>
             /\ locks'[w] = locks[w] /\ proc[w].pc # "off"
             /\ proc'[w].pc = "publish" => proc[w].pc = "publish" /\ Cron(w)' = Cron(w)
             /\ proc'[w].pc = "resend" => proc'[w] = proc[w]
             /\ run'[w].pc = "publish" => run[w].pc = "publish" /\ run'[w].msg = run[w].msg
    BY <1>1, <1>5, <1>6, Kinds DEF Cron
  <1> QED BY <1>1, <1>2, <1>4, <1>7, <1>8, OnceKept

LEMMA OnceExpired ==
  ASSUME CronsInv, CronsInv', OnceInv, Expire
  PROVE  OnceInv'
  <1>1. UNCHANGED <<now, declared, routed, held, run, proc, boots, locks>>
    BY Expired
  <1>2. PICK f \in queue, x \in Messages :
          /\ x.cron = f.cron /\ x.due = f.due /\ x.by = f.by /\ x.send = f.send
          /\ queue' = queue \ {f} /\ work' = IF routed THEN work \cup {x} ELSE work
    BY Expired
  <1>3. f \in Pending
    BY Places
  <1>4. x = f \/ x \notin Pending
    BY <1>2, <1>3 DEF OnceInv, Pairs
  <1>5. Apart'
    BY <1>1, <1>2, <1>4, ApartExpired DEF OnceInv
  <1>6. \A m : m \in Pending' => m \in Pending \cup {x}
    BY <1>1, <1>2, Places, PlacesNext
  <1>7. Traced
    BY <1>2, <1>3, <1>6 DEF Traced, SameAs
  <1>8. \A m : m \in Pending' => (m \in Pending /\ m # f) \/ m = x
    BY <1>1, <1>2, Places, PlacesNext DEF OnceInv, Apart
  <1>9. Pairs'
    <2> SUFFICES ASSUME NEW m \in Pending', NEW n \in Pending', m.cron = n.cron, m.due = n.due,
                        m.by = n.by, m.send = n.send
                 PROVE  m = n
      BY DEF Pairs
    <2>1. CASE m = x /\ n # x
      <3>1. n \in Pending /\ n # f
        BY <1>8, <2>1
      <3> QED BY <1>2, <1>3, <2>1, <3>1 DEF OnceInv, Pairs
    <2>2. CASE m # x /\ n = x
      <3>1. m \in Pending /\ m # f
        BY <1>8, <2>2
      <3> QED BY <1>2, <1>3, <2>2, <3>1 DEF OnceInv, Pairs
    <2>3. CASE m # x /\ n # x
      BY <1>8, <2>3 DEF OnceInv, Pairs
    <2> QED BY <2>1, <2>2, <2>3
  <1>10. \A p \in Procs : proc[p].at \in Nat
    BY DEF CronsInv, ControlTypes, ProcStates
  <1>11. \A s \in Servers : ServerStays(s)
    BY <1>1, <1>10, Kinds DEF ServerStays
  <1>12. \A w \in Workers :
           proc'[w].pc # "off" =>
             /\ locks'[w] = locks[w] /\ proc[w].pc # "off"
             /\ proc'[w].pc = "publish" => proc[w].pc = "publish" /\ Cron(w)' = Cron(w)
             /\ proc'[w].pc = "resend" => proc'[w] = proc[w]
             /\ run'[w].pc = "publish" => run[w].pc = "publish" /\ run'[w].msg = run[w].msg
    BY <1>1 DEF Cron
  <1> QED BY <1>1, <1>5, <1>7, <1>9, <1>11, <1>12, OnceKept

LEMMA OnceEnded ==
  ASSUME CronsInv, CronsInv', OnceInv, NEW w \in Workers, Ends(w)
  PROVE  OnceInv'
  <1>1. /\ UNCHANGED <<now, declared, routed, queue, held, work, proc, boots, locks>>
        /\ run'[w].pc = "idle" /\ run'[w].msg = {} /\ run[w].pc = "running"
        /\ \A v \in Workers : v # w => run'[v] = run[v]
    BY Ended
  <1>2. Apart'
    <2>1. PICK S : S = {}
      OBVIOUS
    <2>2. S \subseteq work /\ work' = work \ S /\ run'[w].msg \subseteq S
      BY <1>1, <2>1
    <2> QED BY <1>1, <2>2, ApartConsumed DEF OnceInv
  <1>3. \A m : m \in Pending' => m \in Pending
    BY <1>1, Places, PlacesNext
  <1>4. Pairs' /\ Traced
    BY <1>3, OnceSubset DEF OnceInv
  <1>5. \A p \in Procs : proc[p].at \in Nat
    BY DEF CronsInv, ControlTypes, ProcStates
  <1>6. \A s \in Servers : ServerStays(s)
    BY <1>1, <1>5, Kinds DEF ServerStays
  <1>7. \A v \in Workers :
           proc'[v].pc # "off" =>
             /\ locks'[v] = locks[v] /\ proc[v].pc # "off"
             /\ proc'[v].pc = "publish" => proc[v].pc = "publish" /\ Cron(v)' = Cron(v)
             /\ proc'[v].pc = "resend" => proc'[v] = proc[v]
             /\ run'[v].pc = "publish" => run[v].pc = "publish" /\ run'[v].msg = run[v].msg
    BY <1>1 DEF Cron
  <1> QED BY <1>1, <1>2, <1>4, <1>6, <1>7, OnceKept

LEMMA OnceCrashed ==
  ASSUME CronsInv, CronsInv', OnceInv, NEW p \in Procs, Crash(p)
  PROVE  OnceInv'
  <1>1. /\ Pending' \subseteq Pending /\ queue' = queue \cup held[p]
        /\ held'[p] = {} /\ \A q \in Procs : q # p => held'[q] = held[q]
        /\ \A w \in Workers : w # p => run'[w] = run[w]
        /\ p \in Workers => run'[p].msg = {} /\ work' = work \cup run[p].msg
        /\ p \notin Workers => work' = work
    BY CrashPlaces
  <1>2. UNCHANGED <<now, boots>>
    BY DEF Crash
  <1>3. Apart'
    <2>1. CASE p \in Workers
      BY <1>1, <2>1, ApartReturned DEF OnceInv
    <2>2. CASE p \notin Workers
      <3>1. UNCHANGED <<work, run>>
        BY <2>2 DEF Crash
      <3> QED BY <1>1, <3>1, ApartReturned DEF OnceInv
    <2> QED BY <2>1, <2>2
  <1>4. Pairs' /\ Traced
    BY <1>1, OnceSubset DEF OnceInv
  <1>5. proc'[p].pc = "off" /\ \A q \in Procs : q # p => proc'[q] = proc[q]
    BY DEF Crash, Goes, Off, CronsInv, ControlTypes
  <1>6. \A w \in Workers : w # p => locks'[w] = locks[w]
    BY DEF Crash, CronsInv, ControlTypes
  <1>7. \A q \in Procs : proc[q].at \in Nat
    BY DEF CronsInv, ControlTypes, ProcStates
  <1>8. \A s \in Servers : ServerStays(s)
    BY <1>5, <1>7, Kinds DEF Booting, ServerStays
  <1>9. \A w \in Workers :
           proc'[w].pc # "off" =>
             /\ locks'[w] = locks[w] /\ proc[w].pc # "off"
             /\ proc'[w].pc = "publish" => proc[w].pc = "publish" /\ Cron(w)' = Cron(w)
             /\ proc'[w].pc = "resend" => proc'[w] = proc[w]
             /\ run'[w].pc = "publish" => run[w].pc = "publish" /\ run'[w].msg = run[w].msg
    BY <1>1, <1>5, <1>6, Kinds DEF Cron
  <1> QED BY <1>2, <1>3, <1>4, <1>8, <1>9, OnceKept

(* A boot moves without a publish, a new lock or a new life.                    *)
LEMMA OnceMoved ==
  ASSUME CronsInv, CronsInv', OnceInv, NEW p \in Procs,
         \/ p \in Servers /\ (Ensure(p) \/ Count(p))
         \/ p \in Workers /\ (RepairBegins(p) \/ SkipInactive(p) \/ Peek(p))
  PROVE  OnceInv'
  <1>0. proc \in [Procs -> ProcStates] /\ \A q \in Procs : proc[q].at \in Nat
    BY DEF CronsInv, ControlTypes, ProcStates
  <1>1. /\ UNCHANGED <<now, queue, held, work, run, boots, locks>>
        /\ \A q \in Procs : q # p => proc'[q] = proc[q]
    <2>1. Quiet(p)
      BY DEF Quiet
    <2>2. UNCHANGED <<boots, locks>>
      BY DEF Ensure, Count, RepairBegins, SkipInactive, Peek
    <2> QED BY <2>1, <2>2, QuietSteps
  <1>2. \A m : m \in Pending' => m \in Pending
    BY <1>1, Places, PlacesNext
  <1>3. Pairs' /\ Traced /\ Apart'
    BY <1>1, <1>2, OnceSubset DEF OnceInv, Apart
  <1>4. proc[p].pc # "off" /\ proc[p].pc # "resend"
    BY DEF Ensure, Count, RepairBegins, SkipInactive, Peek
  <1>5. /\ proc'[p].pc \notin {"publish", "resend"}
        /\ p \in Servers /\ proc'[p].pc \in Booting => proc[p].pc \in Booting /\ proc[p].at <= proc'[p].at
    <2>1. CASE p \in Servers /\ Ensure(p)
      <3>1. proc'[p] = Entry(p, 1) /\ proc[p].pc = "ensure" /\ proc[p].at = 1
        BY <1>0, <2>1 DEF Ensure, Goes, CronsInv, ProcOK, StateOK
      <3>2. proc'[p].pc \in {"up", "count"} /\ (proc'[p].pc = "count" => proc'[p].at = 1)
        BY <2>1, <3>1, Entries, Orders, Kinds
      <3> QED BY <3>1, <3>2 DEF Booting
    <2>2. CASE p \in Servers /\ Count(p)
      <3>1. proc'[p].at = proc[p].at /\ proc'[p].pc \in {"empty", "drain"} /\ proc[p].pc = "count"
        BY <1>0, <2>2 DEF Count, Goes, ProcStates
      <3> QED BY <1>0, <3>1 DEF Booting
    <2>3. CASE p \in Workers /\ RepairBegins(p)
      <3>1. proc'[p] = Entry(p, 1)
        BY <1>0, <2>3 DEF RepairBegins, Goes
      <3> QED BY <2>3, <3>1, Entries, Orders, Kinds
    <2>4. CASE p \in Workers /\ SkipInactive(p)
      <3>1. proc'[p] = NextCron(p) /\ proc[p].pc \in Booting
        BY <1>0, <2>4 DEF SkipInactive, Goes, Booting
      <3> QED BY <2>4, <3>1, AtCron, Kinds
    <2>5. CASE p \in Workers /\ Peek(p)
      <3>1. proc'[p].pc = "get"
        BY <1>0, <2>5 DEF Peek, Goes, ProcStates
      <3> QED BY <2>5, <3>1, Kinds
    <2> QED BY <2>1, <2>2, <2>3, <2>4, <2>5
  <1>6. ASSUME NEW s \in Servers PROVE ServerStays(s)
    <2>1. proc[s].at \in Nat /\ s \in Procs
      BY <1>0, Kinds
    <2>2. CASE s # p
      BY <1>1, <2>1, <2>2 DEF ServerStays
    <2>3. CASE s = p
      BY <1>4, <1>5, <2>3 DEF ServerStays
    <2> QED BY <2>2, <2>3
  <1>7. \A w \in Workers :
           proc'[w].pc # "off" =>
             /\ locks'[w] = locks[w] /\ proc[w].pc # "off"
             /\ proc'[w].pc = "publish" => proc[w].pc = "publish" /\ Cron(w)' = Cron(w)
             /\ proc'[w].pc = "resend" => proc'[w] = proc[w]
             /\ run'[w].pc = "publish" => run[w].pc = "publish" /\ run'[w].msg = run[w].msg
    BY <1>1, <1>4, <1>5, Kinds DEF Cron
  <1> QED BY <1>1, <1>3, <1>6, <1>7, OnceKept

(* What holds of the processes that do not move.                                *)
LEMMA OthersOnce ==
  ASSUME CronsInv, CronsInv', OnceInv, now' = now, NEW p \in Procs,
         \A q \in Procs : q # p => proc'[q] = proc[q] /\ OwnTraced(q),
         \A w \in Workers : w # p => run'[w] = run[w] /\ locks'[w] = locks[w],
         p \in Servers => ServerOnce(p)', p \in Workers => WorkerOnce(p)'
  PROVE  (\A s \in Servers : ServerOnce(s)') /\ (\A w \in Workers : WorkerOnce(w)')
  <1>1. ASSUME NEW s \in Servers, s # p PROVE ServerOnce(s)'
    <2>1. proc'[s] = proc[s] /\ OwnTraced(s) /\ ServerOnce(s) /\ proc[s].at \in Nat
      BY <1>1, Kinds DEF OnceInv, CronsInv, ControlTypes, ProcStates
    <2> QED BY <2>1, ServerKeeps
  <1>2. ASSUME NEW w \in Workers, w # p PROVE WorkerOnce(w)'
    <2>1. proc'[w] = proc[w] /\ OwnTraced(w) /\ WorkerOnce(w) /\ run'[w] = run[w] /\ locks'[w] = locks[w]
      BY <1>2, Kinds DEF OnceInv
    <2> QED BY <2>1, WorkerKeeps DEF Cron
  <1> QED BY <1>1, <1>2

LEMMA OnceBooted ==
  ASSUME CronsInv, CronsInv', OnceInv, NEW p \in Procs,
         (p \in Servers /\ BootServer(p)) \/ (p \in Workers /\ BootWorker(p))
  PROVE  OnceInv'
  <1>1. /\ UNCHANGED <<now, queue, held, work, run, locks>> /\ boots'[p] = boots[p] + 1
        /\ \A q \in Procs : q # p => proc'[q] = proc[q] /\ boots'[q] = boots[q]
        /\ \A w \in Workers : run'[w] = run[w] /\ locks'[w] = locks[w]
    <2>1. Quiet(p)
      BY DEF Quiet
    <2>2. UNCHANGED locks /\ boots'[p] = boots[p] + 1
      BY DEF BootServer, BootWorker, CronsInv, ControlTypes
    <2> QED BY <2>1, <2>2, QuietSteps
  <1>2. \A m : m \in Pending' => m \in Pending
    BY <1>1, Places, PlacesNext
  <1>3. Pairs' /\ Traced /\ Apart'
    BY <1>1, <1>2, OnceSubset DEF OnceInv, Apart
  <1>4. Own(p)' = {}
    BY <1>1, <1>2, NothingYet
  <1>5. \A q \in Procs : q # p => OwnTraced(q)
    BY <1>1, <1>3, OwnIsTraced
  <1>6. ServerOnce(p)'
    BY <1>4 DEF ServerOnce
  <1>7. ASSUME p \in Workers PROVE WorkerOnce(p)'
    <2>1. BootWorker(p)
      BY <1>7, Kinds
    <2>2. proc'[p].pc = "timer"
      BY <2>1 DEF BootWorker, Goes, Off, CronsInv, ControlTypes
    <2>3. run[p] = Waiting
      BY <1>7, <2>1 DEF BootWorker, CronsInv, WorkerOK
    <2>4. run'[p].pc # "publish"
      BY <1>1, <1>7, <2>3 DEF Waiting
    <2> QED BY <1>4, <2>2, <2>4 DEF WorkerOnce
  <1>8. (\A s \in Servers : ServerOnce(s)') /\ (\A w \in Workers : WorkerOnce(w)')
    BY <1>1, <1>5, <1>6, <1>7, OthersOnce
  <1> QED BY <1>3, <1>8 DEF OnceInv

(* An execution that is published by who has the lock or the drain for it.      *)
LEMMA OncePublishes ==
  ASSUME CronsInv, CronsInv', OnceInv, NEW p \in Procs, NEW c, NEW due, NEW send,
         Publishes(p, c, due, send), \A w \in Workers : run'[w].msg = run[w].msg,
         \A m \in Own(p) : m.cron = c /\ m.due = due => m.send # send
  PROVE  /\ Pairs' /\ Apart' /\ \A q \in Procs : q # p => OwnTraced(q)
         /\ \A m \in Own(p)' : m \in Own(p) \/ (m.cron = c /\ m.due = due /\ m.send = send)
  <1>1. UNCHANGED <<now, declared, routed, held, work, boots, locks>>
    BY DEF Publishes
  <1>2. PICK x \in Messages : /\ x \notin Pending /\ x.cron = c /\ x.due = due /\ x.send = send
                              /\ x.by = <<p, boots[p]>> /\ queue' = queue \cup {x}
    BY DEF Publishes
  <1>3. \A m : m \in Pending' => m \in Pending \cup {x}
    BY <1>1, <1>2, Places, PlacesNext
  <1>4. Apart'
    BY <1>1, <1>2, ApartPut DEF OnceInv
  <1>5. \A q \in Procs : q # p => OwnTraced(q)
    BY <1>1, <1>2, <1>3, OthersTraced
  <1>6. \A m \in Own(p)' : m \in Own(p) \/ (m.cron = c /\ m.due = due /\ m.send = send)
    BY <1>1, <1>2, <1>3 DEF Own
  <1>7. ASSUME NEW m \in Pending, m.cron = x.cron, m.due = x.due, m.by = x.by PROVE m.send # x.send
    <2>1. m \in Own(p)
      BY <1>2, <1>7 DEF Own
    <2> QED BY <1>2, <1>7, <2>1
  <1>8. Pairs'
    BY <1>3, <1>7 DEF OnceInv, Pairs
  <1> QED BY <1>4, <1>5, <1>6, <1>8

(* A publish of a boot: what it has sent, and that it stands in nobody's way.   *)
LEMMA OwnSent ==
  ASSUME CronsInv, CronsInv', OnceInv, NEW p \in Procs, NEW st, Sends(p, st)
  PROVE  /\ Pairs' /\ Apart' /\ \A q \in Procs : q # p => OwnTraced(q)
         /\ \A m \in Own(p)' : \/ m \in Own(p)
                               \/ m.cron = Cron(p) /\ m.due = proc[p].due /\ m.send = Sent(p)
  <1>1. /\ \/ Publishes(p, Cron(p), proc[p].due, Sent(p))
           \/ queue' = queue
        /\ UNCHANGED <<now, declared, routed, held, work, boots, locks, run>>
    BY WasSent
  <1>2. CASE queue' = queue
    <2>1. \A m : m \in Pending' => m \in Pending
      BY <1>1, <1>2, Places, PlacesNext
    <2>2. Pairs' /\ Traced /\ Apart'
      BY <1>1, <1>2, <2>1, OnceSubset DEF OnceInv, Apart
    <2>3. \A q \in Procs : OwnTraced(q)
      BY <1>1, <2>2, OwnIsTraced
    <2>4. \A m \in Own(p)' : m \in Own(p)
      BY <1>1, <2>1 DEF Own
    <2> QED BY <2>2, <2>3, <2>4
  <1>3. CASE Publishes(p, Cron(p), proc[p].due, Sent(p))
    <2>0. /\ proc[p].pc \in {"publish", "resend"} /\ proc[p].pc \in Booting /\ proc[p].pc # "off"
          /\ proc[p].at \in 1 .. Len(Order)
          /\ proc[p].pc = "publish" => proc[p].due = NextDate(Cron(p))
      BY AtCron, AtPublish DEF Sends, Booting
    <2>1. PICK c, due, send : c = Cron(p) /\ due = proc[p].due /\ send = Sent(p)
      OBVIOUS
    <2>2. ASSUME NEW m \in Own(p), m.cron = c, m.due = due PROVE m.send # send
      <3>1. CASE p \in Servers
        <4>1. \/ \E j \in 1 .. proc[p].at - 1 : m.cron = Order[j]
              \/ proc[p].pc = "resend" /\ m.send = 1
          BY <2>0, <2>2, <3>1 DEF OnceInv, ServerOnce
        <4>2. c = Order[proc[p].at]
          BY <2>1 DEF Cron
        <4>3. \A j \in 1 .. proc[p].at - 1 : Order[j] # c
          <5>1. PICK i \in 1 .. Len(Order) : i = proc[p].at
            BY <2>0
          <5>2. \A j \in 1 .. i - 1 : j \in 1 .. Len(Order) /\ j # i
            BY Orders
          <5> QED BY <4>2, <5>1, <5>2, Orders
        <4> QED BY <2>1, <2>2, <4>1, <4>3 DEF Sent
      <3>2. CASE p \in Workers
        <4>1. WorkerOnce(p)
          BY <3>2 DEF OnceInv
        <4>2. CASE proc[p].pc = "publish"
          BY <2>0, <2>1, <2>2, <4>1, <4>2 DEF WorkerOnce, Unpublished
        <4>3. CASE proc[p].pc = "resend"
          <5>1. m.send = 1
            BY <2>0, <2>1, <2>2, <4>1, <4>3 DEF WorkerOnce, SentOnce
          <5> QED BY <2>1, <4>3, <5>1 DEF Sent
        <4> QED BY <2>0, <4>2, <4>3
      <3> QED BY <3>1, <3>2, Kinds
    <2>3. \A w \in Workers : run'[w].msg = run[w].msg
      BY <1>1
    <2> QED BY <1>3, <2>1, <2>2, <2>3, OncePublishes
  <1> QED BY <1>1, <1>2, <1>3

LEMMA OnceSent ==
  ASSUME CronsInv, CronsInv', OnceInv, NEW p \in Procs, NEW st, Sends(p, st),
         \/ st = NextCron(p)
         \/ st = [proc[p] EXCEPT !.pc = "resend"] /\ proc[p].pc = "publish"
         \/ st.pc = "failed"
  PROVE  OnceInv'
  <1>1. /\ UNCHANGED <<now, boots, locks, run>>
        /\ proc'[p] = st /\ \A q \in Procs : q # p => proc'[q] = proc[q]
    BY WasSent
  <1>2. /\ proc[p].pc \in {"publish", "resend"} /\ proc[p].pc \in Booting /\ proc[p].pc # "off"
        /\ proc[p].at \in 1 .. Len(Order) /\ Cron(p) \in Crons /\ proc[p] \in ProcStates
        /\ proc[p].pc = "publish" => proc[p].due = NextDate(Cron(p))
        /\ proc[p].due > now => proc[p].due = NextDate(Cron(p))
    BY AtCron, AtPublish DEF Sends
  <1>3. \/ /\ st.pc \in (IF p \in Servers THEN {"up", "count"} ELSE {"up", "peek"})
           /\ st.pc # "up" => st.at = proc[p].at + 1
        \/ /\ st.pc = "resend" /\ proc[p].pc = "publish" /\ st.at = proc[p].at /\ st.due = proc[p].due
        \/ st.pc = "failed"
    <2>1. CASE st = NextCron(p)
      BY <1>2, <2>1, AtCron
    <2>2. CASE st = [proc[p] EXCEPT !.pc = "resend"] /\ proc[p].pc = "publish"
      BY <2>2, Resends
    <2> QED BY <2>1, <2>2
  <1>4. PICK c, due : c \in Crons /\ c = Cron(p) /\ due = proc[p].due
    BY <1>2
  <1>5. /\ Pairs' /\ Apart' /\ \A q \in Procs : q # p => OwnTraced(q)
        /\ \A m \in Own(p)' : m \in Own(p) \/ (m.cron = c /\ m.due = due /\ m.send = Sent(p))
    BY <1>4, OwnSent
  <1>6. ASSUME p \in Servers PROVE ServerOnce(p)'
    <2> SUFFICES ASSUME proc'[p].pc \in Booting, NEW m \in Own(p)'
                 PROVE  \/ \E j \in 1 .. proc'[p].at - 1 : m.cron = Order[j]
                        \/ proc'[p].pc = "resend" /\ m.cron = Cron(p)' /\ m.send = 1
      BY DEF ServerOnce
    <2>1. PICK i \in Nat : i = proc[p].at /\ i >= 1
      BY <1>2, Orders
    <2>2. c = Order[i]
      BY <1>4, <2>1 DEF Cron
    <2>3. m \in Own(p) => \/ \E j \in 1 .. i - 1 : m.cron = Order[j]
                          \/ m.cron = c /\ proc[p].pc = "resend"
      BY <1>2, <1>4, <1>6, <2>1 DEF OnceInv, ServerOnce
    <2>4. CASE proc'[p].at = i + 1
      <3>1. \/ \E j \in 1 .. i - 1 : m.cron = Order[j]
            \/ m.cron = c
        BY <1>5, <2>3
      <3>2. \A j \in 1 .. i - 1 : j \in 1 .. (i + 1) - 1
        OBVIOUS
      <3>3. i \in 1 .. (i + 1) - 1
        BY <2>1
      <3> QED BY <2>2, <2>4, <3>1, <3>2, <3>3
    <2>5. CASE proc'[p].pc = "resend" /\ proc[p].pc = "publish" /\ proc'[p].at = i
      <3>1. Cron(p)' = c
        BY <2>2, <2>5 DEF Cron
      <3>2. Sent(p) = 1
        BY <2>5 DEF Sent
      <3> QED BY <1>5, <2>3, <2>5, <3>1, <3>2
    <2> QED BY <1>1, <1>3, <2>1, <2>4, <2>5 DEF Booting
  <1>7. ASSUME p \in Workers PROVE WorkerOnce(p)'
    <2>1. /\ \A m \in Own(p) : m.due > now => <<m.cron, m.due>> \in locks[p]
          /\ due > now => <<c, due>> \in locks[p]
          /\ proc[p].pc = "publish" => /\ due = NextDate(c) /\ <<c, NextDate(c)>> \in locks[p]
                                       /\ \A m \in Own(p) : m.cron = c => m.due # due
          /\ run[p].pc = "publish" =>
               \A m \in run[p].msg : Unpublished(p, m.cron) /\ (m.cron = c => due # NextDate(c))
      <3>1. WorkerOnce(p)
        BY <1>7 DEF OnceInv
      <3>2. CASE proc[p].pc = "publish"
        BY <1>2, <1>4, <3>1, <3>2 DEF WorkerOnce, Unpublished, Competes
      <3>3. CASE proc[p].pc = "resend"
        BY <1>2, <1>4, <3>1, <3>3 DEF WorkerOnce, SentOnce, Competes
      <3> QED BY <1>2, <3>2, <3>3
    <2>2. \A m \in Own(p)' : m.due > now' => <<m.cron, m.due>> \in locks'[p]
      BY <1>1, <1>5, <2>1
    <2>3. proc'[p].pc # "publish"
      BY <1>1, <1>3
    <2>4. ASSUME proc'[p].pc = "resend" PROVE SentOnce(p)' /\ Cron(p)' = c /\ proc'[p].due = due /\ due = NextDate(c)
      <3>1. st.pc = "resend" /\ proc[p].pc = "publish" /\ proc'[p].at = proc[p].at /\ proc'[p].due = due
        BY <1>1, <1>3, <1>4, <2>4
      <3>2. Cron(p)' = c /\ Sent(p) = 1
        BY <1>4, <3>1 DEF Cron, Sent
      <3>3. \A m \in Own(p)' : m.cron = c /\ m.due = due => m.send = 1
        BY <1>5, <2>1, <3>1, <3>2
      <3> QED BY <1>1, <2>1, <3>1, <3>2, <3>3 DEF SentOnce
    <2>5. ASSUME run'[p].pc = "publish", NEW m \in run'[p].msg PROVE Unpublished(p, m.cron)' /\ ~Competes(p, m.cron)'
      <3>1. m \in run[p].msg /\ run[p].pc = "publish"
        BY <1>1, <2>5
      <3>2. PICK d : d = m.cron
        OBVIOUS
      <3>3. Unpublished(p, d) /\ (d = c => due # NextDate(c))
        BY <2>1, <3>1, <3>2
      <3>4. \A n \in Own(p)' : n.cron = d => n.due # NextDate(d)'
        BY <1>1, <1>5, <3>3 DEF Unpublished, NextDate
      <3>5. Unpublished(p, d)'
        BY <1>1, <3>3, <3>4 DEF Unpublished, NextDate
      <3>6. ~Competes(p, d)'
        BY <2>3, <2>4, <3>3 DEF Competes
      <3> QED BY <3>2, <3>5, <3>6
    <2> QED BY <2>2, <2>3, <2>4, <2>5 DEF WorkerOnce
  <1>8. (\A s \in Servers : ServerOnce(s)') /\ (\A w \in Workers : WorkerOnce(w)')
    BY <1>1, <1>5, <1>6, <1>7, OthersOnce
  <1> QED BY <1>5, <1>8 DEF OnceInv

LEMMA OncePublished ==
  ASSUME CronsInv, CronsInv', OnceInv, NEW p \in Procs,
         Publish(p) \/ Unconfirmed(p) \/ UnconfirmedAgain(p)
  PROVE  OnceInv'
  <1>1. CASE Publish(p)
    BY <1>1, Sendings, OnceSent
  <1>2. CASE Unconfirmed(p)
    BY <1>2, Sendings, OnceSent
  <1>3. CASE UnconfirmedAgain(p)
    <2>1. PICK st : st = [Off EXCEPT !.pc = "failed"]
      OBVIOUS
    <2>2. st.pc = "failed"
      BY <2>1 DEF Off
    <2> QED BY <1>3, <2>1, <2>2, Sendings, OnceSent
  <1> QED BY <1>1, <1>2, <1>3

LEMMA OncePublishedNext ==
  ASSUME CronsInv, CronsInv', OnceInv, NEW w \in Workers, PublishNext(w)
  PROVE  OnceInv'
  <1>0. w \in Procs /\ w \notin Servers
    BY Kinds
  <1>1. /\ proc' = proc /\ proc[w].pc # "off"
        /\ run[w].pc = "publish" /\ run'[w].pc = "running"
        /\ \A v \in Workers : run'[v].msg = run[v].msg
        /\ \A v \in Workers : v # w => run'[v] = run[v]
    BY PublishedNext
  <1>2. PICK m \in Messages : run[w].msg = {m} /\ Publishes(w, m.cron, NextDate(m.cron), 1)
    BY PublishedNext
  <1>3. PICK c, due : c \in Crons /\ c = m.cron /\ due = NextDate(c)
    BY DEF Messages
  <1>4. UNCHANGED <<now, boots, locks>>
    BY <1>2 DEF Publishes
  <1>5. /\ \A n \in Own(w) : n.due > now => <<n.cron, n.due>> \in locks[w]
        /\ proc[w].pc = "publish" => Unpublished(w, Cron(w))
        /\ proc[w].pc = "resend" => SentOnce(w)
        /\ Unpublished(w, c) /\ ~Competes(w, c)
    BY <1>1, <1>2, <1>3 DEF OnceInv, WorkerOnce
  <1>6. /\ Pairs' /\ Apart' /\ \A q \in Procs : q # w => OwnTraced(q)
        /\ \A n \in Own(w)' : n \in Own(w) \/ (n.cron = c /\ n.due = due /\ n.send = 1)
    <2>1. \A n \in Own(w) : n.cron = c /\ n.due = due => n.send # 1
      BY <1>3, <1>5 DEF Unpublished
    <2>2. Publishes(w, c, due, 1)
      BY <1>2, <1>3
    <2> QED BY <1>0, <1>1, <2>1, <2>2, OncePublishes
  <1>7. WorkerOnce(w)'
    <2>1. \A n \in Own(w)' : n.due > now' => <<n.cron, n.due>> \in locks'[w]
      BY <1>3, <1>4, <1>5, <1>6 DEF Unpublished
    <2>2. ASSUME proc'[w].pc = "publish" PROVE Unpublished(w, Cron(w))'
      <3>1. PICK d : d = Cron(w) /\ Cron(w)' = d
        BY <1>1 DEF Cron
      <3>2. Unpublished(w, d) /\ d # c
        BY <1>1, <1>5, <2>2, <3>1 DEF Competes
      <3>3. \A n \in Own(w)' : n.cron = d => n.due # NextDate(d)'
        BY <1>4, <1>6, <3>2 DEF Unpublished, NextDate
      <3>4. Unpublished(w, d)'
        BY <1>4, <3>2, <3>3 DEF Unpublished, NextDate
      <3> QED BY <3>1, <3>4
    <2>3. ASSUME proc'[w].pc = "resend" PROVE SentOnce(w)'
      <3>1. SentOnce(w) /\ Cron(w)' = Cron(w) /\ proc'[w].due = proc[w].due
        BY <1>1, <1>5, <2>3 DEF Cron
      <3> QED BY <1>4, <1>6, <3>1 DEF SentOnce
    <2> QED BY <1>1, <2>1, <2>2, <2>3 DEF WorkerOnce
  <1>8. (\A s \in Servers : ServerOnce(s)') /\ (\A v \in Workers : WorkerOnce(v)')
    BY <1>0, <1>1, <1>4, <1>6, <1>7, OthersOnce
  <1> QED BY <1>6, <1>8 DEF OnceInv

(* A new lock: nothing of that date has been published.                         *)
LEMMA NewLock ==
  ASSUME CronsInv, OnceInv, now' = now, NEW w \in Workers, OwnTraced(w), proc[w].pc # "off",
         NEW c \in Crons, <<c, NextDate(c)>> \notin locks[w],
         locks'[w] = locks[w] \cup {<<c, NextDate(c)>>}
  PROVE  /\ Unpublished(w, c)'
         /\ \A n \in Own(w)' : n.due > now' => <<n.cron, n.due>> \in locks'[w]
  <1>1. \A n \in Own(w) : n.due > now => <<n.cron, n.due>> \in locks[w]
    BY DEF OnceInv, WorkerOnce
  <1>2. NextDate(c) > now /\ NextDate(c)' = NextDate(c)
    BY NextDates DEF CronsInv, ControlTypes, NextDate
  <1>3. \A n \in Own(w)' : n.due > now => <<n.cron, n.due>> \in locks[w]
    BY <1>1 DEF OwnTraced
  <1>4. \A n \in Own(w)' : n.cron = c => n.due # NextDate(c)
    BY <1>2, <1>3
  <1> QED BY <1>2, <1>3, <1>4 DEF Unpublished

LEMMA OnceLocked ==
  ASSUME CronsInv, CronsInv', OnceInv, NEW w \in Workers, LockRepair(w)
  PROVE  OnceInv'
  <1>0. w \in Procs /\ w \notin Servers /\ proc[w].pc = "missing" /\ proc[w].pc \in Booting /\ proc[w].pc # "off"
    BY Kinds DEF LockRepair, Booting
  <1>1. /\ UNCHANGED <<now, queue, held, work, run, boots>>
        /\ \A q \in Procs : q # w => proc'[q] = proc[q]
    <2>1. Quiet(w) /\ UNCHANGED boots
      BY DEF Quiet, LockRepair
    <2> QED BY <1>0, <2>1, QuietSteps
  <1>2. \A m : m \in Pending' => m \in Pending
    BY <1>1, Places, PlacesNext
  <1>3. Pairs' /\ Traced /\ Apart'
    BY <1>1, <1>2, OnceSubset DEF OnceInv, Apart
  <1>4. \A q \in Procs : OwnTraced(q)
    BY <1>1, <1>3, OwnIsTraced
  <1>5. PICK c \in Crons : c = Cron(w)
    BY <1>0, AtCron
  <1>6. WorkerOnce(w)' /\ \A v \in Workers : v # w => locks'[v] = locks[v]
    <2>1. CASE <<c, NextDate(c)>> \in locks[w]
      <3>1. locks' = locks /\ proc'[w] = NextCron(w)
        BY <1>0, <1>5, <2>1 DEF LockRepair, Locked, Goes, CronsInv, ControlTypes
      <3>2. proc'[w].pc # "publish" /\ proc'[w].pc # "resend"
        BY <1>0, <3>1, AtCron
      <3> QED BY <1>0, <1>1, <1>4, <3>1, <3>2, WorkerKeeps DEF OnceInv
    <2>2. CASE <<c, NextDate(c)>> \notin locks[w]
      <3>1. /\ locks'[w] = locks[w] \cup {<<c, NextDate(c)>>} /\ \A v \in Workers : v # w => locks'[v] = locks[v]
            /\ proc'[w].pc = "publish" /\ proc'[w].at = proc[w].at
        <4>1. PICK st : st = [proc[w] EXCEPT !.pc = "publish", !.due = NextDate(c)]
          OBVIOUS
        <4>2. st.pc = "publish" /\ st.at = proc[w].at
          BY <1>0, <4>1 DEF CronsInv, ControlTypes, ProcStates
        <4>3. Goes(w, st) /\ locks' = [locks EXCEPT ![w] = @ \cup {<<c, NextDate(c)>>}]
          BY <1>5, <2>2, <4>1 DEF LockRepair, Locked, Locks
        <4>4. proc'[w] = st
          BY <1>0, <4>3 DEF Goes, CronsInv, ControlTypes
        <4>5. /\ locks'[w] = locks[w] \cup {<<c, NextDate(c)>>}
              /\ \A v \in Workers : v # w => locks'[v] = locks[v]
          BY <4>3 DEF CronsInv, ControlTypes
        <4> QED BY <4>2, <4>4, <4>5
      <3>2. Cron(w)' = c
        BY <1>5, <3>1 DEF Cron
      <3>3. /\ Unpublished(w, c)'
            /\ \A n \in Own(w)' : n.due > now' => <<n.cron, n.due>> \in locks'[w]
        BY <1>0, <1>1, <1>4, <2>2, <3>1, NewLock
      <3>4. ASSUME run'[w].pc = "publish", NEW m \in run'[w].msg
            PROVE  Unpublished(w, m.cron)' /\ ~Competes(w, m.cron)'
        <4>1. m \in run[w].msg /\ run[w].pc = "publish"
          BY <1>1, <3>4
        <4>2. PICK d : d = m.cron
          OBVIOUS
        <4>3. Unpublished(w, d)
          BY <1>0, <4>1, <4>2 DEF OnceInv, WorkerOnce
        <4>4. Unpublished(w, d)'
          BY <1>0, <1>1, <1>4, <3>1, <4>3, UnpublishedStays
        <4>5. d # c
          BY <2>2, <4>3 DEF Unpublished
        <4> QED BY <3>1, <3>2, <4>2, <4>4, <4>5 DEF Competes
      <3>5. Unpublished(w, Cron(w))'
        BY <3>2, <3>3
      <3> QED BY <3>1, <3>2, <3>3, <3>4, <3>5 DEF WorkerOnce
    <2> QED BY <2>1, <2>2
  <1>7. (\A s \in Servers : ServerOnce(s)') /\ (\A v \in Workers : WorkerOnce(v)')
    BY <1>0, <1>1, <1>4, <1>6, OthersOnce
  <1> QED BY <1>3, <1>7 DEF OnceInv

LEMMA OnceHandled ==
  ASSUME CronsInv, CronsInv', OnceInv, NEW w \in Workers, Handle(w)
  PROVE  OnceInv'
  <1>0. w \in Procs /\ w \notin Servers
    BY Kinds
  <1>1. /\ UNCHANGED <<now, held, proc, boots, queue>>
        /\ proc[w].pc # "off" /\ run[w].pc = "idle" /\ run[w].msg = {}
        /\ \A v \in Workers : v # w => run'[v] = run[v] /\ locks'[v] = locks[v]
    BY Handled DEF Consumes
  <1>2. PICK m \in work :
          /\ m \in Messages /\ work' = work \ {m}
          /\ \/ m.cron \notin Active /\ UNCHANGED <<run, locks>>
             \/ /\ m.cron \in Active /\ <<m.cron, NextDate(m.cron)>> \in locks[w] /\ locks' = locks
                /\ run'[w].pc = "running" /\ run'[w].msg = {m}
             \/ /\ m.cron \in Active /\ <<m.cron, NextDate(m.cron)>> \notin locks[w]
                /\ locks'[w] = locks[w] \cup {<<m.cron, NextDate(m.cron)>>}
                /\ run'[w].pc = "publish" /\ run'[w].msg = {m}
    BY Handled
  <1>3. Apart'
    <2>1. run'[w].msg \subseteq {m}
      BY <1>1, <1>2
    <2> QED BY <1>1, <1>2, <2>1, ApartConsumed DEF OnceInv
  <1>4. \A n : n \in Pending' => n \in Pending
    <2>1. run'[w].msg \subseteq {m}
      BY <1>1, <1>2
    <2> QED BY <1>1, <1>2, <2>1, Places, PlacesNext
  <1>5. Pairs' /\ Traced
    BY <1>4, OnceSubset DEF OnceInv
  <1>6. \A q \in Procs : OwnTraced(q)
    BY <1>1, <1>5, OwnIsTraced
  <1>7. PICK c \in Crons : c = m.cron
    BY <1>2 DEF Messages
  <1>8. WorkerOnce(w)'
    <2>1. CASE locks' = locks /\ run'[w].pc # "publish"
      BY <1>0, <1>1, <1>6, <2>1, WorkerKeeps DEF OnceInv, Cron
    <2>2. CASE /\ <<c, NextDate(c)>> \notin locks[w] /\ locks'[w] = locks[w] \cup {<<c, NextDate(c)>>}
               /\ run'[w].pc = "publish" /\ run'[w].msg = {m}
      <3>1. /\ Unpublished(w, c)'
            /\ \A n \in Own(w)' : n.due > now' => <<n.cron, n.due>> \in locks'[w]
        BY <1>0, <1>1, <1>6, <2>2, NewLock
      <3>2. ASSUME proc'[w].pc = "publish" PROVE Unpublished(w, Cron(w))' /\ ~Competes(w, c)'
        <4>1. PICK d : d = Cron(w) /\ Cron(w)' = d
          BY <1>1 DEF Cron
        <4>2. Unpublished(w, d)
          BY <1>1, <3>2, <4>1 DEF OnceInv, WorkerOnce
        <4>3. Unpublished(w, d)' /\ d # c
          BY <1>0, <1>1, <1>6, <2>2, <4>2, UnpublishedStays DEF Unpublished
        <4> QED BY <3>2, <4>1, <4>3 DEF Competes
      <3>3. \A n \in run'[w].msg : n.cron = c
        BY <1>7, <2>2
      <3>4. ASSUME NEW n \in run'[w].msg PROVE Unpublished(w, n.cron)'
        BY <3>1, <3>3
      <3>5. ASSUME proc'[w].pc = "resend" PROVE SentOnce(w)' /\ ~Competes(w, c)'
        <4>1. proc'[w] = proc[w] /\ proc[w].pc = "resend" /\ SentOnce(w)
          BY <1>1, <3>5 DEF OnceInv, WorkerOnce
        <4>2. SentOnce(w)'
          BY <1>0, <1>1, <1>6, <2>2, <4>1, SentOnceStays
        <4>3. ASSUME Competes(w, c)' PROVE FALSE
          <5>1. Cron(w) = c /\ proc[w].due = NextDate(c)
            BY <1>1, <4>1, <4>3 DEF Competes, Cron, NextDate
          <5>2. NextDate(c) > now
            BY NextDates DEF CronsInv, ControlTypes
          <5>3. <<c, NextDate(c)>> \in locks[w]
            BY <4>1, <5>1, <5>2 DEF SentOnce
          <5> QED BY <2>2, <5>3
        <4> QED BY <4>2, <4>3
      <3>6. ASSUME proc'[w].pc \notin {"publish", "resend"} PROVE ~Competes(w, c)'
        BY <3>6 DEF Competes
      <3>7. ~Competes(w, c)'
        BY <3>2, <3>5, <3>6
      <3> QED BY <3>1, <3>2, <3>3, <3>4, <3>5, <3>7 DEF WorkerOnce
    <2> QED BY <1>1, <1>2, <1>7, <2>1, <2>2
  <1>9. (\A s \in Servers : ServerOnce(s)') /\ (\A v \in Workers : WorkerOnce(v)')
    BY <1>0, <1>1, <1>6, <1>8, OthersOnce
  <1> QED BY <1>3, <1>5, <1>9 DEF OnceInv

LEMMA OnceTicked ==
  ASSUME CronsInv, CronsInv', OnceInv, Tick
  PROVE  OnceInv'
  <1>1. /\ UNCHANGED <<declared, routed, queue, held, work, run, proc, boots>>
        /\ now \in Nat /\ now' = now + 1
        /\ \A w \in Workers : locks'[w] = {l \in locks[w] : l[2] > now'}
        /\ \A p \in Procs : proc[p].pc # "publish"
        /\ \A w \in Workers : run[w].pc # "publish"
    BY DEF Tick, CronsInv, ControlTypes
  <1>2. \A m : m \in Pending' => m \in Pending
    BY <1>1, Places, PlacesNext
  <1>3. Pairs' /\ Traced /\ Apart'
    BY <1>1, <1>2, OnceSubset DEF OnceInv, Apart
  <1>4. \A q \in Procs : OwnTraced(q)
    BY <1>1, <1>3, OwnIsTraced
  <1>5. ASSUME NEW s \in Servers PROVE ServerOnce(s)'
    <2>1. proc[s].at \in Nat /\ proc[s].at <= proc[s].at /\ ServerOnce(s) /\ OwnTraced(s)
      BY <1>4, Kinds DEF CronsInv, ControlTypes, ProcStates, OnceInv
    <2> QED BY <1>1, <2>1, ServerKeeps
  <1>6. ASSUME NEW w \in Workers PROVE WorkerOnce(w)'
    <2>1. ASSUME proc[w].pc # "off", NEW m \in Own(w)', m.due > now' PROVE <<m.cron, m.due>> \in locks'[w]
      <3>1. PICK n \in Own(w) : m.cron = n.cron /\ m.due = n.due
        BY <1>4, Kinds DEF OwnTraced
      <3>2. n.due \in Nat
        <4>1. n \in Messages
          BY AllMessages DEF Own
        <4> QED BY <4>1 DEF Messages, Dates
      <3>3. n.due > now
        BY <1>1, <2>1, <3>1, <3>2
      <3>4. <<n.cron, n.due>> \in locks[w]
        BY <2>1, <3>1, <3>3 DEF OnceInv, WorkerOnce
      <3> QED BY <1>1, <2>1, <3>1, <3>4
    <2>2. proc'[w].pc # "publish" /\ run'[w].pc # "publish" /\ proc'[w] = proc[w]
      BY <1>1, Kinds
    <2>3. ASSUME proc[w].pc = "resend" PROVE SentOnce(w)'
      <3>1. SentOnce(w) /\ Cron(w)' = Cron(w) /\ OwnTraced(w)
        BY <1>1, <1>4, <2>3, Kinds DEF OnceInv, WorkerOnce, Cron
      <3>2. PICK due \in Nat : due = proc[w].due
        BY <2>3, AtPublish, Kinds DEF Dates
      <3>3. due > now' => <<Cron(w), due>> \in locks[w] /\ due > now'
        BY <1>1, <3>1, <3>2 DEF SentOnce
      <3>4. due > now' => <<Cron(w), due>> \in locks'[w]
        BY <1>1, <3>3
      <3> QED BY <2>2, <3>1, <3>2, <3>4 DEF SentOnce, OwnTraced
    <2> QED BY <2>1, <2>2, <2>3 DEF WorkerOnce
  <1> QED BY <1>3, <1>5, <1>6 DEF OnceInv

LEMMA InitOnce ==
  ASSUME Init
  PROVE  OnceInv
  <1>1. /\ queue = {} \/ \E c \in Crons : queue = {Leftover(c)}
        /\ work = {} /\ \A p \in Procs : held[p] = {} /\ proc[p].pc = "off"
        /\ \A w \in Workers : run[w].msg = {}
    BY DEF Init, Waiting, Off
  <1>2. Apart
    BY <1>1 DEF Apart
  <1>3. Pairs
    <2>1. \A m : m \in Pending <=> m \in queue
      BY <1>1, Places
    <2> QED BY <1>1, <2>1 DEF Pairs
  <1>4. (\A s \in Servers : ServerOnce(s)) /\ (\A w \in Workers : WorkerOnce(w))
    BY <1>1, Kinds DEF ServerOnce, WorkerOnce, Booting
  <1> QED BY <1>2, <1>3, <1>4 DEF OnceInv

LEMMA OnceStep ==
  ASSUME CronsInv, CronsInv', OnceInv, [Next]_vars
  PROVE  OnceInv'
  <1>1. CASE Expire \/ Tick
    BY <1>1, OnceExpired, OnceTicked
  <1>2. CASE \E s \in Servers : BootServer(s) \/ Push(s)
    <2>1. PICK s \in Servers : BootServer(s) \/ Push(s)
      BY <1>2
    <2>2. s \in Procs
      BY Kinds
    <2>3. CASE BootServer(s)
      BY <2>2, <2>3, OnceBooted
    <2>4. CASE Push(s)
      BY <2>2, <2>4, OnceTaken
    <2> QED BY <2>1, <2>3, <2>4
  <1>3. CASE \E w \in Workers : BootWorker(w) \/ PeekFails(w) \/ Handle(w) \/ PublishNext(w) \/ Ends(w)
    BY <1>3, OnceBooted, OnceReturned, OnceHandled, OncePublishedNext, OnceEnded, Kinds
  <1>4. CASE \E p \in Procs : BootStep(p) \/ Unconfirmed(p) \/ UnconfirmedAgain(p) \/ Fails(p) \/ Crash(p)
    <2>1. CASE \E p \in Procs : Publish(p) \/ Unconfirmed(p) \/ UnconfirmedAgain(p) \/ Fails(p) \/ Crash(p)
      <3>1. PICK p \in Procs : Publish(p) \/ Unconfirmed(p) \/ UnconfirmedAgain(p) \/ Fails(p) \/ Crash(p)
        BY <2>1
      <3>2. CASE Publish(p) \/ Unconfirmed(p) \/ UnconfirmedAgain(p)
        BY <3>2, OncePublished
      <3>3. CASE Fails(p)
        BY <3>3, OnceReturned
      <3>4. CASE Crash(p)
        BY <3>4, OnceCrashed
      <3> QED BY <3>1, <3>2, <3>3, <3>4
    <2>2. CASE \E s \in Servers : Ensure(s) \/ Count(s) \/ Receive(s) \/ Closed(s)
      <3>1. PICK s \in Servers : Ensure(s) \/ Count(s) \/ Receive(s) \/ Closed(s)
        BY <2>2
      <3>2. s \in Procs
        BY Kinds
      <3>3. CASE Ensure(s) \/ Count(s)
        BY <3>2, <3>3, OnceMoved
      <3>4. CASE Receive(s)
        BY <3>2, <3>4, OnceTaken
      <3>5. CASE Closed(s)
        BY <3>2, <3>5, OnceReturned
      <3> QED BY <3>1, <3>3, <3>4, <3>5
    <2>3. CASE \E w \in Workers : \/ RepairBegins(w) \/ SkipInactive(w) \/ Peek(w) \/ Get(w) \/ Read(w)
                                  \/ LockRepair(w)
      BY <2>3, OnceMoved, OnceTaken, OnceReturned, OnceLocked, Kinds
    <2> QED BY <1>4, <2>1, <2>2, <2>3 DEF BootStep
  <1>5. CASE UNCHANGED vars
    <2>1. UNCHANGED <<now, queue, held, work, run, proc, boots, locks>>
      BY <1>5 DEF vars
    <2>2. \A m : m \in Pending' => m \in Pending
      BY <2>1, Places, PlacesNext
    <2>3. Pairs' /\ Traced /\ Apart'
      BY <2>1, <2>2, OnceSubset DEF OnceInv, Apart
    <2>4. \A p \in Procs : proc[p].at \in Nat
      BY DEF CronsInv, ControlTypes, ProcStates
    <2>5. \A s \in Servers : ServerStays(s)
      BY <2>1, <2>4, Kinds DEF ServerStays
    <2>6. \A w \in Workers : Cron(w)' = Cron(w)
      BY <2>1 DEF Cron
    <2> QED BY <2>1, <2>3, <2>5, <2>6, OnceKept
  <1> QED BY <1>1, <1>2, <1>3, <1>4, <1>5 DEF Next

(* A second sending follows a failure.                                          *)
LEMMA SpentGrows ==
  ASSUME CronsInv, [Next]_vars
  PROVE  spent["fault"] \in Nat /\ spent'["fault"] \in Nat /\ spent'["fault"] >= spent["fault"]
  <1>1. spent \in [DOMAIN Faults -> Nat] /\ DOMAIN Faults = {"fault", "meanwhile"}
    BY DEF CronsInv, Bounded, Faults
  <1>2. \A f \in DOMAIN Faults : Spend(f) => spent'["fault"] \in Nat /\ spent'["fault"] >= spent["fault"]
    BY <1>1 DEF Spend
  <1>3. UNCHANGED spent \/ Spend("fault") \/ Spend("meanwhile")
    <2>1. CASE Expire \/ Tick
      BY <2>1 DEF Expire, Tick
    <2>2. CASE \E s \in Servers : BootServer(s) \/ Push(s)
      BY <2>2 DEF BootServer, Push
    <2>3. CASE \E w \in Workers : BootWorker(w) \/ PeekFails(w) \/ Handle(w) \/ PublishNext(w) \/ Ends(w)
      BY <2>3 DEF BootWorker, PeekFails, Handle, PublishNext, Ends
    <2>4. CASE \E p \in Procs : BootStep(p)
      BY <2>4 DEF BootStep, Publish, Ensure, Count, Receive, Closed, RepairBegins, SkipInactive, Peek, Get,
                  Read, LockRepair
    <2>5. CASE \E p \in Procs : Unconfirmed(p) \/ UnconfirmedAgain(p) \/ Fails(p) \/ Crash(p)
      BY <2>5 DEF Unconfirmed, UnconfirmedAgain, Fails, Crash
    <2>6. CASE UNCHANGED vars
      BY <2>6 DEF vars
    <2> QED BY <2>1, <2>2, <2>3, <2>4, <2>5, <2>6 DEF Next
  <1> QED BY <1>1, <1>2, <1>3

(* No process is at a second sending but after a first, and only such a one     *)
(* leaves a second copy.                                                        *)
FirstOrSecond ==
    /\ \A p \in Procs : proc'[p].pc = "resend" => proc[p].pc = "resend" \/ Unconfirmed(p)
    /\ \A m \in Pending' : \/ \E n \in Pending : m.send = n.send
                           \/ m.send = 1
                           \/ \E p \in Procs : proc[p].pc = "resend"
LEMMA Seconds ==
  ASSUME CronsInv, [Next]_vars
  PROVE  FirstOrSecond
  <1> DEFINE Trail == \A m \in Pending' : \/ \E n \in Pending : m.send = n.send
                                         \/ m.send = 1
                                         \/ \E p \in Procs : proc[p].pc = "resend"
             Moved(p) == /\ proc'[p].pc = "resend" => proc[p].pc = "resend" \/ Unconfirmed(p)
                         /\ \A q \in Procs : q # p => proc'[q] = proc[q]
  <1>0. proc \in [Procs -> ProcStates]
    BY DEF CronsInv, ControlTypes
  <1>1. ASSUME Pending' \subseteq Pending PROVE Trail
    BY <1>1
  <1>2. ASSUME NEW p \in Procs, Moved(p), Trail PROVE FirstOrSecond
    BY <1>2 DEF FirstOrSecond
  <1>3. ASSUME proc' = proc, Trail PROVE FirstOrSecond
    BY <1>3 DEF FirstOrSecond
  <1> HIDE DEF Trail
  <1>4. CASE Expire
    <2>1. PICK f \in queue, x \in Messages :
            /\ x.send = f.send /\ queue' = queue \ {f}
            /\ work' = IF routed THEN work \cup {x} ELSE work
      BY <1>4, Expired
    <2>2. UNCHANGED <<held, run, proc>>
      BY <1>4, Expired
    <2>3. \A m : m \in Pending' => m \in Pending \/ m.send = f.send
      BY <2>1, <2>2, Places, PlacesNext
    <2>4. f \in Pending
      BY Places
    <2>5. Trail
      BY <2>3, <2>4 DEF Trail
    <2> QED BY <1>3, <2>2, <2>5
  <1>5. CASE Tick \/ UNCHANGED vars
    <2>1. UNCHANGED <<queue, held, work, run, proc>>
      BY <1>5 DEF Tick, vars
    <2>2. \A m : m \in Pending' => m \in Pending
      BY <2>1, Places, PlacesNext
    <2> QED BY <1>1, <1>3, <2>1, <2>2
  <1>6. CASE \E p \in Procs : Quiet(p)
    <2>1. PICK p \in Procs : Quiet(p)
      BY <1>6
    <2>2. UNCHANGED <<queue, held, work, run>> /\ \A q \in Procs : q # p => proc'[q] = proc[q]
      BY <2>1, QuietSteps
    <2>3. \A m : m \in Pending' => m \in Pending
      BY <2>2, Places, PlacesNext
    <2>4. proc'[p].pc # "resend"
      <3>1. CASE BootServer(p) \/ BootWorker(p)
        BY <1>0, <3>1 DEF BootServer, BootWorker, Goes, Off
      <3>2. CASE Ensure(p) \/ RepairBegins(p)
        <4>1. proc'[p] = Entry(p, 1)
          BY <1>0, <3>2 DEF Ensure, RepairBegins, Goes
        <4> QED BY <4>1, Entries, Orders
      <3>3. CASE SkipInactive(p)
        <4>1. proc'[p] = NextCron(p) /\ proc[p].pc \in Booting
          BY <1>0, <3>3 DEF SkipInactive, Goes, Booting
        <4> QED BY <4>1, AtCron
      <3>4. CASE Count(p) \/ Peek(p)
        BY <1>0, <3>4 DEF Count, Peek, Goes, ProcStates
      <3>5. CASE LockRepair(p)
        <4>1. \/ proc'[p] = NextCron(p)
              \/ proc'[p] = [proc[p] EXCEPT !.pc = "publish", !.due = NextDate(Cron(p))]
          BY <1>0, <3>5 DEF LockRepair, Goes
        <4>2. proc[p].pc \in Booting /\ proc[p] \in ProcStates
          BY <1>0, <3>5 DEF LockRepair, Booting
        <4>3. NextCron(p).pc # "resend"
          BY <4>2, AtCron
        <4>4. PICK d : d = NextDate(Cron(p))
          OBVIOUS
        <4>5. [proc[p] EXCEPT !.pc = "publish", !.due = d].pc = "publish"
          BY <4>2 DEF ProcStates
        <4> QED BY <4>1, <4>3, <4>4, <4>5
      <3> QED BY <2>1, <3>1, <3>2, <3>3, <3>4, <3>5 DEF Quiet
    <2> QED BY <1>1, <1>2, <2>2, <2>3, <2>4
  <1>7. CASE \E p \in Procs : Receive(p) \/ Push(p) \/ Get(p)
    <2>1. PICK p \in Procs : Receive(p) \/ Push(p) \/ Get(p)
      BY <1>7
    <2>2. /\ UNCHANGED <<work, run>>
          /\ \A q \in Procs : q # p => held'[q] = held[q] /\ proc'[q] = proc[q]
          /\ \E f \in queue : queue' = queue \ {f} /\ held'[p] \subseteq held[p] \cup {f}
      BY <2>1, Taken
    <2>3. \A m : m \in Pending' => m \in Pending
      BY <2>2, Places, PlacesNext
    <2>4. proc'[p].pc # "resend"
      BY <1>0, <2>1 DEF Receive, Push, Get, Goes, ProcStates
    <2> QED BY <1>1, <1>2, <2>2, <2>3, <2>4
  <1>8. CASE \E p \in Procs : Closed(p) \/ Read(p) \/ PeekFails(p) \/ Fails(p)
    <2>1. PICK p \in Procs : Closed(p) \/ Read(p) \/ PeekFails(p) \/ Fails(p)
      BY <1>8
    <2>2. /\ UNCHANGED <<work, run>> /\ queue' = queue \cup held[p] /\ held'[p] = {}
          /\ \A q \in Procs : q # p => held'[q] = held[q] /\ proc'[q] = proc[q]
      BY <2>1, Returned
    <2>3. \A m : m \in Pending' => m \in Pending
      BY <2>2, Places, PlacesNext
    <2>4. proc'[p].pc # "resend"
      <3>1. proc[p].pc \in Booting /\ proc[p] \in ProcStates
        BY <1>0, <2>1 DEF Closed, Read, PeekFails, Fails, Booting
      <3>2. NextCron(p).pc # "resend"
        BY <3>1, AtCron
      <3>3. CASE Closed(p)
        <4>1. PICK d : d = NextDate(Cron(p))
          OBVIOUS
        <4>2. proc'[p] = NextCron(p) \/ proc'[p] = [proc[p] EXCEPT !.pc = "publish", !.due = d]
          BY <1>0, <3>3, <4>1 DEF Closed, Goes
        <4>3. [proc[p] EXCEPT !.pc = "publish", !.due = d].pc = "publish"
          BY <3>1 DEF ProcStates
        <4> QED BY <3>2, <4>2, <4>3
      <3>4. CASE Read(p)
        BY <1>0, <3>1, <3>2, <3>4 DEF Read, Goes, ProcStates
      <3>5. CASE PeekFails(p) \/ Fails(p)
        BY <1>0, <3>1, <3>5 DEF PeekFails, Fails, Goes, Off, ProcStates
      <3> QED BY <2>1, <3>3, <3>4, <3>5
    <2> QED BY <1>1, <1>2, <2>2, <2>3, <2>4
  <1>9. CASE \E p \in Procs : Publish(p) \/ Unconfirmed(p) \/ UnconfirmedAgain(p)
    <2>1. PICK p \in Procs : Publish(p) \/ Unconfirmed(p) \/ UnconfirmedAgain(p)
      BY <1>9
    <2>2. PICK st : Sends(p, st) /\ (Unconfirmed(p) \/ st = NextCron(p) \/ st = [Off EXCEPT !.pc = "failed"])
      BY <2>1, Sendings
    <2>3. /\ Publishes(p, Cron(p), proc[p].due, Sent(p)) \/ queue' = queue
          /\ UNCHANGED <<held, work, run>>
          /\ proc'[p] = st /\ \A q \in Procs : q # p => proc'[q] = proc[q]
      BY <2>2, WasSent
    <2>4. \A m : m \in Pending' => m \in Pending \/ m.send = Sent(p)
      BY <2>3, Places, PlacesNext DEF Publishes
    <2>5. Sent(p) = 1 \/ proc[p].pc = "resend"
      BY <2>2 DEF Sends, Sent
    <2>6. Trail
      BY <2>4, <2>5 DEF Trail
    <2>7. Unconfirmed(p) \/ st.pc # "resend"
      <3>1. NextCron(p).pc # "resend"
        <4>1. proc[p].pc \in Booting
          BY <2>2 DEF Sends, Booting
        <4> QED BY <4>1, AtCron
      <3> QED BY <2>2, <3>1 DEF Off
    <2> QED BY <1>2, <2>3, <2>6, <2>7
  <1>10. CASE \E w \in Workers : PublishNext(w)
    <2>1. PICK w \in Workers : PublishNext(w)
      BY <1>10
    <2>2. PICK c, due : Publishes(w, c, due, 1)
      BY <2>1, PublishedNext
    <2>3. proc' = proc /\ \A v \in Workers : run'[v].msg = run[v].msg
      BY <2>1, PublishedNext
    <2>4. \A m : m \in Pending' => m \in Pending \/ m.send = 1
      BY <2>2, <2>3, Places, PlacesNext DEF Publishes
    <2>5. Trail
      BY <2>4 DEF Trail
    <2> QED BY <1>3, <2>3, <2>5
  <1>11. CASE \E w \in Workers : Handle(w)
    <2>1. PICK w \in Workers : Handle(w)
      BY <1>11
    <2>2. /\ UNCHANGED <<held, proc, queue>> /\ run[w].msg = {}
          /\ \A v \in Workers : v # w => run'[v] = run[v]
          /\ \E m \in work : work' = work \ {m} /\ run'[w].msg \subseteq {m}
      BY <2>1, Handled DEF Consumes
    <2>3. \A m : m \in Pending' => m \in Pending
      BY <2>2, Places, PlacesNext
    <2> QED BY <1>1, <1>3, <2>2, <2>3
  <1>12. CASE \E w \in Workers : Ends(w)
    <2>1. PICK w \in Workers : Ends(w)
      BY <1>12
    <2>2. /\ UNCHANGED <<queue, held, work, proc>> /\ run'[w].msg = {}
          /\ \A v \in Workers : v # w => run'[v] = run[v]
      BY <2>1, Ended
    <2>3. \A m : m \in Pending' => m \in Pending
      BY <2>2, Places, PlacesNext
    <2> QED BY <1>1, <1>3, <2>2, <2>3
  <1>13. CASE \E p \in Procs : Crash(p)
    <2>1. PICK p \in Procs : Crash(p)
      BY <1>13
    <2>2. Pending' \subseteq Pending
      BY <2>1, CrashPlaces
    <2>3. proc'[p].pc # "resend" /\ \A q \in Procs : q # p => proc'[q] = proc[q]
      BY <1>0, <2>1 DEF Crash, Goes, Off
    <2> QED BY <1>1, <1>2, <2>2, <2>3
  <1>14. CASE \E p \in Procs : BootStep(p)
    BY <1>6, <1>7, <1>8, <1>9, <1>14 DEF BootStep, Quiet
  <1>15. CASE \E s \in Servers : BootServer(s) \/ Push(s)
    BY <1>6, <1>7, <1>15, Kinds DEF Quiet
  <1>16. CASE \E w \in Workers : BootWorker(w) \/ PeekFails(w) \/ Handle(w) \/ PublishNext(w) \/ Ends(w)
    BY <1>6, <1>8, <1>10, <1>11, <1>12, <1>16, Kinds DEF Quiet
  <1> QED BY <1>4, <1>5, <1>8, <1>9, <1>13, <1>14, <1>15, <1>16 DEF Next

LEMMA ResentStep ==
  ASSUME CronsInv, ResentInv, [Next]_vars
  PROVE  ResentInv'
  <1>1. spent["fault"] \in Nat /\ spent'["fault"] \in Nat /\ spent'["fault"] >= spent["fault"]
    BY SpentGrows
  <1>2. FirstOrSecond
    BY Seconds
  <1>3. spent["fault"] > 0 => spent'["fault"] > 0
    BY <1>1
  <1>4. ASSUME NEW p \in Procs, Unconfirmed(p) PROVE spent'["fault"] > 0
    <2>1. spent' = [spent EXCEPT !["fault"] = spent["fault"] + 1] /\ "fault" \in DOMAIN spent
      BY <1>4 DEF Unconfirmed, Spend, CronsInv, Bounded, Faults
    <2> QED BY <1>1, <2>1
  <1>5. \A p \in Procs : proc'[p].pc = "resend" => spent'["fault"] > 0
    BY <1>2, <1>3, <1>4 DEF ResentInv, FirstOrSecond
  <1>6. \A m \in Pending' : m.send = 2 => spent'["fault"] > 0
    BY <1>2, <1>3 DEF ResentInv, FirstOrSecond
  <1> QED BY <1>5, <1>6 DEF ResentInv

LEMMA InitResent ==
  ASSUME Init
  PROVE  ResentInv
  <1>1. /\ queue = {} \/ \E c \in Crons : queue = {Leftover(c)}
        /\ work = {} /\ \A p \in Procs : held[p] = {} /\ proc[p].pc = "off"
        /\ \A w \in Workers : run[w].msg = {}
    BY DEF Init, Waiting, Off
  <1>2. \A m : m \in Pending => m \in queue
    BY <1>1, Places
  <1>3. \A m \in Pending : m.send = 1
    BY <1>1, <1>2 DEF Leftover
  <1> QED BY <1>1, <1>3 DEF ResentInv

LEMMA OnceHolds ==
  ASSUME CronsInv, OnceInv, ResentInv
  PROVE  PublishedOnce
  <1> SUFFICES ASSUME NEW m \in Pending, NEW n \in Pending,
                      m.cron = n.cron, m.due = n.due, m.by = n.by, m # n
               PROVE  {m.send, n.send} = {1, 2} /\ spent["fault"] > 0
    BY DEF PublishedOnce
  <1>1. m.send \in {1, 2} /\ n.send \in {1, 2}
    BY AllMessages DEF Messages
  <1>2. m.send # n.send
    BY DEF OnceInv, Pairs
  <1> QED BY <1>1, <1>2 DEF ResentInv

(* PublishedOnce: whoever gets the publish lock first publishes, a rewrite goes  *)
(* through each cron once, and a copy more is the second sending of a publish.  *)
THEOREM NoneTwice == Spec => []PublishedOnce
  <1>1. Init => CronsInv /\ OnceInv /\ ResentInv
    BY InitTypes, InitOnce, InitResent
  <1>2. CronsInv /\ OnceInv /\ ResentInv /\ [Next]_vars => CronsInv' /\ OnceInv' /\ ResentInv'
    BY TypesStep, OnceStep, ResentStep
  <1>3. CronsInv /\ OnceInv /\ ResentInv => PublishedOnce
    BY OnceHolds
  <1> QED BY <1>1, <1>2, <1>3, PTL DEF Spec

-------------------------------------------------------------------------------
(* The crons a boot has passed.                                                 *)

LEMMA NotPast ==
  ASSUME CronsInv, NEW p \in Procs, NEW c \in Crons,
         \/ proc[p].pc \in {"off", "timer", "failed"}
         \/ proc[p].pc \in Booting /\ (Cron(p) = c \/ proc[p].at = 1)
  PROVE  ~Past(p, c)
  <1>1. CASE proc[p].pc \in {"off", "timer", "failed"}
    BY <1>1 DEF Past, Booting
  <1>2. CASE proc[p].pc \in Booting /\ Cron(p) = c
    <2>1. proc[p].at \in DOMAIN Order /\ proc[p].at \in Nat
      BY <1>2, AtCron, Orders
    <2> QED BY <1>2, <2>1 DEF Past, Cron, Booting
  <1>3. CASE proc[p].pc \in Booting /\ proc[p].at = 1
    <2>1. PICK i \in DOMAIN Order : Order[i] = c
      BY Orders
    <2>2. i \in Nat /\ i >= 1
      BY Orders
    <2> QED BY <1>3, <2>1, <2>2 DEF Past, Booting
  <1> QED BY <1>1, <1>2, <1>3

LEMMA PastStays ==
  ASSUME NEW p \in Procs, NEW c, proc[p].pc \in Booting, proc'[p].pc # "up", proc'[p].at = proc[p].at
  PROVE  Past(p, c)' => Past(p, c)
  BY DEF Past

LEMMA PastNext ==
  ASSUME CronsInv, NEW p \in Procs, NEW c \in Crons, proc[p].pc \in Booting, proc'[p] = NextCron(p),
         Cron(p) # c
  PROVE  Past(p, c)' => Past(p, c)
  <1>1. /\ proc[p].at \in 1 .. Len(Order) /\ proc[p].at \in Nat
        /\ proc'[p].pc = "up" <=> proc[p].at = Len(Order)
        /\ proc'[p].pc # "up" => proc'[p].at = proc[p].at + 1
    BY AtCron
  <1>2. PICK i \in Nat : i = proc[p].at
    BY <1>1
  <1>3. SUFFICES ASSUME Past(p, c)', NEW j \in DOMAIN Order, Order[j] = c
                 PROVE  j < i
    BY <1>2 DEF Past
  <1>4. j \in Nat /\ j <= Len(Order) /\ Len(Order) \in Nat
    BY Orders
  <1>5. j # i
    BY <1>2, <1>3 DEF Cron
  <1>6. CASE proc'[p].pc = "up"
    BY <1>1, <1>2, <1>4, <1>5, <1>6
  <1>7. CASE proc'[p].pc # "up"
    <2>1. j < proc'[p].at
      BY <1>3, <1>7 DEF Past
    <2> QED BY <1>1, <1>2, <1>4, <1>5, <1>7, <2>1
  <1> QED BY <1>6, <1>7

(* The boot of a process that has not booted yet, or goes no further.           *)
LEMMA SettledBack ==
  ASSUME NEW p \in Procs, NEW c, boots'[p] = boots[p], Past(p, c)' => Past(p, c)
  PROVE  Settled(p, c)' => Settled(p, c)
  BY DEF Settled

LEMMA NotSettled ==
  ASSUME CronsInv, NEW p \in Procs, NEW c, boots[p] >= 1, ~Past(p, c)
  PROVE  ~Settled(p, c)
  BY DEF CronsInv, ControlTypes, Settled

LEMMA SettledPast ==
  ASSUME CronsInv, NEW p \in Procs, NEW c, Settled(p, c), proc[p].pc # "off"
  PROVE  Past(p, c)
  <1>1. boots[p] >= 1 /\ boots[p] \in Nat
    BY DEF CronsInv, ControlTypes, ProcOK
  <1> QED BY <1>1 DEF Settled

LEMMA SettledSame ==
  ASSUME NEW q, NEW c, proc'[q] = proc[q], boots'[q] = boots[q]
  PROVE  (Settled(q, c)' <=> Settled(q, c)) /\ (Past(q, c)' <=> Past(q, c))
  <1>1. Past(q, c)' <=> Past(q, c)
    BY DEF Past
  <1> QED BY <1>1 DEF Settled

LEMMA RewrittenSame ==
  ASSUME NEW q, NEW c, proc'[q] = proc[q], boots'[q] = boots[q], NextDate(c)' = NextDate(c)
  PROVE  (Rewritten(q, c)' <=> Rewritten(q, c)) /\ (Competes(q, c)' <=> Competes(q, c))
  <1>1. Settled(q, c)' <=> Settled(q, c)
    BY SettledSame
  <1>2. Cron(q)' = Cron(q)
    BY DEF Cron
  <1>3. Late(q, c)' <=> Late(q, c)
    BY <1>2 DEF Late
  <1>4. Competes(q, c)' <=> Competes(q, c)
    BY <1>2 DEF Competes
  <1> QED BY <1>1, <1>3, <1>4 DEF Rewritten

-------------------------------------------------------------------------------
(* The chain of a cron does not break.                                          *)

LEMMA StandsFor ==
  ASSUME ChainInv, now' = now, NEW p \in Procs, NEW c \in Active, NEW v \in Workers,
         \A q \in Procs : q # p => proc'[q] = proc[q] /\ boots'[q] = boots[q],
         p \in Servers => (Rewritten(p, c)' => Rewritten(p, c)),
         <<c, NextDate(c)>> \in locks'[v] => <<c, NextDate(c)>> \in locks[v],
         v = p /\ <<c, NextDate(c)>> \in locks'[p] /\ proc'[p].pc # "failed"
           /\ ~Competes(p, c)'
           => proc[p].pc # "failed" /\ ~Competes(p, c),
         (p \in Servers => Rewritten(p, c)') =>
           \A m \in Messages : m.cron = c /\ m.due = NextDate(c) /\ Waits(m) => Waits(m)',
         Handling(v, c) /\ <<c, NextDate(c)>> \in locks'[v] => Handling(v, c)'
  PROVE  LockStands(v, c)'
  <1> SUFFICES ASSUME <<c, NextDate(c)>> \in locks'[v], \A s \in Servers : Rewritten(s, c)',
                      proc'[v].pc # "failed", ~Competes(v, c)'
               PROVE  Scheduled(c)' \/ Handling(v, c)'
    BY DEF LockStands, NextDate
  <1>0. NextDate(c)' = NextDate(c)
    BY DEF NextDate
  <1>1. \A s \in Servers : Rewritten(s, c)
    BY <1>0, RewrittenSame, Kinds
  <1>2. proc[v].pc # "failed" /\ ~Competes(v, c)
    <2>1. CASE v = p
      BY <2>1
    <2>2. CASE v # p
      <3>1. proc'[v] = proc[v] /\ boots'[v] = boots[v]
        BY <2>2, Kinds
      <3> QED BY <1>0, <3>1, RewrittenSame
    <2> QED BY <2>1, <2>2
  <1>3. LockStands(v, c)
    BY DEF ChainInv
  <1>4. Scheduled(c) \/ Handling(v, c)
    BY <1>1, <1>2, <1>3 DEF LockStands
  <1>5. CASE Handling(v, c)
    BY <1>5
  <1>6. CASE Scheduled(c)
    <2>1. PICK m \in Messages : Waits(m) /\ m.cron = c /\ m.due = NextDate(c)
      BY <1>6 DEF Scheduled
    <2>2. Waits(m)'
      BY <2>1
    <2> QED BY <2>1, <2>2 DEF Scheduled, NextDate
  <1> QED BY <1>4, <1>5, <1>6

LEMMA StandsKept ==
  ASSUME ChainInv, now' = now, NEW p \in Procs, NEW c \in Active,
         \A q \in Procs : q # p => proc'[q] = proc[q] /\ boots'[q] = boots[q],
         p \in Servers => (Rewritten(p, c)' => Rewritten(p, c)),
         \A v \in Workers : <<c, NextDate(c)>> \in locks'[v] => <<c, NextDate(c)>> \in locks[v],
         p \in Workers /\ <<c, NextDate(c)>> \in locks'[p] /\ proc'[p].pc # "failed"
           /\ ~Competes(p, c)'
           => proc[p].pc # "failed" /\ ~Competes(p, c),
         (p \in Servers => Rewritten(p, c)') =>
           \A m \in Messages : m.cron = c /\ m.due = NextDate(c) /\ Waits(m) => Waits(m)',
         \A v \in Workers : Handling(v, c) /\ <<c, NextDate(c)>> \in locks'[v] => Handling(v, c)'
  PROVE  \A v \in Workers : LockStands(v, c)'
  <1> TAKE v \in Workers
  <1> QED BY StandsFor

LEMMA RepairedKept ==
  ASSUME ChainInv, NEW p \in Procs, NEW c \in Active,
         \A q \in Procs : q # p => proc'[q] = proc[q] /\ boots'[q] = boots[q],
         Settled(p, c)' => /\ Settled(p, c) /\ (Past(p, c)' => Past(p, c))
                           /\ Alive(c) => Alive(c)'
  PROVE  Repaired(c)'
  <1> SUFFICES ASSUME NEW w \in Workers, Past(w, c)', \A q \in Procs : Settled(q, c)'
               PROVE  Alive(c)'
    BY DEF Repaired
  <1>1. \A q \in Procs : Settled(q, c)
    BY SettledSame
  <1>2. Past(w, c)
    BY SettledSame, Kinds
  <1>3. Repaired(c)
    BY DEF ChainInv
  <1>4. Alive(c)
    BY <1>1, <1>2, <1>3 DEF Repaired
  <1> QED BY <1>4

LEMMA AliveKept ==
  ASSUME NEW c, Alive(c),
         \A m \in Messages : m.cron = c /\ (Waits(m) \/ m \in work) => Waits(m)' \/ m \in work',
         \A w \in Workers : Handling(w, c) => Handling(w, c)'
  PROVE  Alive(c)'
  <1>1. CASE \E m \in Messages : (Waits(m) \/ m \in work) /\ m.cron = c
    BY <1>1 DEF Alive
  <1>2. CASE \E w \in Workers : Handling(w, c)
    BY <1>2 DEF Alive
  <1> QED BY <1>1, <1>2 DEF Alive

(* What is published is scheduled, be it late.                                  *)
LEMMA IsScheduled ==
  ASSUME NEW p, NEW c, NEW due, NEW send, Publishes(p, c, due, send)
  PROVE  /\ Alive(c)'
         /\ due = NextDate(c) => Scheduled(c)'
         /\ \A m : Waits(m) => Waits(m)'
  <1>1. PICK x \in Messages : x.cron = c /\ x.due = due /\ queue' = queue \cup {x}
    BY DEF Publishes
  <1>2. now' = now /\ held' = held
    BY DEF Publishes
  <1>3. Waits(x)'
    BY <1>1 DEF Waits
  <1>4. NextDate(c)' = NextDate(c)
    BY <1>2 DEF NextDate
  <1>5. \A m : Waits(m) => Waits(m)'
    BY <1>1, <1>2 DEF Waits
  <1> QED BY <1>1, <1>3, <1>4, <1>5 DEF Scheduled, Alive

(* A step of a boot that takes, loses or schedules nothing of a cron.           *)
LEMMA ChainKept ==
  ASSUME ChainInv, now' = now, NEW p \in Procs, NEW c \in Active,
         \A q \in Procs : q # p => proc'[q] = proc[q] /\ boots'[q] = boots[q],
         UNCHANGED <<run, locks>>,
         Settled(p, c)' => Settled(p, c) /\ (Past(p, c)' => Past(p, c)),
         p \in Servers => ~Late(p, c)',
         p \in Workers => \/ proc'[p].pc = "failed" \/ Competes(p, c)'
                          \/ proc[p].pc # "failed" /\ ~Competes(p, c),
         (p \in Servers => Settled(p, c)') =>
           /\ \A m \in Messages : m.cron = c /\ Waits(m) => Waits(m)'
           /\ work' = work
  PROVE  Repaired(c)' /\ \A v \in Workers : LockStands(v, c)'
  <1>1. \A v \in Workers : Handling(v, c) => Handling(v, c)'
    BY DEF Handling
  <1>2. \A v \in Workers : LockStands(v, c)'
    <2>1. p \in Servers => (Rewritten(p, c)' => Settled(p, c)' /\ Rewritten(p, c))
      BY DEF Rewritten
    <2> QED BY <1>1, <2>1, StandsKept
  <1>3. ASSUME Settled(p, c)', Alive(c) PROVE Alive(c)'
    BY <1>1, <1>3, AliveKept
  <1> QED BY <1>2, <1>3, RepairedKept

LEMMA ActiveCrons == Active \subseteq Crons
  BY CronsAssumption

LEMMA BootsCounted ==
  ASSUME CronsInv, NEW p \in Procs
  PROVE  boots[p] \in Nat /\ (proc[p].pc # "off" => boots[p] >= 1)
  BY DEF CronsInv, ControlTypes, ProcOK

(* A process that is off, or at the start of its boot, or has failed in it.     *)
LEMMA Stopped ==
  ASSUME NEW p \in Procs, NEW c, proc'[p].pc \in {"off", "timer", "failed"}, boots'[p] # 0
  PROVE  ~Settled(p, c)' /\ ~Past(p, c)'
  BY DEF Past, Settled, Booting

LEMMA ChainTaken ==
  ASSUME CronsInv, CronsInv', ChainInv, NEW p \in Procs, NEW c \in Active,
         (p \in Servers /\ (Receive(p) \/ Push(p))) \/ (p \in Workers /\ Get(p))
  PROVE  Repaired(c)' /\ \A v \in Workers : LockStands(v, c)'
  <1>1. /\ UNCHANGED <<work, run, boots, now, locks>>
        /\ \A q \in Procs : q # p => held'[q] = held[q] /\ proc'[q] = proc[q]
    BY Taken
  <1>2. PICK f \in queue : /\ queue' = queue \ {f}
                           /\ \/ held'[p] = held[p] \cup {f}
                              \/ Receive(p) /\ f.cron = Cron(p) /\ held'[p] = held[p]
    BY Taken
  <1>3. /\ proc[p].pc \in Booting \ {"publish", "resend"}
        /\ proc'[p].pc \notin {"publish", "resend", "up"}
        /\ proc'[p].at = proc[p].at
    <2>0. proc \in [Procs -> ProcStates]
      BY DEF CronsInv, ControlTypes
    <2>1. CASE Receive(p)
      BY <2>0, <2>1 DEF Receive, Goes, ProcStates, Booting
    <2>2. CASE Push(p)
      BY <2>0, <2>2 DEF Push, Booting
    <2>3. CASE Get(p)
      BY <2>0, <2>3 DEF Get, Goes, ProcStates, Booting
    <2> QED BY <2>1, <2>2, <2>3
  <1>4. Past(p, c)' => Past(p, c)
    BY <1>3, PastStays
  <1>5. Settled(p, c)' => Settled(p, c)
    BY <1>1, <1>4, SettledBack
  <1>6. c \in Crons /\ proc[p].pc # "off" /\ proc[p].pc # "failed"
    BY <1>3, ActiveCrons DEF Booting
  <1>7. ASSUME p \in Servers => Settled(p, c)', NEW m \in Messages, m.cron = c, Waits(m)
        PROVE  Waits(m)'
    <2>1. CASE m # f \/ held'[p] = held[p] \cup {f}
      BY <1>1, <1>2, <1>7, <2>1 DEF Waits
    <2>2. CASE m = f /\ Receive(p) /\ f.cron = Cron(p)
      <3>1. p \in Servers
        BY <2>2, Kinds DEF Receive, Get
      <3>2. Past(p, c)
        BY <1>5, <1>6, <1>7, <3>1, SettledPast
      <3> QED BY <1>3, <1>6, <1>7, <2>2, <3>2, NotPast
    <2> QED BY <1>2, <2>1, <2>2
  <1> QED BY <1>1, <1>3, <1>4, <1>5, <1>6, <1>7, ChainKept DEF Late, Competes

LEMMA ChainReturned ==
  ASSUME CronsInv, CronsInv', ChainInv, NEW p \in Procs, NEW c \in Active,
         Fails(p) \/ (p \in Servers /\ Closed(p)) \/ (p \in Workers /\ (Read(p) \/ PeekFails(p)))
  PROVE  Repaired(c)' /\ \A v \in Workers : LockStands(v, c)'
  <1>1. /\ UNCHANGED <<work, run, boots, now, locks>> /\ queue' = queue \cup held[p] /\ held'[p] = {}
        /\ \A q \in Procs : q # p => held'[q] = held[q] /\ proc'[q] = proc[q]
    BY Returned
  <1>2. \A m : Waits(m) => Waits(m)'
    BY <1>1 DEF Waits
  <1>3. /\ c \in Crons /\ proc[p].pc \in Booting /\ boots'[p] # 0
        /\ boots[p] >= 1 /\ proc \in [Procs -> ProcStates] /\ proc[p].pc # "failed"
    <2>1. proc[p].pc \in Booting /\ proc[p].pc # "off" /\ proc[p].pc # "failed"
      BY DEF Fails, Closed, Read, PeekFails, Booting
    <2> QED BY <1>1, <2>1, BootsCounted, ActiveCrons DEF CronsInv, ControlTypes
  <1>4. CASE Fails(p)
    <2>1. proc'[p].pc = "failed"
      BY <1>3, <1>4 DEF Fails, Goes, Off
    <2>2. ~Settled(p, c)'
      BY <1>3, <2>1, Stopped
    <2> QED BY <1>1, <1>2, <2>1, <2>2, ChainKept DEF Late
  <1>5. ASSUME Past(p, c)' => Past(p, c), p \in Workers => proc[p].pc \notin {"publish", "resend"},
               proc'[p].pc # "resend"
        PROVE  Repaired(c)' /\ \A v \in Workers : LockStands(v, c)'
    <2>1. Settled(p, c)' => Settled(p, c)
      BY <1>1, <1>5, SettledBack
    <2> QED BY <1>1, <1>2, <1>3, <1>5, <2>1, ChainKept DEF Late, Competes
  <1>6. CASE p \in Servers /\ Closed(p)
    <2>1. CASE Cron(p) \in Active
      <3>1. proc'[p].at = proc[p].at /\ proc'[p].pc = "publish"
        BY <1>3, <1>6, <2>1 DEF Closed, Goes, ProcStates
      <3>2. Past(p, c)' => Past(p, c)
        BY <1>3, <3>1, PastStays
      <3> QED BY <1>5, <1>6, <3>1, <3>2, Kinds
    <2>2. CASE Cron(p) \notin Active
      <3>1. proc'[p] = NextCron(p)
        BY <1>3, <1>6, <2>2 DEF Closed, Goes
      <3>2. Past(p, c)' => Past(p, c)
        BY <1>3, <2>2, <3>1, PastNext
      <3>3. proc'[p].pc # "resend"
        BY <1>3, <3>1, AtCron
      <3> QED BY <1>5, <1>6, <3>2, <3>3, Kinds
    <2> QED BY <2>1, <2>2
  <1>7. CASE p \in Workers /\ (Read(p) \/ PeekFails(p))
    <2>0. proc[p].pc \notin {"publish", "resend"} /\ p \notin Servers
      BY <1>7, Kinds DEF Read, PeekFails
    <2>1. CASE ~(Read(p) /\ Found(p))
      <3>1. proc'[p].at = proc[p].at /\ proc'[p].pc = "missing"
        BY <1>3, <1>7, <2>1 DEF Read, PeekFails, Goes, ProcStates
      <3>2. Past(p, c)' => Past(p, c)
        BY <1>3, <3>1, PastStays
      <3> QED BY <1>5, <2>0, <3>1, <3>2
    <2>2. CASE Read(p) /\ Found(p)
      <3>1. proc'[p] = NextCron(p)
        BY <1>3, <2>2 DEF Read, Goes
      <3>2. CASE Cron(p) # c
        <4>1. Past(p, c)' => Past(p, c)
          BY <1>3, <3>1, <3>2, PastNext
        <4>2. proc'[p].pc # "resend"
          BY <1>3, <3>1, AtCron
        <4> QED BY <1>5, <2>0, <4>1, <4>2
      <3>3. CASE Cron(p) = c
        <4>1. PICK m \in held[p] : m.cron = c
          BY <2>2, <3>3 DEF Found
        <4>2. m \in Messages /\ Waits(m)'
          BY <1>1, <4>1 DEF Waits, CronsInv, PlaceTypes
        <4>3. Alive(c)'
          BY <4>1, <4>2 DEF Alive
        <4>4. \A v \in Workers : Handling(v, c) => Handling(v, c)'
          BY <1>1 DEF Handling
        <4>5. \A v \in Workers : LockStands(v, c)'
          BY <1>1, <1>2, <1>3, <2>0, <4>4, StandsKept DEF Competes
        <4> QED BY <4>3, <4>5 DEF Repaired
      <3> QED BY <3>2, <3>3
    <2> QED BY <2>1, <2>2
  <1> QED BY <1>4, <1>6, <1>7

LEMMA ChainMoved ==
  ASSUME CronsInv, CronsInv', ChainInv, NEW p \in Procs, NEW c \in Active,
         \/ p \in Servers /\ (BootServer(p) \/ Ensure(p) \/ Count(p))
         \/ p \in Workers /\ (BootWorker(p) \/ RepairBegins(p) \/ SkipInactive(p) \/ Peek(p))
  PROVE  Repaired(c)' /\ \A v \in Workers : LockStands(v, c)'
  <1>1. /\ UNCHANGED <<now, queue, held, work, run, locks>>
        /\ \A q \in Procs : q # p => proc'[q] = proc[q] /\ boots'[q] = boots[q]
    <2>1. Quiet(p)
      BY DEF Quiet
    <2>2. UNCHANGED locks
      BY DEF BootServer, Ensure, Count, BootWorker, RepairBegins, SkipInactive, Peek
    <2> QED BY <2>1, <2>2, QuietSteps
  <1>2. \A m : Waits(m) => Waits(m)'
    BY <1>1 DEF Waits
  <1>3. /\ c \in Crons /\ proc \in [Procs -> ProcStates]
        /\ proc[p].pc # "failed" /\ proc[p].pc \notin {"publish", "resend"}
    BY ActiveCrons DEF CronsInv, ControlTypes, BootServer, Ensure, Count, BootWorker, RepairBegins,
                       SkipInactive, Peek
  <1>4. Settled(p, c)' => Settled(p, c) /\ (Past(p, c)' => Past(p, c))
    <2>1. CASE (p \in Servers /\ BootServer(p)) \/ (p \in Workers /\ BootWorker(p))
      <3>1. boots'[p] = boots[p] + 1 /\ boots[p] \in Nat
        BY <2>1, BootsCounted DEF BootServer, BootWorker, CronsInv, ControlTypes
      <3>2. CASE BootServer(p)
        <4>1. proc'[p].pc = "ensure" /\ proc'[p].at = 1
          BY <1>3, <3>2 DEF BootServer, Goes, Off
        <4>2. ~Past(p, c)'
          <5>1. PICK i \in DOMAIN Order : Order[i] = c
            BY <1>3, Orders
          <5>2. ~(i < 1)
            BY Orders
          <5> QED BY <4>1, <5>1, <5>2 DEF Past, Booting
        <4> QED BY <3>1, <4>2 DEF Settled
      <3>3. CASE BootWorker(p)
        <4>1. proc'[p].pc = "timer"
          BY <1>3, <3>3 DEF BootWorker, Goes, Off
        <4> QED BY <3>1, <4>1, Stopped
      <3> QED BY <2>1, <3>2, <3>3
    <2>2. ASSUME Past(p, c)' => Past(p, c), boots'[p] = boots[p]
          PROVE  Settled(p, c)' => Settled(p, c) /\ (Past(p, c)' => Past(p, c))
      BY <2>2, SettledBack
    <2>3. CASE (p \in Servers /\ Ensure(p)) \/ (p \in Workers /\ RepairBegins(p))
      <3>1. proc'[p] = Entry(p, 1) /\ boots'[p] = boots[p]
        BY <1>3, <2>3 DEF Ensure, RepairBegins, Goes
      <3>2. PICK i \in DOMAIN Order : Order[i] = c
        BY <1>3, Orders
      <3>3. i \in Nat /\ 1 <= i /\ i <= Len(Order) /\ Len(Order) \in Nat
        BY Orders
      <3>4. proc'[p].pc \in {"count", "peek"} /\ proc'[p].at = 1
        BY <3>1, <3>3, Entries
      <3>5. ~Past(p, c)'
        BY <3>2, <3>3, <3>4 DEF Past
      <3> QED BY <2>2, <3>1, <3>5
    <2>4. CASE (p \in Servers /\ Count(p)) \/ (p \in Workers /\ Peek(p))
      <3>1. /\ proc'[p].at = proc[p].at /\ proc'[p].pc # "up" /\ boots'[p] = boots[p]
            /\ proc[p].pc \in Booting
        <4>1. CASE Count(p)
          BY <1>3, <4>1 DEF Count, Goes, ProcStates, Booting
        <4>2. CASE Peek(p)
          BY <1>3, <4>2 DEF Peek, Goes, ProcStates, Booting
        <4> QED BY <2>4, <4>1, <4>2
      <3> QED BY <2>2, <3>1, PastStays
    <2>5. CASE p \in Workers /\ SkipInactive(p)
      <3>1. /\ proc'[p] = NextCron(p) /\ boots'[p] = boots[p] /\ proc[p].pc \in Booting
            /\ Cron(p) # c
        BY <1>3, <2>5 DEF SkipInactive, Goes, Booting
      <3> QED BY <1>3, <2>2, <3>1, PastNext
    <2> QED BY <2>1, <2>3, <2>4, <2>5
  <1>5. proc'[p].pc # "resend"
    <2>1. CASE BootServer(p) \/ BootWorker(p) \/ Count(p) \/ Peek(p)
      BY <1>3, <2>1 DEF BootServer, BootWorker, Count, Peek, Goes, Off, ProcStates
    <2>2. CASE Ensure(p) \/ RepairBegins(p)
      <3>1. proc'[p] = Entry(p, 1)
        BY <1>3, <2>2 DEF Ensure, RepairBegins, Goes
      <3> QED BY <3>1 DEF Entry, Off
    <2>3. CASE SkipInactive(p)
      <3>1. proc'[p] = Entry(p, proc[p].at + 1)
        BY <1>3, <2>3 DEF SkipInactive, Goes, NextCron
      <3> QED BY <3>1 DEF Entry, Off
    <2> QED BY <2>1, <2>2, <2>3
  <1> QED BY <1>1, <1>2, <1>3, <1>4, <1>5, ChainKept DEF Late, Competes

(* A sending that is confirmed, or not.                                         *)
LEMMA ChainPublished ==
  ASSUME CronsInv, CronsInv', ChainInv, NEW p \in Procs, NEW c \in Active, Publish(p)
  PROVE  Repaired(c)' /\ \A v \in Workers : LockStands(v, c)'
  <1>0. proc[p].pc \in {"publish", "resend"}
    BY DEF Publish
  <1>1. /\ run' = run /\ proc'[p] = NextCron(p) /\ \A q \in Procs : q # p => proc'[q] = proc[q]
        /\ c \in Crons /\ proc[p].pc \in Booting /\ proc[p].pc # "failed"
    BY <1>0, Published, ActiveCrons DEF Booting
  <1>2. PICK d, due, send : d = Cron(p) /\ due = proc[p].due /\ send = Sent(p)
    OBVIOUS
  <1>3. Publishes(p, d, due, send)
    BY <1>2, Published
  <1>4. UNCHANGED <<now, boots, locks, work>> /\ NextDate(c)' = NextDate(c)
    BY <1>3 DEF Publishes, NextDate
  <1>5. Alive(d)' /\ (due = NextDate(d) => Scheduled(d)') /\ \A m : Waits(m) => Waits(m)'
    BY <1>3, IsScheduled
  <1>6. proc'[p].pc \notin {"publish", "resend"}
    BY <1>1, AtCron
  <1>7. CASE d = c /\ due = NextDate(c)
    BY <1>5, <1>7 DEF Repaired, LockStands
  <1>8. CASE d = c /\ due # NextDate(c)
    <2>1. proc[p].pc = "resend"
      BY <1>0, <1>2, <1>8, AtPublish
    <2>2. Late(p, c) /\ ~Competes(p, c)
      BY <1>2, <1>8, <2>1 DEF Late, Competes
    <2>3. \A v \in Workers : Handling(v, c) => Handling(v, c)'
      BY <1>1 DEF Handling
    <2>4. \A v \in Workers : LockStands(v, c)'
      BY <1>1, <1>4, <1>5, <2>2, <2>3, StandsKept DEF Rewritten
    <2>5. Alive(c)'
      BY <1>5, <1>8
    <2> QED BY <2>4, <2>5 DEF Repaired
  <1>9. CASE d # c
    <2>1. Past(p, c)' => Past(p, c)
      BY <1>1, <1>2, <1>9, PastNext
    <2>2. Settled(p, c)' => Settled(p, c)
      BY <1>4, <2>1, SettledBack
    <2>3. ~Late(p, c)' /\ ~Competes(p, c)
      BY <1>2, <1>6, <1>9 DEF Late, Competes
    <2> QED BY <1>1, <1>4, <1>5, <2>1, <2>2, <2>3, ChainKept
  <1> QED BY <1>7, <1>8, <1>9

LEMMA ChainUnconfirmed ==
  ASSUME CronsInv, CronsInv', ChainInv, NEW p \in Procs, NEW c \in Active,
         Unconfirmed(p) \/ UnconfirmedAgain(p)
  PROVE  Repaired(c)' /\ \A v \in Workers : LockStands(v, c)'
  <1>0. /\ proc[p].pc \in {"publish", "resend"} /\ proc[p].pc \in Booting /\ c \in Crons
        /\ proc \in [Procs -> ProcStates]
    BY ActiveCrons DEF Unconfirmed, UnconfirmedAgain, Booting, CronsInv, ControlTypes
  <1>1. PICK st : Sends(p, st)
    BY Sendings
  <1>2. /\ \/ queue' = queue
           \/ Publishes(p, Cron(p), proc[p].due, Sent(p))
        /\ UNCHANGED <<now, held, work, boots, locks, run>>
        /\ proc'[p] = st /\ \A q \in Procs : q # p => proc'[q] = proc[q]
    BY <1>1, WasSent
  <1>3. \A m : Waits(m) => Waits(m)'
    <2>1. CASE queue' = queue
      BY <1>2, <2>1 DEF Waits
    <2>2. CASE Publishes(p, Cron(p), proc[p].due, Sent(p))
      <3>1. PICK d, due, send : Publishes(p, d, due, send)
        BY <2>2
      <3> QED BY <3>1, IsScheduled
    <2> QED BY <1>2, <2>1, <2>2
  <1>4. CASE Unconfirmed(p)
    <2>1. /\ proc[p].pc = "publish" /\ proc'[p].pc = "resend" /\ proc'[p].at = proc[p].at
          /\ proc'[p].due = proc[p].due
      BY <1>0, <1>4 DEF Unconfirmed, Goes, ProcStates
    <2>2. Past(p, c)' => Past(p, c)
      BY <1>0, <2>1, PastStays
    <2>3. Settled(p, c)' => Settled(p, c)
      BY <1>2, <2>2, SettledBack
    <2>4. proc[p].due = NextDate(Cron(p)) /\ Cron(p)' = Cron(p)
      BY <2>1, AtPublish DEF Cron
    <2>5. PICK d : d = Cron(p)
      OBVIOUS
    <2>6. NextDate(d)' = NextDate(d)
      BY <1>2 DEF NextDate
    <2>7. /\ proc'[p].due = NextDate(d)' /\ Cron(p)' = d
          /\ NextDate(c)' = NextDate(c)
      BY <1>2, <2>1, <2>4, <2>5, <2>6 DEF NextDate
    <2>8. ~Late(p, c)' /\ (Competes(p, c) => Competes(p, c)')
      BY <2>1, <2>5, <2>7 DEF Late, Competes
    <2> QED BY <1>2, <1>3, <2>1, <2>2, <2>3, <2>8, ChainKept
  <1>5. CASE UnconfirmedAgain(p)
    <2>1. proc'[p].pc = "failed"
      BY <1>0, <1>5 DEF UnconfirmedAgain, Goes, Off
    <2>2. boots'[p] # 0
      BY <1>0, <1>2, BootsCounted DEF Booting
    <2>3. ~Settled(p, c)' /\ ~Late(p, c)'
      BY <2>1, <2>2, Stopped DEF Late
    <2> QED BY <1>2, <1>3, <2>1, <2>3, ChainKept
  <1> QED BY <1>4, <1>5

LEMMA ChainPublishedNext ==
  ASSUME CronsInv, CronsInv', ChainInv, NEW w \in Workers, NEW c \in Active, PublishNext(w)
  PROVE  Repaired(c)' /\ \A v \in Workers : LockStands(v, c)'
  <1>0. w \in Procs /\ w \notin Servers
    BY Kinds
  <1>1. /\ proc' = proc /\ run[w].pc = "publish"
        /\ \A v \in Workers : v # w => run'[v] = run[v]
    BY PublishedNext
  <1>2. PICK m \in Messages : run[w].msg = {m} /\ Publishes(w, m.cron, NextDate(m.cron), 1)
    BY PublishedNext
  <1>3. UNCHANGED <<now, boots, locks, work>>
    BY <1>2 DEF Publishes
  <1>4. PICK d, e : d = m.cron /\ e = NextDate(d)
    OBVIOUS
  <1>5. Publishes(w, d, e, 1)
    BY <1>2, <1>4
  <1>6. Scheduled(d)' /\ Alive(d)' /\ \A n : Waits(n) => Waits(n)'
    BY <1>4, <1>5, IsScheduled
  <1>7. CASE d = c
    BY <1>6, <1>7 DEF Repaired, LockStands
  <1>8. CASE d # c
    <2>1. ~Handling(w, c)
      BY <1>2, <1>4, <1>8 DEF Handling
    <2>2. \A v \in Workers : Handling(v, c) => Handling(v, c)'
      BY <1>1, <2>1 DEF Handling
    <2>3. (Settled(w, c)' <=> Settled(w, c)) /\ (Past(w, c)' <=> Past(w, c))
      BY <1>1, <1>3, SettledSame
    <2>4. Competes(w, c)' <=> Competes(w, c)
      BY <1>1, <1>3, RewrittenSame DEF NextDate
    <2>5. \A v \in Workers : LockStands(v, c)'
      BY <1>0, <1>1, <1>3, <1>6, <2>2, <2>4, StandsKept
    <2>6. Alive(c) => Alive(c)'
      BY <1>3, <1>6, <2>2, AliveKept
    <2>7. Repaired(c)'
      BY <1>0, <1>1, <1>3, <2>3, <2>6, RepairedKept
    <2> QED BY <2>5, <2>7
  <1> QED BY <1>7, <1>8

LEMMA StandingAlive ==
  ASSUME NEW c, NEW w \in Workers, Scheduled(c) \/ Handling(w, c)
  PROVE  Alive(c)
  BY DEF Scheduled, Alive

LEMMA ProcsSame ==
  ASSUME proc' = proc, boots' = boots
  PROVE  \A p, c : /\ Cron(p)' = Cron(p)
                   /\ (Settled(p, c)' <=> Settled(p, c)) /\ (Past(p, c)' <=> Past(p, c))
  <1>1. \A p, c : Past(p, c)' <=> Past(p, c)
    BY DEF Past
  <1>2. \A p : Cron(p)' = Cron(p)
    BY DEF Cron
  <1> QED BY <1>1, <1>2 DEF Settled

LEMMA ChainLocked ==
  ASSUME CronsInv, CronsInv', ChainInv, NEW w \in Workers, NEW c \in Active, LockRepair(w)
  PROVE  Repaired(c)' /\ \A v \in Workers : LockStands(v, c)'
  <1>0. w \in Procs /\ w \notin Servers
    BY Kinds
  <1>1. /\ UNCHANGED <<now, queue, held, work, run, boots>>
        /\ \A q \in Procs : q # w => proc'[q] = proc[q]
    BY <1>0, QuietSteps DEF Quiet, LockRepair
  <1>2. /\ \A m : Waits(m) => Waits(m)'
        /\ \A v \in Workers : Handling(v, c) => Handling(v, c)'
    BY <1>1 DEF Waits, Handling
  <1>3. Alive(c) => Alive(c)'
    BY <1>1, <1>2, AliveKept
  <1>4. /\ c \in Crons /\ proc[w].pc = "missing" /\ proc[w].pc \in Booting
        /\ proc \in [Procs -> ProcStates] /\ locks \in [Workers -> SUBSET (Crons \X Dates)]
    BY ActiveCrons DEF LockRepair, Booting, CronsInv, ControlTypes
  <1>5. PICK d, e : d = Cron(w) /\ e = NextDate(d)
    OBVIOUS
  <1>6. CASE <<d, e>> \notin locks[w]
    <2>1. /\ proc'[w].pc = "publish" /\ proc'[w].at = proc[w].at
          /\ locks'[w] = locks[w] \cup {<<d, e>>} /\ \A v \in Workers : v # w => locks'[v] = locks[v]
      <3>1. /\ Goes(w, [proc[w] EXCEPT !.pc = "publish", !.due = e])
            /\ locks' = [locks EXCEPT ![w] = @ \cup {<<d, e>>}]
        BY <1>5, <1>6 DEF LockRepair, Locked, Locks
      <3>2. proc'[w].pc = "publish" /\ proc'[w].at = proc[w].at
        BY <1>0, <1>4, <3>1 DEF Goes, ProcStates
      <3> QED BY <1>4, <3>1, <3>2
    <2>2. Cron(w)' = d
      BY <1>5, <2>1 DEF Cron
    <2>3. Past(w, c)' => Past(w, c)
      BY <1>0, <1>4, <2>1, PastStays
    <2>4. Settled(w, c)' => Settled(w, c)
      BY <1>0, <1>1, <2>3, SettledBack
    <2>5. Repaired(c)'
      BY <1>0, <1>1, <1>3, <2>3, <2>4, RepairedKept
    <2>6. ASSUME NEW v \in Workers, ~(v = w /\ c = d) PROVE LockStands(v, c)'
      <3>1. <<c, NextDate(c)>> \in locks'[v] => <<c, NextDate(c)>> \in locks[v]
        <4>1. PICK n : n = NextDate(c)
          OBVIOUS
        <4>2. <<c, n>> # <<d, e>> \/ v # w
          BY <2>6
        <4>3. <<c, n>> \in locks'[v] => <<c, n>> \in locks[v]
          BY <2>1, <4>2
        <4> QED BY <4>1, <4>3
      <3> QED BY <1>0, <1>1, <1>2, <1>4, <3>1, StandsFor DEF Competes
    <2>7. c = d => LockStands(w, c)'
      BY <2>1, <2>2 DEF LockStands, Competes
    <2> QED BY <2>5, <2>6, <2>7
  <1>7. CASE <<d, e>> \in locks[w]
    <2>1. locks' = locks /\ proc'[w] = NextCron(w)
      BY <1>0, <1>4, <1>5, <1>7 DEF LockRepair, Locked, Goes
    <2>2. CASE c # d
      <3>1. Past(w, c)' => Past(w, c)
        BY <1>0, <1>4, <1>5, <2>1, <2>2, PastNext
      <3>2. Settled(w, c)' => Settled(w, c)
        BY <1>0, <1>1, <3>1, SettledBack
      <3>3. \A v \in Workers : LockStands(v, c)'
        BY <1>0, <1>1, <1>2, <1>4, <2>1, StandsKept DEF Competes
      <3>4. Repaired(c)'
        BY <1>0, <1>1, <1>3, <3>1, <3>2, RepairedKept
      <3> QED BY <3>3, <3>4
    <2>3. CASE c = d
      <3>1. \A v \in Workers : LockStands(v, c)'
        BY <1>0, <1>1, <1>2, <1>4, <2>1, StandsKept DEF Competes
      <3>2. ASSUME \A q \in Procs : Settled(q, c)' PROVE Alive(c)'
        <4>1. \A s \in Servers : Settled(s, c)
          BY <1>0, <1>1, <3>2, SettledSame, Kinds
        <4>2. LockStands(w, c)
          BY DEF ChainInv
        <4>3. Scheduled(c) \/ Handling(w, c)
          BY <1>4, <1>5, <1>7, <2>3, <4>1, <4>2 DEF LockStands, Rewritten, Competes
        <4> QED BY <1>3, <4>3, StandingAlive
      <3> QED BY <3>1, <3>2 DEF Repaired
    <2> QED BY <2>2, <2>3
  <1> QED BY <1>6, <1>7

LEMMA ChainHandled ==
  ASSUME CronsInv, CronsInv', ChainInv, NEW w \in Workers, NEW c \in Active, Handle(w)
  PROVE  Repaired(c)' /\ \A v \in Workers : LockStands(v, c)'
  <1>0. w \in Procs /\ w \notin Servers /\ c \in Crons
    BY Kinds, ActiveCrons
  <1>1. /\ UNCHANGED <<now, held, proc, boots, queue>>
        /\ proc[w].pc # "off" /\ run[w].pc = "idle" /\ run[w].msg = {}
        /\ \A v \in Workers : v # w => run'[v] = run[v] /\ locks'[v] = locks[v]
    BY Handled DEF Consumes
  <1>2. PICK m \in work :
          /\ m \in Messages /\ work' = work \ {m}
          /\ \/ m.cron \notin Active /\ UNCHANGED <<run, locks>>
             \/ /\ m.cron \in Active /\ <<m.cron, NextDate(m.cron)>> \in locks[w] /\ locks' = locks
                /\ run'[w].pc = "running" /\ run'[w].msg = {m}
             \/ /\ m.cron \in Active /\ <<m.cron, NextDate(m.cron)>> \notin locks[w]
                /\ locks'[w] = locks[w] \cup {<<m.cron, NextDate(m.cron)>>}
                /\ run'[w].pc = "publish" /\ run'[w].msg = {m}
    BY Handled
  <1>3. PICK d : d = m.cron
    OBVIOUS
  <1>4. /\ \A n : Waits(n) => Waits(n)'
        /\ ~Handling(w, c) /\ \A v \in Workers : Handling(v, c) => Handling(v, c)'
    <2>1. ~Handling(w, c)
      BY <1>1 DEF Handling
    <2> QED BY <1>1, <2>1 DEF Waits, Handling
  <1>5. \A p, b : /\ Cron(p)' = Cron(p)
                  /\ (Settled(p, b)' <=> Settled(p, b)) /\ (Past(p, b)' <=> Past(p, b))
    BY <1>1, ProcsSame
  <1>6. ASSUME NEW v \in Workers, <<c, NextDate(c)>> \in locks'[v] => <<c, NextDate(c)>> \in locks[v]
        PROVE  LockStands(v, c)'
    <2>1. Competes(w, c)' <=> Competes(w, c)
      BY <1>1, RewrittenSame DEF NextDate
    <2> QED BY <1>0, <1>1, <1>4, <1>6, <2>1, StandsFor
  <1>7. CASE d # c
    <2>1. \A v \in Workers : <<c, NextDate(c)>> \in locks'[v] => <<c, NextDate(c)>> \in locks[v]
      <3>1. PICK n, e : n = NextDate(c) /\ e = NextDate(d)
        OBVIOUS
      <3>2. <<c, n>> # <<d, e>> /\ (locks'[w] = locks[w] \/ locks'[w] = locks[w] \cup {<<d, e>>})
        BY <1>2, <1>3, <1>7, <3>1
      <3>3. \A v \in Workers : <<c, n>> \in locks'[v] => <<c, n>> \in locks[v]
        BY <1>1, <3>2
      <3> QED BY <3>1, <3>3
    <2>2. \A n \in Messages : n.cron = c /\ (Waits(n) \/ n \in work) => Waits(n)' \/ n \in work'
      BY <1>2, <1>3, <1>4, <1>7
    <2>3. Alive(c) => Alive(c)'
      BY <1>4, <2>2, AliveKept
    <2>4. Repaired(c)'
      BY <1>0, <1>1, <1>5, <2>3, RepairedKept
    <2> QED BY <1>6, <2>1, <2>4
  <1>8. CASE d = c /\ locks' = locks
    <2>1. <<c, NextDate(c)>> \in locks[w]
      <3>1. PICK n : n = NextDate(c)
        OBVIOUS
      <3>2. n = NextDate(d)
        BY <1>8, <3>1
      <3>3. <<d, n>> \in locks[w] \/ locks'[w] = locks[w] \cup {<<d, n>>}
        BY <1>2, <1>3, <1>8, <3>2
      <3> QED BY <1>8, <3>1, <3>3
    <2>2. ASSUME \A q \in Procs : Settled(q, c)' PROVE Alive(c)'
      <3>1. \A q \in Procs : Settled(q, c)
        BY <1>5, <2>2
      <3>2. Past(w, c)
        BY <1>0, <1>1, <3>1, SettledPast
      <3>3. proc[w].pc # "failed" /\ ~Competes(w, c)
        BY <1>0, <3>2, NotPast DEF Booting, Competes
      <3>4. LockStands(w, c)
        BY DEF ChainInv
      <3>5. Scheduled(c)
        BY <1>4, <2>1, <3>1, <3>3, <3>4, Kinds DEF LockStands, Rewritten
      <3>6. PICK n \in Messages : Waits(n) /\ n.cron = c
        BY <3>5 DEF Scheduled
      <3> QED BY <1>4, <3>6 DEF Alive
    <2> QED BY <1>6, <1>8, <2>2 DEF Repaired
  <1>9. CASE d = c /\ locks' # locks
    <2>1. run'[w].pc = "publish" /\ run'[w].msg = {m}
      BY <1>2, <1>9
    <2>2. Handling(w, c)'
      BY <1>3, <1>9, <2>1 DEF Handling
    <2>3. LockStands(w, c)' /\ Repaired(c)'
      BY <2>2 DEF LockStands, Repaired, Alive
    <2>4. \A v \in Workers : v # w => LockStands(v, c)'
      BY <1>1, <1>6
    <2> QED BY <2>3, <2>4
  <1> QED BY <1>7, <1>8, <1>9

LEMMA ChainEnded ==
  ASSUME CronsInv, CronsInv', ChainInv, NEW w \in Workers, NEW c \in Active, Ends(w)
  PROVE  Repaired(c)' /\ \A v \in Workers : LockStands(v, c)'
  <1>0. w \in Procs /\ w \notin Servers
    BY Kinds
  <1>1. /\ UNCHANGED <<now, queue, held, work, proc, boots, locks>> /\ run[w].pc = "running"
        /\ \A v \in Workers : v # w => run'[v] = run[v]
    BY Ended
  <1>2. /\ \A m : Waits(m) => Waits(m)'
        /\ \A v \in Workers : Handling(v, c) => Handling(v, c)'
    <2>1. ~Handling(w, c)
      BY <1>1 DEF Handling
    <2> QED BY <1>1, <2>1 DEF Waits, Handling
  <1>3. \A p, b : /\ Cron(p)' = Cron(p)
                  /\ (Settled(p, b)' <=> Settled(p, b)) /\ (Past(p, b)' <=> Past(p, b))
    BY <1>1, ProcsSame
  <1>4. Alive(c) => Alive(c)'
    BY <1>1, <1>2, AliveKept
  <1>5. \A v \in Workers : LockStands(v, c)'
    <2>1. Competes(w, c)' <=> Competes(w, c)
      BY <1>1, RewrittenSame DEF NextDate
    <2> QED BY <1>0, <1>1, <1>2, <2>1, StandsKept
  <1>6. Repaired(c)'
    BY <1>0, <1>1, <1>3, <1>4, RepairedKept
  <1> QED BY <1>5, <1>6

LEMMA ChainExpired ==
  ASSUME CronsInv, CronsInv', ChainInv, NEW c \in Active, Expire
  PROVE  Repaired(c)' /\ \A v \in Workers : LockStands(v, c)'
  <1>0. c \in Crons /\ now \in Nat
    BY ActiveCrons DEF CronsInv, ControlTypes
  <1>1. UNCHANGED <<now, routed, held, run, proc, boots, locks>>
    BY Expired
  <1>2. PICK f \in queue, x \in Messages :
          /\ x.cron = f.cron /\ f.due <= now /\ queue' = queue \ {f}
          /\ work' = IF routed THEN work \cup {x} ELSE work
    BY Expired
  <1>3. \A p, b : /\ Cron(p)' = Cron(p)
                  /\ (Settled(p, b)' <=> Settled(p, b)) /\ (Past(p, b)' <=> Past(p, b))
    BY <1>1, ProcsSame
  <1>4. /\ \A m : m # f /\ Waits(m) => Waits(m)'
        /\ \A v \in Workers : Handling(v, c) => Handling(v, c)'
    BY <1>1, <1>2 DEF Waits, Handling
  <1>5. ASSUME NEW v \in Workers PROVE LockStands(v, c)'
    <2>1. \A m \in Messages : m.cron = c /\ m.due = NextDate(c) /\ Waits(m) => Waits(m)'
      <3>1. PICK n \in Nat : n = NextDate(c) /\ n > now
        BY <1>0, NextDates DEF Dates
      <3>2. f.due # n
        <4>1. f.due \in Nat
          BY <1>2 DEF CronsInv, PlaceTypes, Messages, Dates
        <4> QED BY <1>0, <1>2, <3>1, <4>1
      <3> QED BY <1>4, <3>1, <3>2
    <2>2. v \in Procs /\ v \notin Servers
      BY Kinds
    <2>3. Competes(v, c)' <=> Competes(v, c)
      BY <1>1, RewrittenSame DEF NextDate
    <2> QED BY <1>1, <1>4, <2>1, <2>2, <2>3, StandsFor
  <1>6. ASSUME NEW w \in Workers, Past(w, c)', \A q \in Procs : Settled(q, c)' PROVE Alive(c)'
    <2>1. Past(w, c) /\ \A q \in Procs : Settled(q, c)
      BY <1>3, <1>6
    <2>2. routed
      <3>1. proc[w].pc # "off"
        BY <2>1 DEF Past, Booting
      <3> QED BY <3>1 DEF CronsInv, WorkerOK
    <2>3. Alive(c)
      BY <2>1 DEF ChainInv, Repaired
    <2>4. CASE \E v \in Workers : Handling(v, c)
      BY <1>4, <2>4 DEF Alive
    <2>5. CASE \E m \in Messages : (Waits(m) \/ m \in work) /\ m.cron = c
      <3>1. PICK m \in Messages : (Waits(m) \/ m \in work) /\ m.cron = c
        BY <2>5
      <3>2. CASE Waits(m) /\ m = f
        <4>1. x \in work' /\ x.cron = c
          BY <1>2, <2>2, <3>1, <3>2
        <4> QED BY <4>1 DEF Alive
      <3>3. CASE m \in work \/ (Waits(m) /\ m # f)
        <4>1. m \in work' \/ Waits(m)'
          BY <1>2, <1>4, <3>3
        <4> QED BY <3>1, <4>1 DEF Alive
      <3> QED BY <3>1, <3>2, <3>3
    <2> QED BY <2>3, <2>4, <2>5 DEF Alive
  <1> QED BY <1>5, <1>6 DEF Repaired

LEMMA ChainTicked ==
  ASSUME CronsInv, CronsInv', ChainInv, NEW c \in Active, Tick
  PROVE  Repaired(c)' /\ \A v \in Workers : LockStands(v, c)'
  <1>0. c \in Crons
    BY ActiveCrons
  <1>1. /\ UNCHANGED <<queue, held, work, run, proc, boots>>
        /\ \A w \in Workers : locks'[w] = {l \in locks[w] : l[2] > now'}
    BY DEF Tick
  <1>2. \A p, b : /\ Cron(p)' = Cron(p)
                  /\ (Settled(p, b)' <=> Settled(p, b)) /\ (Past(p, b)' <=> Past(p, b))
    BY <1>1, ProcsSame
  <1>3. /\ \A m : Waits(m) <=> Waits(m)'
        /\ \A v \in Workers : Handling(v, c) <=> Handling(v, c)'
    BY <1>1 DEF Waits, Handling
  <1>4. Repaired(c)'
    <2>1. Alive(c) <=> Alive(c)'
      BY <1>1, <1>3 DEF Alive
    <2> QED BY <1>2, <2>1 DEF Repaired, ChainInv
  <1>5. ASSUME NEW v \in Workers PROVE LockStands(v, c)'
    <2>1. PICK n, e : n = NextDate(c) /\ NextDate(c)' = e
      OBVIOUS
    <2> SUFFICES ASSUME <<c, e>> \in locks'[v], \A s \in Servers : Rewritten(s, c)',
                        proc'[v].pc # "failed", ~Competes(v, c)'
                 PROVE  Scheduled(c)' \/ Handling(v, c)'
      BY <2>1 DEF LockStands
    <2>2. <<c, e>> \in locks[v]
      BY <1>1
    <2>3. e = n
      BY <2>1, <2>2 DEF CronsInv, WorkerOK
    <2>4. /\ LockStands(v, c) /\ \A s \in Servers : Rewritten(s, c)
          /\ ~Competes(v, c)
      <3>1. NextDate(c)' = NextDate(c)
        BY <2>1, <2>3
      <3>2. ASSUME NEW q
            PROVE  (Rewritten(q, c)' <=> Rewritten(q, c)) /\ (Competes(q, c)' <=> Competes(q, c))
        <4>1. proc'[q] = proc[q] /\ boots'[q] = boots[q]
          BY <1>1
        <4> QED BY <3>1, <4>1, RewrittenSame
      <3>3. LockStands(v, c)
        BY DEF ChainInv
      <3>4. \A s \in Servers : Rewritten(s, c)
        BY <3>2
      <3>5. ~Competes(v, c)
        BY <3>2
      <3> QED BY <3>3, <3>4, <3>5
    <2>5. Scheduled(c) \/ Handling(v, c)
      BY <1>1, <2>1, <2>2, <2>3, <2>4 DEF LockStands
    <2>6. Scheduled(c) => Scheduled(c)'
      BY <1>3, <2>1, <2>3 DEF Scheduled
    <2> QED BY <1>3, <2>5, <2>6
  <1> QED BY <1>4, <1>5

LEMMA ChainCrashed ==
  ASSUME CronsInv, CronsInv', ChainInv, NEW p \in Procs, NEW c \in Active, Crash(p)
  PROVE  Repaired(c)' /\ \A v \in Workers : LockStands(v, c)'
  <1>1. /\ queue' = queue \cup held[p] /\ held'[p] = {} /\ \A q \in Procs : q # p => held'[q] = held[q]
        /\ \A w \in Workers : w # p => run'[w] = run[w]
    BY CrashPlaces
  <1>2. /\ UNCHANGED <<now, boots>> /\ proc'[p].pc = "off" /\ boots'[p] # 0
        /\ \A q \in Procs : q # p => proc'[q] = proc[q]
    <2>1. /\ UNCHANGED <<now, boots>> /\ proc'[p].pc = "off" /\ proc[p].pc # "off"
          /\ \A q \in Procs : q # p => proc'[q] = proc[q]
      BY DEF Crash, Goes, Off, CronsInv, ControlTypes
    <2>2. boots[p] \in Nat /\ boots[p] >= 1
      BY <2>1, BootsCounted
    <2> QED BY <2>1, <2>2
  <1>3. ~Settled(p, c)' /\ ~Rewritten(p, c)'
    BY <1>2, Stopped DEF Rewritten, Late
  <1>4. \A m : Waits(m) => Waits(m)'
    BY <1>1 DEF Waits
  <1>5. CASE p \in Servers
    BY <1>3, <1>5 DEF Repaired, LockStands
  <1>6. CASE p \in Workers
    <2>1. p \notin Servers /\ locks'[p] = {} /\ \A v \in Workers : v # p => locks'[v] = locks[v]
      <3>1. locks' = [locks EXCEPT ![p] = {}]
        BY <1>6 DEF Crash
      <3> QED BY <1>6, <3>1, Kinds DEF CronsInv, ControlTypes
    <2>2. ASSUME NEW v \in Workers, v # p PROVE LockStands(v, c)'
      <3>1. Handling(v, c) => Handling(v, c)'
        BY <1>1, <2>2 DEF Handling
      <3> QED BY <1>2, <1>4, <2>1, <2>2, <3>1, StandsFor
    <2>3. LockStands(p, c)'
      BY <2>1 DEF LockStands
    <2> QED BY <1>3, <2>2, <2>3 DEF Repaired
  <1> QED BY <1>5, <1>6, Kinds

LEMMA InitChain ==
  ASSUME Init
  PROVE  ChainInv
  <1>1. /\ \A w \in Workers : locks[w] = {}
        /\ \A w \in Workers : proc[w].pc = "off"
    BY Kinds DEF Init, Off
  <1>2. \A w \in Workers, c \in Active : ~Past(w, c)
    BY <1>1 DEF Past, Booting
  <1> QED BY <1>1, <1>2 DEF ChainInv, LockStands, Repaired

LEMMA ChainStep ==
  ASSUME CronsInv, CronsInv', ChainInv, [Next]_vars
  PROVE  ChainInv'
  <1> SUFFICES ASSUME NEW c \in Active
               PROVE  Repaired(c)' /\ \A v \in Workers : LockStands(v, c)'
    BY DEF ChainInv
  <1>1. CASE Expire \/ Tick
    BY <1>1, ChainExpired, ChainTicked
  <1>2. CASE \E s \in Servers : BootServer(s) \/ Push(s)
    BY <1>2, ChainMoved, ChainTaken, Kinds
  <1>3. CASE \E w \in Workers : BootWorker(w) \/ PeekFails(w) \/ Handle(w) \/ PublishNext(w) \/ Ends(w)
    BY <1>3, ChainMoved, ChainReturned, ChainHandled, ChainPublishedNext, ChainEnded, Kinds
  <1>4. CASE \E p \in Procs : \/ BootStep(p) \/ Unconfirmed(p) \/ UnconfirmedAgain(p)
                              \/ Fails(p) \/ Crash(p)
    <2>1. CASE \E p \in Procs : \/ Publish(p) \/ Unconfirmed(p) \/ UnconfirmedAgain(p)
                                \/ Fails(p) \/ Crash(p)
      BY <2>1, ChainPublished, ChainUnconfirmed, ChainReturned, ChainCrashed
    <2>2. CASE \E s \in Servers : Ensure(s) \/ Count(s) \/ Receive(s) \/ Closed(s)
      BY <2>2, ChainMoved, ChainTaken, ChainReturned, Kinds
    <2>3. CASE \E w \in Workers : \/ RepairBegins(w) \/ SkipInactive(w) \/ Peek(w) \/ Get(w) \/ Read(w)
                                  \/ LockRepair(w)
      BY <2>3, ChainMoved, ChainTaken, ChainReturned, ChainLocked, Kinds
    <2> QED BY <1>4, <2>1, <2>2, <2>3 DEF BootStep
  <1>5. CASE UNCHANGED vars
    <2>1. UNCHANGED <<now, queue, held, work, run, proc, boots, locks>>
      BY <1>5 DEF vars
    <2>2. \A p, b : /\ Cron(p)' = Cron(p)
                    /\ (Settled(p, b)' <=> Settled(p, b)) /\ (Past(p, b)' <=> Past(p, b))
      BY <2>1, ProcsSame
    <2>3. /\ \A m : Waits(m) <=> Waits(m)'
          /\ \A v \in Workers : Handling(v, c) <=> Handling(v, c)'
          /\ NextDate(c)' = NextDate(c)
      BY <2>1 DEF Waits, Handling, NextDate
    <2>4. (Alive(c)' <=> Alive(c)) /\ (Scheduled(c)' <=> Scheduled(c))
      BY <2>1, <2>3 DEF Alive, Scheduled
    <2>5. Repaired(c)'
      BY <2>2, <2>4 DEF Repaired, ChainInv
    <2>6. ASSUME NEW v \in Workers PROVE LockStands(v, c)'
      <3>1. LockStands(v, c)
        BY DEF ChainInv
      <3>2. \A q : (Rewritten(q, c)' <=> Rewritten(q, c)) /\ (Competes(q, c)' <=> Competes(q, c))
        BY <2>1, <2>3, RewrittenSame
      <3> QED BY <2>1, <2>3, <2>4, <3>1, <3>2 DEF LockStands
    <2> QED BY <2>5, <2>6
  <1> QED BY <1>1, <1>2, <1>3, <1>4, <1>5 DEF Next

LEMMA ChainHolds ==
  ASSUME CronsInv, OnceInv, ChainInv
  PROVE  ChainAlive
  <1> SUFFICES ASSUME NEW u \in Workers, proc[u].pc = "up",
                      \A p \in Procs : proc[p].pc = "up" \/ boots[p] = 0,
                      NEW c \in Active
               PROVE  \E m \in Pending :
                        m.cron = c /\ \A w \in Workers : run[w].pc = "running" => m \notin run[w].msg
    BY DEF ChainAlive
  <1>1. Alive(c)
    BY DEF ChainInv, Repaired, Past, Settled
  <1>2. CASE \E m \in Messages : (Waits(m) \/ m \in work) /\ m.cron = c
    <2>1. PICK m \in Messages : (Waits(m) \/ m \in work) /\ m.cron = c
      BY <1>2
    <2>2. m \in Pending
      BY <2>1, Places DEF Waits
    <2>3. \A w \in Workers : m \notin run[w].msg
      BY <2>1 DEF Waits, OnceInv, Apart
    <2> QED BY <2>1, <2>2, <2>3
  <1>3. CASE \E w \in Workers : Handling(w, c)
    <2>0. PICK w \in Workers : Handling(w, c)
      BY <1>3
    <2>1. PICK m : run[w].pc = "publish" /\ m \in run[w].msg /\ m.cron = c
      BY <2>0 DEF Handling
    <2>2. m \in Pending
      BY <2>1, Places
    <2>3. \A v \in Workers : v # w => m \notin run[v].msg
      BY <2>1 DEF OnceInv, Apart
    <2> QED BY <2>1, <2>2, <2>3
  <1> QED BY <1>1, <1>2, <1>3 DEF Alive

(* ChainAlive: once every process that has booted has gone through its crons,   *)
(* the rewrite or the repair of one of them has left each active cron an        *)
(* execution from which the others follow.                                      *)
THEOREM ChainsSurvive == Spec => []ChainAlive
  <1>1. Init => CronsInv /\ OnceInv /\ ChainInv
    BY InitTypes, InitOnce, InitChain
  <1>2. CronsInv /\ OnceInv /\ ChainInv /\ [Next]_vars => CronsInv' /\ OnceInv' /\ ChainInv'
    BY TypesStep, OnceStep, ChainStep
  <1>3. CronsInv /\ OnceInv /\ ChainInv => ChainAlive
    BY ChainHolds
  <1> QED BY <1>1, <1>2, <1>3, PTL DEF Spec
===============================================================================
