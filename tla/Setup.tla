--------------------------------- MODULE Setup ---------------------------------
(* The queues of one service, as setup.ts declares, migrates and deletes them at *)
(* the boot of its processes, while messages come and go; and requeueDeadLetters,*)
(* which drains a queue the way the migration does (consumeAllMessages). One     *)
(* action is one answer of the broker or of the storage. Of a consumer there is  *)
(* only what it does to the queues: Subscriber has the handler.                  *)
EXTENDS Naturals, Sequences, FiniteSets

CONSTANTS
    Procs, Queues,
    Msgs, Spares,    \* messages; those kept for the copies that requeueDeadLetters makes
    Options, None,   \* the options of a queue as JSON; None: none are known
    Deployments,     \* what a process may be booted with: its subscribers in order
    Redis,           \* REDIS_URI: the stored options are shared
    MaxBoots, MaxCalls,
    MaxFaults        \* bound on crashes and lost connections

(* The decorator of a subscriber allows one for each queue: see Worker.          *)
ASSUME SetupAssumption ==
    /\ Redis \in BOOLEAN /\ {MaxBoots, MaxCalls, MaxFaults} \subseteq Nat
    /\ None \notin Options \cup Queues /\ Procs # {} /\ IsFiniteSet(Msgs) /\ Spares \subseteq Msgs
    /\ \A d \in Deployments : /\ d \in Seq([queue : Queues, opts : Options])
                             /\ \A i, j \in DOMAIN d : d[i].queue = d[j].queue => i = j

(* q, its dead letters, and its scheduler queues, of which the model has one.    *)
Parts == <<"main", "dlq", "schq">>
PartSet == {"main", "dlq", "schq"}

VARIABLES
    exists,     \* the queues of the broker
    opts,       \* the options the main queue was declared with
    bound,      \* it is bound to the scheduler exchange
    box,        \* messages ready in a queue
    consumers,  \* processes that consume the main queue
    unacked,    \* deliveries; not live: the queue was deleted under it
    home,       \* the queue a message was sent to
    done,       \* messages whose run succeeded
    stored,     \* the stored options, in Redis or in the KV of a process
    proc,       \* where a process is in setup
    orphan,     \* ... and with each queue it no longer has
    call,       \* ... and in requeueDeadLetters
    spent,      \* boots, calls and faults so far
    clean       \* no setup has failed, was cut short, or met another, and no recovery
                \* has created a queue

broker == <<exists, opts, bound, box, consumers, unacked>>
vars == <<broker, home, done, stored, proc, orphan, call, spent, clean>>

Unknown == [q \in Queues |-> None]
Off == [pc |-> "off", dep |-> <<>>, at |-> 1, recover |-> FALSE, known |-> Unknown, left |-> 0,
        mem |-> {}]
NoOrphans == [q \in Queues |-> [step |-> "no", left |-> <<>>, kept |-> FALSE]]
NoCall == [pc |-> "idle", queue |-> None, left |-> 0, held |-> {}, sent |-> {}, lost |-> {}]
Bounds == [boot |-> MaxBoots, call |-> MaxCalls, fault |-> MaxFaults]

AtQueue == {"queue", "drain", "stuck", "delete", "assert", "resend", "bind", "consume"}
Booting(p) == proc[p].pc \in AtQueue \cup {"read", "orphans"}

SetupTypeOK ==
    /\ \A q \in Queues : /\ exists[q] \subseteq PartSet /\ opts[q] \in Options \cup {None}
                         /\ opts[q] = None <=> "main" \notin exists[q]
                         /\ bound[q] => "main" \in exists[q]
                         /\ \A b \in PartSet \ exists[q] : box[q][b] = {}
                         /\ consumers[q] # {} => "main" \in exists[q]
    /\ unacked \subseteq [msg : Msgs, queue : Queues, by : Procs, live : BOOLEAN]
    /\ \A p \in Procs : /\ proc[p].pc \in AtQueue \cup {"off", "read", "orphans", "up", "failed"}
                        /\ proc[p].pc \in AtQueue => proc[p].at \in 1 .. Len(proc[p].dep)
                        /\ proc[p].mem # {} => proc[p].pc \in AtQueue \ {"queue", "bind", "consume"}
                        /\ call[p].pc \in {"idle", "drain", "closing", "publish", "again"}
    /\ \A k \in DOMAIN Bounds : spent[k] \in 0 .. Bounds[k]

Names(d) == {d[i].queue : i \in DOMAIN d}
OptionsOf(d) ==
    [q \in Queues |-> IF q \in Names(d) THEN d[CHOOSE i \in DOMAIN d : d[i].queue = q].opts ELSE None]

(* Before any deployment (d empty), or when the processes of one have ended.     *)
Init ==
    /\ \E d \in Deployments \cup {<<>>} :
         /\ opts = OptionsOf(d)
         /\ exists = [q \in Queues |-> IF q \in Names(d) THEN PartSet ELSE {}]
         /\ bound = [q \in Queues |-> q \in Names(d)]
         /\ stored = [p \in Procs |-> OptionsOf(d)]
    /\ box = [q \in Queues |-> [b \in PartSet |-> {}]] /\ consumers = [q \in Queues |-> {}]
    /\ unacked = {} /\ home = [m \in Msgs |-> None] /\ done = {}
    /\ proc = [p \in Procs |-> Off] /\ orphan = [p \in Procs |-> NoOrphans]
    /\ call = [p \in Procs |-> NoCall] /\ spent = [k \in DOMAIN Bounds |-> 0] /\ clean = TRUE

-------------------------------------------------------------------------------
(* Helpers.                                                                      *)

Goes(p, state) == proc' = [proc EXCEPT ![p] = state]
Step(p, pc) == Goes(p, [proc[p] EXCEPT !.pc = pc])
Spend(k) == spent[k] < Bounds[k] /\ spent' = [spent EXCEPT ![k] = @ + 1]

Alone(p) == \A o \in Procs \ {p} : ~Booting(o)

(* The entry of the subscriber p is at; its queue; its options.                  *)
Queue(p) == proc[p].dep[proc[p].at].queue
Current(p) == proc[p].dep[proc[p].at].opts
Stored(p) == IF Redis THEN stored[CHOOSE o \in Procs : TRUE] ELSE stored[p]
Store(p, options) ==
    stored' = IF Redis THEN [o \in Procs |-> options] ELSE [stored EXCEPT ![p] = options]

(* Moves of a message between queues, or into one; what has no queue is dropped. *)
Into(bx, q, b, ms) ==
    IF b \in exists[q] THEN [bx EXCEPT ![q][b] = @ \cup ms] ELSE bx
Without(q, b, m) == [box EXCEPT ![q][b] = @ \ {m}]

(* What a drain has acked, and the broker has not confirmed by closing its       *)
(* channel: of the migration, and of requeueDeadLetters.                         *)
Acked(p) == IF proc[p].pc \in {"drain", "delete"} THEN proc[p].mem ELSE {}
AckedDead(p) == IF call[p].pc \in {"drain", "closing"} THEN call[p].held ELSE {}

Back(p, back, q) ==
    [b \in PartSet |->
       IF b = "main" /\ "main" \in exists[q]
       THEN {u.msg : u \in {v \in unacked : v.by = p /\ v.queue = q /\ v.live}}
            \cup {m \in back \cap Acked(p) : Queue(p) = q}
       ELSE IF b = "dlq" /\ "dlq" \in exists[q] THEN {m \in back \cap AckedDead(p) : call[p].queue = q}
       ELSE {}]

(* The broker when process p is gone: its deliveries go back to their queues, and*)
(* so do the messages whose acks did not arrive (back).                          *)
Disconnected(p, back) ==
    /\ consumers' = [q \in Queues |-> consumers[q] \ {p}]
    /\ unacked' = {u \in unacked : u.by # p}
    /\ box' = [q \in Queues |-> [b \in PartSet |-> box[q][b] \cup Back(p, back, q)[b]]]

(* What is deleted with the main queue q: its binding and its consumers, among   *)
(* them that of a drain, which then waits for ever (the callback ignores the     *)
(* cancellation, a null message).                                                *)
MainDeleted(q) ==
    /\ exists' = [exists EXCEPT ![q] = @ \ {"main"}]
    /\ opts' = [opts EXCEPT ![q] = None]
    /\ bound' = [bound EXCEPT ![q] = FALSE]
    /\ consumers' = [consumers EXCEPT ![q] = {}]
    /\ unacked' = {[u EXCEPT !.live = @ /\ u.queue # q] : u \in unacked}
    /\ box' = [box EXCEPT ![q]["main"] = {}]
Cancelled(q) ==
    [o \in Procs |-> IF proc[o].pc = "drain" /\ Queue(o) = q THEN [proc[o] EXCEPT !.pc = "stuck"]
                     ELSE proc[o]]

(* setup rejects: what it held in memory is gone. At boot its consumers stay; a  *)
(* recovery discards its connection, and the connector may try again.            *)
Fail(p) ==
    /\ IF proc[p].recover THEN Disconnected(p, {}) /\ UNCHANGED <<exists, opts, bound>>
       ELSE UNCHANGED broker
    /\ Goes(p, [proc[p] EXCEPT !.pc = "failed", !.mem = {}, !.left = 0])
    /\ orphan' = [orphan EXCEPT ![p] = NoOrphans]
    /\ clean' = FALSE
    /\ UNCHANGED <<home, done, stored, call, spent>>

-------------------------------------------------------------------------------
(* setup: the queues.                                                            *)

(* A process without subscribers deletes the local copy of the stored options.   *)
Boot(p) ==
    /\ proc[p].pc = "off" /\ Spend("boot")
    /\ \E d \in Deployments :
         IF d = <<>>
         THEN /\ Goes(p, [Off EXCEPT !.pc = "up"])
              /\ stored' = IF Redis THEN stored ELSE [stored EXCEPT ![p] = Unknown]
              /\ UNCHANGED clean
         ELSE /\ Goes(p, [Off EXCEPT !.pc = "read", !.dep = d])
              /\ clean' = (clean /\ Alone(p))
              /\ UNCHANGED stored
    /\ UNCHANGED <<broker, home, done, orphan, call>>

(* getStoragedQueueOptions, which a recovery does not ask; the exchanges.        *)
Read(p) ==
    /\ proc[p].pc = "read"
    /\ Goes(p, [proc[p] EXCEPT !.pc = "queue",
                               !.known = IF proc[p].recover THEN Unknown ELSE Stored(p)])
    /\ UNCHANGED <<broker, home, done, stored, orphan, call, spent, clean>>

Changed(p) == proc[p].known[Queue(p)] \notin {None, Current(p)}

(* assertQueue: with the old options to drain the queue, else with the current.  *)
Asserted(p) ==
    IF proc[p].pc = "queue" /\ Changed(p) THEN proc[p].known[Queue(p)] ELSE Current(p)
Mismatch(p) ==
    proc[p].pc \in {"queue", "assert"} /\ opts[Queue(p)] \notin {None, Asserted(p)}

Refused(p) == Mismatch(p) /\ Fail(p)

(* The count of ready messages. (As a bug: one more than there are.)              *)
CountedMore(q) == Cardinality(box[q]["main"]) + 1
Counted(q) == Cardinality(box[q]["main"])

Declare(p) ==
    LET q == Queue(p) IN
    /\ proc[p].pc \in {"queue", "assert"} /\ ~Mismatch(p)
    /\ exists' = [exists EXCEPT ![q] = @ \cup {"main"}]
    /\ opts' = [opts EXCEPT ![q] = Asserted(p)]
    /\ IF proc[p].pc = "queue" /\ Changed(p)
       THEN Goes(p, [proc[p] EXCEPT !.left = Counted(q),
                                    !.pc = IF Counted(q) = 0 THEN "delete" ELSE "drain"])
       ELSE Step(p, IF proc[p].pc = "assert" THEN "resend" ELSE "bind")
    /\ clean' = (clean /\ ~(proc[p].recover /\ opts[q] = None))
    /\ UNCHANGED <<bound, box, consumers, unacked, home, done, stored, orphan, call, spent>>

(* consumeAllMessages: each message is kept in memory and acked. (As a bug: not  *)
(* acked, so that it goes back to the queue.)                                    *)
AckLater(q, m) == box
Ack(q, m) == Without(q, "main", m)

Receive(p) ==
    /\ proc[p].pc = "drain"
    /\ \E m \in box[Queue(p)]["main"] :
         /\ box' = Ack(Queue(p), m)
         /\ Goes(p, [proc[p] EXCEPT !.mem = @ \cup {m}, !.left = @ - 1,
                                    !.pc = IF proc[p].left = 1 THEN "delete" ELSE "drain"])
    /\ UNCHANGED <<exists, opts, bound, consumers, unacked, home, done, stored, orphan, call, spent,
                   clean>>

(* deleteQueue with ifEmpty, which sees what is ready and not what is delivered. *)
(* (As a bug: without ifEmpty.)                                                  *)
NotEmptyUnseen(q) == FALSE
NotEmpty(q) == box[q]["main"] # {}

Delete(p) ==
    /\ proc[p].pc = "delete"
    /\ IF NotEmpty(Queue(p))
       THEN Fail(p)
       ELSE /\ MainDeleted(Queue(p))
            /\ proc' = [Cancelled(Queue(p)) EXCEPT ![p].pc = "assert"]
            /\ UNCHANGED <<home, done, stored, orphan, call, spent, clean>>

(* (As a bug: they are kept, for the next queue that is migrated.)               *)
ResendKept(p) ==
    /\ proc[p].pc = "resend"
    /\ box' = Into(box, Queue(p), "main", proc[p].mem)
    /\ Step(p, "bind")
    /\ UNCHANGED <<exists, opts, bound, consumers, unacked, home, done, stored, orphan, call, spent,
                   clean>>
Resend(p) ==
    /\ proc[p].pc = "resend"
    /\ box' = Into(box, Queue(p), "main", proc[p].mem)
    /\ Goes(p, [proc[p] EXCEPT !.pc = "bind", !.mem = {}])
    /\ UNCHANGED <<exists, opts, bound, consumers, unacked, home, done, stored, orphan, call, spent,
                   clean>>

(* The bindings, the dead letters and the scheduler queues.                      *)
Bind(p) ==
    LET q == Queue(p) IN
    /\ proc[p].pc = "bind"
    /\ IF "main" \in exists[q]
       THEN /\ exists' = [exists EXCEPT ![q] = PartSet]
            /\ bound' = [bound EXCEPT ![q] = TRUE]
            /\ Step(p, "consume")
            /\ UNCHANGED <<opts, box, consumers, unacked, home, done, stored, orphan, call, spent,
                           clean>>
       ELSE Fail(p)

(* The queues of an earlier deployment, as far as their options were stored.     *)
Orphans(p) ==
    [q \in Queues |->
       IF proc[p].known[q] # None /\ q \notin Names(proc[p].dep)
       THEN [step |-> "check", left |-> Parts, kept |-> FALSE] ELSE NoOrphans[q]]

(* The consumers of a queue; then the next one.                                  *)
Consume(p) ==
    LET q == Queue(p) last == proc[p].at = Len(proc[p].dep) IN
    /\ proc[p].pc = "consume"
    /\ IF "main" \in exists[q]
       THEN /\ consumers' = [consumers EXCEPT ![q] = @ \cup {p}]
            /\ Goes(p, IF ~last THEN [proc[p] EXCEPT !.pc = "queue", !.at = @ + 1]
                       ELSE [proc[p] EXCEPT !.pc = IF proc[p].recover THEN "up" ELSE "orphans"])
            /\ orphan' = IF last /\ ~proc[p].recover THEN [orphan EXCEPT ![p] = Orphans(p)]
                         ELSE orphan
            /\ UNCHANGED <<exists, opts, bound, box, unacked, home, done, stored, call, spent, clean>>
       ELSE Fail(p)

-------------------------------------------------------------------------------
(* setup: the orphans. Each of the queues of an orphan is checked on a channel of*)
(* its own; the deletions go over one channel, in order.                         *)

InUse(q, b) ==
    \/ b = "main" /\ (consumers[q] # {} \/ \E o \in Procs : proc[o].pc = "drain" /\ Queue(o) = q)
    \/ b = "dlq" /\ \E o \in Procs : call[o].pc \in {"drain", "closing"} /\ call[o].queue = q
Idle(q, b) == box[q][b] = {} /\ ~InUse(q, b)

Check(p, q) ==
    /\ orphan[p][q].step = "check"
    /\ LET o == orphan[p][q]
           kept == o.kept \/ ~Idle(q, Head(o.left))
       IN orphan' = [orphan EXCEPT ![p][q] =
            IF Len(o.left) > 1 THEN [o EXCEPT !.left = Tail(@), !.kept = kept]
            ELSE IF kept THEN [step |-> "kept", left |-> <<>>, kept |-> TRUE]
            ELSE [step |-> "delete", left |-> Parts, kept |-> FALSE]]
    /\ UNCHANGED <<broker, home, done, stored, proc, call, spent, clean>>

(* deleteQueue with ifUnused and ifEmpty. (As a bug: what was seen is trusted.)  *)
DeleteSeen(q, b) == TRUE
Deletable(q, b) == Idle(q, b)

DeleteOrphan(p, q) ==
    LET o == orphan[p][q] b == Head(o.left) IN
    /\ o.step = "delete"
    /\ IF ~Deletable(q, b)
       THEN Fail(p)
       ELSE /\ IF b = "main"
               THEN MainDeleted(q) /\ proc' = Cancelled(q)
               ELSE /\ exists' = [exists EXCEPT ![q] = @ \ {b}]
                    /\ box' = [box EXCEPT ![q][b] = {}]
                    /\ UNCHANGED <<opts, bound, consumers, unacked, proc>>
            /\ orphan' = [orphan EXCEPT ![p][q] =
                 IF Len(o.left) > 1 THEN [o EXCEPT !.left = Tail(@)] ELSE NoOrphans[q]]
            /\ UNCHANGED <<home, done, stored, call, spent, clean>>

(* The options that are stored: the current ones, and those of the orphans that  *)
(* were kept. (As a bug: an orphan is forgotten.)                                *)
NewOptionsOnly(p) == OptionsOf(proc[p].dep)
NewOptions(p) ==
    [q \in Queues |-> IF orphan[p][q].step = "kept" THEN proc[p].known[q] ELSE OptionsOf(proc[p].dep)[q]]

StoreOptions(p) ==
    /\ proc[p].pc = "orphans" /\ \A q \in Queues : orphan[p][q].step \in {"no", "kept"}
    /\ Store(p, NewOptions(p))
    /\ Goes(p, [proc[p] EXCEPT !.pc = "up", !.known = Unknown])
    /\ orphan' = [orphan EXCEPT ![p] = NoOrphans]
    /\ UNCHANGED <<broker, home, done, call, spent, clean>>

-------------------------------------------------------------------------------
(* requeueDeadLetters.                                                           *)

Draining(p) == call[p].pc = "drain"

(* assertQueue of the dead letters, and their count.                             *)
Requeue(p, q) ==
    LET count == Cardinality(box[q]["dlq"]) IN
    /\ proc[p].pc = "up" /\ call[p].pc = "idle" /\ Spend("call")
    /\ exists' = [exists EXCEPT ![q] = @ \cup {"dlq"}]
    /\ call' = [call EXCEPT ![p] =
         IF count = 0 THEN NoCall ELSE [NoCall EXCEPT !.pc = "drain", !.queue = q, !.left = count]]
    /\ UNCHANGED <<opts, bound, box, consumers, unacked, home, done, stored, proc, orphan, clean>>

ReceiveDead(p) ==
    LET q == call[p].queue IN
    /\ Draining(p)
    /\ \E m \in box[q]["dlq"] :
         /\ box' = Without(q, "dlq", m)
         /\ call' = [call EXCEPT ![p].held = @ \cup {m}, ![p].left = @ - 1,
                                 ![p].pc = IF call[p].left = 1 THEN "closing" ELSE "drain"]
    /\ UNCHANGED <<exists, opts, bound, consumers, unacked, home, done, stored, proc, orphan, spent,
                   clean>>

(* The close of the channel: the broker has the acks.                            *)
CloseOk(p) ==
    /\ call[p].pc = "closing" /\ proc[p].pc = "up"
    /\ call' = [call EXCEPT ![p].pc = "publish"]
    /\ UNCHANGED <<broker, home, done, stored, proc, orphan, spent, clean>>

(* #publish, for all at the same time: what is held in memory; and a copy of what*)
(* may be in the broker already. They are not mandatory: without the queue they  *)
(* are confirmed all the same. The call resolves with the last confirmation.     *)
Sends(p, m) ==
    /\ call[p].pc \in {"publish", "again"} /\ proc[p].pc = "up"
    /\ box' = Into(box, call[p].queue, "main", {m})
    /\ UNCHANGED <<exists, opts, bound, consumers, unacked, done, stored, proc, orphan, spent, clean>>

Republish(p) ==
    \E m \in call[p].held :
      /\ Sends(p, m)
      /\ call' = [call EXCEPT ![p].held = @ \ {m}, ![p].sent = @ \cup {m}]
      /\ UNCHANGED home

RepublishAgain(p) ==
    \E m \in call[p].lost, s \in Spares :
      /\ home[s] = None /\ Sends(p, s)
      /\ call' = [call EXCEPT ![p].lost = @ \ {m}, ![p].sent = @ \cup {s}]
      /\ home' = [home EXCEPT ![s] = call[p].queue]

Confirmed(p) ==
    \E m \in call[p].sent :
      /\ call' = [call EXCEPT ![p] =
           IF call[p].held \cup call[p].lost = {} /\ call[p].sent = {m} THEN NoCall
           ELSE [call[p] EXCEPT !.sent = @ \ {m}]]
      /\ UNCHANGED <<broker, home, done, stored, proc, orphan, spent, clean>>

(* The connection is lost. A drain is rejected; but once it has received all, it *)
(* returns them, be they acked or not. What is not confirmed is sent once more;  *)
(* then the call is rejected.                                                    *)
Interrupted(p, back) ==
    IF call[p].pc = "drain" \/ (call[p].pc = "again" /\ proc[p].pc = "up") THEN NoCall
    ELSE IF call[p].pc = "closing"
    THEN [call[p] EXCEPT !.pc = "publish", !.held = @ \ back, !.lost = call[p].held \cap back]
    ELSE IF call[p].pc = "publish"
    THEN [call[p] EXCEPT !.pc = "again", !.sent = {}, !.lost = @ \cup call[p].sent]
    ELSE call[p]

(* The recovery that the second sending has waited for failed: it is rejected.   *)
GiveUp(p) ==
    /\ call[p].pc = "again" /\ proc[p].pc = "failed"
    /\ call' = [call EXCEPT ![p] = NoCall]
    /\ UNCHANGED <<broker, home, done, stored, proc, orphan, spent, clean>>

-------------------------------------------------------------------------------
(* The broker, its publishers and the consumers.                                 *)

(* A message for a queue that does not exist is returned.                        *)
Publish(m, q) ==
    /\ m \notin Spares /\ home[m] = None /\ "main" \in exists[q]
    /\ home' = [home EXCEPT ![m] = q]
    /\ box' = Into(box, q, "main", {m})
    /\ UNCHANGED <<exists, opts, bound, consumers, unacked, done, stored, proc, orphan, call, spent,
                   clean>>

(* The default prefetch of one.                                                  *)
Take(p, q) ==
    /\ p \in consumers[q] /\ \A u \in unacked : u.by = p => u.queue # q
    /\ \E m \in box[q]["main"] :
         /\ box' = Without(q, "main", m)
         /\ unacked' = unacked \cup {[msg |-> m, queue |-> q, by |-> p, live |-> TRUE]}
    /\ UNCHANGED <<exists, opts, bound, consumers, home, done, stored, proc, orphan, call, spent,
                   clean>>

(* A run succeeds; or a retry is published; or the retries are over, and the     *)
(* broker dead-letters the message if its queue is still there.                  *)
Ends(u) ==
    /\ unacked' = unacked \ {u}
    /\ \/ done' = done \cup {u.msg} /\ UNCHANGED box
       \/ box' = Into(box, u.queue, "schq", {u.msg}) /\ UNCHANGED done
       \/ box' = (IF u.live THEN Into(box, u.queue, "dlq", {u.msg}) ELSE box) /\ UNCHANGED done
    /\ UNCHANGED <<exists, opts, bound, consumers, home, stored, proc, orphan, call, spent, clean>>

Expire(q) ==
    /\ \E m \in box[q]["schq"] :
         LET rest == Without(q, "schq", m) IN
         box' = IF bound[q] THEN Into(rest, q, "main", {m}) ELSE rest
    /\ UNCHANGED <<exists, opts, bound, consumers, unacked, home, done, stored, proc, orphan, call,
                   spent, clean>>

(* The end of a process: of one that is replaced, or in a crash.                 *)
Gone(p) ==
    /\ \E back \in SUBSET (Acked(p) \cup AckedDead(p)) : Disconnected(p, back)
    /\ Goes(p, Off)
    /\ orphan' = [orphan EXCEPT ![p] = NoOrphans] /\ call' = [call EXCEPT ![p] = NoCall]
    /\ UNCHANGED <<exists, opts, bound, home, done, stored>>

Stop(p) ==
    /\ proc[p].pc \in {"up", "failed"} /\ call[p].pc = "idle"
    /\ Gone(p) /\ UNCHANGED <<spent, clean>>

Crash(p) ==
    /\ proc[p].pc # "off" /\ Spend("fault")
    /\ Gone(p) /\ clean' = (clean /\ ~Booting(p))

(* The next attempt of the connector, for which a first sending waits that waited*)
(* for the recovery that failed.                                                 *)
Retry(p) ==
    /\ proc[p].pc = "failed" /\ proc[p].recover /\ call[p].pc # "again"
    /\ Goes(p, [Off EXCEPT !.pc = "read", !.dep = proc[p].dep, !.recover = TRUE])
    /\ call' = [call EXCEPT ![p].pc = IF @ = "publish" THEN "again" ELSE @]
    /\ clean' = (clean /\ Alone(p))
    /\ UNCHANGED <<broker, home, done, stored, orphan, spent>>

(* The connection drops and is restored: setup runs again, without what belongs  *)
(* to the boot.                                                                  *)
Drop(p) ==
    /\ proc[p].pc # "off" /\ proc[p].dep # <<>> /\ Spend("fault")
    /\ ~(proc[p].pc = "failed" /\ proc[p].recover)
    /\ \E back \in SUBSET (Acked(p) \cup AckedDead(p)) :
         Disconnected(p, back) /\ call' = [call EXCEPT ![p] = Interrupted(p, back)]
    /\ Goes(p, [Off EXCEPT !.pc = "read", !.dep = proc[p].dep, !.recover = TRUE])
    /\ orphan' = [orphan EXCEPT ![p] = NoOrphans]
    /\ clean' = (clean /\ ~Booting(p) /\ Alone(p))
    /\ UNCHANGED <<exists, opts, bound, home, done, stored>>

SetupStep(p) ==
    \/ Read(p) \/ Refused(p) \/ Declare(p) \/ Receive(p) \/ Delete(p) \/ Resend(p) \/ Bind(p)
    \/ Consume(p) \/ StoreOptions(p)
    \/ \E q \in Queues : Check(p, q) \/ DeleteOrphan(p, q)

CallStep(p) ==
    ReceiveDead(p) \/ CloseOk(p) \/ Republish(p) \/ RepublishAgain(p) \/ Confirmed(p) \/ GiveUp(p)

Next ==
    \/ \E p \in Procs : \/ Boot(p) \/ SetupStep(p) \/ Stop(p) \/ Crash(p) \/ Drop(p) \/ Retry(p)
                        \/ CallStep(p)
                        \/ \E q \in Queues : Requeue(p, q) \/ Take(p, q)
    \/ \E q \in Queues : Expire(q) \/ \E m \in Msgs : Publish(m, q)
    \/ \E u \in unacked : Ends(u)

Spec == Init /\ [][Next]_vars

(* The broker and the storage answer; the connector tries again.                 *)
FairSpec ==
    /\ Spec
    /\ \A p \in Procs : WF_vars(SetupStep(p)) /\ WF_vars(CallStep(p)) /\ WF_vars(Retry(p))

-------------------------------------------------------------------------------
(* Properties.                                                                   *)

InBox(q) == UNION {box[q][b] : b \in PartSet}
Delivered == {u.msg : u \in unacked}
Held(p) == proc[p].mem \cup call[p].held
Owed == (UNION {InBox(q) : q \in Queues}) \cup Delivered \cup (UNION {Held(p) : p \in Procs})

(* The message is in the hands of a process that stops, fails or loses its       *)
(* connection; was in a delivery that a migration has cut off from its queue; or *)
(* has to go to a queue that is not there, or not bound yet.                     *)
Stopped(m) == \E p \in Procs : m \in Held(p) /\ proc'[p].pc \in {"off", "failed", "read"}
Cut(m) == \E u \in unacked : u.msg = m /\ ~u.live
Unroutable(m) ==
    LET q == home[m] IN
    \/ m \in box[q]["schq"] /\ ~bound[q]
    \/ m \in Delivered /\ ~{"dlq", "schq"} \subseteq exists[q]
    \/ "main" \notin exists[q] /\ \E p \in Procs : m \in Held(p)

(* setup.ts: messages are moved to the queue that replaces theirs, and an orphan *)
(* is deleted only when empty. Nothing is lost but in the three ways above.      *)
LossStep == \A m \in Owed : m \in Owed' \cup done' \/ Stopped(m) \/ Cut(m) \/ Unroutable(m)
LostOnlyByFailure == [][LossStep]_vars

(* consumeAllMessages acks what it keeps: a message that is sent again by the    *)
(* migration or by requeueDeadLetters is nowhere twice, nor after its success;   *)
(* and there is no second copy of one unless there was a fault.                  *)
OnePlace ==
    /\ \A m \in Msgs :
         LET places == {at \in Queues \X PartSet : m \in box[at[1]][at[2]]}
                       \cup {u \in unacked : u.msg = m} \cup {p \in Procs : m \in proc[p].mem}
                       \cup {<<p>> : p \in {o \in Procs : m \in call[o].held}}
         IN Cardinality(places) <= IF m \in done THEN 0 ELSE 1
    /\ (\E s \in Spares : home[s] # None) => spent["fault"] > 0

(* setup.ts: the stored options are those the queues have, so that the drain of a*)
(* changed queue is not refused (406). While setups come one after the other and *)
(* end, no assertQueue of a boot is refused, and no queue is forgotten: unless a *)
(* recovery brings back one that was deleted, whose options it does not store.   *)
OptionsKnown ==
    clean /\ Redis =>
      /\ \A p \in Procs : Mismatch(p) => proc[p].recover
      /\ (\A p \in Procs : ~Booting(p)) =>
            \A q \in Queues : opts[q] # None => \E p \in Procs : Stored(p)[q] = opts[q]

(* setup.ts: orphans are deleted if unused: no consumer is cancelled but by the  *)
(* migration of its queue.                                                       *)
CancelStep ==
    \A q \in Queues : \A p \in consumers[q] \ consumers'[q] :
       proc'[p].pc \in {"off", "read", "failed"} \/ \E o \in Procs : proc[o].pc = "delete" /\ Queue(o) = q
OrphansUnused == [][CancelStep]_vars

(* A setup ends, and so does requeueDeadLetters, if nobody else takes messages   *)
(* from the queue it drains.                                                     *)
Undisturbed ==
    \A p \in Procs :
      /\ proc[p].pc \in {"drain", "stuck"} =>
           /\ \A u \in unacked : u.queue # Queue(p)
           /\ consumers[Queue(p)] = {}
           /\ \A o \in Procs \ {p} : ~Booting(o)
      /\ Draining(p) => \A o \in Procs \ {p} : ~Draining(o)
DrainsEnd ==
    []Undisturbed => \A p \in Procs : Booting(p) \/ call[p].pc # "idle"
                                       ~> ~Booting(p) /\ call[p].pc = "idle"
===============================================================================
