# asyncmq: specifications

TLA+ modules for `@zanix/asyncmq` (the TypeScript sources under `src/src`), the TLC
configurations that check them on small instances, and theorems about them checked by TLAPS.
File names below are relative to `src/src/modules` unless they say otherwise.

## The system

asyncmq puts jobs, crons and plain messages on RabbitMQ queues and runs their handlers.

| Component | State | Operations | Talks to |
| --- | --- | --- | --- |
| Connector, `rabbitmq/connector.ts` | `#connection`, `#connected`, `#connectionDead`, `#closing`, `#reconnecting`, `#ready`, the hooks | `initialize`, `createChannel`, `waitForConnection`, `onReconnect`, the close event, `#reconnectLoop`, `close`, `consumeAllMessages`, `peekMessages` | the broker (amqplib), the provider's hook |
| Provider, `rabbitmq/provider/mod.ts` | `#isConfigured`, `#notifierChannel`, `#notifierOpen`, `#notifierOpening`, `#subscribers`, `#crons`, the scheduler queues declared | `#setup`, `#recover`, `#publish`, `enqueue`, `sendMessage`, `schedule`, `requeueDeadLetters`, `#executeCrons` | the connector, `setup`, the broker |
| Queue setup, `rabbitmq/provider/setup.ts` | the stored options of the queues (Redis or a local KV) | declares queues and bindings, migrates a queue whose options changed, deletes orphans, starts the consumers | the connector, the cache, the handler |
| Consumer handler, `subscribers/handler.ts` | one invocation per delivery; the job lock of `utils/queues.ts` in `cache.local` and `cache.redis` | lock, decode, schedule the next execution of a cron, run, ack, retry, dead-letter, unlock | its channel, the cache, the subscriber |
| Worker, `worker/` | the registered jobs; the subscribers of the predefined queues | `runJob` (through the provider), `runTask` (a web worker), the start of a worker process or thread | the provider |
| Jobs, crons, tasks, DLQ processors, `jobs/`; subscribers, `subscribers/` | the metadata registry, at import time | registration | the worker and the provider read it |

What is hard here:

- **Concurrency.** Everything runs on one thread per process, but every `await` lets another
  invocation, event or process in. The invocations of the handler outlive the channel that
  delivered their message; several processes consume one queue.
- **Delivery.** The broker delivers at least once. Acks and publishes of the consumer are not
  confirmed; a connection that is gone is noticed later. Retries and cron executions come back
  through the TTL of a scheduler queue.
- **Failure.** A connection drops in the middle of a run, of a recovery, of a publish; Redis
  commands fail; a process crashes with its lock in Redis; a lock expires under a long run. A rejection
  that escapes from a callback ends the process, unless the application listens to unhandled rejections.
- **Promises as state.** `#ready` and `#isConfigured` are replaced while others await the old ones.

What makes each part correct:

- Handler: a `messageId` runs once at a time; every path ends the delivery; no path loses work;
  no path leaks the lock; the chain of a cron goes on and each execution is scheduled once.
- Connector: one connection at a time, no loss missed, nobody let through to a connection that is
  being replaced, no waiter left behind, no connection after `close`.
- Provider: what resolves was taken by the broker; what fails was retried; after a reconnection the
  channel and the consumers are back before the connector is healthy; no circular wait.
- Crons: whatever boots, crashes or fails, an active cron gets its next execution back, and no process
  decides twice to publish it.
- Setup: a migration or a requeue doubles no message and loses none but by a failure; the
  stored options are those the queues have; only what is unused is deleted; a setup ends.
- Worker: a job is published with the arguments of its own call; its message runs its handler; a
  process consumes the queues of its execution, and none before it has loaded its code.

## Modules

| Module | Models |
| --- | --- |
| `AtLeastOnce` | the promise of the consumer side: an accepted message stays owed until it is settled (`Safety`), and is settled in the end (`Spec`) |
| `Subscriber` | the handler, the lock, the consumer channels, and the broker as the handler meets it |
| `Connector` | the connector |
| `Provider` | setup, recovery and publishing, composed with `Connector` |
| `Crons` | the crons of one processing queue: rewritten by a server, repaired and run by workers |
| `Setup` | the queues of a service at the broker: `setup.ts` at the boots of its processes, `requeueDeadLetters`, and the messages meanwhile |
| `Worker` | the registries of a process, its start, and `runJob` and `runTask` up to the handler |
| `SubscriberProofs` | theorems about `Subscriber`: types and deliveries |
| `SubscriberLockProofs` | the job lock, local and shared, and the answers |
| `SubscriberWorkProofs` | what is not lost: work, refused channels, the chains of crons; `AtLeastOnce` implemented |
| `ConnectorProofs`, `ProviderProofs`, `CronsProofs`, `SetupProofs`, `WorkerProofs` | theorems about the module of that name |
| `MC*` | the values of the constants for TLC |

### Subscriber

A *copy* is one message in the broker: ready in its queue, unacknowledged at a process, waiting in
the retry queue (`schq`) or in the cron queue (`cronq`). It carries the `messageId`, the
`x-attempt` header and, for a cron, the execution time. The `messageId` of a cron is its name.

An *invocation* of `processorHandler` is a record in `inv`; its `pc` says which await it is at,
and one action runs it to the next. With Redis, `lockMessage` is two awaits (`has`, then `set`), and
`unlockMessage` deletes the local key before it awaits Redis. `scheduleNextCron` is called from the
run of a cron (`skip` false) and from `handleLockedMessage` (`skip` true), with the same actions.
`Finish` is the ack or nack and the unlock that follow each other in one turn. `CanWrite` is the
result of `channelOp` (the client still has the channel); `Reaches` says whether the write arrives.
A connection is lost in two steps (`Drop`, `Notice`), because the client learns of it later, and a
process that reconnects gets a new channel while old invocations keep the old one (`current`).
A second answer on one channel is refused by the broker, which closes the channel; `setup.ts` only
logs that, so it stays closed.

What rejects outside the `try` of the handler (`Escapes`: a `decode`, or a Redis command in
`lockMessage`, in `scheduleNextCron` or in an `unlockMessage` that is not the one after a run) escapes from the callback that
`setup.ts` gave to `channel.consume`, and nobody catches it. `Listening` is the set of the processes whose
application listens to unhandled rejections. One of those goes on, and only the invocation ends, with its
delivery unanswered (`DecodeFails`, `RedisError`); any other process ends, with all its invocations,
its local locks and its channel (`EndedByRejection`). That counts as one of the `MaxCrashes` ends of a process.

Abstracted: the content, priorities and order of messages (any ready copy may be delivered); several
consumer channels of one process (the lock does not depend on the channel); the backoff (a retry
goes to `schq` or, with delay 0, to the queue, and its TTL ends at any time); the time of an
execution (`now` is the number of the last execution that has passed). `ended` merges "a run
succeeded" with "dead-lettered". Requeued dead letters are publications.

### Connector

Each connection is `open`, `dead` (lost, the client does not know), `closing` (closed by the client)
or `gone` (it emitted `close`). `loop` is where `#reconnectLoop` is: in the backoff, in
`openConnection`, in the hooks, or closing what it opened. `ready` says that `#ready` is resolved;
`exited` that `onExhausted` ran, by default the end of the process. `close()` of a connection is
assumed to resolve once that connection has ended.

### Provider

A step is a macrotask or one of the microtasks it makes due; `Quiet` lets a macrotask start only
when none is due, as the event loop does. (The events of the network come at any time.) `rec[0]` is
`#setup`, `rec[c]` the run of `#recover` for connection `c`; `configured` says whose promise
`#isConfigured` is. `opening` is the single-flight `#notifierOpening`, and those that wait for it go
on in the step that opens or fails it. A call's `pc` is the await it is at; `at` is the promise or
the connection it waits on; `try` counts the attempts begun. The three public calls differ only in
what they send, so one kind of call stands for them; the channel `schedule` declares its queue on is
not modelled. What the broker takes it confirms (`Taken`): it is in a queue (`stored`), or, if none is bound
or there, it is returned or dropped (`unrouted`), and the call resolves true all the same. amqplib is modelled by what the code relies on: when a connection ends its channels
end first, rejecting what was not confirmed; a command on a connection known to be closed throws.
`app.listens` is a choice of the application: whether it listens to unhandled rejections, which
would otherwise end the process.

### Crons

`queue` is the scheduler queue that the crons of a processing queue share, as a set of messages with
their positions (a message that is returned takes its old position again); `held` are those a
channel of a process was given and has not answered; `work` is the processing queue. `proc` is where
a process is in `#scheduleCrons`: a server counts and drains the queue, keeping back what is not of
the cron it rewrites, closes its channel and publishes; a worker peeks, takes the publish lock and
publishes. `run` is what the consumer of a worker is at: it takes the publish lock and publishes
the next execution before it runs its own. `by` says which process, in which of its lives,
published a message. The publish of a boot is `#publish`: if its confirmation does not come, whether or not
the message was stored (`Unconfirmed`), it is sent once more, and if that one is not confirmed either
the boot fails (`UnconfirmedAgain`). `send` tells the two sendings apart. The queue starts empty, or with an execution left by a deployment in which a
cron that is inactive now was active.

The broker (external) moves a message whose time has come when it is at the head of the queue, to
the processing queue if some worker has declared that and to nowhere otherwise. This is the
per-message TTL of the classic queues that `assertQueue` declares. Time stands still while a message
whose time has come is at the head, and between the choice of a date and its publication. The
locks are those of a local cache (each worker's own, atomic); their TTL of 300 s is not modelled,
because a lock is asked for again only by the repair, seconds after its worker has booted.
`CronsAssumption`: there is a process and a cron, and `Order` lists each cron once.

`ChainAlive` speaks of moments when every process that has booted is up. While a worker repairs, it
holds the publish lock, so its own consumer schedules nothing, and the publish of the repair may yet fail.

### Setup

A queue of the service is three at the broker: `main`, its dead letters `dlq`, and `schq`, which
stands for its scheduler queues (four in the code: each is declared, checked and deleted like the
others). `proc[p].pc` is the answer that `setup` of process `p` waits for, `at` the subscriber it is at:
`queue` (the first declaration, with the old options if the stored ones differ), `drain`, `delete`,
`assert`, `resend`, `bind`, `consume`; then `orphans`, where every queue that is stored but no longer
subscribed to is checked and deleted, all of them at the same time (`orphan`). `mem` is
`messages`, what a migration has taken out of a queue and holds. A drain whose consumer is cancelled
because another process deleted the queue is `stuck`, since the callback ignores the null message.
`Fail` is a rejection of `setup`: at boot the process goes on with the consumers it has, and whoever calls
the provider sees the rejection; in a recovery (`recover`), where `setup` runs without the stored options and the
orphans, the connection is discarded and the connector may try again (`Retry`; when its attempts are used up it
ends the process, which is a `Crash`).

`call` is `requeueDeadLetters`: the drain, the close of its channel (`closing`), and then what `#publish` is doing
for all the messages at once. Acks are not confirmed: what a drain has acked (`Acked`, `AckedDead`) is certainly gone
from the broker only when the channel has been closed, so a connection that is lost, or a process that ends, before that
returns any part of it (`back`). A drain of the dead letters that has received all it counted resolves even then, because of
`close().finally`, so that the caller publishes what is in the dead letters too. A message that was sent and
not confirmed when the connection is lost is sent once more (`again`), and the call is rejected if that
fails. So there may be two copies of one message. A second copy is a message of its own, a *spare* (`Spares`), which is then consumed,
retried and dead-lettered like the others. For the migration the close belongs to the step `delete`. It is assumed that
`close()` of a channel settles when its connection ends.

`Deployments` are the versions of the service a process may be booted with, `<<>>` one without
subscribers. The environment publishes, consumes with a prefetch of one, ends a run in one of three
ways (done, retried through `schq`, dead-lettered), and stops, crashes or disconnects a process.
Abstracted: the order and content of messages; the setup of several subscribers goes one queue after
the other, as in the code; a `sendToQueue` of the migration is taken by the broker in the same step as the
loop that makes it, as nothing is awaited in between. Lost connections are those of processes with subscribers.

`SetupAssumption` is what the code has: a version names each queue once, there is a process, the
messages are finitely many. `clean` says that no setup has failed, was cut short or overlapped
another, and that no recovery has declared a queue that another process had deleted (a recovery stores no options). `OptionsKnown` is about
such histories only: without that, see the list of behaviours below. `LostOnlyByFailure` names the
ways in which a message can get lost: a process that holds it in memory stops, fails or loses its
connection; the message was delivered and not yet acknowledged when a migration deleted its queue
(`ifEmpty` does not see deliveries); or it has to go through a queue or a binding that is not there for a moment.

### Worker

`registry[p]` is `ProgramModule.registry` of process `p`: jobs, crons, tasks and the subscribers of
each execution. A program is the sequence of registrations that importing the code makes; `Load` makes one, and
`todo` holds the positions of those that are left.
A registration that throws ends the process or is caught by the application, both of which happen;
`Registered` keeps what it had changed before it threw. `Initialize`, `Cleanup` and `Setup` are
the steps of `initWorkerEntrypoint` and of the provider's `#setup` in either order, as nobody awaits the latter.
A thread is started by a task of its host and runs the same program in a registry of its own;
its loader may leave out the files of subscribers (`workerFileTypes`), and its provider is created
by its first call.

A call is pending from `runJob` until `enqueue` has encoded its payload; `held` is the value it passed, `mixed`
says that the same job was called again meanwhile. For a job with a handler the payload is the
object in the registry; for others it is the value of the call. `box` holds the messages of
the queues and the tasks sent to threads. The handler that ran is noted in `ended` with the version of the
code of its process. Abstracted: retries (`Subscriber`), the connection (`Provider`), the result of
a task, the callback of `runTask`, and the pool of threads, of which a host starts those the model names.

## Runs

Every run has deadlock checking off because its publications, faults and connections are bounded:
when they are used up, the system has nothing left to do.

| Run | Shows | Bounds |
| --- | --- | --- |
| `subscriber_jobs` | `OneRunPerProcess`, `NoWorkLost`, `LockOwned`; `DeliveryEnds`; `Subscriber` implements `AtLeastOnce` | 2 processes, 1 message published twice, prefetch 2, 2 retries, 2 crashes |
| `subscriber_crons` | `ChainUnbroken`, `OneNextExecution`, `LockOwned`, `DeliveryAnswered` | an active and an inactive cron, 3 executions, 1 retry, 1 drop, 1 torn ack-and-retry |
| `subscriber_redis` | `LostOnlyOnRefusalOrEnd`, `SharedLockOwned`, `RefusedByRedisError` | 2 processes with Redis, one of which listens to unhandled rejections, 2 messages of which one does not decode, 2 copies, 3 invocations, prefetch 2, 1 retry, 1 expired lock, 1 failed command, 1 end of a process |
| `provider` | the connector's and the provider's invariants, `LossEnds`, `WaitEnds`, `CallsEnd` | 3 connections, 2 attempts, 1 failed setup, 1 closed channel, 1 call |
| `crons` | `ChainAlive`, `PublishedOnce`, `BootEnds` | 1 server, 1 worker, 2 boots each, an active and an inactive cron, 2 executions, 1 crash, failure or unconfirmed publish, 2 executions that expire while a drain counts on them |
| `setup` | `OnePlace`, `OptionsKnown`, `LostOnlyByFailure`, `OrphansUnused`, `DrainsEnd` | 2 processes, 2 boots, 2 queues, 1 message and 1 second copy, 1 requeue, 1 crash or drop; a version with both queues, one with the first and other options, one with none; the options in Redis |
| `worker` | `ArgsDelivered`, `RunsItsHandler`, `ConsumesOwn`, `CallsEnd` | a server, a thread of it and a worker, 2 boots of a server or worker, 2 calls, 2 job names, 2 versions of the code, one with a duplicate job, a cron and conflicting subscribers |
| `lost_after_drop`, `undecodable`, `close_reconnects`, `recovery_crash`, `job_args` | the disagreements listed below | the smallest instance that shows each |

Two copies and three invocations are enough for what the lock is about: a run, a redelivery or
duplicate of it, and a third that meets either. A retry only compares its attempt with the maximum,
so one or two retries show each branch. Two processes suffice because processes meet only in the
broker and in Redis, one lock key at a time. Three connections give a loss during the recovery of a
loss. The properties that fail under a fault are checked in runs without it and say so in their
comments: `NoWorkLost` without drops and without Redis, `ChainUnbroken` for behaviours without a drop.

With Redis, `NoWorkLost` does not hold either, and `LostOnlyOnRefusalOrEnd` says how far it does: work is lost
only if the broker has refused a channel, or a process has ended.

- A command that fails after a run has succeeded and been acknowledged takes the handler to its `catch`, which
  acknowledges again; the broker refuses that and closes the channel. What the process had of other
  messages is delivered again, meets the locks of the runs that are still going, and is discarded;
  when those runs fail they have no channel to retry on.
- A process that ends leaves its locks in Redis, and what it had is delivered again and discarded by
  another. It ends in a crash, or because a command failed anywhere else than after a successful run, or because a
  message does not decode, unless the application listens. In the run one process listens and the other
  does not, so both outcomes of each rejection happen.

`SharedLockOwned` is about histories in which no command has failed and no process has ended, `RefusedByRedisError`
about those in which no command has failed: the same run covers the three.

Symmetry is used in the safety runs only; in `subscriber_redis` it leaves out the processes, which differ.

In `crons` an execution may expire while a drain counts on it (`MaxMeanwhile` bounds how many). If no worker
schedules the next one into the queue, the drain waits for ever, and so it does when another
server takes what it has counted; `BootEnds` says that a boot ends or its drain is in that state, `Starved`: the
queue is empty, nobody holds any of it, and an execution did expire under a drain or another server has booted. Both
`MaxTime` and the period of the active cron are 1, so the cron is due once in a run and its next execution is scheduled. The order of the
two crons matters: an execution that a drain for the second one wrongly took would not be rewritten any more.
`PublishedOnce` compares the messages of one process in one life. The code does not promise more: a server and a worker
may publish the same execution.

In `setup` two boots give every pair of versions, one after the other or overlapping, with the queues
of an earlier version there from the start; a third process or boot meets the same
states of the broker. One message is in at most one place, so several of them only
interact in the counts of a drain, where one that leaves or arrives after the count shows both errors; the second
copy is such a message too. One lost connection gives one second copy: the other sending ends in a rejection.
In `worker` two calls are one and the one that replaces its arguments; the thread has no boot
bound because only a task starts it.

### Fairness

`Subscriber`: invocations go on (Redis, `decode` and `onmessage` answer: `onmessage` is given a
timeout by nobody, so a handler that never returns is outside the claim), TTLs end, a lost
connection is noticed (heartbeats) and set up again, and each ready copy is delivered if a channel
has room infinitely often (queues are first in, first out): strong fairness per copy. Nothing is
assumed of publishers and faults. `Provider`: microtasks run; a connection that ended says so;
delays end; a connection attempt and a command on a connection that stays up are answered. `Crons`:
the steps of a boot happen, that is, the broker answers and delivers and the timer of the repair fires.
`Setup`: the broker and the storage answer what `setup` and `requeueDeadLetters` wait for, and the
connector makes its next attempt after a recovery that failed; nothing is
assumed of consumers, publishers and faults. `DrainsEnd` is for behaviours in which nobody else takes
messages from the queue that is drained (`Undisturbed`), because otherwise a drain waits for ever.
`Worker`: a process that is not stopped goes on with its start, and a publication it has made is sent.

### Disagreements found

Each has a run whose counterexample is the scenario.

1. `lost_after_drop`: a message redelivered after a drop meets the lock of its own run, which is
   still going in that process, and is discarded as a duplicate; when the run then fails, neither
   its retry nor its dead-lettering can be sent (`subscribers/handler.ts:184`).
2. `undecodable`: a message that does not decode keeps its delivery and its lock in an application that
   listens to unhandled rejections; otherwise it ends the process (`subscribers/handler.ts:194`).
3. `close_reconnects`: `close` during a connection attempt is not seen (`rabbitmq/connector.ts:309`).
4. `recovery_crash`: a failed recovery that no call awaits is an unhandled rejection
   (`rabbitmq/provider/mod.ts:228`).
5. `job_args`: two calls of one job with a handler, close enough, both send the arguments of the
   second (`worker/provider.ts:97`).

### Behaviours to know of

No run asks about these. The first four are properties that are stated in the modules and do not hold;
TLC shows it with the change that is named.

- The shared lock is checked, then set, so two processes may run one message at once
  (`utils/queues.ts:46`): `OneRunAnywhere` as an invariant of `SubscriberRedis.cfg`.
- A Redis command that fails after a successful run costs the process its channel, and may cost
  other messages their work; anywhere outside the `try` it costs the process, and the locks it
  leaves in Redis cost the work of what is delivered again: see `LostOnlyOnRefusalOrEnd` above
  (`subscribers/handler.ts:238`, `:190`). `NoWorkLost` as an invariant of `SubscriberRedis.cfg` shows the second; with
  `MaxCrashes = 0`, `Undecodable <- None` and `Listening <- TwoProcs` it shows the first.
- The next execution of a cron inherits `x-attempt`, so it may have fewer retries
  (`subscribers/handler.ts:118`): `FreshNextExecution` as an invariant of `SubscriberCrons.cfg`.
- An execution waits behind one of another cron that is due later, in the queue they share
  (`rabbitmq/provider/setup.ts:57`): `OnTime` as an invariant of `Crons.cfg` with
  `Crons <- TwoCrons`, `Order <- SlowFirst`, `Active <- TwoCrons` and `MaxTime = 2`.
- A call made after a failed recovery is rejected by its first await, outside the part that retries
  (`rabbitmq/provider/mod.ts:423`, against `CHANGELOG.md:79`); a connection lost while the first
  notifier channel opens comes back without consumers, for good (`rabbitmq/provider/mod.ts:216`).
- Two processes that boot with different versions at the same time leave the stored options of
  whichever ends last; a setup that crashes or fails after it has declared a queue again leaves the old
  ones. In both cases the next boot declares a queue with options it does not have, and is
  refused (`rabbitmq/provider/setup.ts:208`, `:360`).
- Two processes that migrate one queue at once take each other's messages, or cancel each other's drain:
  their setups fail or wait for ever (`rabbitmq/connector.ts:180`).
- A migration cancels the consumers of the processes that are up; they are not told, and go on without
  any. If their connection is lost they declare the queue with their own options and are refused.
- A message can get lost in a migration without a failure: its delivery is unacknowledged when the queue
  is deleted and it is then rejected for good, or its retry is due while the queue is not bound.
- Without Redis, a boot without subscribers deletes the local copy of the stored options.
- A call of `runJob` without arguments sends those of the last call that had some (`worker/provider.ts:97`).
- `registerTask` replaces the handler before the duplicate is refused, and a job and a cron of one name
  share a task id: the handler that runs may be that of the other (`jobs/base.ts:14`).
- A publish whose confirmation is lost is sent again, so its message may be stored twice, be it a call's, the
  execution of a cron or a dead letter that is requeued (`rabbitmq/provider/mod.ts:255`).
- `requeueDeadLetters` resolves its drain even if the acks were lost with the connection: the messages are then
  both among the dead letters and published (`rabbitmq/connector.ts:189`).
- A drain waits for ever for a message that it has counted and that expires or is taken by another
  (`rabbitmq/connector.ts:186`): a boot that rewrites its crons then does not end.
- A message that a lost connection returns may be run twice: by another process, while the run that the drop left behind goes on.
- A job for a queue that no worker has declared yet is returned by the broker, which is logged;
  `runJob` resolves as if it had been stored.

## What is proved

Every safety property that a passing run checks is also a theorem: for arbitrary sets of processes,
messages, connections, queues, deployments, programs and so on, and for arbitrary bounds, under the
assumption on the constants that the module declares (`ConstantsAssumption`, `SetupAssumption`...).
The actions take no fault unless its bound allows it, so a theorem that assumes `MaxDrops = 0` is
about behaviours without a drop. What a theorem assumes beyond that is given here.

The argument is the same throughout: an invariant that `Init` implies and that every action
keeps, one lemma per action or per group of actions with the same effect, and a last temporal step. What the
property alone lacks to be inductive is what follows.

### Subscriber

| Theorem | States | Assumes |
| --- | --- | --- |
| `TypeCorrect` | `TypeOK` | |
| `AnswersOwnDelivery` | an invocation that can still write and has not answered holds the delivery it was started for | |
| `LocalLockExcludes` | `OneRunPerProcess` | no Redis, no expiry |
| `LocalLockOwned` | `LockOwned` | no Redis, no expiry, messages decode |
| `EveryPathAnswers` | `DeliveryAnswered` | no failed Redis command, messages decode |
| `SharedLockIsOwned` | `SharedLockOwned` | |
| `RefusedOnlyByRedis` | `RefusedByRedisError` | |
| `WorkIsLostOnlyOnRefusalOrEnd` | `LostOnlyOnRefusalOrEnd` | no drops |
| `WorkIsKept` | `NoWorkLost` | no Redis, no drops |
| `PromiseIsKept` | `Promise!Safety`: `Subscriber` implements the safety part of `AtLeastOnce` | no Redis, no drops, messages that are not crons decode |
| `ChainsAreUnbroken` | `ChainUnbroken` | no Redis |
| `ExecutionsArePendingOnce` | `OneNextExecution` | no Redis, one process that does not crash, no expiry |

- `Sound` is the types and `Deliveries`: the copy of a live invocation is unacknowledged, at its
  process and with its message; no two live invocations have the same copy; an invocation is current
  only if it is under way and its process has a channel. Whatever requeues the deliveries of a
  process (`Drop`, `Crash`, a refused answer) leaves its invocations on a channel that no longer
  reaches the broker, so they are not live.
- `LockInv`: who holds the lock of its message has its key in `local`, and no two invocations of one
  process hold the same key. The first half alone is not inductive: the release by one would take the
  key of the other. `OwnedInv` adds the converse, `AnswerInv` follows the one invocation that owes the answer.
- `SharedInv`: the same converse for Redis, where a key also stays while an invocation waits for its
  `redis.delete`; who acquires a lock has not skipped its message.
- `NoError`: before a Redis command has failed, an invocation that has answered is letting go of its locks.
- `WorkInv`: besides that, while no channel is lost or refused, every invocation reaches the broker
  and carries the attempt of its copy; one that has answered a job has ended it; and `LockReasons`: while a
  process finds the lock of a message, there is a copy of it that no process can discard as a duplicate (a
  retry, or one whose invocation is past its lock), or the message has ended. That is why discarding is safe,
  and what fails when a channel is lost or refused.
- `PromiseIsKept` maps a message to `none`, `owed` while the broker has it, and `settled` once it has
  ended. From `WorkInv`, each step accepts one message, settles one that is owed, or changes the stage of none.
- `ChainInv`: `Tips`, every chained cron has a copy whose invocation, if there is one, is not past its
  publication; and `PublishLocks`, a publish lock of a time to come stands for an execution that is pending or
  about to be published. An invocation that finds the lock taken goes on without publishing for that reason.
- `OnceInv`: a pending execution still has its publish lock and nobody else is about to publish it; who
  is about to publish holds the lock alone.

The assumptions are the faults under which the code keeps no promise, each with its counterexample or its place
in the documents: a lock that expires under a long run; a message that does not decode (`undecodable`); a
drop (`lost_after_drop`); two processes whose caches are separate, which both schedule an execution
(`subscribers/handler.ts:127`); a crash, which leaves the lock in Redis and loses the
local publish locks; with Redis, a lock checked and then set (`OneRunAnywhere`). `ChainUnbroken` itself is for
histories without a drop, `SharedLockOwned` for those without a crash or a failed command.
`ChainsAreUnbroken` leaves out Redis, where a publish lock may outlive the process that took it.

### Connector and Provider

`ConnectorProofs`: `NeverTwoConnections` (`OneConnection`), `EveryLossHandled` (`LossHandled`),
`ReadyUsable` (`ReadyMeansUsable`), `ConnTypeCorrect`. The invariant `ConnInv` adds `LoopFlags`, that the loop is
where `#reconnecting` and `#ready` say it is, and `DeadFlag`, that `#connectionDead` tells whether
the current connection is gone: it is the flag the hooks look at again, so no loss in the middle of
them is missed.

`ProviderProofs`: `ProviderDrivesConnector` shows, step by step, that every action of `Provider` is an action of
`Connector`, leaves its state alone, or ends the process; so `ProviderKeepsConnector`: the connector's three
properties hold under the provider. `TrueMeansTaken` (`ConfirmedTaken`), `FailsInTheRetryOnly`
(`RetriedOnce`), `NotifierIsCurrent` (`ChannelCurrent`), `HealthyMeansRestored` (`Restored`) and
`ProvTypeCorrect` follow from `ProvInv`: `ConnInv`; `RecsOK`, which counts the setups a connection can have
had; `RecsCurrent`, that `#isConfigured` is the promise of the current connection; `CallsOK`, an
attempt has one copy taken at most and `try` says which attempt it is. Nothing is assumed.

### Crons

`CronsTypeCorrect`, `NoneTwice` (`PublishedOnce`) and `ChainsSurvive` (`ChainAlive`), for any number of servers,
workers and crons, whatever boots, crashes and fails. `CronsInv` is the types with where each boot is.
`OnceInv`: a message is in one place (`Apart`); a server has published only crons it has passed, and the one it
is sending again (`ServerOnce`); a worker has the lock of whatever it has published for a time to come, and of what it is
about to (`WorkerOnce`); and two copies of one execution by one process differ in `send` (`Pairs`), where, by
`ResentInv`, the second follows a failure. Time may pass between the two sendings, so the second one may be of an
execution that is past, and then it no longer competes with the consumer for the next one (`Competes`).
`ChainInv`: `LockStands`, a publish lock stands for an execution that is scheduled or about
to be, but for that of a repair that has not published or has failed; and `Repaired`, once a
worker has passed a cron in its repair and no process has still to, the cron is alive. The property is
about the end of the boots, the invariant about each cron as the boots pass it, in the order of `Order`.

### Setup

`SetupTypeCorrect`, `NeverTwice` (`OnePlace`), `LossesAreFailures` (`LostOnlyByFailure`), `OrphansAreUnused`
(`OrphansUnused`) and `StoredOptionsAreThose` (`OptionsKnown`), for any sequence of deployments. `SetupInv`:
what a broker has without its queue is nothing; a process has messages in memory only in a migration or a
requeue; and a message is where it was sent to, which keeps the places of two queues apart. `OnePlace`
then only needs that within one queue (`Exclusive`), where an ack that is lost puts a message back and takes it from the memory
of its process in one step; and `FaultInv`, that a second sending is of a connection that was lost. The two action properties follow action by
action from `SetupInv`. `OptionsInv` is for `clean` histories with Redis: one setup at a time, the
stored options are those of every queue between setups, and during one each queue has the options of the
version or still the stored ones, as far as the setup has got (`InOrder`).

### Worker

`WorkerTypeCorrect`, `OwnArgsOrMixed` (`ArgsDelivered`), `HandlerOfTheCode` (`RunsItsHandler`) and
`OwnSubscribersOnly` (`ConsumesOwn`), for any programs. `WorkerInv` relates the registry of a process to the registrations it
has made: the handler of a name is one of those registered so far (`TasksMade`), a queue has the first
subscriber registered for it (`SubsMade`), a pending call finds its arguments in the registry unless
another call of that job has left its own. Registrations that are made are the positions not in `todo`,
which is why that is a set of positions.

### Only model-checked

Liveness: the fairness part of `KeepsPromise`, `DeliveryEnds`, `LossEnds`, `WaitEnds`, `CallsEnd`, `BootEnds`
and `DrainsEnd`. Liveness under fairness, and `ENABLED`, are out of the prover's reach. The
properties of the five disagreements do not hold.

## Not modelled, and the plan

What is left to prove: `ChainUnbroken` with Redis while no process crashes; `LockOwned` for the messages that
decode among others that do not; an abstract specification of the provider (a call is accepted,
then stored or failed) and of the migration (a queue changes its options, its messages do not change), and
that the modules implement them.

Not modelled: the DLQ processors (`jobs/dlq.defs.ts`), which make three calls in a row on a store of
another package, whose leases and retries decide everything that could go wrong; the encoding of messages
(`rabbitmq/provider/messages.ts`) beyond its failure and the moment it reads the payload, since the cipher
is a library; validation and `onerror` of a subscriber; typings, registration, the web-worker
pool and logging. They are sequential, declarative or libraries.
