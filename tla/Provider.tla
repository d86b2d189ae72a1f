------------------------------- MODULE Provider -------------------------------
(* ZanixCoreAsyncMQProvider (provider/mod.ts) over the connector: the setup at  *)
(* boot, the recovery after a reconnection, the notifier channel they and the   *)
(* publishers share, and #publish. A step is a macrotask (an event of the       *)
(* network or a timer) or one of the microtasks it leaves due, which run before *)
(* the next macrotask: Quiet says that none is due.                             *)
EXTENDS Connector

CONSTANTS
    Calls,             \* the calls of enqueue, sendMessage or schedule
    MaxSetupErrors,    \* bound on the setups that fail on a connection that is up
    MaxChannelErrors   \* bound on the notifier channels closed by the broker

ASSUME ProviderAssumption ==
    MaxSetupErrors \in Nat /\ MaxChannelErrors \in Nat

VARIABLES
    rec,          \* #setup (0), and #recover of each connection
    bootOn,       \* the connection #setup runs on
    configured,   \* #isConfigured: whose promise it is
    handled,      \* the promises #isConfigured has been that have a handler
    subscribers,  \* #subscribers is known
    consumers,    \* how many times the consumers were set up on each connection
    notifier,     \* #notifierOpen and the connection of #notifierChannel
    opening,      \* #notifierOpening
    calls,        \* each call: what it awaits
    stored,       \* the copies of its message that the broker stored
    unrouted,     \* those it confirmed without a queue to store them in
    app,          \* whether the application listens to unhandled rejections, and one has
                  \* ended the process
    errors        \* how much of each bound on errors is used

provVars == <<rec, bootOn, configured, handled, subscribers, consumers, notifier, opening,
              calls, stored, unrouted, app, errors>>
allVars == <<connVars, provVars>>

Recs == 0 .. MaxConns
RecStates == {"none", "notifier", "setup", "closing", "ok", "failed"}
OpeningStates == {"none", "waiting", "creating"}

(* The awaits of a call: #isConfigured (423), encode, #isConfigured of #publish,*)
(* the connection and the notifier channel if it is not open, the broker's      *)
(* confirmation (sent, taken), and the connection again before the retry.       *)
CallPcs == {"new", "config0", "encode", "config", "wait", "open", "sent", "taken", "wait2",
            "ok", "failed"}

(* at: the promise or the connection it waits on; try: the attempts begun.      *)
CallType == [pc : CallPcs, try : 0 .. 2, at : Recs]

ProvTypeOK ==
    /\ ConnTypeOK
    /\ rec \in [Recs -> RecStates] /\ bootOn \in Conns
    /\ configured \in Recs /\ handled \in [Recs -> BOOLEAN]
    /\ subscribers \in BOOLEAN
    /\ consumers \in [Conns -> 0 .. 2]
    /\ notifier \in [open : BOOLEAN, on : Conns]
    /\ opening \in [st : OpeningStates, on : Conns]
    /\ calls \in [Calls -> CallType] /\ stored \in [Calls -> 0 .. 2]
    /\ unrouted \in [Calls -> 0 .. 2]
    /\ app \in [listens : BOOLEAN, crashed : BOOLEAN]
    /\ errors \in [setup : 0 .. MaxSetupErrors, channel : 0 .. MaxChannelErrors]

(* The connector is connected, the provider not constructed yet.                *)
ProvInit ==
    /\ ConnInit
    /\ rec = [r \in Recs |-> "none"] /\ bootOn = 1
    /\ configured = 0 /\ handled = [r \in Recs |-> r = 0]
    /\ subscribers = FALSE
    /\ consumers = [c \in Conns |-> 0]
    /\ notifier = [open |-> FALSE, on |-> 1]
    /\ opening = [st |-> "none", on |-> 1]
    /\ calls = [k \in Calls |-> [pc |-> "new", try |-> 0, at |-> 0]]
    /\ stored = [k \in Calls |-> 0] /\ unrouted = [k \in Calls |-> 0]
    /\ app \in [listens : BOOLEAN, crashed : {FALSE}]
    /\ errors = [setup |-> 0, channel |-> 0]

-------------------------------------------------------------------------------
(* What is due.                                                                 *)

(* A command on a connection the client believes to be up; any other throws.    *)
Usable(c) == wire[c] \in {"open", "dead"}
RecOn(r) == IF r = 0 THEN bootOn ELSE r
Settled(r) == rec[r] \in {"ok", "failed"}

HookSettled == loop = "hooks" /\ rec[connection] \in {"none", "ok", "failed"}
SetupBroken(r) == rec[r] \in {"setup", "closing"} /\ ~Usable(RecOn(r))
Doomed(r) == rec[r] = "failed" /\ ~handled[r] /\ ~app.listens

CallDue(k) ==
    \/ calls[k].pc \in {"config0", "config"} /\ Settled(calls[k].at)
    \/ calls[k].pc \in {"wait", "wait2"} /\ ready
    \/ calls[k].pc \in {"sent", "taken"} /\ wire[calls[k].at] = "gone"

Due ==
    \/ HookSettled
    \/ opening.st = "waiting" /\ ready
    \/ opening.st = "creating" /\ ~Usable(opening.on)
    \/ \E r \in Recs : SetupBroken(r)
    \/ \E k \in Calls : CallDue(k)

Quiet == ~exited /\ ~Due /\ \A r \in Recs : ~Doomed(r)

-------------------------------------------------------------------------------
(* The notifier channel. #openNotifierChannel is single-flight: whoever asks    *)
(* while it is being opened waits for the same channel.                         *)
OpenNotifier == IF opening.st = "none" THEN [opening EXCEPT !.st = "waiting"] ELSE opening

(* The first attempt that fails is followed by the retry, the second fails.     *)
FailsAtOnce(c) == [c EXCEPT !.pc = "failed"]  \* mutant: no retry
Caught(c) == [c EXCEPT !.pc = IF c.try < 2 THEN "wait2" ELSE "failed"]

UnconfirmedSend(c, n) == [c EXCEPT !.pc = "ok"]  \* mutant: not a confirm channel
Send(c, n) == IF Usable(n) THEN [c EXCEPT !.pc = "sent", !.at = n] ELSE Caught(c)

(* createConfirmChannel goes on: #ready is resolved.                            *)
OpeningStarts ==
    /\ opening.st = "waiting" /\ ready
    /\ opening' = [st |-> "creating", on |-> connection]
    /\ UNCHANGED <<connVars, rec, bootOn, configured, handled, subscribers, consumers, notifier,
                   calls, stored, unrouted, app, errors>>

(* Its connection ends: it rejects, for all those that wait for it.             *)
OpeningFails ==
    /\ opening.st = "creating" /\ ~Usable(opening.on)
    /\ opening' = [opening EXCEPT !.st = "none"]
    /\ rec' = [r \in Recs |-> IF rec[r] = "notifier" THEN "failed" ELSE rec[r]]
    /\ calls' = [k \in Calls |-> IF calls[k].pc = "open" THEN Caught(calls[k]) ELSE calls[k]]
    /\ UNCHANGED <<connVars, bootOn, configured, handled, subscribers, consumers, notifier,
                   stored, unrouted, app, errors>>

RecoveredAtOnce(r) == IF r = 0 THEN "setup" ELSE "ok"  \* mutant: recovers only the channel
AfterOpening(r) == IF subscribers \/ rec[0] = "notifier" THEN "setup" ELSE "ok"

(* The broker answers: the channel is open. Those that wait go on in the same   *)
(* turn, #setup before the recovery that shares the channel with it.            *)
Opens ==
    /\ opening.st = "creating" /\ wire[opening.on] = "open"
    /\ opening' = [opening EXCEPT !.st = "none"]
    /\ notifier' = [open |-> TRUE, on |-> opening.on]
    /\ IF rec[0] = "notifier"
       THEN subscribers' = TRUE /\ bootOn' = opening.on
       ELSE UNCHANGED <<subscribers, bootOn>>
    /\ rec' = [r \in Recs |-> IF rec[r] = "notifier" THEN AfterOpening(r) ELSE rec[r]]
    /\ calls' = [k \in Calls |-> IF calls[k].pc = "open" THEN Send(calls[k], opening.on)
                                 ELSE calls[k]]
    /\ UNCHANGED <<connVars, configured, handled, consumers, stored, unrouted, app, errors>>

(* The broker closes the channel for an error of a publish on it.               *)
ChannelError ==
    /\ notifier.open /\ wire[notifier.on] = "open"
    /\ errors.channel < MaxChannelErrors /\ errors' = [errors EXCEPT !.channel = @ + 1]
    /\ notifier' = [notifier EXCEPT !.open = FALSE]
    /\ calls' = [k \in Calls |->
                   IF calls[k].pc \in {"sent", "taken"} /\ calls[k].at = notifier.on
                   THEN Caught(calls[k]) ELSE calls[k]]
    /\ UNCHANGED <<connVars, rec, bootOn, configured, handled, subscribers, consumers, opening,
                   stored, unrouted, app>>

-------------------------------------------------------------------------------
(* #setup and #recover.                                                         *)

(* The constructor: the hook is registered and #setup starts.                   *)
Boot ==
    /\ rec[0] = "none" /\ loop # "hooks"
    /\ rec' = [rec EXCEPT ![0] = "notifier"]
    /\ opening' = OpenNotifier
    /\ UNCHANGED <<connVars, bootOn, configured, handled, subscribers, consumers, notifier,
                   calls, stored, unrouted, app, errors>>

(* setup (setup.ts) has declared the topology and set the consumers up; what is *)
(* left is its cleanup, which in a recovery is to close its channel.            *)
SetUp(r) ==
    /\ rec[r] = "setup" /\ wire[RecOn(r)] = "open"
    /\ rec' = [rec EXCEPT ![r] = "closing"]
    /\ consumers' = [consumers EXCEPT ![RecOn(r)] = @ + 1]
    /\ UNCHANGED <<connVars, bootOn, configured, handled, subscribers, notifier, opening, calls,
                   stored, unrouted, app, errors>>

SetupEnds(r) ==
    /\ rec[r] = "closing" /\ wire[RecOn(r)] = "open"
    /\ rec' = [rec EXCEPT ![r] = "ok"]
    /\ UNCHANGED <<connVars, bootOn, configured, handled, subscribers, consumers, notifier,
                   opening, calls, stored, unrouted, app, errors>>

(* A declaration is refused, or the cleanup of the first setup fails.           *)
SetupError(r) ==
    /\ rec[r] = "setup" \/ (r = 0 /\ rec[r] = "closing")
    /\ Usable(RecOn(r))
    /\ errors.setup < MaxSetupErrors /\ errors' = [errors EXCEPT !.setup = @ + 1]
    /\ rec' = [rec EXCEPT ![r] = "failed"]
    /\ UNCHANGED <<connVars, bootOn, configured, handled, subscribers, consumers, notifier,
                   opening, calls, stored, unrouted, app>>

(* Its connection ends. A recovery does not mind if it only had to close.       *)
SetupBreaks(r) ==
    /\ SetupBroken(r)
    /\ rec' = [rec EXCEPT ![r] = IF @ = "closing" /\ r # 0 THEN "ok" ELSE "failed"]
    /\ UNCHANGED <<connVars, bootOn, configured, handled, subscribers, consumers, notifier,
                   opening, calls, stored, unrouted, app, errors>>

(* A recovery was rejected, and #isConfigured with it, which nobody awaits.     *)
UnhandledRejection(r) ==
    /\ ~exited /\ ~Due /\ Doomed(r)
    /\ exited' = TRUE /\ app' = [app EXCEPT !.crashed = TRUE]
    /\ UNCHANGED <<wire, connection, connected, dead, closing, reconnecting, ready, loop, attempt,
                   rec, bootOn, configured, handled, subscribers, consumers, notifier, opening,
                   calls, stored, unrouted, errors>>

-------------------------------------------------------------------------------
(* The connector's steps, and what they do to the provider.                     *)
NotifierKept(c) == notifier  \* mutant: the close event of the channel is not listened to
NotifierAfter(c) == IF notifier.on = c THEN [notifier EXCEPT !.open = FALSE] ELSE notifier

(* A connection ends with its channels.                                         *)
ProvClosed(c) ==
    /\ Closed(c)
    /\ notifier' = NotifierAfter(c)
    /\ UNCHANGED <<rec, bootOn, configured, handled, subscribers, consumers, opening, calls,
                   stored, unrouted, app, errors>>

(* The hook, called in the turn of the connection, swaps #isConfigured.         *)
ProvOpened ==
    /\ Opened
    /\ IF rec[0] = "none"
       THEN UNCHANGED <<rec, configured, opening>>
       ELSE /\ rec' = [rec EXCEPT ![connection'] = "notifier"]
            /\ configured' = connection'
            /\ opening' = OpenNotifier
    /\ UNCHANGED <<bootOn, handled, subscribers, consumers, notifier, calls, stored, unrouted, app,
                   errors>>

HooksDone ==
    /\ HookSettled
    /\ IF rec[connection] = "failed" \/ DroppedMeanwhile THEN HookFails ELSE Recovered
    /\ UNCHANGED provVars

ProvOpenFails == OpenFails /\ UNCHANGED provVars
ProvBackoff == Backoff /\ UNCHANGED provVars
ProvDiscarded == Discarded /\ UNCHANGED provVars
ProvClose == Close /\ UNCHANGED provVars

-------------------------------------------------------------------------------
(* A call.                                                                      *)

(* It awaits #isConfigured: the promise there is now.                           *)
AwaitConfigured(k, pc, try) ==
    /\ calls' = [calls EXCEPT ![k] = [pc |-> pc, try |-> try, at |-> configured]]
    /\ handled' = [handled EXCEPT ![configured] = TRUE]
    /\ UNCHANGED <<connVars, rec, bootOn, configured, subscribers, consumers, notifier, opening,
                   stored, unrouted, app, errors>>

Advance(k, c) ==
    /\ calls' = [calls EXCEPT ![k] = c]
    /\ UNCHANGED <<connVars, rec, bootOn, configured, handled, subscribers, consumers, notifier,
                   opening, stored, unrouted, app, errors>>

Start(k) == calls[k].pc = "new" /\ rec[0] # "none" /\ AwaitConfigured(k, "config0", 0)
Encoded(k) == calls[k].pc = "encode" /\ AwaitConfigured(k, "config", 1)
Retry(k) == calls[k].pc = "wait2" /\ ready /\ AwaitConfigured(k, "config", 2)

(* The first await is outside the try of #publish.                              *)
Begins(k) ==
    /\ calls[k].pc = "config0" /\ Settled(calls[k].at)
    /\ Advance(k, [calls[k] EXCEPT !.pc = IF rec[calls[k].at] = "ok" THEN "encode" ELSE "failed"])

Publishes(k) ==
    /\ calls[k].pc = "config" /\ Settled(calls[k].at)
    /\ Advance(k, IF rec[calls[k].at] = "failed" THEN Caught(calls[k])
                  ELSE IF notifier.open THEN Send(calls[k], notifier.on)
                  ELSE [calls[k] EXCEPT !.pc = "wait"])

Connects(k) ==
    /\ calls[k].pc = "wait" /\ ready
    /\ calls' = [calls EXCEPT ![k].pc = "open"]
    /\ opening' = OpenNotifier
    /\ UNCHANGED <<connVars, rec, bootOn, configured, handled, subscribers, consumers, notifier,
                   stored, unrouted, app, errors>>

(* It reaches the broker, which returns or drops one that no queue is bound for *)
(* (the return is only logged), and confirms it all the same.                   *)
Taken(k) ==
    /\ calls[k].pc = "sent" /\ wire[calls[k].at] = "open"
    /\ calls' = [calls EXCEPT ![k].pc = "taken"]
    /\ \/ stored' = [stored EXCEPT ![k] = @ + 1] /\ UNCHANGED unrouted
       \/ unrouted' = [unrouted EXCEPT ![k] = @ + 1] /\ UNCHANGED stored
    /\ UNCHANGED <<connVars, rec, bootOn, configured, handled, subscribers, consumers, notifier,
                   opening, app, errors>>

Confirmed(k) ==
    /\ calls[k].pc = "taken" /\ wire[calls[k].at] = "open"
    /\ Advance(k, [calls[k] EXCEPT !.pc = "ok"])

(* Its channel is gone, with the confirmations still awaited.                   *)
Unconfirmed(k) ==
    /\ calls[k].pc \in {"sent", "taken"} /\ wire[calls[k].at] = "gone"
    /\ Advance(k, Caught(calls[k]))

-------------------------------------------------------------------------------
(* Those of a call come after the connector has taken the outcome of its hooks, *)
(* which is fewer promises away.                                                *)
CallMicrotask(k) ==
    /\ ~HookSettled
    /\ Begins(k) \/ Publishes(k) \/ Connects(k) \/ Retry(k) \/ Unconfirmed(k)

Microtask ==
    /\ ~exited
    /\ \/ HooksDone \/ OpeningStarts \/ OpeningFails
       \/ \E r \in Recs : SetupBreaks(r)
       \/ \E k \in Calls : CallMicrotask(k)

Macrotask ==
    /\ Quiet
    /\ \/ Boot \/ Opens \/ ChannelError
       \/ ProvOpened \/ ProvOpenFails \/ ProvBackoff \/ ProvDiscarded \/ ProvClose
       \/ \E c \in Conns : ProvClosed(c)
       \/ \E r \in Recs : SetUp(r) \/ SetupEnds(r) \/ SetupError(r)
       \/ \E k \in Calls : Start(k) \/ Encoded(k) \/ Taken(k) \/ Confirmed(k)

ProvNext ==
    \/ Microtask \/ Macrotask
    \/ \E r \in Recs : UnhandledRejection(r)
    \/ \E c \in Conns : Lost(c) /\ ~exited /\ UNCHANGED provVars

ProvSpec == ProvInit /\ [][ProvNext]_allVars

(* Microtasks run. A connection that has ended says so, delays end, an attempt  *)
(* to connect is answered, and so is a command on a connection that stays up.   *)
ProvFairness ==
    /\ WF_allVars(Microtask) /\ WF_allVars(\E r \in Recs : UnhandledRejection(r))
    /\ \A c \in Conns : WF_allVars(Quiet /\ ProvClosed(c))
    /\ WF_allVars(Quiet /\ ProvBackoff) /\ WF_allVars(Quiet /\ ProvDiscarded)
    /\ WF_allVars(Quiet /\ (ProvOpened \/ ProvOpenFails))
    /\ WF_allVars(Quiet /\ Opens)
    /\ \A r \in Recs : WF_allVars(Quiet /\ (SetUp(r) \/ SetupEnds(r) \/ SetupError(r)))
    /\ \A k \in Calls : WF_allVars(Quiet /\ (Encoded(k) \/ Taken(k) \/ Confirmed(k)))

FairProvSpec == ProvSpec /\ ProvFairness

-------------------------------------------------------------------------------
(* Properties.                                                                  *)

(* A call that resolves true has had its message taken by the broker, whichever *)
(* of its attempts got there. That is not yet stored: the broker confirms a     *)
(* message that it had no queue for.                                            *)
ConfirmedTaken == \A k \in Calls : calls[k].pc = "ok" => stored[k] + unrouted[k] > 0

(* The notifier channel believed to be open is one of the connection there is.  *)
ChannelCurrent == notifier.open => notifier.on = connection /\ wire[connection] # "gone"

(* After a reconnection, the provider has re-created its channel and consumers  *)
(* by the time the connector says it is healthy; and once, unless #setup runs   *)
(* on that connection too, because the provider was constructed meanwhile.      *)
Restored ==
    connected /\ configured # 0
    => /\ configured = connection /\ rec[configured] = "ok"
       /\ subscribers => consumers[connection] \in 1 .. (IF connection = bootOn THEN 2 ELSE 1)

(* CHANGELOG.md: publishes during an outage "wait for recovery and retry once    *)
(* instead of failing": one that has begun to publish fails in its second attempt*)
(* only. (One that starts after a failed recovery is rejected before the first.) *)
RetriedOnce == \A k \in Calls : calls[k].pc = "failed" => calls[k].try # 1

(* connector.ts: a hook that throws makes "the attempt count as failed"; it does*)
(* not end the process.                                                         *)
FailedRecoveryRetried == ~app.crashed

(* Every call ends, unless the process is going down: no recovery, opening of   *)
(* the channel or wait for the connection waits for one that waits for it.      *)
CallsEnd ==
    \A k \in Calls :
        calls[k].pc # "new" ~> calls[k].pc \in {"ok", "failed"} \/ exited \/ closing
===============================================================================
