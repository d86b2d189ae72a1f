------------------------------- MODULE Connector -------------------------------
(* ZanixRabbitMQConnector (connector.ts): the one AMQP connection of a process, *)
(* its loss, the reconnection loop with its hooks, and the intentional close.   *)
(* One action is one turn of the process, or one event of the network.          *)
EXTENDS Naturals

CONSTANTS
    MaxConns,     \* bound on the connections ever opened
    Enabled,      \* reconnect.enabled
    MaxAttempts   \* reconnect.maxAttempts

ASSUME ConnectorAssumption ==
    MaxConns \in Nat \ {0} /\ Enabled \in BOOLEAN /\ MaxAttempts \in Nat \ {0}

VARIABLES
    wire,          \* each connection: what is left of it
    connection,    \* #connection
    connected,     \* #connected
    dead,          \* #connectionDead
    closing,       \* #closing
    reconnecting,  \* #reconnecting
    ready,         \* #ready is resolved
    loop,          \* where #reconnectLoop is
    attempt,       \* ... and its attempt
    exited         \* the process has ended: onExhausted has run

connVars == <<wire, connection, connected, dead, closing, reconnecting, ready, loop,
              attempt, exited>>

Conns == 1 .. MaxConns

(* dead: lost, the client does not know; closing: closed by the client, the     *)
(* broker's answer is awaited; gone: the connection has emitted close.          *)
WireStates == {"none", "open", "dead", "closing", "gone"}
LoopStates == {"off", "backoff", "opening", "hooks", "discard"}

ConnTypeOK ==
    /\ wire \in [Conns -> WireStates]
    /\ connection \in Conns
    /\ {connected, dead, closing, reconnecting, ready, exited} \subseteq BOOLEAN
    /\ loop \in LoopStates
    /\ attempt \in 0 .. MaxAttempts

(* After initialize.                                                            *)
ConnInit ==
    /\ wire = [c \in Conns |-> IF c = 1 THEN "open" ELSE "none"]
    /\ connection = 1 /\ connected = TRUE /\ dead = FALSE
    /\ closing = FALSE /\ reconnecting = FALSE /\ ready = TRUE /\ exited = FALSE
    /\ loop = "off" /\ attempt = 0

-------------------------------------------------------------------------------
(* The network, or the broker, ends a connection.                               *)
Lost(c) ==
    /\ wire[c] = "open"
    /\ wire' = [wire EXCEPT ![c] = "dead"]
    /\ UNCHANGED <<connection, connected, dead, closing, reconnecting, ready, loop, attempt, exited>>

(* #onConnectionLost                                                            *)
ConnectionLost ==
    IF Enabled
    THEN reconnecting' = TRUE /\ ready' = FALSE /\ loop' = "backoff" /\ attempt' = 1 /\ UNCHANGED exited
    ELSE exited' = TRUE /\ UNCHANGED <<reconnecting, ready, loop, attempt>>

(* A connection emits close.                                                    *)
Closed(c) ==
    /\ ~exited /\ wire[c] \in {"dead", "closing"}
    /\ wire' = [wire EXCEPT ![c] = "gone"]
    /\ IF c = connection THEN dead' = TRUE /\ connected' = FALSE ELSE UNCHANGED <<dead, connected>>
    /\ IF c = connection /\ ~closing /\ ~reconnecting
       THEN ConnectionLost
       ELSE UNCHANGED <<reconnecting, ready, loop, attempt, exited>>
    /\ UNCHANGED <<connection, closing>>

BackoffUnreleased ==  \* mutant: the waiters are not released on shutdown
    /\ ~exited /\ loop = "backoff"
    /\ IF closing THEN loop' = "off" /\ reconnecting' = FALSE
                  ELSE loop' = "opening" /\ UNCHANGED reconnecting
    /\ UNCHANGED <<wire, connection, connected, dead, closing, ready, attempt, exited>>

(* The delay is over. A shutdown ends the loop, and lets the waiters go.        *)
Backoff ==
    /\ ~exited /\ loop = "backoff"
    /\ IF closing
       THEN ready' = TRUE /\ loop' = "off" /\ reconnecting' = FALSE
       ELSE loop' = "opening" /\ UNCHANGED <<ready, reconnecting>>
    /\ UNCHANGED <<wire, connection, connected, dead, closing, attempt, exited>>

OneAttemptMore ==  \* mutant: >= for >
    IF attempt <= MaxAttempts
    THEN attempt' = attempt + 1 /\ loop' = "backoff" /\ UNCHANGED <<reconnecting, exited>>
    ELSE loop' = "off" /\ reconnecting' = FALSE /\ exited' = TRUE /\ UNCHANGED attempt

SameAttempt ==  \* mutant: the attempts are not counted
    loop' = "backoff" /\ UNCHANGED <<attempt, reconnecting, exited>>

(* The recursive call; no attempt left, the loop gives up.                      *)
NextAttempt ==
    IF attempt < MaxAttempts
    THEN attempt' = attempt + 1 /\ loop' = "backoff" /\ UNCHANGED <<reconnecting, exited>>
    ELSE loop' = "off" /\ reconnecting' = FALSE /\ exited' = TRUE /\ UNCHANGED attempt

OpenFails ==
    /\ ~exited /\ loop = "opening"
    /\ ready' = FALSE
    /\ NextAttempt
    /\ UNCHANGED <<wire, connection, connected, dead, closing>>

OpenedUnreleased ==  \* mutant: the waiters are let through when the hooks have run
    /\ ~exited /\ loop = "opening"
    /\ \E c \in Conns : /\ wire[c] = "none" /\ \A b \in Conns : b < c => wire[b] # "none"
                        /\ wire' = [wire EXCEPT ![c] = "open"]
                        /\ connection' = c
    /\ dead' = FALSE /\ loop' = "hooks"
    /\ UNCHANGED <<connected, closing, reconnecting, ready, attempt, exited>>

(* openConnection resolves: #attach, #release, and the first hook is called.    *)
Opened ==
    /\ ~exited /\ loop = "opening"
    /\ \E c \in Conns : /\ wire[c] = "none" /\ \A b \in Conns : b < c => wire[b] # "none"
                        /\ wire' = [wire EXCEPT ![c] = "open"]
                        /\ connection' = c
    /\ dead' = FALSE /\ ready' = TRUE /\ loop' = "hooks"
    /\ UNCHANGED <<connected, closing, reconnecting, attempt, exited>>

(* What close does to a connection.                                             *)
CloseWire(c) == IF wire[c] = "open" THEN [wire EXCEPT ![c] = "closing"] ELSE wire

DroppedUnseen == FALSE  \* mutant: the connection is not looked at again
DroppedMeanwhile == dead

(* The hooks have run and the connection is still up: recovered.                *)
Recovered ==
    /\ ~exited /\ loop = "hooks" /\ ~DroppedMeanwhile
    /\ connected' = TRUE /\ loop' = "off" /\ reconnecting' = FALSE
    /\ UNCHANGED <<wire, connection, dead, closing, ready, attempt, exited>>

HookUnarmed ==  \* mutant: the waiters are let through to what is discarded
    /\ ~exited /\ loop = "hooks"
    /\ loop' = "discard"
    /\ wire' = CloseWire(connection)
    /\ UNCHANGED <<connection, connected, dead, closing, reconnecting, ready, attempt, exited>>

(* A hook has thrown, or the connection was lost while the hooks ran: what was  *)
(* opened is discarded.                                                         *)
HookFails ==
    /\ ~exited /\ loop = "hooks"
    /\ ready' = FALSE /\ loop' = "discard"
    /\ wire' = CloseWire(connection)
    /\ UNCHANGED <<connection, connected, dead, closing, reconnecting, attempt, exited>>

DiscardedUnawaited ==  \* mutant: close is not awaited
    /\ ~exited /\ loop = "discard"
    /\ NextAttempt
    /\ UNCHANGED <<wire, connection, connected, dead, closing, ready>>

(* close has resolved: the connection is gone.                                  *)
Discarded ==
    /\ ~exited /\ loop = "discard" /\ wire[connection] = "gone"
    /\ NextAttempt
    /\ UNCHANGED <<wire, connection, connected, dead, closing, ready>>

(* close                                                                        *)
Close ==
    /\ ~exited /\ ~closing
    /\ closing' = TRUE /\ connected' = FALSE
    /\ wire' = CloseWire(connection)
    /\ UNCHANGED <<connection, dead, reconnecting, ready, loop, attempt, exited>>

ConnNext ==
    \/ \E c \in Conns : Lost(c) \/ Closed(c)
    \/ Backoff \/ OpenFails \/ Opened \/ Recovered \/ HookFails \/ Discarded
    \/ Close

ConnSpec == ConnInit /\ [][ConnNext]_connVars

(* A connection that is lost or closed says so in the end (heartbeats), delays  *)
(* end, and an attempt to connect and the hooks end one way or the other.       *)
ConnFairness ==
    /\ \A c \in Conns : WF_connVars(Closed(c))
    /\ WF_connVars(Backoff) /\ WF_connVars(Discarded)
    /\ WF_connVars(OpenFails \/ Opened) /\ WF_connVars(Recovered \/ HookFails)

FairConnSpec == ConnSpec /\ ConnFairness

-------------------------------------------------------------------------------
(* A process never has two connections open: the one it replaces is gone, and   *)
(* the one a failed recovery leaves behind, with the consumers set up so far,   *)
(* is closed before the next attempt.                                           *)
OneConnection == \A c \in Conns : wire[c] # "none" /\ c # connection => wire[c] = "gone"

(* A connection known to be lost is being replaced, unless the process is going *)
(* down: the loss is not missed when it falls into the recovery of the last one.*)
LossHandled == dead => reconnecting \/ closing \/ exited

(* createChannel and waitForConnection let nobody through to a connection that  *)
(* is being replaced, and a connector that says it is healthy lets everybody.   *)
ReadyMeansUsable ==
    /\ ready /\ reconnecting => loop = "hooks"
    /\ connected => ready /\ ~dead /\ ~reconnecting

(* connector.ts: "an intentional shutdown must never trigger a reconnect".      *)
StaysClosed == closing => \A c \in Conns : wire[c] # "open"

(* A loss ends in a new connection, in the exit or in the shutdown that was     *)
(* asked for, and those who wait for the connection do not wait for ever.       *)
LossEnds == dead ~> (connected \/ exited \/ closing)
WaitEnds == ~ready ~> (ready \/ exited)
===============================================================================
