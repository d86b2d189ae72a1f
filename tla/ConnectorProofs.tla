---------------------------- MODULE ConnectorProofs ----------------------------
(* What holds of Connector for every bound on its connections and attempts.     *)
EXTENDS Connector, TLAPS

-------------------------------------------------------------------------------
(* The inductive invariant. A connection has been gone from the moment the loop *)
(* starts until it has opened the next one, which is why no two are open; the   *)
(* loop is where #reconnecting and #ready say it is; and the flag that the hooks*)
(* look at again, #connectionDead, tells whether the connection is gone.        *)
ConnTyped ==
    /\ wire \in [Conns -> WireStates] /\ connection \in Conns
    /\ connected \in BOOLEAN /\ dead \in BOOLEAN /\ closing \in BOOLEAN
    /\ reconnecting \in BOOLEAN /\ ready \in BOOLEAN /\ exited \in BOOLEAN
    /\ loop \in LoopStates
    /\ attempt \in 0 .. MaxAttempts

LoopFlags ==
    /\ reconnecting <=> loop # "off"
    /\ loop = "hooks" => ready
    /\ loop \in {"backoff", "opening", "discard"} => ~ready
    /\ connected => ready /\ ~dead /\ loop = "off"

DeadFlag ==
    /\ dead <=> wire[connection] = "gone"
    /\ loop \in {"backoff", "opening"} => dead

ConnInv == ConnTyped /\ LoopFlags /\ DeadFlag /\ OneConnection /\ LossHandled

(* A process may also end for a reason that is not the connector's.             *)
ProcessEnds ==
    /\ exited' = TRUE
    /\ UNCHANGED <<wire, connection, connected, dead, closing, reconnecting, ready, loop, attempt>>

ConnStep == ConnNext \/ ProcessEnds \/ UNCHANGED connVars

LEMMA ConnTypeParts == ConnTyped <=> ConnTypeOK
  <1>1. ConnTyped => ConnTypeOK
    BY DEF ConnTyped, ConnTypeOK
  <1>2. ASSUME ConnTypeOK PROVE ConnTyped
    <2>1. \A x \in {connected, dead, closing, reconnecting, ready, exited} : x \in BOOLEAN
      BY <1>2 DEF ConnTypeOK
    <2> QED BY <1>2, <2>1 DEF ConnTyped, ConnTypeOK
  <1> QED BY <1>1, <1>2

LEMMA ConnInvInit == ConnInit => ConnInv
  <1> SUFFICES ASSUME ConnInit PROVE ConnInv
    OBVIOUS
  <1>1. 1 \in Conns /\ 0 \in 0 .. MaxAttempts
    BY ConnectorAssumption DEF Conns
  <1>2. wire \in [Conns -> WireStates] /\ wire[1] = "open"
    BY <1>1 DEF ConnInit, WireStates
  <1>3. OneConnection
    BY DEF ConnInit, OneConnection
  <1>4. ConnTyped
    BY <1>1, <1>2 DEF ConnInit, ConnTyped, LoopStates
  <1>5. LoopFlags /\ DeadFlag /\ LossHandled
    BY <1>2 DEF ConnInit, LoopFlags, DeadFlag, LossHandled
  <1> QED BY <1>3, <1>4, <1>5 DEF ConnInv

(* The parts of ConnInv that a new value of wire[connection] can disturb.       *)
LEMMA WireType ==
  ASSUME ConnTyped, NEW c \in Conns, NEW s \in WireStates
  PROVE  [wire EXCEPT ![c] = s] \in [Conns -> WireStates]
  BY DEF ConnTyped

LEMMA CloseWireOK ==
  ASSUME ConnInv, wire' = CloseWire(connection), UNCHANGED connection
  PROVE  /\ wire' \in [Conns -> WireStates]
         /\ OneConnection'
         /\ wire'[connection] = "gone" <=> wire[connection] = "gone"
  BY DEF CloseWire, ConnInv, ConnTyped, WireStates, OneConnection

LEMMA NextAttemptType ==
  ASSUME ConnTyped, NextAttempt
  PROVE  attempt' \in 0 .. MaxAttempts /\ loop' \in LoopStates /\ reconnecting' \in BOOLEAN
         /\ exited' \in BOOLEAN
  <1>1. attempt < MaxAttempts => attempt + 1 \in 0 .. MaxAttempts
    BY ConnectorAssumption DEF ConnTyped
  <1>2. CASE attempt < MaxAttempts
    BY <1>1, <1>2 DEF ConnTyped, NextAttempt, LoopStates
  <1>3. CASE ~(attempt < MaxAttempts)
    BY <1>3 DEF ConnTyped, NextAttempt, LoopStates
  <1> QED BY <1>2, <1>3

LEMMA ConnInvStep == ConnInv /\ ConnStep => ConnInv'
  <1> SUFFICES ASSUME ConnInv, ConnStep PROVE ConnInv'
    OBVIOUS
  <1> USE DEF ConnInv, ConnTyped, LoopFlags, DeadFlag, LossHandled, LoopStates
  <1>1. ASSUME NEW c \in Conns, Lost(c) PROVE ConnInv'
    <2>1. wire' \in [Conns -> WireStates]
      BY <1>1, WireType DEF Lost, WireStates
    <2>2. wire'[connection] = "gone" <=> wire[connection] = "gone"
      BY <1>1 DEF Lost
    <2>3. OneConnection'
      BY <1>1 DEF Lost, OneConnection
    <2> QED BY <1>1, <2>1, <2>2, <2>3 DEF Lost
  <1>2. ASSUME NEW c \in Conns, Closed(c) PROVE ConnInv'
    <2>1. wire' \in [Conns -> WireStates] /\ wire'[c] = "gone"
      BY <1>2, WireType DEF Closed, WireStates
    <2>2. c = connection
      BY <1>2 DEF Closed, OneConnection
    <2>3. OneConnection'
      BY <1>2, <2>2 DEF Closed, OneConnection
    <2>4. dead' = TRUE /\ connected' = FALSE /\ UNCHANGED <<connection, closing>>
      BY <1>2, <2>2 DEF Closed
    <2>5. CASE closing \/ reconnecting
      <3>1. UNCHANGED <<reconnecting, ready, loop, attempt, exited>>
        BY <1>2, <2>2, <2>5 DEF Closed
      <3> QED BY <2>1, <2>2, <2>3, <2>4, <2>5, <3>1
    <2>6. CASE ~closing /\ ~reconnecting
      <3>1. ConnectionLost
        BY <1>2, <2>2, <2>6 DEF Closed
      <3>2. 1 \in 0 .. MaxAttempts
        BY ConnectorAssumption
      <3>3. CASE Enabled
        BY <2>1, <2>2, <2>3, <2>4, <2>6, <3>1, <3>2, <3>3 DEF ConnectionLost
      <3>4. CASE ~Enabled
        BY <2>1, <2>2, <2>3, <2>4, <2>6, <3>1, <3>4 DEF ConnectionLost
      <3> QED BY <3>3, <3>4
    <2> QED BY <2>5, <2>6
  <1>3. CASE Backoff
    BY <1>3 DEF Backoff, OneConnection
  <1>4. CASE OpenFails
    BY <1>4, NextAttemptType DEF OpenFails, NextAttempt, OneConnection
  <1>5. CASE Opened
    <2>1. PICK c \in Conns : /\ wire[c] = "none"
                             /\ wire' = [wire EXCEPT ![c] = "open"] /\ connection' = c
      BY <1>5 DEF Opened
    <2>2. wire' \in [Conns -> WireStates] /\ wire'[c] = "open"
      BY <2>1, WireType DEF WireStates
    <2>3. wire[connection] = "gone" /\ ~connected
      BY <1>5 DEF Opened
    <2>4. OneConnection'
      BY <2>1, <2>3 DEF OneConnection
    <2> QED BY <1>5, <2>1, <2>2, <2>3, <2>4 DEF Opened
  <1>6. CASE Recovered
    BY <1>6 DEF Recovered, DroppedMeanwhile, OneConnection
  <1>7. CASE HookFails
    BY <1>7, CloseWireOK DEF HookFails
  <1>8. CASE Discarded
    BY <1>8, NextAttemptType DEF Discarded, NextAttempt, OneConnection
  <1>9. CASE Close
    BY <1>9, CloseWireOK DEF Close
  <1>10. CASE ProcessEnds
    BY <1>10 DEF ProcessEnds, OneConnection
  <1>11. CASE UNCHANGED connVars
    BY <1>11 DEF connVars, OneConnection
  <1> QED BY <1>1, <1>2, <1>3, <1>4, <1>5, <1>6, <1>7, <1>8, <1>9, <1>10, <1>11
     DEF ConnStep, ConnNext

(* What the invariant says of the properties the runs check.                    *)
LEMMA ConnInvMeans == ConnInv => ConnTypeOK /\ OneConnection /\ LossHandled /\ ReadyMeansUsable
  <1> SUFFICES ASSUME ConnInv PROVE ConnTypeOK /\ ReadyMeansUsable
    BY DEF ConnInv
  <1>1. ConnTypeOK
    BY ConnTypeParts DEF ConnInv
  <1>2. loop \in {"off", "backoff", "opening", "hooks", "discard"}
    BY DEF ConnInv, ConnTyped, LoopStates
  <1> QED BY <1>1, <1>2 DEF ConnInv, LoopFlags, ReadyMeansUsable

LEMMA ConnInvariant == ConnSpec => []ConnInv
  <1>1. ConnInit => ConnInv
    BY ConnInvInit
  <1>2. ConnInv /\ [ConnNext]_connVars => ConnInv'
    BY ConnInvStep DEF ConnStep
  <1> QED BY <1>1, <1>2, PTL DEF ConnSpec

(* No step of the connector (connector.ts) takes its state out of its types.    *)
THEOREM ConnTypeCorrect == ConnSpec => []ConnTypeOK
  BY ConnInvariant, ConnInvMeans, PTL

(* However often the connection is lost, and whenever, while it is replaced or  *)
(* its hooks run or the process shuts down, there is never a second one: the    *)
(* loop opens one only when the last is gone.                                   *)
THEOREM NeverTwoConnections == ConnSpec => []OneConnection
  BY ConnInvariant, ConnInvMeans, PTL

(* No order of a loss and of the steps of #reconnectLoop leaves a connection    *)
(* that is known to be dead to itself.                                          *)
THEOREM EveryLossHandled == ConnSpec => []LossHandled
  BY ConnInvariant, ConnInvMeans, PTL

(* #ready and #connected let nobody through to a connection being replaced.     *)
THEOREM ReadyUsable == ConnSpec => []ReadyMeansUsable
  BY ConnInvariant, ConnInvMeans, PTL
===============================================================================
