----------------------------- MODULE ProviderProofs -----------------------------
(* What holds of Provider, over the connector, for every bound and every set of *)
(* calls.                                                                       *)
EXTENDS Provider, ConnectorProofs

-------------------------------------------------------------------------------
(* The inductive invariant.                                                     *)

(* Recoveries. Only a connection that has been opened has one, and only after   *)
(* the provider was constructed; #isConfigured is the promise of the latest. A  *)
(* setup that runs belongs to a provider that has read its subscribers, so that *)
(* a recovery ends well without consumers only when #setup never read them.     *)
RunStates == {"closing", "ok", "failed"}

RecsTyped ==
    /\ rec \in [Recs -> RecStates] /\ bootOn \in Conns
    /\ configured \in Recs /\ subscribers \in BOOLEAN
    /\ consumers \in [Conns -> 0 .. 2]

(* The setups that may have run on a connection: its recovery, and #setup.      *)
Ran(c) == (IF rec[c] \in RunStates THEN 1 ELSE 0)
          + (IF bootOn = c /\ rec[0] \in RunStates THEN 1 ELSE 0)

SetupsCounted ==
    \A c \in Conns :
       /\ consumers[c] <= Ran(c)
       /\ rec[c] = "closing" => consumers[c] # 0
       /\ rec[c] = "ok" => consumers[c] # 0 \/ (~subscribers /\ rec[0] = "failed")

BootFirst ==
    /\ rec[0] \in {"setup", "closing", "ok"} => subscribers
    /\ \A r \in Recs : rec[r] # "none" => rec[0] # "none"
    /\ configured # 0 => rec[configured] # "none"

RecsOK == RecsTyped /\ SetupsCounted /\ BootFirst

(* Where the recoveries and the connector meet.                                 *)
RecsCurrent ==
    /\ \A c \in Conns : wire[c] = "none" => rec[c] = "none"
    /\ configured # 0 => configured = connection
    /\ connected /\ configured # 0 => rec[configured] = "ok"

(* Calls. An attempt brings the broker at most one copy, and is the first or the*)
(* second.                                                                      *)
Copies(k) == stored[k] + unrouted[k]

CallOK(c, n) ==
    /\ c \in CallType /\ n \in 0 .. 2
    /\ c.pc \in {"new", "config0", "encode"} => c.try = 0 /\ n = 0
    /\ c.pc \in {"config", "wait", "open", "sent"} => c.try # 0 /\ n < c.try
    /\ c.pc = "taken" => c.try # 0 /\ n # 0 /\ n <= c.try
    /\ c.pc = "wait2" => c.try = 1 /\ n <= 1
    /\ c.pc = "ok" => n # 0
    /\ c.pc = "failed" => c.try # 1

CallsOK ==
    /\ calls \in [Calls -> CallType]
    /\ stored \in [Calls -> 0 .. 2] /\ unrouted \in [Calls -> 0 .. 2]
    /\ \A k \in Calls : CallOK(calls[k], Copies(k))

NotifierOK ==
    /\ notifier \in [open : BOOLEAN, on : Conns]
    /\ opening \in [st : OpeningStates, on : Conns]

RestTyped ==
    /\ handled \in [Recs -> BOOLEAN]
    /\ app \in [listens : BOOLEAN, crashed : BOOLEAN]
    /\ errors \in [setup : 0 .. MaxSetupErrors, channel : 0 .. MaxChannelErrors]

ProvInv == ConnInv /\ RecsOK /\ RecsCurrent /\ CallsOK /\ NotifierOK /\ ChannelCurrent /\ RestTyped

-------------------------------------------------------------------------------
(* The connector's part of a step is a step of the connector, but for the end   *)
(* of the process by an unhandled rejection.                                    *)
LEMMA ProvStepIsConnStep == ProvNext => ConnStep
  <1> SUFFICES ASSUME ProvNext PROVE ConnStep
    OBVIOUS
  <1> USE DEF ConnStep, ConnNext
  <1>1. CASE Microtask
    BY <1>1 DEF Microtask, HooksDone, OpeningStarts, OpeningFails, SetupBreaks, CallMicrotask,
                Begins, Publishes, Connects, Retry, Unconfirmed, Advance, AwaitConfigured
  <1>2. CASE Macrotask
    <2>1. CASE Boot \/ Opens \/ ChannelError
      BY <2>1 DEF Boot, Opens, ChannelError
    <2>2. CASE ProvOpened \/ ProvOpenFails \/ ProvBackoff \/ ProvDiscarded \/ ProvClose
      BY <2>2 DEF ProvOpened, ProvOpenFails, ProvBackoff, ProvDiscarded, ProvClose
    <2>3. CASE \E c \in Conns : ProvClosed(c)
      BY <2>3 DEF ProvClosed
    <2>4. CASE \E r \in Recs : SetUp(r) \/ SetupEnds(r) \/ SetupError(r)
      BY <2>4 DEF SetUp, SetupEnds, SetupError
    <2>5. CASE \E k \in Calls : Start(k) \/ Encoded(k) \/ Taken(k) \/ Confirmed(k)
      BY <2>5 DEF Start, Encoded, Taken, Confirmed, Advance, AwaitConfigured
    <2> QED BY <1>2, <2>1, <2>2, <2>3, <2>4, <2>5 DEF Macrotask
  <1>3. CASE \E r \in Recs : UnhandledRejection(r)
    BY <1>3 DEF UnhandledRejection, ProcessEnds
  <1>4. CASE \E c \in Conns : Lost(c) /\ ~exited /\ UNCHANGED provVars
    BY <1>4
  <1> QED BY <1>1, <1>2, <1>3, <1>4 DEF ProvNext

(* The provider leaves the connector's state to the connector (connector.ts):   *)
(* whatever recoveries and calls do, what they do to the connection is what     *)
(* Connector says, or the end of the process by an unhandled rejection.         *)
THEOREM ProviderDrivesConnector ==
  ProvSpec => ConnInit /\ [][ConnNext \/ ProcessEnds]_connVars
  <1>1. ProvInit => ConnInit
    BY DEF ProvInit
  <1>2. [ProvNext]_allVars => [ConnNext \/ ProcessEnds]_connVars
    BY ProvStepIsConnStep DEF ConnStep, allVars
  <1> QED BY <1>1, <1>2, PTL DEF ProvSpec

-------------------------------------------------------------------------------
(* The initial states.                                                          *)
LEMMA RecIds == 0 \in Recs /\ Conns \subseteq Recs /\ 1 \in Conns /\ 0 \notin Conns
                /\ \A r \in Recs : r # 0 => r \in Conns
  BY ConnectorAssumption DEF Recs, Conns

LEMMA ProvInvInit == ProvInit => ProvInv
  <1> SUFFICES ASSUME ProvInit PROVE ProvInv
    OBVIOUS
  <1>1. ConnInv
    BY ConnInvInit DEF ProvInit
  <1>2. RecsTyped
    <2>1. consumers \in [Conns -> 0 .. 2]
      BY DEF ProvInit
    <2>2. rec \in [Recs -> RecStates]
      BY DEF ProvInit, RecStates
    <2> QED BY <2>1, <2>2, RecIds DEF ProvInit, RecsTyped
  <1>3. SetupsCounted /\ BootFirst
    <2>1. /\ \A r \in Recs : rec[r] = "none"
          /\ \A c \in Conns : consumers[c] = 0 /\ rec[c] = "none"
          /\ configured = 0
      BY RecIds DEF ProvInit
    <2>2. SetupsCounted
      BY <2>1, RecIds DEF SetupsCounted, Ran, RunStates
    <2> QED BY <2>1, <2>2, RecIds DEF BootFirst
  <1>4. RecsCurrent /\ ChannelCurrent
    BY RecIds DEF ProvInit, RecsCurrent, ChannelCurrent
  <1>5. CallsOK
    BY RecIds DEF ProvInit, CallsOK, CallOK, CallType, CallPcs, Copies
  <1>6. NotifierOK
    BY RecIds DEF ProvInit, NotifierOK, OpeningStates
  <1>7. RestTyped
    <2>1. app \in [listens : BOOLEAN, crashed : BOOLEAN]
      BY DEF ProvInit
    <2>2. handled \in [Recs -> BOOLEAN]
      BY DEF ProvInit
    <2> QED BY <2>1, <2>2, ProviderAssumption DEF ProvInit, RestTyped
  <1> QED BY <1>1, <1>2, <1>3, <1>4, <1>5, <1>6, <1>7 DEF ProvInv, RecsOK

-------------------------------------------------------------------------------
(* What the connector's steps do to what RecsCurrent and ChannelCurrent see.    *)
LEMMA ConnectorKeeps ==
  ASSUME ConnInv, \/ \E c \in Conns : Lost(c)
                  \/ OpenFails \/ Backoff \/ Discarded \/ Close \/ HookFails \/ Recovered
  PROVE  /\ connection' = connection
         /\ \A c \in Conns : wire'[c] = "none" => wire[c] = "none"
         /\ wire'[connection] = "gone" => wire[connection] = "gone"
         /\ connected' => connected \/ Recovered
  <1> USE DEF ConnInv, ConnTyped
  <1>1. ASSUME NEW c \in Conns, Lost(c) PROVE /\ \A b \in Conns : wire'[b] = "none" => wire[b] = "none"
                                              /\ wire'[connection] = "gone" => wire[connection] = "gone"
                                              /\ UNCHANGED <<connection, connected>>
    BY <1>1 DEF Lost
  <1>2. ASSUME wire' = CloseWire(connection)
        PROVE  /\ \A b \in Conns : wire'[b] = "none" => wire[b] = "none"
               /\ wire'[connection] = "gone" => wire[connection] = "gone"
    BY <1>2 DEF CloseWire
  <1>3. CASE OpenFails \/ Backoff \/ Discarded
    BY <1>3 DEF OpenFails, Backoff, Discarded
  <1>4. CASE Close \/ HookFails
    BY <1>2, <1>4 DEF Close, HookFails
  <1>5. CASE Recovered
    BY <1>5 DEF Recovered
  <1> QED BY <1>1, <1>3, <1>4, <1>5

(* The parts that a step leaves alone.                                          *)
LEMMA CallsKept == ASSUME CallsOK, UNCHANGED <<calls, stored, unrouted>> PROVE CallsOK'
  BY DEF CallsOK, Copies
LEMMA RecsKept ==
  ASSUME RecsOK, UNCHANGED <<rec, bootOn, configured, subscribers, consumers>> PROVE RecsOK'
  BY DEF RecsOK, RecsTyped, SetupsCounted, BootFirst, Ran
LEMMA NotifierKeptOK == ASSUME NotifierOK, UNCHANGED <<notifier, opening>> PROVE NotifierOK'
  BY DEF NotifierOK
LEMMA RestKept == ASSUME RestTyped, UNCHANGED <<handled, app, errors>> PROVE RestTyped'
  BY DEF RestTyped
LEMMA CurrentKept ==
  ASSUME RecsTyped, RecsCurrent, UNCHANGED <<connVars, configured>>,
         \A r \in Recs : rec[r] \in {"none", "ok"} => rec'[r] = rec[r]
  PROVE  RecsCurrent'
  BY RecIds DEF RecsCurrent, RecsTyped, connVars
LEMMA ChannelKept == ASSUME ChannelCurrent, UNCHANGED <<connVars, notifier>> PROVE ChannelCurrent'
  BY DEF ChannelCurrent, connVars
LEMMA OpenNotifierOK ==
  ASSUME NotifierOK, UNCHANGED notifier, opening' = OpenNotifier
  PROVE  NotifierOK'
  BY DEF NotifierOK, OpenNotifier, OpeningStates

-------------------------------------------------------------------------------
(* Calls. What the helpers make of a call, and what a step of one call leaves.  *)
LEMMA CaughtOK ==
  ASSUME NEW c, NEW n, CallOK(c, n), c.pc \in {"config", "open", "sent", "taken"}
  PROVE  CallOK(Caught(c), n)
  BY DEF CallOK, CallType, CallPcs, Caught

LEMMA SendOK ==
  ASSUME NEW c, NEW n, CallOK(c, n), c.pc \in {"config", "open"}, NEW b \in Conns
  PROVE  CallOK(Send(c, b), n)
  <1>1. CASE Usable(b)
    BY <1>1, RecIds DEF CallOK, CallType, CallPcs, Send
  <1>2. CASE ~Usable(b)
    BY <1>2, CaughtOK DEF Send
  <1> QED BY <1>1, <1>2

LEMMA AllCallsOK ==
  ASSUME CallsOK, calls' = [k \in Calls |-> calls'[k]], UNCHANGED <<stored, unrouted>>,
         \A k \in Calls : CallOK(calls'[k], Copies(k))
  PROVE  CallsOK'
  BY DEF CallsOK, CallOK, Copies

LEMMA OneCallOK ==
  ASSUME CallsOK, NEW k \in Calls, NEW c, NEW n,
         calls' = [calls EXCEPT ![k] = c], CallOK(c, n),
         \/ stored' = [stored EXCEPT ![k] = @ + 1] /\ UNCHANGED unrouted
         \/ unrouted' = [unrouted EXCEPT ![k] = @ + 1] /\ UNCHANGED stored,
         n = Copies(k) + 1
  PROVE  CallsOK'
  <1>1. stored[k] \in Nat /\ unrouted[k] \in Nat /\ n \in 0 .. 2
    BY DEF CallsOK, CallOK
  <1>2. stored' \in [Calls -> 0 .. 2] /\ unrouted' \in [Calls -> 0 .. 2] /\ Copies(k)' = n
    BY <1>1 DEF CallsOK, Copies
  <1>3. \A j \in Calls : j # k => Copies(j)' = Copies(j) /\ calls'[j] = calls[j]
    BY DEF CallsOK, Copies
  <1>4. calls' \in [Calls -> CallType] /\ calls'[k] = c
    BY DEF CallsOK, CallOK
  <1> QED BY <1>2, <1>3, <1>4 DEF CallsOK

LEMMA OneCallKept ==
  ASSUME CallsOK, NEW k \in Calls, NEW c,
         calls' = [calls EXCEPT ![k] = c], UNCHANGED <<stored, unrouted>>, CallOK(c, Copies(k))
  PROVE  CallsOK'
  BY DEF CallsOK, CallOK, Copies

-------------------------------------------------------------------------------
(* #setup and #recover. A step that ends one, or moves it on.                   *)
LEMMA RecMoves ==
  ASSUME RecsOK, RecsCurrent, NEW r \in Recs, NEW s \in {"closing", "ok", "failed"},
         \/ rec[r] = "closing" /\ s \in {"ok", "failed"}
         \/ rec[r] = "setup" /\ s = "failed",
         rec' = [rec EXCEPT ![r] = s],
         UNCHANGED <<connVars, bootOn, configured, subscribers, consumers>>
  PROVE  RecsOK' /\ RecsCurrent'
  <1> USE RecIds
  <1>1. RecsTyped'
    BY DEF RecsOK, RecsTyped, RecStates
  <1>2. rec'[r] = s /\ \A q \in Recs : q # r => rec'[q] = rec[q]
    BY DEF RecsOK, RecsTyped
  <1>3. BootFirst'
    BY <1>2 DEF RecsOK, RecsTyped, BootFirst
  <1>4. SetupsCounted'
    <2> SUFFICES ASSUME NEW c \in Conns
                 PROVE  /\ consumers[c] <= Ran(c)'
                        /\ rec'[c] = "closing" => consumers[c] # 0
                        /\ rec'[c] = "ok" => consumers[c] # 0 \/ (~subscribers /\ rec'[0] = "failed")
      BY DEF SetupsCounted
    <2>1. consumers[c] <= Ran(c) /\ consumers[c] \in 0 .. 2
      BY DEF RecsOK, RecsTyped, SetupsCounted
    <2>2. Ran(c) <= Ran(c)'
      BY <1>2 DEF Ran, RunStates
    <2>3. Ran(c) \in 0 .. 2 /\ Ran(c)' \in 0 .. 2
      BY DEF Ran
    <2>4. consumers[c] <= Ran(c)'
      BY <2>1, <2>2, <2>3
    <2>5. rec'[c] = "closing" => consumers[c] # 0
      BY <1>2 DEF RecsOK, SetupsCounted
    <2>6. rec'[c] = "ok" => consumers[c] # 0 \/ (~subscribers /\ rec'[0] = "failed")
      <3>1. CASE r = c
        BY <1>2, <3>1 DEF RecsOK, SetupsCounted
      <3>2. CASE r # c
        BY <1>2, <3>2 DEF RecsOK, SetupsCounted, BootFirst
      <3> QED BY <3>1, <3>2
    <2> QED BY <2>4, <2>5, <2>6
  <1>5. RecsCurrent'
    BY <1>2, CurrentKept DEF RecsOK, RecsCurrent, connVars
  <1> QED BY <1>1, <1>3, <1>4, <1>5 DEF RecsOK

LEMMA SetUpOK == ASSUME RecsOK, RecsCurrent, NEW r \in Recs, SetUp(r) PROVE RecsOK' /\ RecsCurrent'
  <1> USE RecIds
  <1>0. PICK b \in Conns : b = IF r = 0 THEN bootOn ELSE r
    BY DEF RecsOK, RecsTyped
  <1>1. b \in Conns /\ rec[r] = "setup" /\ rec' = [rec EXCEPT ![r] = "closing"]
    BY DEF SetUp
  <1>2. /\ consumers' = [consumers EXCEPT ![b] = consumers[b] + 1]
        /\ UNCHANGED <<connVars, bootOn, configured, subscribers>>
    BY <1>0 DEF SetUp, RecOn
  <1>3. rec'[r] = "closing" /\ \A q \in Recs : q # r => rec'[q] = rec[q]
    BY <1>1 DEF RecsOK, RecsTyped
  <1>4. \A c \in Conns : /\ consumers[c] \in 0 .. 2 /\ consumers[c] <= Ran(c)
                         /\ Ran(c) \in 0 .. 2 /\ Ran(c)' \in 0 .. 2
    BY DEF RecsOK, RecsTyped, SetupsCounted, Ran
  <1>5. Ran(b)' = Ran(b) + 1
    <2>1. CASE r = 0
      <3>1. b = bootOn /\ rec'[b] = rec[b]
        BY <1>0, <1>1, <1>3, <2>1
      <3> QED BY <1>1, <1>2, <1>3, <2>1, <3>1 DEF Ran, RunStates
    <2>2. CASE r # 0
      <3>1. b = r /\ rec'[0] = rec[0]
        BY <1>0, <1>3, <2>2
      <3> QED BY <1>1, <1>2, <1>3, <2>2, <3>1 DEF Ran, RunStates
    <2> QED BY <2>1, <2>2
  <1>6. \A c \in Conns : Ran(c) <= Ran(c)'
    BY <1>1, <1>2, <1>3 DEF Ran, RunStates
  <1>7. \A c \in Conns : consumers'[c] = IF c = b THEN consumers[c] + 1 ELSE consumers[c]
    BY <1>1, <1>2 DEF RecsOK, RecsTyped
  <1>8. \A c \in Conns : consumers'[c] <= Ran(c)' /\ consumers'[c] \in 0 .. 2
    BY <1>1, <1>4, <1>5, <1>6, <1>7
  <1>9. RecsTyped'
    BY <1>1, <1>2, <1>8 DEF RecsOK, RecsTyped, RecStates
  <1>10. BootFirst'
    BY <1>1, <1>2, <1>3 DEF RecsOK, RecsTyped, BootFirst
  <1>11. SetupsCounted'
    <2>1. ASSUME NEW c \in Conns, rec'[c] = "closing" PROVE consumers'[c] # 0
      <3>1. CASE c = r
        BY <1>0, <1>4, <1>7, <3>1
      <3>2. CASE c # r
        BY <1>3, <1>4, <1>7, <2>1, <3>2 DEF RecsOK, SetupsCounted
      <3> QED BY <3>1, <3>2
    <2>2. ASSUME NEW c \in Conns, rec'[c] = "ok"
          PROVE  consumers'[c] # 0 \/ (~subscribers' /\ rec'[0] = "failed")
      <3>1. rec[c] = "ok"
        BY <1>3, <2>2
      <3> QED BY <1>1, <1>2, <1>3, <1>4, <1>7, <3>1 DEF RecsOK, SetupsCounted
    <2> QED BY <1>8, <2>1, <2>2 DEF SetupsCounted
  <1>12. RecsCurrent'
    BY <1>1, <1>2, <1>3, CurrentKept DEF RecsOK, connVars
  <1> QED BY <1>9, <1>10, <1>11, <1>12 DEF RecsOK

(* The setup at boot, and the recovery of a connection that is opened.          *)
LEMMA BootOK == ASSUME RecsOK, RecsCurrent, Boot PROVE RecsOK' /\ RecsCurrent'
  <1> USE RecIds
  <1>1. /\ rec' = [rec EXCEPT ![0] = "notifier"] /\ rec[0] = "none"
        /\ UNCHANGED <<connVars, bootOn, configured, subscribers, consumers>>
    BY DEF Boot
  <1>2. rec'[0] = "notifier" /\ \A q \in Recs : q # 0 => rec'[q] = rec[q]
    BY <1>1 DEF RecsOK, RecsTyped
  <1>3. \A r \in Recs : rec[r] = "none"
    BY <1>1 DEF RecsOK, BootFirst
  <1>4. \A c \in Conns : Ran(c)' = Ran(c)
    BY <1>1, <1>2 DEF Ran, RunStates
  <1>5. RecsTyped'
    BY <1>1 DEF RecsOK, RecsTyped, RecStates
  <1>6. SetupsCounted' /\ BootFirst'
    BY <1>1, <1>2, <1>3, <1>4 DEF RecsOK, SetupsCounted, BootFirst
  <1>7. RecsCurrent'
    BY <1>1, <1>2, <1>3 DEF RecsOK, RecsTyped, BootFirst, RecsCurrent, connVars
  <1> QED BY <1>5, <1>6, <1>7 DEF RecsOK

LEMMA OpenedShape ==
  ASSUME ConnInv, Opened
  PROVE  /\ connection' \in Conns /\ wire[connection'] = "none"
         /\ \A c \in Conns : wire'[c] = "none" => wire[c] = "none" /\ c # connection'
         /\ ~connected' /\ wire[connection] = "gone"
  BY DEF Opened, ConnInv, ConnTyped, LoopFlags, DeadFlag

LEMMA ProvOpenedOK ==
  ASSUME ConnInv, RecsOK, RecsCurrent, ProvOpened
  PROVE  RecsOK' /\ RecsCurrent'
  <1> USE RecIds
  <1>1. /\ connection' \in Conns /\ wire[connection'] = "none"
        /\ \A c \in Conns : wire'[c] = "none" => wire[c] = "none" /\ c # connection'
        /\ ~connected'
    BY OpenedShape DEF ProvOpened
  <1>2. PICK b \in Conns : b = connection'
    BY <1>1
  <1>3. rec[b] = "none" /\ UNCHANGED <<bootOn, subscribers, consumers>>
    BY <1>1, <1>2 DEF RecsCurrent, ProvOpened
  <1>4. CASE rec[0] = "none"
    <2>1. UNCHANGED <<rec, configured>>
      BY <1>4 DEF ProvOpened
    <2>2. configured = 0
      BY <1>4 DEF RecsOK, RecsTyped, BootFirst
    <2> QED BY <1>1, <1>3, <2>1, <2>2, RecsKept DEF RecsCurrent
  <1>5. CASE rec[0] # "none"
    <2>1. rec' = [rec EXCEPT ![b] = "notifier"] /\ configured' = b
      BY <1>2, <1>5 DEF ProvOpened
    <2>2. b # 0 /\ rec'[b] = "notifier" /\ \A q \in Recs : q # b => rec'[q] = rec[q]
      BY <2>1 DEF RecsOK, RecsTyped
    <2>3. \A c \in Conns : Ran(c)' = Ran(c)
      BY <1>3, <2>2 DEF Ran, RunStates
    <2>4. RecsTyped'
      BY <1>3, <2>1 DEF RecsOK, RecsTyped, RecStates
    <2>5. SetupsCounted' /\ BootFirst'
      BY <1>3, <1>5, <2>1, <2>2, <2>3 DEF RecsOK, SetupsCounted, BootFirst
    <2>6. RecsCurrent'
      BY <1>1, <1>2, <2>1, <2>2 DEF RecsCurrent
    <2> QED BY <2>4, <2>5, <2>6 DEF RecsOK
  <1> QED BY <1>4, <1>5

(* The end of the opening of the channel, for the recoveries that wait for it.  *)
LEMMA OpeningFailsRecs ==
  ASSUME RecsOK, RecsCurrent, OpeningFails
  PROVE  RecsOK' /\ RecsCurrent'
  <1> USE RecIds
  <1>1. UNCHANGED <<connVars, bootOn, configured, subscribers, consumers>>
    BY DEF OpeningFails
  <1>2. \A r \in Recs : rec'[r] = IF rec[r] = "notifier" THEN "failed" ELSE rec[r]
    BY DEF OpeningFails
  <1>3. RecsTyped'
    BY <1>1 DEF OpeningFails, RecsOK, RecsTyped, RecStates
  <1>4. BootFirst'
    BY <1>1, <1>2 DEF RecsOK, RecsTyped, BootFirst
  <1>5. SetupsCounted'
    <2>1. \A c \in Conns : /\ consumers[c] \in 0 .. 2 /\ consumers[c] <= Ran(c)
                           /\ Ran(c) \in 0 .. 2 /\ Ran(c)' \in 0 .. 2
      BY DEF RecsOK, RecsTyped, SetupsCounted, Ran
    <2>2. \A c \in Conns : Ran(c) <= Ran(c)'
      BY <1>1, <1>2 DEF Ran, RunStates
    <2>3. \A c \in Conns : consumers[c] <= Ran(c)'
      BY <2>1, <2>2
    <2> QED BY <1>1, <1>2, <2>3 DEF RecsOK, SetupsCounted
  <1>6. RecsCurrent'
    BY <1>1, <1>2, CurrentKept DEF RecsOK
  <1> QED BY <1>3, <1>4, <1>5, <1>6 DEF RecsOK

LEMMA OpensRecs ==
  ASSUME ConnInv, RecsOK, RecsCurrent, NotifierOK, Opens
  PROVE  RecsOK' /\ RecsCurrent'
  <1> USE RecIds
  <1>1. /\ UNCHANGED <<connVars, configured, consumers>>
        /\ bootOn' \in Conns /\ subscribers' \in BOOLEAN
        /\ rec[0] # "notifier" => UNCHANGED <<bootOn, subscribers>>
        /\ rec[0] = "notifier" => subscribers'
    BY DEF Opens, RecsOK, RecsTyped, NotifierOK
  <1>2. \A r \in Recs : rec'[r] = IF rec[r] = "notifier" THEN AfterOpening(r) ELSE rec[r]
    BY DEF Opens
  <1>3. \A r \in Recs : AfterOpening(r) \in {"setup", "ok"}
    BY DEF AfterOpening
  <1>4. rec' \in [Recs -> RecStates]
    BY <1>2, <1>3 DEF Opens, RecsOK, RecsTyped, RecStates
  <1>5. RecsTyped'
    BY <1>1, <1>4 DEF RecsOK, RecsTyped
  <1>6. rec[0] = "notifier" => AfterOpening(0) = "setup"
    BY DEF AfterOpening
  <1>7. BootFirst'
    BY <1>1, <1>2, <1>3, <1>6 DEF RecsOK, RecsTyped, BootFirst
  <1>8. \A c \in Conns : /\ consumers[c] \in 0 .. 2 /\ consumers[c] <= Ran(c)
                         /\ Ran(c) \in 0 .. 2 /\ Ran(c)' \in 0 .. 2
    BY DEF RecsOK, RecsTyped, SetupsCounted, Ran
  <1>9. \A c \in Conns : Ran(c) <= Ran(c)'
    <2>1. CASE rec[0] = "notifier"
      BY <1>2, <2>1 DEF Ran, RunStates
    <2>2. CASE rec[0] # "notifier"
      BY <1>1, <1>2, <2>2 DEF Ran, RunStates
    <2> QED BY <2>1, <2>2
  <1>10. \A c \in Conns : consumers[c] <= Ran(c)'
    BY <1>8, <1>9
  <1>11. SetupsCounted'
    <2>1. ASSUME NEW c \in Conns, rec'[c] = "closing" PROVE consumers[c] # 0
      BY <1>2, <1>3, <2>1 DEF RecsOK, SetupsCounted
    <2>2. ASSUME NEW c \in Conns, rec'[c] = "ok"
          PROVE  consumers[c] # 0 \/ (~subscribers' /\ rec'[0] = "failed")
      <3>1. CASE rec[c] = "notifier"
        <4>1. ~subscribers /\ rec[0] # "notifier"
          BY <1>2, <2>2, <3>1 DEF AfterOpening
        <4>2. rec[0] # "none" /\ rec[0] \in RecStates
          BY <3>1 DEF RecsOK, RecsTyped, BootFirst
        <4>3. rec[0] = "failed"
          BY <4>1, <4>2 DEF RecsOK, BootFirst, RecStates
        <4> QED BY <1>1, <1>2, <4>1, <4>3
      <3>2. CASE rec[c] # "notifier"
        BY <1>1, <1>2, <2>2, <3>2 DEF RecsOK, SetupsCounted
      <3> QED BY <3>1, <3>2
    <2> QED BY <1>1, <1>10, <2>1, <2>2 DEF SetupsCounted
  <1>12. RecsCurrent'
    BY <1>1, <1>2, CurrentKept DEF RecsOK
  <1> QED BY <1>5, <1>7, <1>11, <1>12 DEF RecsOK

-------------------------------------------------------------------------------
(* The notifier channel. It goes with its connection, and the next connection   *)
(* is opened only when that is gone.                                            *)
LEMMA ProvClosedChannel ==
  ASSUME ConnInv, ChannelCurrent, NotifierOK, NEW c \in Conns, ProvClosed(c)
  PROVE  ChannelCurrent' /\ NotifierOK'
  <1>1. c = connection /\ UNCHANGED <<connection, opening>>
    BY DEF ProvClosed, Closed, ConnInv, OneConnection
  <1>2. notifier' = IF notifier.on = c THEN [notifier EXCEPT !.open = FALSE] ELSE notifier
    BY DEF ProvClosed, NotifierAfter
  <1>3. NotifierOK'
    BY <1>1, <1>2 DEF NotifierOK
  <1>4. ~notifier'.open
    BY <1>1, <1>2 DEF ChannelCurrent, NotifierOK
  <1> QED BY <1>3, <1>4 DEF ChannelCurrent

LEMMA OpensChannel ==
  ASSUME ConnInv, NotifierOK, Opens
  PROVE  ChannelCurrent' /\ NotifierOK'
  <1>1. opening.on \in Conns /\ wire[opening.on] = "open" /\ UNCHANGED connVars
    BY DEF NotifierOK, Opens
  <1>2. opening.on = connection
    BY <1>1 DEF ConnInv, OneConnection
  <1>3. notifier' = [open |-> TRUE, on |-> connection] /\ opening' = [opening EXCEPT !.st = "none"]
    BY <1>2 DEF Opens
  <1>4. notifier'.on = connection /\ UNCHANGED <<wire, connection>>
    BY <1>1, <1>3 DEF connVars
  <1>5. NotifierOK'
    BY <1>2, <1>1, <1>3 DEF NotifierOK, OpeningStates
  <1> QED BY <1>1, <1>2, <1>4, <1>5 DEF ChannelCurrent

LEMMA ProvOpenedChannel ==
  ASSUME ConnInv, ChannelCurrent, NotifierOK, ProvOpened
  PROVE  ChannelCurrent' /\ NotifierOK'
  <1>1. wire[connection] = "gone" /\ UNCHANGED notifier
    BY OpenedShape DEF ProvOpened
  <1>2. ChannelCurrent'
    BY <1>1 DEF ChannelCurrent
  <1>3. NotifierOK'
    BY OpenNotifierOK DEF ProvOpened, NotifierOK
  <1> QED BY <1>2, <1>3

-------------------------------------------------------------------------------
(* The steps of a call.                                                         *)
LEMMA CallStepOK ==
  ASSUME ProvInv, NEW k \in Calls,
         \/ Start(k) \/ Encoded(k) \/ Retry(k) \/ Begins(k) \/ Publishes(k)
         \/ Connects(k) \/ Taken(k) \/ Confirmed(k) \/ Unconfirmed(k)
  PROVE  CallsOK' /\ handled' \in [Recs -> BOOLEAN] /\ NotifierOK'
         /\ UNCHANGED <<connVars, rec, bootOn, configured, subscribers, consumers, notifier,
                        app, errors>>
  <1> USE DEF ProvInv
  <1>1. CallOK(calls[k], Copies(k)) /\ configured \in Recs /\ CallsOK
    BY DEF CallsOK, RecsOK, RecsTyped
  <1>2. ASSUME NEW pc, NEW try, AwaitConfigured(k, pc, try),
               CallOK([pc |-> pc, try |-> try, at |-> configured], Copies(k))
        PROVE  CallsOK' /\ handled' \in [Recs -> BOOLEAN] /\ NotifierOK'
    <2>1. CallsOK'
      BY <1>1, <1>2, OneCallKept DEF AwaitConfigured
    <2>2. handled' \in [Recs -> BOOLEAN]
      BY <1>1, <1>2 DEF AwaitConfigured, RestTyped
    <2> QED BY <1>2, <2>1, <2>2, NotifierKeptOK DEF AwaitConfigured
  <1>3. ASSUME NEW c, Advance(k, c), CallOK(c, Copies(k))
        PROVE  CallsOK' /\ handled' \in [Recs -> BOOLEAN] /\ NotifierOK'
    BY <1>1, <1>3, OneCallKept, NotifierKeptOK DEF Advance, RestTyped
  <1>4. CASE Start(k)
    <2>1. CallOK([pc |-> "config0", try |-> 0, at |-> configured], Copies(k))
      BY <1>1, <1>4 DEF Start, CallOK, CallType, CallPcs
    <2> QED BY <1>2, <1>4, <2>1 DEF Start, AwaitConfigured
  <1>5. CASE Encoded(k)
    <2>1. CallOK([pc |-> "config", try |-> 1, at |-> configured], Copies(k))
      BY <1>1, <1>5 DEF Encoded, CallOK, CallType, CallPcs
    <2> QED BY <1>2, <1>5, <2>1 DEF Encoded, AwaitConfigured
  <1>6. CASE Retry(k)
    <2>1. CallOK([pc |-> "config", try |-> 2, at |-> configured], Copies(k))
      BY <1>1, <1>6 DEF Retry, CallOK, CallType, CallPcs
    <2> QED BY <1>2, <1>6, <2>1 DEF Retry, AwaitConfigured
  <1>7. CASE Begins(k)
    <2> DEFINE c == [calls[k] EXCEPT !.pc = IF rec[calls[k].at] = "ok" THEN "encode" ELSE "failed"]
    <2>1. CallOK(c, Copies(k))
      BY <1>1, <1>7 DEF Begins, CallOK, CallType, CallPcs
    <2>2. Advance(k, c)
      BY <1>7 DEF Begins
    <2> HIDE DEF c
    <2> QED BY <1>3, <2>1, <2>2 DEF Advance
  <1>8. CASE Publishes(k)
    <2>1. calls[k].pc = "config" /\ notifier.on \in Conns
      BY <1>8 DEF Publishes, NotifierOK
    <2>2. CASE rec[calls[k].at] = "failed"
      BY <1>1, <1>3, <1>8, <2>1, <2>2, CaughtOK DEF Publishes, Advance
    <2>3. CASE rec[calls[k].at] # "failed" /\ notifier.open
      BY <1>1, <1>3, <1>8, <2>1, <2>3, SendOK DEF Publishes, Advance
    <2>4. CASE rec[calls[k].at] # "failed" /\ ~notifier.open
      <3>1. CallOK([calls[k] EXCEPT !.pc = "wait"], Copies(k))
        BY <1>1, <2>1 DEF CallOK, CallType, CallPcs
      <3> QED BY <1>3, <1>8, <2>4, <3>1 DEF Publishes, Advance
    <2> QED BY <2>2, <2>3, <2>4
  <1>9. CASE Connects(k)
    <2>1. CallOK([calls[k] EXCEPT !.pc = "open"], Copies(k))
      BY <1>1, <1>9 DEF Connects, CallOK, CallType, CallPcs
    <2>2. CallsOK'
      BY <1>1, <1>9, <2>1, OneCallKept DEF Connects
    <2> QED BY <1>9, <2>2, OpenNotifierOK DEF Connects, RestTyped
  <1>10. CASE Taken(k)
    <2>1. CallOK([calls[k] EXCEPT !.pc = "taken"], Copies(k) + 1)
      BY <1>1, <1>10 DEF Taken, CallOK, CallType, CallPcs
    <2>2. CallsOK'
      BY <1>1, <1>10, <2>1, OneCallOK DEF Taken
    <2> QED BY <1>10, <2>2, NotifierKeptOK DEF Taken, RestTyped
  <1>11. CASE Confirmed(k)
    <2>1. CallOK([calls[k] EXCEPT !.pc = "ok"], Copies(k))
      BY <1>1, <1>11 DEF Confirmed, CallOK, CallType, CallPcs
    <2> QED BY <1>3, <1>11, <2>1 DEF Confirmed, Advance
  <1>12. CASE Unconfirmed(k)
    BY <1>1, <1>3, <1>12, CaughtOK DEF Unconfirmed, Advance
  <1> QED BY <1>4, <1>5, <1>6, <1>7, <1>8, <1>9, <1>10, <1>11, <1>12

(* The steps that move all the calls that wait for the channel, or were sent    *)
(* over it.                                                                     *)
LEMMA OpeningFailsCalls == ASSUME CallsOK, OpeningFails PROVE CallsOK'
  <1>1. \A k \in Calls : calls'[k] = IF calls[k].pc = "open" THEN Caught(calls[k]) ELSE calls[k]
    BY DEF OpeningFails
  <1>2. \A k \in Calls : CallOK(calls[k], Copies(k))
    BY DEF CallsOK
  <1>3. \A k \in Calls : CallOK(calls'[k], Copies(k))
    BY <1>1, <1>2, CaughtOK
  <1> QED BY <1>3, AllCallsOK DEF OpeningFails

LEMMA OpensCalls == ASSUME CallsOK, NotifierOK, Opens PROVE CallsOK'
  <1>1. \A k \in Calls : calls'[k] = IF calls[k].pc = "open" THEN Send(calls[k], opening.on)
                                     ELSE calls[k]
    BY DEF Opens
  <1>2. opening.on \in Conns /\ \A k \in Calls : CallOK(calls[k], Copies(k))
    BY DEF CallsOK, NotifierOK
  <1>3. \A k \in Calls : CallOK(calls'[k], Copies(k))
    BY <1>1, <1>2, SendOK
  <1> QED BY <1>3, AllCallsOK DEF Opens

LEMMA ChannelErrorCalls == ASSUME CallsOK, ChannelError PROVE CallsOK'
  <1>1. \A k \in Calls :
          calls'[k] = IF calls[k].pc \in {"sent", "taken"} /\ calls[k].at = notifier.on
                      THEN Caught(calls[k]) ELSE calls[k]
    BY DEF ChannelError
  <1>2. \A k \in Calls : CallOK(calls[k], Copies(k))
    BY DEF CallsOK
  <1>3. \A k \in Calls : CallOK(calls'[k], Copies(k))
    BY <1>1, <1>2, CaughtOK
  <1> QED BY <1>3, AllCallsOK DEF ChannelError

-------------------------------------------------------------------------------
(* Every step keeps the invariant.                                              *)

(* A step of the connector that the provider does not take part in.             *)
LEMMA ConnectorOnly ==
  ASSUME ProvInv, ConnInv', UNCHANGED provVars,
         connection' = connection,
         \A c \in Conns : wire'[c] = "none" => wire[c] = "none",
         wire'[connection] = "gone" => wire[connection] = "gone",
         connected' => connected \/ (configured # 0 => rec[configured] = "ok")
  PROVE  ProvInv'
  <1>1. RecsOK' /\ CallsOK' /\ NotifierOK' /\ RestTyped'
    BY RecsKept, CallsKept, NotifierKeptOK, RestKept DEF ProvInv, provVars
  <1>2. RecsCurrent' /\ ChannelCurrent'
    BY DEF ProvInv, provVars, RecsCurrent, ChannelCurrent
  <1> QED BY <1>1, <1>2 DEF ProvInv

(* A step of the provider that the connector does not take part in.             *)
LEMMA ProviderOnly ==
  ASSUME ProvInv, UNCHANGED connVars, RecsOK', RecsCurrent', CallsOK', NotifierOK',
         ChannelCurrent', RestTyped'
  PROVE  ProvInv'
  <1>1. ConnInv'
    BY ConnInvStep DEF ConnStep, ProvInv
  <1> QED BY <1>1 DEF ProvInv

LEMMA HooksDoneOK == ASSUME ProvInv, ConnInv', HooksDone PROVE ProvInv'
  <1>1. UNCHANGED provVars /\ HookSettled
    BY DEF HooksDone
  <1>2. CASE rec[connection] = "failed" \/ DroppedMeanwhile
    <2>1. HookFails /\ connected' = connected
      BY <1>2 DEF HooksDone, HookFails
    <2> QED BY <1>1, <2>1, ConnectorKeeps, ConnectorOnly DEF ProvInv
  <1>3. CASE ~(rec[connection] = "failed" \/ DroppedMeanwhile)
    <2>1. Recovered
      BY <1>3 DEF HooksDone
    <2>2. configured # 0 => rec[configured] = "ok"
      BY <1>1, <1>3 DEF HookSettled, ProvInv, RecsCurrent, RecsOK, BootFirst
    <2> QED BY <1>1, <2>1, <2>2, ConnectorKeeps, ConnectorOnly DEF ProvInv
  <1> QED BY <1>2, <1>3

LEMMA RecStepOK ==
  ASSUME ProvInv, NEW r \in Recs,
         SetUp(r) \/ SetupEnds(r) \/ SetupError(r) \/ SetupBreaks(r)
  PROVE  ProvInv'
  <1>1. RecsOK /\ RecsCurrent
    BY DEF ProvInv
  <1>2. RecsOK' /\ RecsCurrent'
    <2>1. CASE SetUp(r)
      BY <1>1, <2>1, SetUpOK
    <2>2. CASE SetupEnds(r)
      BY <1>1, <2>2, RecMoves DEF SetupEnds
    <2>3. CASE SetupError(r)
      BY <1>1, <2>3, RecMoves DEF SetupError
    <2>4. CASE SetupBreaks(r)
      <3>1. rec[r] \in {"setup", "closing"}
        BY <2>4 DEF SetupBreaks, SetupBroken
      <3>2. CASE rec[r] = "closing" /\ r # 0
        BY <1>1, <2>4, <3>2, RecMoves DEF SetupBreaks
      <3>3. CASE ~(rec[r] = "closing" /\ r # 0)
        BY <1>1, <2>4, <3>1, <3>3, RecMoves DEF SetupBreaks
      <3> QED BY <3>2, <3>3
    <2> QED BY <2>1, <2>2, <2>3, <2>4
  <1>3. UNCHANGED <<connVars, handled, app, notifier, opening, calls, stored, unrouted>>
    BY DEF SetUp, SetupEnds, SetupError, SetupBreaks
  <1>4. RestTyped'
    <2>1. CASE SetupError(r)
      <3>1. errors.setup + 1 \in 0 .. MaxSetupErrors
        BY <2>1, ProviderAssumption DEF SetupError, ProvInv, RestTyped
      <3> QED BY <1>3, <2>1, <3>1 DEF SetupError, ProvInv, RestTyped
    <2>2. CASE ~SetupError(r)
      BY <1>3, <2>2, RestKept DEF ProvInv, SetUp, SetupEnds, SetupBreaks
    <2> QED BY <2>1, <2>2
  <1>5. CallsOK' /\ NotifierOK' /\ ChannelCurrent'
    BY <1>3, CallsKept, NotifierKeptOK, ChannelKept DEF ProvInv
  <1> QED BY <1>2, <1>3, <1>4, <1>5, ProviderOnly

LEMMA CallOnly ==
  ASSUME ProvInv, NEW k \in Calls,
         \/ Start(k) \/ Encoded(k) \/ Retry(k) \/ Begins(k) \/ Publishes(k)
         \/ Connects(k) \/ Taken(k) \/ Confirmed(k) \/ Unconfirmed(k)
  PROVE  ProvInv'
  <1>1. CallsOK' /\ handled' \in [Recs -> BOOLEAN] /\ NotifierOK'
        /\ UNCHANGED <<connVars, rec, bootOn, configured, subscribers, consumers, notifier, app,
                       errors>>
    BY CallStepOK
  <1>2. RecsOK' /\ RecsCurrent' /\ ChannelCurrent' /\ RestTyped'
    BY <1>1, RecsKept, CurrentKept, ChannelKept DEF ProvInv, RecsOK, RestTyped
  <1> QED BY <1>1, <1>2, ProviderOnly

LEMMA ChannelStepOK ==
  ASSUME ProvInv, OpeningStarts \/ OpeningFails \/ Opens \/ ChannelError \/ Boot
  PROVE  ProvInv'
  <1> USE DEF ProvInv
  <1>1. CASE OpeningStarts
    <2>1. NotifierOK'
      BY <1>1 DEF OpeningStarts, NotifierOK, OpeningStates, ConnInv, ConnTyped
    <2>2. RecsOK' /\ RecsCurrent' /\ CallsOK' /\ ChannelCurrent' /\ RestTyped'
      BY <1>1, RecsKept, CurrentKept, CallsKept, ChannelKept, RestKept DEF OpeningStarts, RecsOK
    <2> QED BY <1>1, <2>1, <2>2, ProviderOnly DEF OpeningStarts
  <1>2. CASE OpeningFails
    <2>1. NotifierOK'
      BY <1>2 DEF OpeningFails, NotifierOK, OpeningStates
    <2>2. CallsOK' /\ RecsOK' /\ RecsCurrent'
      BY <1>2, OpeningFailsCalls, OpeningFailsRecs
    <2>3. ChannelCurrent' /\ RestTyped'
      BY <1>2, ChannelKept, RestKept DEF OpeningFails
    <2> QED BY <1>2, <2>1, <2>2, <2>3, ProviderOnly DEF OpeningFails
  <1>3. CASE Opens
    <2>1. CallsOK' /\ RecsOK' /\ RecsCurrent' /\ ChannelCurrent' /\ NotifierOK'
      BY <1>3, OpensCalls, OpensRecs, OpensChannel
    <2>2. RestTyped'
      BY <1>3, RestKept DEF Opens
    <2> QED BY <1>3, <2>1, <2>2, ProviderOnly DEF Opens
  <1>4. CASE ChannelError
    <2>1. notifier' = [notifier EXCEPT !.open = FALSE] /\ UNCHANGED <<connVars, opening>>
      BY <1>4 DEF ChannelError
    <2>2. NotifierOK' /\ ChannelCurrent'
      BY <2>1 DEF NotifierOK, ChannelCurrent
    <2>3. errors.channel + 1 \in 0 .. MaxChannelErrors
      BY <1>4, ProviderAssumption DEF ChannelError, RestTyped
    <2>4. RestTyped'
      BY <1>4, <2>3 DEF ChannelError, RestTyped
    <2>5. CallsOK' /\ RecsOK' /\ RecsCurrent'
      BY <1>4, ChannelErrorCalls, RecsKept, CurrentKept DEF ChannelError, RecsOK
    <2> QED BY <2>1, <2>2, <2>4, <2>5, ProviderOnly
  <1>5. CASE Boot
    <2>1. RecsOK' /\ RecsCurrent'
      BY <1>5, BootOK
    <2>2. CallsOK' /\ ChannelCurrent' /\ RestTyped' /\ NotifierOK'
      BY <1>5, CallsKept, ChannelKept, RestKept, OpenNotifierOK DEF Boot
    <2> QED BY <1>5, <2>1, <2>2, ProviderOnly DEF Boot
  <1> QED BY <1>1, <1>2, <1>3, <1>4, <1>5

LEMMA ConnectorStepOK ==
  ASSUME ProvInv, ConnInv',
         \/ ProvOpened \/ ProvOpenFails \/ ProvBackoff \/ ProvDiscarded \/ ProvClose \/ HooksDone
         \/ \E c \in Conns : ProvClosed(c) \/ (Lost(c) /\ UNCHANGED provVars)
  PROVE  ProvInv'
  <1> USE DEF ProvInv
  <1>1. CASE ProvOpened
    <2>1. RecsOK' /\ RecsCurrent' /\ ChannelCurrent' /\ NotifierOK'
      BY <1>1, ProvOpenedOK, ProvOpenedChannel
    <2>2. CallsOK' /\ RestTyped'
      BY <1>1, CallsKept, RestKept DEF ProvOpened
    <2> QED BY <2>1, <2>2
  <1>2. CASE \E c \in Conns : ProvClosed(c)
    <2>1. PICK c \in Conns : ProvClosed(c)
      BY <1>2
    <2>2. ChannelCurrent' /\ NotifierOK'
      BY <2>1, ProvClosedChannel
    <2>3. RecsOK' /\ CallsOK' /\ RestTyped'
      BY <2>1, RecsKept, CallsKept, RestKept DEF ProvClosed
    <2>4. /\ UNCHANGED <<connection, configured, rec>> /\ (connected' => connected)
          /\ \A b \in Conns : wire'[b] = "none" => wire[b] = "none"
      BY <2>1 DEF ProvClosed, Closed, ConnInv, ConnTyped
    <2>5. RecsCurrent'
      BY <2>4 DEF RecsCurrent
    <2> QED BY <2>2, <2>3, <2>5
  <1>3. CASE ProvOpenFails \/ ProvBackoff \/ ProvDiscarded \/ ProvClose
    <2>1. OpenFails \/ Backoff \/ Discarded \/ Close
      BY <1>3 DEF ProvOpenFails, ProvBackoff, ProvDiscarded, ProvClose
    <2>2. UNCHANGED provVars /\ (connected' => connected)
      BY <1>3 DEF ProvOpenFails, ProvBackoff, ProvDiscarded, ProvClose, OpenFails, Backoff,
                  Discarded, Close
    <2> QED BY <2>1, <2>2, ConnectorKeeps, ConnectorOnly
  <1>4. CASE \E c \in Conns : Lost(c) /\ UNCHANGED provVars
    <2>1. PICK c \in Conns : Lost(c) /\ UNCHANGED provVars
      BY <1>4
    <2>2. connected' = connected
      BY <2>1 DEF Lost
    <2>3. /\ connection' = connection
          /\ \A b \in Conns : wire'[b] = "none" => wire[b] = "none"
          /\ wire'[connection] = "gone" => wire[connection] = "gone"
      BY <2>1, ConnectorKeeps
    <2> QED BY <2>1, <2>2, <2>3, ConnectorOnly
  <1>5. CASE HooksDone
    BY <1>5, HooksDoneOK
  <1> QED BY <1>1, <1>2, <1>3, <1>4, <1>5

LEMMA RejectionOK ==
  ASSUME ProvInv, ConnInv', NEW r \in Recs, UnhandledRejection(r)
  PROVE  ProvInv'
  <1>1. UNCHANGED <<wire, connection, connected, rec, bootOn, configured, handled, subscribers,
                    consumers, notifier, opening, calls, stored, unrouted, errors>>
    BY DEF UnhandledRejection
  <1>2. RecsOK' /\ CallsOK' /\ NotifierOK'
    BY <1>1, RecsKept, CallsKept, NotifierKeptOK DEF ProvInv
  <1>3. RecsCurrent' /\ ChannelCurrent'
    BY <1>1 DEF ProvInv, RecsCurrent, ChannelCurrent
  <1>4. RestTyped'
    BY <1>1 DEF UnhandledRejection, ProvInv, RestTyped
  <1> QED BY <1>2, <1>3, <1>4 DEF ProvInv

LEMMA ProvInvStep == ProvInv /\ [ProvNext]_allVars => ProvInv'
  <1> SUFFICES ASSUME ProvInv, [ProvNext]_allVars PROVE ProvInv'
    OBVIOUS
  <1>1. ConnInv'
    BY ProvStepIsConnStep, ConnInvStep DEF ConnStep, allVars, ProvInv
  <1>2. CASE Microtask
    BY <1>1, <1>2, ConnectorStepOK, ChannelStepOK, RecStepOK, CallOnly DEF Microtask, CallMicrotask
  <1>3. CASE Macrotask
    BY <1>1, <1>3, ConnectorStepOK, ChannelStepOK, RecStepOK, CallOnly DEF Macrotask
  <1>4. CASE \E r \in Recs : UnhandledRejection(r)
    BY <1>1, <1>4, RejectionOK
  <1>5. CASE \E c \in Conns : Lost(c) /\ ~exited /\ UNCHANGED provVars
    BY <1>1, <1>5, ConnectorStepOK
  <1>6. CASE UNCHANGED allVars
    <2>1. UNCHANGED <<connVars, provVars>>
      BY <1>6 DEF allVars
    <2>2. RecsOK' /\ CallsOK' /\ NotifierOK' /\ RestTyped'
      BY <2>1, RecsKept, CallsKept, NotifierKeptOK, RestKept DEF ProvInv, provVars
    <2>3. RecsCurrent' /\ ChannelCurrent'
      BY <2>1, CurrentKept, ChannelKept DEF ProvInv, RecsOK, provVars
    <2> QED BY <1>1, <2>2, <2>3 DEF ProvInv
  <1> QED BY <1>2, <1>3, <1>4, <1>5, <1>6 DEF ProvNext

-------------------------------------------------------------------------------
(* What the invariant says of the properties the runs check.                    *)
LEMMA ProvInvMeans ==
  ProvInv => /\ ProvTypeOK /\ ConfirmedTaken /\ RetriedOnce /\ ChannelCurrent /\ Restored
             /\ OneConnection /\ LossHandled /\ ReadyMeansUsable
  <1> SUFFICES ASSUME ProvInv
               PROVE  ProvTypeOK /\ ConfirmedTaken /\ RetriedOnce /\ Restored
    BY ConnInvMeans DEF ProvInv
  <1>1. ConnTypeOK
    BY ConnInvMeans DEF ProvInv
  <1>2. calls \in [Calls -> CallType] /\ stored \in [Calls -> 0 .. 2] /\ unrouted \in [Calls -> 0 .. 2]
    BY DEF ProvInv, CallsOK
  <1>3. ProvTypeOK
    BY <1>1, <1>2 DEF ProvInv, RecsOK, RecsTyped, NotifierOK, RestTyped, ProvTypeOK
  <1>4. ConfirmedTaken /\ RetriedOnce
    BY DEF ProvInv, CallsOK, CallOK, Copies, ConfirmedTaken, RetriedOnce
  <1>5. Restored
    <2> SUFFICES ASSUME connected, configured # 0
                 PROVE  /\ configured = connection /\ rec[configured] = "ok"
                        /\ subscribers => consumers[connection]
                                             \in 1 .. (IF connection = bootOn THEN 2 ELSE 1)
      BY DEF Restored
    <2>1. configured = connection /\ rec[connection] = "ok" /\ connection \in Conns
      BY DEF ProvInv, RecsCurrent, ConnInv, ConnTyped
    <2>2. /\ consumers[connection] \in 0 .. 2 /\ consumers[connection] <= Ran(connection)
          /\ subscribers => consumers[connection] # 0
      BY <2>1 DEF ProvInv, RecsOK, RecsTyped, SetupsCounted
    <2>3. Ran(connection) <= IF connection = bootOn THEN 2 ELSE 1
      BY DEF Ran
    <2>4. Ran(connection) \in 0 .. 2
      BY DEF Ran
    <2> QED BY <2>1, <2>2, <2>3, <2>4
  <1> QED BY <1>3, <1>4, <1>5

LEMMA ProvInvariant == ProvSpec => []ProvInv
  BY ProvInvInit, ProvInvStep, PTL DEF ProvSpec

(* No step of the provider (provider/mod.ts) takes its state out of its types:  *)
(* no connection has its consumers set up a third time, no call tries a third   *)
(* time or has the broker store a third copy.                                   *)
THEOREM ProvTypeCorrect == ProvSpec => []ProvTypeOK
  BY ProvInvariant, ProvInvMeans, PTL

(* #publish resolves true only for a message that the broker has taken, whatever*)
(* connections, channels and recoveries its two attempts met: it stored a copy, *)
(* or it had no queue for it.                                                   *)
THEOREM TrueMeansTaken == ProvSpec => []ConfirmedTaken
  BY ProvInvariant, ProvInvMeans, PTL

(* The retry of #publish: a call that has begun to publish fails in its second  *)
(* attempt only.                                                                *)
THEOREM FailsInTheRetryOnly == ProvSpec => []RetriedOnce
  BY ProvInvariant, ProvInvMeans, PTL

(* #notifierOpen never vouches for the channel of a connection that was         *)
(* replaced.                                                                    *)
THEOREM NotifierIsCurrent == ProvSpec => []ChannelCurrent
  BY ProvInvariant, ProvInvMeans, PTL

(* When the connector says it is healthy after a reconnection, #recover of that *)
(* very connection has ended well and, if the subscribers are known, has set up *)
(* its consumers: once, or twice if #setup ran on that connection too.          *)
THEOREM HealthyMeansRestored == ProvSpec => []Restored
  BY ProvInvariant, ProvInvMeans, PTL

(* The guarantees of the connector hold with the provider on top of it, and     *)
(* with the unhandled rejections that end the process.                          *)
THEOREM ProviderKeepsConnector ==
  ProvSpec => [](OneConnection /\ LossHandled /\ ReadyMeansUsable)
  BY ProvInvariant, ProvInvMeans, PTL
===============================================================================
