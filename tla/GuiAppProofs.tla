----------------------------- MODULE GuiAppProofs -----------------------------
(***************************************************************************)
(* Proof that the window never runs two receivers, for any number of them, *)
(* any length of the queue and whatever the user may click.                *)
(***************************************************************************)
EXTENDS GuiApp, SequenceTheorems, TLAPS

-----------------------------------------------------------------------------
(* The inductive invariant.                                                *)

\* A packet in a thread's hands was routed in a bridge that was started.
JobsAreOfBridges ==
  \A t \in Transports : job[t].step # "idle" => job[t].bridge \in DOMAIN bridges

\* _running is set while there is a _receiver.
RunningHasReceiver == running <=> receiver # 0

\* Of the bridges that were started, only the window's has not ended.
OthersHaveEnded == \A g \in DOMAIN bridges : bridges[g].phase # "ended" => g = receiver

\* The message that makes the window forget its bridge is true: it is the last
\* thing that the bridge's worker does.
StoppedHasEnded ==
  \A i \in DOMAIN messages :
    messages[i][1] = "stopped" =>
      /\ messages[i][2] \in DOMAIN bridges
      /\ bridges[messages[i][2]].phase = "ended"

\* A window that closes has asked its bridge to stop.
ClosingStops ==
  closing => \A g \in DOMAIN bridges : bridges[g].phase = "run" => bridges[g].stopRequested

IInv ==
  /\ TypeOK
  /\ JobsAreOfBridges
  /\ RunningHasReceiver
  /\ OthersHaveEnded
  /\ StoppedHasEnded
  /\ ClosingStops

\* The types of what is neither a bridge, a job nor a message.
WindowTyped ==
  /\ connected \in Transports \cup {None}
  /\ selected \in Transports
  /\ {activeToken, running, restartPending, startDue, closing, polling} \subseteq BOOLEAN
  /\ playing \in Transports \cup {None}

-----------------------------------------------------------------------------
(* Lemmas about the bridges and the queue.                                 *)

\* One bridge is replaced.
LEMMA BridgesReplaced ==
  ASSUME bridges \in Seq(Bridge), NEW g \in DOMAIN bridges, NEW b \in Bridge,
         bridges' = [bridges EXCEPT ![g] = b]
  PROVE  /\ bridges' \in Seq(Bridge)
         /\ Len(bridges') = Len(bridges) /\ DOMAIN bridges' = DOMAIN bridges
         /\ bridges'[g] = b
         /\ \A h \in DOMAIN bridges \ {g} : bridges'[h] = bridges[h]
<1>1. g \in 1..Len(bridges)
  BY LenProperties
<1>2. bridges' \in Seq(Bridge) /\ Len(bridges') = Len(bridges)
  BY <1>1, ExceptSeq
<1> QED BY <1>2

\* A message is put at the end of the queue.
LEMMA MessagePut ==
  ASSUME messages \in Seq(Message), NEW m \in Message, Put(m)
  PROVE  /\ messages' \in Seq(Message)
         /\ \A i \in DOMAIN messages' :
              messages'[i] # m => i \in DOMAIN messages /\ messages'[i] = messages[i]
<1>1. /\ messages' \in Seq(Message) /\ Len(messages') = Len(messages) + 1
      /\ \A i \in 1..Len(messages) : messages'[i] = messages[i]
      /\ messages'[Len(messages) + 1] = m
  BY AppendProperties DEF Put
<1>2. DOMAIN messages = 1..Len(messages) /\ DOMAIN messages' = 1..(Len(messages) + 1)
      /\ Len(messages) \in Nat
  BY <1>1, LenProperties
<1> QED BY <1>1, <1>2

\* What the window still has to read after a step: what it had to read, or a
\* message that does not say that a bridge has ended unless it has.
QueueIsTrue ==
  /\ messages' \in Seq(Message)
  /\ \A i \in DOMAIN messages' :
       \/ \E k \in DOMAIN messages : messages'[i] = messages[k]
       \/ messages'[i][1] # "stopped"
       \/ /\ messages'[i][2] \in DOMAIN bridges'
          /\ bridges'[messages'[i][2]].phase = "ended"

\* A step that replaces one bridge by one that has ended if it had, and that has
\* been asked to stop if it runs in a window that closes.
LEMMA BridgeStep ==
  ASSUME IInv, WindowTyped', QueueIsTrue, UNCHANGED <<running, receiver>>,
         job' \in [Transports -> Job],
         \A t \in Transports : job'[t].step # "idle" => job'[t].bridge \in DOMAIN bridges,
         NEW g \in DOMAIN bridges, NEW b \in Bridge, bridges' = [bridges EXCEPT ![g] = b],
         bridges[g].phase = "ended" => b.phase = "ended",
         closing' => closing \/ receiver = g,
         closing' /\ b.phase = "run" => b.stopRequested
  PROVE  IInv'
<1>1. /\ bridges' \in Seq(Bridge)
      /\ Len(bridges') = Len(bridges) /\ DOMAIN bridges' = DOMAIN bridges
      /\ bridges'[g] = b
      /\ \A h \in DOMAIN bridges \ {g} : bridges'[h] = bridges[h]
  BY BridgesReplaced DEF IInv, TypeOK
<1>2. \A h \in DOMAIN bridges : bridges'[h].phase # "ended" => bridges[h].phase # "ended"
  BY <1>1
<1>3. TypeOK'
  BY <1>1 DEF IInv, TypeOK, WindowTyped, QueueIsTrue
<1>4. JobsAreOfBridges' /\ RunningHasReceiver'
  BY <1>1 DEF IInv, JobsAreOfBridges, RunningHasReceiver
<1>5. OthersHaveEnded'
  BY <1>1, <1>2 DEF IInv, OthersHaveEnded
<1>6. StoppedHasEnded'
  BY <1>1, <1>2 DEF IInv, StoppedHasEnded, QueueIsTrue
<1>7. ClosingStops'
  BY <1>1 DEF IInv, OthersHaveEnded, ClosingStops
<1> QED BY <1>3, <1>4, <1>5, <1>6, <1>7 DEF IInv

\* A step that leaves the bridges, and which of them is the window's, alone.
LEMMA WindowStep ==
  ASSUME IInv, WindowTyped', QueueIsTrue, UNCHANGED <<running, receiver, bridges>>,
         job' \in [Transports -> Job],
         \A t \in Transports : job'[t].step # "idle" => job'[t].bridge \in DOMAIN bridges,
         closing' => closing \/ \A g \in DOMAIN bridges : bridges[g].phase # "run"
  PROVE  IInv'
<1>1. TypeOK'
  BY DEF IInv, TypeOK, WindowTyped, QueueIsTrue
<1>2. JobsAreOfBridges' /\ RunningHasReceiver' /\ OthersHaveEnded'
  BY DEF IInv, JobsAreOfBridges, RunningHasReceiver, OthersHaveEnded
<1>3. StoppedHasEnded'
  BY DEF IInv, StoppedHasEnded, QueueIsTrue
<1>4. ClosingStops'
  BY DEF IInv, ClosingStops
<1> QED BY <1>1, <1>2, <1>3, <1>4 DEF IInv

\* The queue is left alone, or gets a message.
LEMMA QueueUnchanged ==
  ASSUME IInv, UNCHANGED messages
  PROVE  QueueIsTrue
BY DEF IInv, TypeOK, QueueIsTrue

LEMMA QueueGets ==
  ASSUME IInv, NEW m \in Message, Put(m),
         m[1] = "stopped" => /\ m[2] \in DOMAIN bridges'
                             /\ bridges'[m[2]].phase = "ended"
  PROVE  QueueIsTrue
BY MessagePut DEF IInv, TypeOK, QueueIsTrue

\* A click tells the window's bridge something.
LEMMA TellStep ==
  ASSUME IInv, WindowTyped', UNCHANGED <<running, receiver, messages, job>>,
         NEW b, Tell(b),
         bridges[receiver] \in Bridge => b \in Bridge /\ (closing' => b.stopRequested)
  PROVE  IInv'
<1>1. QueueIsTrue
  BY QueueUnchanged
<1>2. /\ job' \in [Transports -> Job]
      /\ \A t \in Transports : job'[t].step # "idle" => job'[t].bridge \in DOMAIN bridges
  BY DEF IInv, TypeOK, JobsAreOfBridges
<1>3. CASE receiver = 0 \/ bridges[receiver].phase # "run"
  <2>1. UNCHANGED bridges
    BY <1>3 DEF Tell
  <2>2. \A g \in DOMAIN bridges : bridges[g].phase # "run"
    <3>1. 0 \notin DOMAIN bridges
      BY LenProperties DEF IInv, TypeOK
    <3> QED BY <1>3, <3>1 DEF IInv, OthersHaveEnded
  <2> QED BY <1>1, <1>2, <2>1, <2>2, WindowStep
<1>4. CASE receiver # 0 /\ bridges[receiver].phase = "run"
  <2>1. receiver \in DOMAIN bridges /\ bridges[receiver] \in Bridge
    BY <1>4, LenProperties, ElementOfSeq DEF IInv, TypeOK
  <2>2. b \in Bridge /\ bridges' = [bridges EXCEPT ![receiver] = b]
        /\ (closing' => b.stopRequested)
    BY <1>4, <2>1 DEF Tell
  <2> QED BY <1>1, <1>2, <1>4, <2>1, <2>2, BridgeStep
<1> QED BY <1>3, <1>4

\* A receiver is started in a window that has none and does not close.
LEMMA StartStep ==
  ASSUME IInv, WindowTyped', UNCHANGED <<closing, messages, job>>,
         Start, Len(bridges) < MaxBridges
  PROVE  IInv'
<1>1. CASE running \/ closing
  <2>1. UNCHANGED <<running, receiver, bridges>>
    BY <1>1 DEF Start
  <2> QED BY <2>1, QueueUnchanged, WindowStep DEF IInv, TypeOK, JobsAreOfBridges
<1>2. CASE ~(running \/ closing)
  <2> DEFINE b == NewBridge(activeToken)
             n == Len(bridges) + 1
  <2>1. running' = TRUE /\ receiver' = n /\ bridges' = Append(bridges, b)
    BY <1>2 DEF Start
  <2>2. b \in Bridge /\ b.phase = "run"
    BY DEF IInv, TypeOK, NewBridge, Bridge
  <2> HIDE DEF b
  <2>3. /\ bridges' \in Seq(Bridge) /\ Len(bridges') = n
        /\ \A g \in 1..Len(bridges) : bridges'[g] = bridges[g]
        /\ bridges'[n] = b
        /\ Len(bridges) \in Nat
    BY <2>1, <2>2, AppendProperties, LenProperties DEF IInv, TypeOK
  <2>4. DOMAIN bridges = 1..Len(bridges) /\ DOMAIN bridges' = 1..n
    BY <2>3, LenProperties DEF IInv, TypeOK
  <2>5. \A g \in DOMAIN bridges : g \in DOMAIN bridges' /\ bridges'[g] = bridges[g]
    BY <2>3, <2>4
  <2>6. \A g \in DOMAIN bridges : bridges[g].phase = "ended"
    <3>1. receiver = 0
      BY <1>2 DEF IInv, RunningHasReceiver
    <3> QED BY <2>3, <2>4, <3>1 DEF IInv, OthersHaveEnded
  <2>7. TypeOK'
    BY <2>1, <2>3, GuiAssumption DEF IInv, TypeOK, WindowTyped, GuiAssumption
  <2>8. JobsAreOfBridges' /\ RunningHasReceiver'
    BY <2>1, <2>3, <2>5 DEF IInv, JobsAreOfBridges, RunningHasReceiver
  <2>9. OthersHaveEnded'
    BY <2>1, <2>3, <2>4, <2>5, <2>6 DEF OthersHaveEnded
  <2>10. StoppedHasEnded'
    BY <2>5 DEF IInv, StoppedHasEnded
  <2>11. ClosingStops'
    BY <1>2 DEF ClosingStops
  <2> QED BY <2>7, <2>8, <2>9, <2>10, <2>11 DEF IInv
<1> QED BY <1>1, <1>2

-----------------------------------------------------------------------------
(* Every step preserves the inductive invariant.                           *)

\* The threads of a bridge.
LEMMA BridgeStepsStep ==
  ASSUME IInv, NEW g \in DOMAIN bridges, BridgeSteps(g)
  PROVE  IInv'
<1>1. /\ bridges[g] \in Bridge /\ g \in 1..MaxBridges
      /\ job \in [Transports -> Job]
      /\ \A t \in Transports : job[t].step # "idle" => job[t].bridge \in DOMAIN bridges
      /\ WindowTyped
  BY LenProperties, ElementOfSeq, GuiAssumption
  DEF IInv, TypeOK, WindowTyped, JobsAreOfBridges, GuiAssumption
<1>2. /\ closing => (bridges[g].phase = "run" => bridges[g].stopRequested)
  BY DEF IInv, ClosingStops
<1>3. UNCHANGED <<running, receiver, closing, connected, selected, activeToken,
                  restartPending, startDue, polling, playing>>
  BY DEF BridgeSteps, Route, MaintainClients, CheckTimeout, PutTimeout, WorkerLeaves,
     WorkerPutsStopped, life, window
<1>4. WindowTyped'
  BY <1>1, <1>3 DEF WindowTyped
<1>5. ASSUME NEW b \in Bridge, bridges' = [bridges EXCEPT ![g] = b], b.phase = bridges[g].phase,
             b.stopRequested = bridges[g].stopRequested, UNCHANGED messages,
             job' \in [Transports -> Job],
             \A t \in Transports : job'[t].step # "idle" => job'[t].bridge \in DOMAIN bridges
      PROVE  IInv'
  BY <1>2, <1>3, <1>4, <1>5, QueueUnchanged, BridgeStep
<1>6. ASSUME NEW t \in Transports, Route(g, t) PROVE IInv'
  <2> DEFINE b == [bridges[g] EXCEPT !.active = t]
             j == [step |-> "routed", bridge |-> g]
  <2>1. b \in Bridge /\ b.phase = bridges[g].phase /\ b.stopRequested = bridges[g].stopRequested
    BY <1>1 DEF Bridge
  <2>2. j \in Job
    BY <1>1, GuiAssumption DEF Job, GuiAssumption
  <2>3. bridges' = [bridges EXCEPT ![g] = b] /\ job' = [job EXCEPT ![t] = j]
        /\ UNCHANGED messages
    BY <1>6 DEF Route
  <2>4. j.bridge = g
    OBVIOUS
  <2> HIDE DEF b, j
  <2>5. /\ job' \in [Transports -> Job]
        /\ \A u \in Transports : job'[u].step # "idle" => job'[u].bridge \in DOMAIN bridges
    BY <1>1, <2>2, <2>3, <2>4
  <2> QED BY <1>5, <2>1, <2>3, <2>5
<1>7. ASSUME NEW t \in Transports, MaintainClients(g, t) PROVE IInv'
  <2> DEFINE b == [bridges[g] EXCEPT !.active  = IF @ = t THEN None ELSE @,
                                     !.blocked = @ \ {t}]
  <2>1. b \in Bridge /\ b.phase = bridges[g].phase /\ b.stopRequested = bridges[g].stopRequested
    BY <1>1 DEF Bridge
  <2>2. bridges' = [bridges EXCEPT ![g] = b] /\ UNCHANGED <<messages, job>>
    BY <1>7 DEF MaintainClients
  <2> HIDE DEF b
  <2> QED BY <1>1, <1>5, <2>1, <2>2
<1>8. CASE CheckTimeout(g)
  <2> DEFINE b == [bridges[g] EXCEPT !.session = None, !.alarm = TRUE]
  <2>1. b \in Bridge /\ b.phase = bridges[g].phase /\ b.stopRequested = bridges[g].stopRequested
    BY <1>1 DEF Bridge
  <2>2. bridges' = [bridges EXCEPT ![g] = b] /\ UNCHANGED <<messages, job>>
    BY <1>8 DEF CheckTimeout
  <2> HIDE DEF b
  <2> QED BY <1>1, <1>5, <2>1, <2>2
<1>9. CASE PutTimeout(g)
  <2> DEFINE b == [bridges[g] EXCEPT !.alarm = FALSE]
  <2>1. b \in Bridge /\ b.phase = bridges[g].phase /\ b.stopRequested = bridges[g].stopRequested
    BY <1>1 DEF Bridge
  <2>2. /\ bridges' = [bridges EXCEPT ![g] = b] /\ UNCHANGED job
        /\ Put(<<"timeout", None>>)
    BY <1>9 DEF PutTimeout
  <2> HIDE DEF b
  <2>3. <<"timeout", None>> \in Message
    BY DEF Message
  <2>4. QueueIsTrue
    BY <2>2, <2>3, QueueGets
  <2> QED BY <1>1, <1>2, <1>3, <1>4, <2>1, <2>2, <2>4, BridgeStep
<1>10. CASE WorkerLeaves(g)
  <2> DEFINE b == Left(bridges[g])
  <2>1. b \in Bridge /\ b.phase = "left" /\ b.stopRequested = TRUE
    BY <1>1 DEF Bridge, Left, NewBridge
  <2>2. /\ bridges' = [bridges EXCEPT ![g] = b] /\ UNCHANGED <<messages, job>>
        /\ bridges[g].phase = "run"
    BY <1>10 DEF WorkerLeaves
  <2> HIDE DEF b
  <2> QED BY <1>1, <1>3, <1>4, <2>1, <2>2, QueueUnchanged, BridgeStep
<1>11. CASE WorkerPutsStopped(g)
  <2> DEFINE b == [bridges[g] EXCEPT !.phase = "ended"]
             m == <<"stopped", g>>
  <2>1. b \in Bridge /\ b.phase = "ended"
    BY <1>1 DEF Bridge
  <2>2. /\ bridges' = [bridges EXCEPT ![g] = b] /\ UNCHANGED job
        /\ Put(m)
    BY <1>11 DEF WorkerPutsStopped
  <2>3. m \in Message /\ m[2] = g
    BY <1>1 DEF Message
  <2> HIDE DEF b, m
  <2>4. g \in DOMAIN bridges' /\ bridges'[g].phase = "ended"
    BY <2>1, <2>2, BridgesReplaced DEF IInv, TypeOK
  <2>5. QueueIsTrue
    BY <2>2, <2>3, <2>4, QueueGets
  <2> QED BY <1>1, <1>3, <1>4, <2>1, <2>2, <2>5, BridgeStep
<1> QED BY <1>6, <1>7, <1>8, <1>9, <1>10, <1>11 DEF BridgeSteps

\* A packet's thread: the service accepts it, and the window is told.
LEMMA JobStep ==
  ASSUME IInv, NEW t \in Transports, HandleSnapshot(t) \/ PutPacket(t)
  PROVE  IInv'
<1>1. /\ job \in [Transports -> Job]
      /\ \A u \in Transports : job[u].step # "idle" => job[u].bridge \in DOMAIN bridges
      /\ Idle \in Job /\ Idle.step = "idle"
  BY GuiAssumption DEF IInv, TypeOK, JobsAreOfBridges, Idle, Job, GuiAssumption
<1>2. WindowTyped' /\ UNCHANGED <<running, receiver, closing>>
  BY DEF IInv, TypeOK, WindowTyped, HandleSnapshot, PutPacket, life, window
<1>3. CASE PutPacket(t)
  <2>1. <<"packet", t>> \in Message /\ UNCHANGED bridges /\ Put(<<"packet", t>>)
    BY <1>3 DEF PutPacket, Message
  <2>2. QueueIsTrue
    BY <2>1, QueueGets
  <2>3. /\ job' \in [Transports -> Job]
        /\ \A u \in Transports : job'[u].step # "idle" => job'[u].bridge \in DOMAIN bridges
    BY <1>1, <1>3 DEF PutPacket
  <2> QED BY <1>2, <2>1, <2>2, <2>3, WindowStep
<1>4. CASE HandleSnapshot(t) /\ bridges[job[t].bridge].stopped
  <2>1. UNCHANGED <<bridges, messages>> /\ job' = [job EXCEPT ![t] = Idle]
    BY <1>4 DEF HandleSnapshot
  <2>2. /\ job' \in [Transports -> Job]
        /\ \A u \in Transports : job'[u].step # "idle" => job'[u].bridge \in DOMAIN bridges
    BY <1>1, <2>1
  <2> QED BY <1>2, <2>1, <2>2, QueueUnchanged, WindowStep
<1>5. CASE HandleSnapshot(t) /\ ~bridges[job[t].bridge].stopped
  <2> DEFINE g == job[t].bridge
             b == [bridges[g] EXCEPT !.session = t]
             j == [job[t] EXCEPT !.step = "accepted"]
  <2>1. /\ g \in DOMAIN bridges /\ job' = [job EXCEPT ![t] = j]
        /\ bridges' = [bridges EXCEPT ![g] = b] /\ UNCHANGED messages
    BY <1>1, <1>5 DEF HandleSnapshot
  <2>2. bridges[g] \in Bridge
    BY <2>1, LenProperties, ElementOfSeq DEF IInv, TypeOK
  <2>3. b \in Bridge /\ b.phase = bridges[g].phase /\ b.stopRequested = bridges[g].stopRequested
    BY <2>2 DEF Bridge
  <2>4. j \in Job /\ j.bridge = g
    BY <1>1 DEF Job
  <2>5. closing => (bridges[g].phase = "run" => bridges[g].stopRequested)
    BY <2>1 DEF IInv, ClosingStops
  <2> HIDE DEF b, j
  <2>6. /\ job' \in [Transports -> Job]
        /\ \A u \in Transports : job'[u].step # "idle" => job'[u].bridge \in DOMAIN bridges
    BY <1>1, <2>1, <2>4
  <2> QED BY <1>2, <2>1, <2>3, <2>5, <2>6, QueueUnchanged, BridgeStep
<1> QED BY <1>3, <1>4, <1>5

\* What is read from the queue: its head, the rest of it being left to read.
LEMMA HeadIsRead ==
  ASSUME IInv, messages # <<>>, messages' = Tail(messages)
  PROVE  /\ Head(messages) \in Message
         /\ Head(messages)[1] = "stopped" =>
              /\ Head(messages)[2] \in DOMAIN bridges
              /\ bridges[Head(messages)[2]].phase = "ended"
         /\ QueueIsTrue
<1>1. /\ Head(messages) \in Message /\ Head(messages) = messages[1]
      /\ messages' \in Seq(Message) /\ Len(messages') = Len(messages) - 1
      /\ \A i \in 1..Len(messages') : messages'[i] = messages[i + 1]
      /\ Len(messages) \in Nat \ {0}
  BY HeadTailProperties, EmptySeq, LenProperties DEF IInv, TypeOK
<1>2. DOMAIN messages = 1..Len(messages) /\ DOMAIN messages' = 1..Len(messages')
  BY <1>1, LenProperties DEF IInv, TypeOK
<1>3. 1 \in DOMAIN messages /\ \A i \in DOMAIN messages' : i + 1 \in DOMAIN messages
  BY <1>1, <1>2
<1>4. QueueIsTrue
  BY <1>1, <1>2, <1>3 DEF QueueIsTrue
<1> QED BY <1>1, <1>3, <1>4 DEF IInv, StoppedHasEnded

\* Draining the queue.
LEMMA ApplyMessageStep ==
  ASSUME IInv, ApplyMessage
  PROVE  IInv'
<1>1. /\ messages # <<>> /\ messages' = Tail(messages)
      /\ UNCHANGED <<polling, bridges, job, playing>>
  BY DEF ApplyMessage
<1>2. /\ Head(messages) \in Message
      /\ Head(messages)[1] = "stopped" =>
           /\ Head(messages)[2] \in DOMAIN bridges
           /\ bridges[Head(messages)[2]].phase = "ended"
      /\ QueueIsTrue
  BY <1>1, HeadIsRead
<1>3. /\ job' \in [Transports -> Job]
      /\ \A t \in Transports : job'[t].step # "idle" => job'[t].bridge \in DOMAIN bridges
  BY <1>1 DEF IInv, TypeOK, JobsAreOfBridges
<1>4. WindowTyped
  BY DEF IInv, TypeOK, WindowTyped
<1>5. CASE ApplySnapshot
  <2>1. Head(messages)[2] \in Transports
    BY <1>2, <1>5 DEF ApplySnapshot, Message
  <2>2. WindowTyped' /\ UNCHANGED <<running, receiver, closing>>
    BY <1>1, <1>4, <1>5, <2>1 DEF WindowTyped, ApplySnapshot, life
  <2> QED BY <1>1, <1>2, <1>3, <2>2, WindowStep
<1>6. CASE ApplyTimeout
  <2>1. WindowTyped' /\ UNCHANGED <<running, receiver, closing>>
    BY <1>1, <1>4, <1>6 DEF WindowTyped, ApplyTimeout, life
  <2> QED BY <1>1, <1>2, <1>3, <2>1, WindowStep
<1>7. CASE ApplyStopped /\ Head(messages)[2] # receiver
  <2>1. WindowTyped' /\ UNCHANGED <<running, receiver, closing>>
    BY <1>1, <1>4, <1>7 DEF WindowTyped, ApplyStopped, window
  <2> QED BY <1>1, <1>2, <1>3, <2>1, WindowStep
<1>8. CASE ApplyStopped /\ Head(messages)[2] = receiver
  <2>1. /\ running' = FALSE /\ receiver' = 0 /\ UNCHANGED <<connected, selected, activeToken, closing>>
        /\ restartPending' \in {restartPending, FALSE} /\ startDue' \in {startDue, TRUE}
        /\ bridges[receiver].phase = "ended"
    BY <1>2, <1>8 DEF ApplyStopped, window
  <2>2. WindowTyped'
    BY <1>1, <1>4, <2>1 DEF WindowTyped
  <2>3. \A g \in DOMAIN bridges : bridges[g].phase = "ended"
    BY <2>1 DEF IInv, OthersHaveEnded
  <2>4. TypeOK'
    BY <1>1, <1>2, <1>3, <2>1, <2>2, LenProperties DEF IInv, TypeOK, WindowTyped, QueueIsTrue
  <2>5. JobsAreOfBridges' /\ RunningHasReceiver' /\ OthersHaveEnded' /\ ClosingStops'
    BY <1>1, <1>3, <2>1, <2>3
    DEF JobsAreOfBridges, RunningHasReceiver, OthersHaveEnded, ClosingStops
  <2>6. StoppedHasEnded'
    BY <1>1, <1>2 DEF IInv, StoppedHasEnded, QueueIsTrue
  <2> QED BY <2>4, <2>5, <2>6 DEF IInv
<1> QED BY <1>5, <1>6, <1>7, <1>8 DEF ApplyMessage

\* The Tk thread's own steps.
LEMMA TkStepsStep ==
  ASSUME IInv, TkSteps
  PROVE  IInv'
<1>1. CASE StartReceiver
  <2>1. /\ Start /\ Len(bridges) < MaxBridges /\ UNCHANGED <<closing, messages, job>>
        /\ running' \in {running, TRUE}
    BY <1>1 DEF StartReceiver, Start
  <2>2. WindowTyped'
    BY <1>1, <2>1 DEF IInv, TypeOK, WindowTyped, StartReceiver, window
  <2> QED BY <2>1, <2>2, StartStep
<1>2. CASE PollMessages \/ PollEnds
  <2>1. UNCHANGED <<running, receiver, closing, bridges, messages, job>>
    BY <1>2 DEF PollMessages, PollEnds, life
  <2>2. WindowTyped'
    BY <1>2 DEF IInv, TypeOK, WindowTyped, PollMessages, PollEnds, life, window
  <2> QED BY <2>1, <2>2, QueueUnchanged, WindowStep DEF IInv, TypeOK, JobsAreOfBridges
<1> QED BY <1>1, <1>2, ApplyMessageStep DEF TkSteps

\* What a click makes of a bridge is a bridge.
LEMMA ToldBridges ==
  ASSUME NEW b \in Bridge
  PROVE  /\ Released(b) \in Bridge /\ Blocked(b) \in Bridge
         /\ \A paired \in BOOLEAN : Paired(b, paired) \in Bridge
         /\ \A t \in Transports : [b EXCEPT !.blocked = @ \ {t}] \in Bridge
         /\ [b EXCEPT !.stopRequested = TRUE, !.stopped = TRUE] \in Bridge
<1>1. /\ Released(b) \in Bridge
      /\ \A t \in Transports : [b EXCEPT !.blocked = @ \ {t}] \in Bridge
      /\ [b EXCEPT !.stopRequested = TRUE, !.stopped = TRUE] \in Bridge
  BY DEF Bridge, Released
<1>2. Blocked(b) \in Bridge
  BY DEF Bridge, Blocked
<1>3. \A paired \in BOOLEAN : Paired(b, paired) \in Bridge
  BY DEF Bridge, Paired
<1> QED BY <1>1, <1>2, <1>3

\* The user's clicks.
Clicked == \/ \E t \in Transports : SelectTransport(t)
           \/ DisconnectCurrent \/ Authorize \/ ApplySettings \/ Close

LEMMA ClickStep ==
  ASSUME IInv, Clicked
  PROVE  IInv'
<1>0. WindowTyped
  BY DEF IInv, TypeOK, WindowTyped
<1> DEFINE r == bridges[receiver]
<1>1. ASSUME NEW t \in Transports, SelectTransport(t) PROVE IInv'
  <2>1. Tell([r EXCEPT !.blocked = @ \ {t}])
        /\ UNCHANGED <<running, receiver, messages, job, closing>> /\ ~closing
    BY <1>1 DEF SelectTransport, life
  <2>2. WindowTyped'
    BY <1>0, <1>1 DEF WindowTyped, SelectTransport, life
  <2> QED BY <2>1, <2>2, ToldBridges, TellStep
<1>2. CASE DisconnectCurrent
  <2> DEFINE b == Released(IF connected = "wifi" THEN Paired(r, FALSE) ELSE Blocked(r))
  <2>1. Tell(b) /\ UNCHANGED <<running, receiver, messages, job, closing>> /\ ~closing
    BY <1>2 DEF DisconnectCurrent, MayClick, life
  <2>2. WindowTyped'
    BY <1>0, <1>2 DEF WindowTyped, DisconnectCurrent, life
  <2>3. r \in Bridge => b \in Bridge
    BY ToldBridges
  <2> HIDE DEF b
  <2> QED BY <2>1, <2>2, <2>3, TellStep
<1>3. CASE Authorize
  <2> DEFINE b == IF connected = "usb" THEN Paired(r, TRUE) ELSE Released(Paired(r, TRUE))
  <2>1. Tell(b) /\ UNCHANGED <<running, receiver, messages, job, closing>> /\ ~closing
    BY <1>3 DEF Authorize, MayClick, life
  <2>2. WindowTyped'
    BY <1>0, <1>3 DEF WindowTyped, Authorize, life
  <2>3. r \in Bridge => b \in Bridge
    BY ToldBridges
  <2> HIDE DEF b
  <2> QED BY <2>1, <2>2, <2>3, TellStep
<1>4. CASE ApplySettings /\ running /\ receiver # 0
  <2> DEFINE b == [Released(r) EXCEPT !.stopRequested = TRUE, !.stopped = TRUE]
  <2>1. Tell(b) /\ UNCHANGED <<running, receiver, messages, job, closing>> /\ ~closing
    BY <1>4 DEF ApplySettings, MayClick
  <2>2. WindowTyped'
    BY <1>0, <1>4 DEF WindowTyped, ApplySettings, window
  <2>3. r \in Bridge => b \in Bridge
    BY ToldBridges
  <2> HIDE DEF b
  <2> QED BY <2>1, <2>2, <2>3, TellStep
<1>5. CASE ApplySettings /\ ~(running /\ receiver # 0)
  <2>1. /\ Start /\ UNCHANGED <<messages, job, closing, restartPending>>
        /\ running' \in {running, TRUE}
    BY <1>5 DEF ApplySettings, Start
  <2>2. Len(bridges) < MaxBridges
    BY <1>5, LenProperties, GuiAssumption DEF IInv, TypeOK, ApplySettings, GuiAssumption
  <2>3. WindowTyped'
    BY <1>0, <1>5, <2>1 DEF WindowTyped, ApplySettings, window
  <2> QED BY <2>1, <2>2, <2>3, StartStep
<1>6. CASE Close
  <2> DEFINE b == [Released(r) EXCEPT !.stopRequested = TRUE, !.stopped = TRUE]
  <2>1. Tell(b) /\ UNCHANGED <<running, receiver, messages, job>>
    BY <1>6 DEF Close
  <2>2. WindowTyped'
    BY <1>0, <1>6 DEF WindowTyped, Close, window
  <2>3. r \in Bridge => b \in Bridge
    BY ToldBridges
  <2>4. r \in Bridge => b.stopRequested
    BY DEF Bridge, Released
  <2> HIDE DEF b
  <2> QED BY <2>1, <2>2, <2>3, <2>4, TellStep
<1> QED BY <1>1, <1>2, <1>3, <1>4, <1>5, <1>6 DEF Clicked

LEMMA InitIInv == Init => IInv
<1> SUFFICES ASSUME Init PROVE IInv
  OBVIOUS
<1>1. messages \in Seq(Message) /\ bridges \in Seq(Bridge) /\ Len(bridges) = 0
      /\ DOMAIN messages = {} /\ DOMAIN bridges = {}
  BY DEF Init
<1>2. job \in [Transports -> Job]
  BY GuiAssumption DEF Init, Job, Idle, GuiAssumption
<1>3. WindowTyped
  BY DEF Init, WindowTyped, Transports
<1>4. TypeOK
  BY <1>1, <1>2, <1>3, GuiAssumption DEF Init, TypeOK, WindowTyped, GuiAssumption
<1> QED BY <1>1, <1>4 DEF Init, IInv, JobsAreOfBridges, RunningHasReceiver, OthersHaveEnded,
           StoppedHasEnded, ClosingStops, Idle

LEMMA NextIInv == IInv /\ [Next]_vars => IInv'
<1> SUFFICES ASSUME IInv, [Next]_vars PROVE IInv'
  OBVIOUS
<1>1. ASSUME NEW t \in Transports \cup {None}, Play(t) PROVE IInv'
  <2>1. UNCHANGED <<running, receiver, closing, bridges, messages, job>>
    BY <1>1 DEF Play, life
  <2>2. WindowTyped'
    BY <1>1 DEF IInv, TypeOK, WindowTyped, Play, life, window
  <2> QED BY <2>1, <2>2, QueueUnchanged, WindowStep DEF IInv, TypeOK, JobsAreOfBridges
<1>2. CASE UNCHANGED vars
  <2>1. UNCHANGED <<running, receiver, closing, bridges, messages, job>>
    BY <1>2 DEF vars, life
  <2>2. WindowTyped'
    BY <1>2 DEF IInv, TypeOK, WindowTyped, vars, life, window
  <2> QED BY <2>1, <2>2, QueueUnchanged, WindowStep DEF IInv, TypeOK, JobsAreOfBridges
<1> QED BY <1>1, <1>2, BridgeStepsStep, JobStep, TkStepsStep, ClickStep DEF Next, Clicked

-----------------------------------------------------------------------------
(* The theorems.                                                           *)

\* Every variable has its type in every reachable state: no packet is in the hands
\* of a receiver that was never made, and nothing is read of one (gui.py:1499-1870).
THEOREM TypeCorrect == Spec => []TypeOK
<1>1. IInv => TypeOK
  BY DEF IInv
<1> QED BY <1>1, InitIInv, NextIInv, PTL DEF Spec

\* Two receivers never run at once, and none that was not asked to stop runs for a
\* window that closes (gui.py:1507, 1691-1694, 1829-1836), for any number of
\* receivers, any queue and any clicks.
THEOREM OneReceiverRunsHolds == Spec => []OneReceiverRuns
<1>1. IInv => OneReceiverRuns
  BY DEF IInv, OthersHaveEnded, ClosingStops, OneReceiverRuns
<1> QED BY <1>1, InitIInv, NextIInv, PTL DEF Spec
=============================================================================
