-------------------------------- MODULE GuiApp --------------------------------
(***************************************************************************)
(* What the desktop window says is connected                               *)
(* (pc-server/pc_server/gui.py, class GuiApp), and the receivers it starts *)
(* and stops.                                                              *)
(*                                                                         *)
(* The window never asks the receiver or the controller service.  Their    *)
(* threads put messages in a queue, which the Tk thread drains every 50    *)
(* ms; the user's clicks are handled between two drains.  A start makes a  *)
(* new UdpReceiver and ControllerService, called a bridge here, whose      *)
(* inside is modelled in Receiver and ControllerService: of them this      *)
(* module keeps who owns the pad, whom the user disconnected, and the      *)
(* service's session.  Clocks are abstracted: what the code does after a   *)
(* silence may happen when the PSP plays over no or another transport.     *)
(***************************************************************************)
EXTENDS SequencesExt

CONSTANTS
  UserMay,    \* what the user does: a subset of Clicks
  SocketFails,\* whether bind or recvfrom may raise an OSError
  MaxBridges, \* bound of the model: how many receivers are started
  MaxMessages \* bound of the model: how many messages wait in the queue

None       == "none"
Transports == {"wifi", "usb"}
Clicks     == {"disconnect", "authorize", "settings", "close"}

ASSUME GuiAssumption ==
  /\ UserMay \subseteq Clicks
  /\ SocketFails \in BOOLEAN
  /\ MaxBridges \in Nat \ {0}
  /\ MaxMessages \in Nat \ {0}

VARIABLES
  connected,      \* _connected_transport
  selected,       \* _selected_transport
  activeToken,    \* _active_token is not None
  running,        \* _running
  receiver,       \* _receiver and _controller_service: which bridge, or 0
  restartPending, \* _restart_pending
  startDue,       \* an after() callback of start_receiver is scheduled
  closing,        \* _closing
  polling,        \* the Tk thread is draining the queue
  messages,       \* _messages
  bridges,        \* every receiver and service that was started
  job,            \* what the thread of each transport does with a packet; one that
                  \* outlives its bridge is done before the next bridge's begins
  playing         \* the transport the PSP sends over

window == <<connected, selected, activeToken>>
life   == <<running, receiver, restartPending, startDue, closing>>
vars   == <<window, life, polling, messages, bridges, job, playing>>

\* phase is where the worker thread is: in UdpReceiver.run, past the service's
\* stop, or ended.  session is the transport of the service's session; alarm
\* says that the watchdog released a session and has yet to report it.
Bridge == [phase : {"run", "left", "ended"}, stopRequested : BOOLEAN,
           stopped : BOOLEAN, active : Transports \cup {None},
           blocked : SUBSET Transports, paired : BOOLEAN,
           session : Transports \cup {None}, alarm : BOOLEAN]

NewBridge(paired) ==
  [phase |-> "run", stopRequested |-> FALSE, stopped |-> FALSE, active |-> None,
   blocked |-> {}, paired |-> paired, session |-> None, alarm |-> FALSE]

\* A receiver thread has no packet, has routed one in a bridge, or has had it
\* accepted there and will report it.
Job == [step : {"idle", "routed", "accepted"}, bridge : 0..MaxBridges]
Idle == [step |-> "idle", bridge |-> 0]

\* Only the messages that change what the window says is connected, or whether
\* a receiver runs.
Message == ({"packet"} \X Transports) \cup ({"timeout"} \X {None})
             \cup ({"stopped"} \X (1..MaxBridges))

TypeOK ==
  /\ connected \in Transports \cup {None}
  /\ selected \in Transports
  /\ {activeToken, running, restartPending, startDue, closing, polling} \subseteq BOOLEAN
  /\ receiver \in 0..Len(bridges)
  /\ messages \in Seq(Message)
  /\ bridges \in Seq(Bridge)
  /\ Len(bridges) <= MaxBridges
  /\ job \in [Transports -> Job]
  /\ playing \in Transports \cup {None}

Init ==
  /\ connected = None /\ selected = "usb" /\ activeToken = FALSE
  /\ running = FALSE /\ receiver = 0 /\ restartPending = FALSE
  /\ startDue = TRUE                \* auto_start, gui.py:595-596
  /\ closing = FALSE /\ polling = FALSE
  /\ messages = <<>> /\ bridges = <<>>
  /\ job = [t \in Transports |-> Idle]
  /\ playing = None

Put(m) == messages' = Append(messages, m)

\* The queue has no bound; the model's is kept where what will be put begins.
Room == Len(messages) + Cardinality({t \in Transports : job[t] # Idle})
          + Cardinality({g \in DOMAIN bridges : bridges[g].alarm}) < MaxMessages

-----------------------------------------------------------------------------
(* The threads of a bridge.                                                *)

\* A packet is routed: its sender is not blocked, is paired if it is on Wi-Fi,
\* and owns the pad, or gets it because the PSP left the other transport.
Route(g, t) ==
  LET b == bridges[g] IN
  /\ playing = t /\ job[t] = Idle /\ Room
  /\ b.phase = "run" /\ ~b.stopRequested
  /\ t \notin b.blocked
  /\ t = "wifi" => b.paired
  /\ bridges' = [bridges EXCEPT ![g].active = t]
  /\ job' = [job EXCEPT ![t] = [step |-> "routed", bridge |-> g]]
  /\ UNCHANGED <<window, life, polling, messages, playing>>

\* Fault: only the packet that opens a session is reported.
HandleSnapshotReportsOnce(t) ==
  LET g == job[t].bridge IN
  /\ job[t].step = "routed"
  /\ IF bridges[g].stopped \/ bridges[g].session = t
     THEN job' = [job EXCEPT ![t] = Idle] /\ UNCHANGED bridges
     ELSE /\ job' = [job EXCEPT ![t].step = "accepted"]
          /\ bridges' = [bridges EXCEPT ![g].session = t]
  /\ UNCHANGED <<window, life, polling, messages, playing>>

\* apply_controller_state: handle_snapshot makes the sender the session, unless
\* the service was stopped ...
HandleSnapshot(t) ==
  LET g == job[t].bridge IN
  /\ job[t].step = "routed"
  /\ IF bridges[g].stopped
     THEN job' = [job EXCEPT ![t] = Idle] /\ UNCHANGED bridges
     ELSE /\ job' = [job EXCEPT ![t].step = "accepted"]
          /\ bridges' = [bridges EXCEPT ![g].session = t]
  /\ UNCHANGED <<window, life, polling, messages, playing>>

\* ... and afterwards, with no lock held, the window is told.
PutPacket(t) ==
  /\ job[t].step = "accepted"
  /\ Put(<<"packet", t>>)
  /\ job' = [job EXCEPT ![t] = Idle]
  /\ UNCHANGED <<window, life, polling, bridges, playing>>

\* check_timeout releases a silent session, and reports it after the unlock.  The
\* PSP may be playing, its packets lost or held up in their thread.
CheckTimeout(g) ==
  /\ bridges[g].session # None
  /\ ~bridges[g].alarm              \* the watchdog is one thread
  /\ Room
  /\ bridges' = [bridges EXCEPT ![g].session = None, ![g].alarm = TRUE]
  /\ UNCHANGED <<window, life, polling, messages, job, playing>>

PutTimeout(g) ==
  /\ bridges[g].alarm
  /\ Put(<<"timeout", None>>)
  /\ bridges' = [bridges EXCEPT ![g].alarm = FALSE]
  /\ UNCHANGED <<window, life, polling, job, playing>>

\* _maintain_clients: a silent client loses the pad, and after the retention
\* time is forgotten, and with it that the user disconnected it.
MaintainClients(g, t) ==
  /\ playing # t
  /\ bridges[g].phase = "run"
  /\ t = bridges[g].active \/ t \in bridges[g].blocked
  /\ bridges' = [bridges EXCEPT
       ![g].active  = IF @ = t THEN None ELSE @,
       ![g].blocked = @ \ {t}]
  /\ UNCHANGED <<window, life, polling, messages, job, playing>>

\* A bridge whose loop has ended: of it nothing is read again but its alarm.
Left(b) == [NewBridge(FALSE) EXCEPT !.phase = "left", !.stopRequested = TRUE,
                                    !.stopped = TRUE, !.alarm = b.alarm]

\* The worker, which is also the UDP thread: run returns because a stop was
\* requested, or raises because the socket did; its USB thread may outlive it with a
\* packet (join(timeout=1.0)).  The service is stopped ...
WorkerLeaves(g) ==
  /\ bridges[g].phase = "run"
  /\ bridges[g].stopRequested \/ SocketFails
  /\ job["wifi"] = Idle
  /\ bridges' = [bridges EXCEPT ![g] = Left(@)]
  /\ UNCHANGED <<window, life, polling, messages, job, playing>>

\* ... and its end is reported.  The watchdog is not waited for if the Tk thread
\* stopped the service first, so that its alarm may be put later still.
WorkerPutsStopped(g) ==
  /\ bridges[g].phase = "left"
  /\ Put(<<"stopped", g>>)
  /\ bridges' = [bridges EXCEPT ![g].phase = "ended"]
  /\ UNCHANGED <<window, life, polling, job, playing>>

-----------------------------------------------------------------------------
(* The Tk thread: starting a receiver and draining the queue.              *)

\* Fault: a start does not look whether a receiver runs.
StartAgain ==
  /\ running' = TRUE
  /\ receiver' = Len(bridges) + 1
  /\ bridges' = Append(bridges, NewBridge(activeToken))

\* start_receiver, from the after() callback or from apply_settings: a receiver
\* and a service are made, with the code the user entered, unless one runs.
Start ==
  IF running \/ closing
  THEN UNCHANGED <<running, receiver, bridges>>
  ELSE /\ running' = TRUE
       /\ receiver' = Len(bridges) + 1
       /\ bridges' = Append(bridges, NewBridge(activeToken))

StartReceiver ==
  /\ startDue /\ ~polling
  /\ Len(bridges) < MaxBridges
  /\ startDue' = FALSE
  /\ Start
  /\ UNCHANGED <<window, restartPending, closing, polling, messages, job, playing>>

PollMessages ==
  /\ ~polling /\ messages # <<>>
  /\ polling' = TRUE
  /\ UNCHANGED <<window, life, messages, bridges, job, playing>>

PollEnds ==
  /\ polling /\ messages = <<>>
  /\ polling' = FALSE
  /\ UNCHANGED <<window, life, messages, bridges, job, playing>>

\* _apply_snapshot
ApplySnapshot ==
  /\ Head(messages)[1] = "packet"
  /\ connected' = Head(messages)[2]
  /\ selected' = Head(messages)[2]
  /\ UNCHANGED <<activeToken, life>>

\* Fault: the end of a session is not shown.
ApplyTimeoutKeepsConnection ==
  /\ Head(messages)[1] = "timeout"
  /\ UNCHANGED <<window, life>>

\* _apply_controller_event, the DISCONNECTED event whose reason is "timeout"
ApplyTimeout ==
  /\ Head(messages)[1] = "timeout"
  /\ connected' = IF running THEN None ELSE connected
  /\ UNCHANGED <<selected, activeToken, life>>

\* Fault: the end of a receiver does not start the one that is pending.
ApplyStoppedForgetsRestart ==
  /\ Head(messages)[1] = "stopped"
  /\ running' = FALSE /\ receiver' = 0
  /\ restartPending' = FALSE
  /\ UNCHANGED <<window, startDue, closing>>

\* "stopped": the receiver is forgotten, and a pending restart is scheduled.
ApplyStopped ==
  /\ Head(messages)[1] = "stopped"
  /\ IF Head(messages)[2] = receiver
     THEN /\ running' = FALSE /\ receiver' = 0
          /\ IF restartPending /\ ~closing
             THEN restartPending' = FALSE /\ startDue' = TRUE
             ELSE UNCHANGED <<restartPending, startDue>>
     ELSE UNCHANGED <<running, receiver, restartPending, startDue>>
  /\ UNCHANGED <<window, closing>>

ApplyMessage ==
  /\ polling /\ messages # <<>>
  /\ messages' = Tail(messages)
  /\ ApplySnapshot \/ ApplyTimeout \/ ApplyStopped
  /\ UNCHANGED <<polling, bridges, job, playing>>

-----------------------------------------------------------------------------
(* The Tk thread: the user's clicks, each in the frame that shows it.      *)

MayClick(click) == click \in UserMay /\ ~polling /\ ~closing

\* What the receiver and the service of bridge b are told: the pad's owner t is
\* released, or blocked, and the session given up.
Paired(b, paired) ==
  [b EXCEPT !.paired = paired, !.active = IF @ = "wifi" THEN None ELSE @,
            !.blocked = @ \ {"wifi"}]
Blocked(b) ==
  [b EXCEPT !.blocked = @ \cup ({b.active} \ {None}), !.active = None]
Released(b) == [b EXCEPT !.session = None]

\* The bridge of the window, if it has one that runs, becomes b.
Tell(b) ==
  bridges' = IF receiver = 0 \/ bridges[receiver].phase # "run" THEN bridges
             ELSE [bridges EXCEPT ![receiver] = b]

SelectTransport(t) ==
  /\ ~polling /\ ~closing
  /\ selected' = t
  /\ Tell([bridges[receiver] EXCEPT !.blocked = @ \ {t}])
  /\ UNCHANGED <<connected, activeToken, life, polling, messages, job, playing>>

\* Fault: the choice of the transport is dropped with the connection.
DisconnectForgetsChoice ==
  /\ MayClick("disconnect")
  /\ connected # None /\ connected = selected
  /\ connected' = None /\ selected' = None
  /\ UNCHANGED <<activeToken, life, polling, messages, bridges, job, playing>>

\* disconnect_current, shown while the connected transport is selected
DisconnectCurrent ==
  /\ MayClick("disconnect")
  /\ connected # None /\ connected = selected
  /\ connected' = None
  /\ activeToken' = IF connected = "wifi" THEN FALSE ELSE activeToken
  /\ Tell(Released(IF connected = "wifi" THEN Paired(bridges[receiver], FALSE)
                                          ELSE Blocked(bridges[receiver])))
  /\ UNCHANGED <<selected, life, polling, messages, job, playing>>

\* authorize, shown while Wi-Fi is selected and not connected
Authorize ==
  /\ MayClick("authorize")
  /\ selected = "wifi" /\ connected # "wifi"
  /\ activeToken' = TRUE
  /\ LET b == Paired(bridges[receiver], TRUE)
     IN  Tell(IF connected = "usb" THEN b ELSE Released(b))
  /\ UNCHANGED <<connected, selected, life, polling, messages, job, playing>>

\* apply_settings with settings that can be saved: the receiver that runs is
\* asked to stop and the service stopped, or else the next one is started.
ApplySettings ==
  /\ MayClick("settings")
  /\ Len(bridges) + (IF restartPending \/ startDue THEN 1 ELSE 0) < MaxBridges
  /\ IF running /\ receiver # 0
     THEN /\ restartPending' = TRUE
          /\ Tell([Released(bridges[receiver]) EXCEPT !.stopRequested = TRUE,
                                                      !.stopped = TRUE])
          /\ UNCHANGED <<running, receiver>>
     ELSE Start /\ UNCHANGED restartPending
  /\ UNCHANGED <<window, startDue, closing, polling, messages, job, playing>>

\* close: nothing is started afterwards, and the window is destroyed.
Close ==
  /\ MayClick("close")
  /\ closing' = TRUE
  /\ restartPending' = FALSE
  /\ Tell([Released(bridges[receiver]) EXCEPT !.stopRequested = TRUE, !.stopped = TRUE])
  /\ UNCHANGED <<window, running, receiver, startDue, polling, messages, job, playing>>

\* The user chooses the transport on the PSP, or the PSP goes away.
Play(t) ==
  /\ playing # t
  /\ playing' = t
  /\ UNCHANGED <<window, life, polling, messages, bridges, job>>

BridgeSteps(g) ==
  \/ \E t \in Transports : Route(g, t) \/ MaintainClients(g, t)
  \/ CheckTimeout(g) \/ PutTimeout(g)
  \/ WorkerLeaves(g) \/ WorkerPutsStopped(g)

TkSteps == StartReceiver \/ PollMessages \/ ApplyMessage \/ PollEnds

Next ==
  \/ \E g \in DOMAIN bridges : BridgeSteps(g)
  \/ \E t \in Transports : HandleSnapshot(t) \/ PutPacket(t) \/ SelectTransport(t)
  \/ TkSteps
  \/ DisconnectCurrent \/ Authorize \/ ApplySettings \/ Close
  \/ \E t \in Transports \cup {None} : Play(t)

Spec == Init /\ [][Next]_vars

\* Threads are scheduled, the watchdog and the Tk loop run for as long as the
\* process does, and a PSP that plays sends 60 packets a second; a session ends for
\* certain only if its PSP is silent.  Nothing is assumed of the user, of the PSP's
\* choices or of the socket.
Fairness ==
  /\ WF_vars(TkSteps)
  /\ \A t \in Transports : WF_vars(HandleSnapshot(t)) /\ WF_vars(PutPacket(t))
  /\ \A g \in 1..MaxBridges :
       /\ \A t \in Transports : WF_vars(g \in DOMAIN bridges /\ Route(g, t))
       /\ WF_vars(g \in DOMAIN bridges /\ (\/ playing # bridges[g].session /\ CheckTimeout(g)
                                           \/ PutTimeout(g)))
       /\ WF_vars(g \in DOMAIN bridges /\ (\/ bridges[g].stopRequested /\ WorkerLeaves(g)
                                           \/ WorkerPutsStopped(g)))

LiveSpec == Spec /\ Fairness

-----------------------------------------------------------------------------
(* Properties.                                                             *)

\* start_receiver, the "stopped" message and close: two receivers never run at once
\* (they would bind one port and drive two pads), and none that was not asked to stop
\* runs for a window that is closing, however clicks, restarts, failures and the end
\* of the window interleave (gui.py:1507, 1691-1694, 1829-1836).
OneReceiverRuns ==
  /\ \A g, h \in DOMAIN bridges :
       bridges[g].phase # "ended" /\ bridges[h].phase # "ended" => g = h
  /\ closing => \A g \in DOMAIN bridges : bridges[g].phase = "run" => bridges[g].stopRequested

\* Settings the user applies take effect: the restart they asked for is made,
\* unless the window is closed.
RestartIsMade ==
  \A n \in 1..MaxBridges :
    restartPending /\ Len(bridges) = n ~> closing \/ Len(bridges) > n

\* A PSP that goes on playing over a transport the receiver accepts is shown as
\* connected, whatever the user did to the connection before.
Accepted(t) == /\ running /\ ~restartPending /\ ~closing
               /\ bridges[receiver].phase = "run" /\ ~bridges[receiver].stopRequested
               /\ t \notin bridges[receiver].blocked
               /\ t = "wifi" => bridges[receiver].paired

PlayIsShown ==
  \A t \in Transports :
    <>[](playing = t /\ Accepted(t)) => []<>(connected = t)

\* gui.py:1787-1806: a session the watchdog released for its silence is shown as
\* disconnected, unless its receiver ends first.
LossIsShown ==
  \A g \in 1..MaxBridges :
    g \in DOMAIN bridges /\ bridges[g].alarm ~> connected = None \/ receiver # g
=============================================================================
