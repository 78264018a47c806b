------------------------------ MODULE Diagnosis ------------------------------
(***************************************************************************)
(* The Connection Doctor: what the window advises the user to check        *)
(* (pc-server/pc_server/connection_doctor.py, and in gui.py start_receiver,*)
(* authorize, clear_pairing, disconnect_current, retry_gamepad,            *)
(* apply_settings, _poll_messages, _apply_receiver_stage and               *)
(* _apply_controller_event).                                               *)
(*                                                                         *)
(* The doctor ticks milestones that other threads report through the       *)
(* window's queue; the user's clicks take ticks back.  The milestones of a *)
(* receiver's life (PORT BOUND, GAMEPAD CREATED) are reported once, those  *)
(* of a datagram with every datagram.                                      *)
(*                                                                         *)
(* One drain of the queue is one action.  Ticks commute, and of the        *)
(* gamepad's events the last one decides, so the queue is a record of      *)
(* what a drain will find.  Metrics, network diagnostics and texts are     *)
(* left out; who owns the pad, and the disconnection of the cable, are     *)
(* Receiver's, and when the watchdog retries is ControllerService's.       *)
(***************************************************************************)
EXTENDS Naturals

CONSTANTS
  Codes,   \* pairing codes
  PspCode  \* the one that the PSP shows

None == "none"
ASSUME DiagnosisAssumption == PspCode \in Codes /\ None \notin Codes

VARIABLES
  completed,      \* ConnectionDoctor.completed
  gamepadError,   \* gamepad_error is not None
  queue,          \* _messages
  token,          \* _active_token, and the receiver's _pairing_token
  life,           \* the receiver: "off", "due", "starting", "listening",
                  \* "leaving", "left"
  restartPending, \* _restart_pending
  ready,          \* the service's backend exists and has not failed
  retried,        \* the event that the watchdog has yet to emit
  job,            \* what the two receiving threads do
  told            \* history: the last controller event that was emitted

doctor  == <<completed, gamepadError>>
window  == <<token, restartPending>>
service == <<ready, retried, told>>
vars    == <<doctor, queue, window, life, service, job>>

PerDatagram == {"DATAGRAM_RECEIVED", "VALID_PACKET", "CODE_MATCHED", "ACK_SENT"}
DoctorStage == PerDatagram \cup {"PORT_BOUND", "GAMEPAD_CREATED"}
Threads     == {"wifi", "usb"}

\* old: the thread outlived its receiver.
Idle  == [step |-> "idle", old |-> FALSE]
Empty == [stages |-> {}, gamepad |-> None, stopped |-> FALSE]

Init ==
  /\ completed = {} /\ gamepadError = FALSE
  /\ queue = Empty
  /\ token = None /\ restartPending = FALSE
  /\ life = "due"
  /\ ready = FALSE /\ retried = None /\ told = None
  /\ job = [t \in Threads |-> Idle]

-----------------------------------------------------------------------------
(* connection_doctor.py                                                    *)

\* reset_pairing
ResetPairing(ticks) == ticks \ PerDatagram

\* guidance: the gamepad's failure, or the first milestone that is missing.
Guidance ==
  CASE gamepadError                       -> "gamepad failed"
    [] OTHER ->
  CASE "PORT_BOUND" \notin completed      -> "port"
    [] OTHER ->
  CASE "GAMEPAD_CREATED" \notin completed -> "driver"
    [] OTHER ->
  CASE completed \cap {"DATAGRAM_RECEIVED", "VALID_PACKET"} = {} -> "no data"
    [] OTHER ->
  CASE "VALID_PACKET" \notin completed    -> "invalid"
    [] OTHER ->
  CASE "CODE_MATCHED" \notin completed    -> "code"
    [] OTHER ->
  CASE "ACK_SENT" \notin completed        -> "not acknowledged"
    [] OTHER                              -> "passed"

-----------------------------------------------------------------------------
(* The Tk thread.                                                          *)

Put(event) == queue' = [queue EXCEPT !.gamepad = event] /\ told' = event
Outcome == IF ready' THEN "ready" ELSE "error"

\* ensure_backend on the Tk thread.
Preflight == ready' \in BOOLEAN /\ Put(Outcome)

\* start_receiver: a new doctor, a new receiver and service, and a preflight.
StartReceiver ==
  /\ completed' = {} /\ gamepadError' = FALSE
  /\ Preflight
  /\ life' = "starting"
  /\ UNCHANGED <<token, restartPending, retried, job>>

ScheduledStart == life = "due" /\ StartReceiver

\* Fault: a failure is not taken back by the next success.
ApplyControllerEventSticks(ticks, error) ==
  CASE queue.gamepad = "ready" -> <<ticks \cup {"GAMEPAD_CREATED"}, error>>
    [] queue.gamepad = "error" -> <<ticks \ {"GAMEPAD_CREATED"}, TRUE>>
    [] OTHER                   -> <<ticks, error>>

\* _apply_controller_event: mark or fail_gamepad.
ApplyControllerEvent(ticks, error) ==
  CASE queue.gamepad = "ready" -> <<ticks \cup {"GAMEPAD_CREATED"}, FALSE>>
    [] queue.gamepad = "error" -> <<ticks \ {"GAMEPAD_CREATED"}, TRUE>>
    [] OTHER                   -> <<ticks, error>>

\* _apply_receiver_stage marks the milestone of each stage.
ApplyReceiverStages == completed \cup queue.stages

\* _poll_messages; "stopped" schedules the start that is pending.
PollMessages ==
  /\ queue # Empty
  /\ LET applied == ApplyControllerEvent(ApplyReceiverStages, gamepadError)
     IN  completed' = applied[1] /\ gamepadError' = applied[2]
  /\ queue' = Empty
  /\ IF queue.stopped
     THEN /\ life' = IF restartPending THEN "due" ELSE "off"
          /\ restartPending' = FALSE
     ELSE UNCHANGED <<life, restartPending>>
  /\ UNCHANGED <<token, service, job>>

\* authorize, clear_pairing and the disconnection of Wi-Fi, which tell the receiver.
ChangePairing ==
  /\ token' \in Codes \cup {None}
  /\ completed' = ResetPairing(completed)
  /\ UNCHANGED <<gamepadError, queue, restartPending, life, service, job>>

\* retry_gamepad: ensure_backend, by force.  A stopped service refuses.
RetryGamepad ==
  /\ ~ready /\ ~restartPending
  /\ life \in {"starting", "listening", "leaving"}
  /\ Preflight
  /\ UNCHANGED <<doctor, window, retried, life, job>>

\* apply_settings: the receiver and the service are stopped, and a restart is
\* pending until the receiver has ended.
ApplySettings ==
  /\ life \notin {"off", "due"}
  /\ restartPending' = TRUE
  /\ life' = IF life = "listening" THEN "leaving" ELSE life
  /\ ready' = FALSE
  /\ UNCHANGED <<doctor, queue, token, retried, told, job>>

\* With none running it starts at once.
ApplySettingsAnew == life \in {"off", "due"} /\ StartReceiver

-----------------------------------------------------------------------------
(* The receiver's worker, and the service's watchdog.                      *)

Report(stages) == queue' = [queue EXCEPT !.stages = @ \cup stages]

Bind ==
  /\ life = "starting"
  /\ \/ /\ Report({"PORT_BOUND"})
        /\ life' = IF restartPending THEN "leaving" ELSE "listening"
     \/ life' = "leaving" /\ UNCHANGED queue
  /\ UNCHANGED <<doctor, window, service, job>>

\* A socket error ends the receive loop.
SocketFails ==
  /\ life = "listening" /\ job["wifi"] = Idle
  /\ life' = "leaving"
  /\ UNCHANGED <<doctor, queue, window, service, job>>

\* run ends, joining the USB thread for a second; the service is stopped.
Leave ==
  /\ life = "leaving" /\ job["wifi"] = Idle
  /\ job' = [job EXCEPT !["usb"].old = job["usb"] # Idle]
  /\ ready' = FALSE
  /\ queue' = [queue EXCEPT !.stopped = TRUE]
  /\ life' = "left"
  /\ UNCHANGED <<doctor, window, retried, told>>

\* The watchdog's retry after a failure ...
CheckBackendRetry ==
  /\ ~ready /\ retried = None /\ ~restartPending
  /\ life \in {"starting", "listening", "leaving"}
  /\ ready' \in BOOLEAN /\ retried' = Outcome
  /\ UNCHANGED <<doctor, queue, window, told, life, job>>

\* ... is reported after the service's lock was released.
EmitRetried ==
  /\ retried # None
  /\ Put(retried)
  /\ retried' = None
  /\ UNCHANGED <<doctor, window, ready, life, job>>

-----------------------------------------------------------------------------
(* A receiving thread takes a datagram through _process_data.              *)

To(t, step) ==
  job' = [job EXCEPT ![t] = IF step = "idle" THEN Idle ELSE [@ EXCEPT !.step = step]]

\* The USB thread starts before the port is bound, and reads until the worker has
\* stopped it on its way out.
Reads(t) == life = "listening" \/ (t = "usb" /\ life \in {"starting", "leaving"})

Arrive(t) ==
  /\ Reads(t) /\ job[t] = Idle
  /\ Report({"DATAGRAM_RECEIVED"})
  /\ To(t, "decode")
  /\ UNCHANGED <<doctor, window, life, service>>

Valid(t) ==
  /\ job[t].step = "decode"
  /\ Report({"VALID_PACKET"})
  /\ To(t, "route")
  /\ UNCHANGED <<doctor, window, life, service>>

Invalid(t) ==
  /\ job[t].step = "decode"
  /\ To(t, "idle")
  /\ UNCHANGED <<doctor, queue, window, life, service>>

HasPad(t) == ready /\ ~job[t].old

\* _handle_packet: over Wi-Fi the session has to be the paired one.
Refused(t) ==
  /\ job[t].step = "route" /\ t = "wifi" /\ token # PspCode
  /\ To(t, "idle")
  /\ UNCHANGED <<doctor, queue, window, life, service>>

\* It is, and its ACK follows if the pad is ready and this client's ...
Acknowledged(t) ==
  /\ job[t].step = "route" /\ (t = "usb" \/ token = PspCode)
  /\ HasPad(t)
  /\ Report({"CODE_MATCHED", "ACK_SENT"})
  /\ To(t, "idle")
  /\ UNCHANGED <<doctor, window, life, service>>

\* ... and unless one has just been sent, or the socket refuses it.
Unacknowledged(t) ==
  /\ job[t].step = "route" /\ (t = "usb" \/ token = PspCode)
  /\ Report({"CODE_MATCHED"})
  /\ To(t, "idle")
  /\ UNCHANGED <<doctor, window, life, service>>

\* The update of the pad fails in on_packet, ...
UpdateFails(t) ==
  /\ job[t].step = "route" /\ (t = "usb" \/ token = PspCode)
  /\ HasPad(t)
  /\ ready' = FALSE
  /\ To(t, "failed")
  /\ UNCHANGED <<doctor, queue, window, retried, told, life>>

\* ... which is reported after the service's lock was released.
EmitFailed(t) ==
  /\ job[t].step = "failed"
  /\ queue' = [queue EXCEPT !.gamepad = "error", !.stages = @ \cup {"CODE_MATCHED"}]
  /\ told' = "error"
  /\ To(t, "idle")
  /\ UNCHANGED <<doctor, window, ready, retried, life>>

Step(t) ==
  \/ Valid(t) \/ Invalid(t) \/ Refused(t) \/ Acknowledged(t) \/ Unacknowledged(t)
  \/ UpdateFails(t) \/ EmitFailed(t)

Click ==
  \/ ScheduledStart \/ ChangePairing \/ RetryGamepad \/ ApplySettings \/ ApplySettingsAnew

Next ==
  \/ Click \/ PollMessages \/ Bind \/ SocketFails \/ Leave
  \/ CheckBackendRetry \/ EmitRetried
  \/ \E t \in Threads : Arrive(t) \/ Step(t)

\* The window polls and the threads run; of the datagrams that may be acknowledged,
\* sixty a second, some are.
Fairness ==
  /\ WF_vars(PollMessages) /\ WF_vars(ScheduledStart \/ Bind \/ Leave)
  /\ \A t \in Threads : WF_vars(Step(t)) /\ SF_vars(Acknowledged(t))

Spec == Init /\ [][Next]_vars /\ Fairness

-----------------------------------------------------------------------------
(* Properties.                                                             *)

\* The advice comes true, whatever was clicked, restarted, failed and retried
\* before.  Once the receiver listens, the pad is ready and said so last, the PSP
\* plays and is authorized, and the user leaves it at that, all checks pass.  Once
\* the pad has failed and said so last, the advice is about it.
\* (Events are emitted without the service's lock, so that the last to be emitted
\* need not be the last that happened, gamepad.py:341-342, 413-414.)
GuidanceConverges ==
  LET Served(t) == /\ life = "listening" /\ ready /\ told = "ready"
                   /\ t = "usb" \/ token = PspCode
      Left == [][~ChangePairing]_vars
  IN  /\ \A t \in Threads :
           <>[]Served(t) /\ []<><<Valid(t)>>_vars /\ <>Left => <>[](Guidance = "passed")
      /\ <>[](life = "listening" /\ ~ready /\ told = "error")
           => <>[](Guidance = "gamepad failed")
=============================================================================
