-------------------------- MODULE ControllerService --------------------------
(***************************************************************************)
(* The virtual Xbox 360 pad of the PC bridge                               *)
(* (pc-server/pc_server/gamepad.py, class ControllerService).              *)
(*                                                                         *)
(* Three kinds of threads call it: the receiver threads (handle_snapshot,  *)
(* and stop when the receive loop ends), the Tk thread (ensure_backend,    *)
(* retry_backend, disconnect, stop) and its own watchdog thread            *)
(* (check_timeout, check_backend_retry).  One lock guards its fields, so   *)
(* an action here is one critical section; an operation made of several    *)
(* critical sections (stop, the automatic retry) is several actions and    *)
(* the other threads run in between.                                       *)
(*                                                                         *)
(* Clock readings only enter the code as differences, so the model keeps   *)
(* the differences: silence is clock() - _last_update_at and retryDue is   *)
(* _automatic_retry_due - clock().                                         *)
(***************************************************************************)
EXTENDS Naturals

CONSTANTS
  Addresses,       \* the client endpoints that snapshots come from
  Inputs,          \* the controller states a snapshot can carry
  Neutral,         \* the one of Inputs with every button up and stick centred
  NeutralTimeout,  \* silence after which the pad is neutralized (0.5 s)
  SessionTimeout,  \* silence after which the session is released (1.75 s)
  RetryDelay,      \* delay of the automatic backend retry (3 s)
  Faults,          \* the backend calls that may raise
  NoAddress,       \* _address is None
  Absent,          \* there is no virtual pad
  Never            \* _last_update_at / _automatic_retry_due is None

BackendCalls == {"connect", "apply", "neutralize"}

ASSUME ConstantsAssumption ==
  /\ NeutralTimeout \in Nat \ {0}
  /\ SessionTimeout \in Nat
  /\ NeutralTimeout < SessionTimeout       \* gamepad.py:263
  /\ RetryDelay \in Nat \ {0}              \* gamepad.py:267
  /\ Neutral \in Inputs
  /\ Absent \notin Inputs
  /\ NoAddress \notin Addresses
  /\ Never \notin Nat
  /\ Faults \subseteq BackendCalls

VARIABLES
  pad,           \* what the driver shows to games: Absent or one of Inputs
  backend,       \* _backend is not None
  address,       \* _address
  connected,     \* _connected
  silence,       \* time since _last_update_at, or Never
  neutralized,   \* _neutralized_for_silence
  backendFailed, \* _backend_failed
  retryDue,      \* time left until _automatic_retry_due, or Never
  retryUsed,     \* _automatic_retry_used
  stopped,       \* _stopped
  watchdog,      \* where the watchdog thread is
  stopping,      \* where the call of stop() is
  sender         \* the receiver still delivers snapshots

session  == <<address, connected, silence, neutralized>>
retry    == <<backendFailed, retryDue, retryUsed>>
vars     == <<pad, backend, session, retry, stopped, watchdog, stopping, sender>>

TypeOK ==
  /\ pad \in Inputs \cup {Absent}
  /\ backend \in BOOLEAN
  /\ address \in Addresses \cup {NoAddress}
  /\ connected \in BOOLEAN
  /\ silence \in 0..SessionTimeout \cup {Never}
  /\ neutralized \in BOOLEAN
  /\ backendFailed \in BOOLEAN
  /\ retryDue \in 0..RetryDelay \cup {Never}
  /\ retryUsed \in BOOLEAN
  /\ stopped \in BOOLEAN
  /\ watchdog \in {"wait", "timeout", "retry", "claimed", "done"}
  /\ stopping \in {"no", "marked", "signalled", "disconnected", "destroyed"}
  /\ sender \in BOOLEAN

Init ==
  /\ pad = Absent
  /\ backend = FALSE
  /\ address = NoAddress
  /\ connected = FALSE
  /\ silence = Never
  /\ neutralized = FALSE
  /\ backendFailed = FALSE
  /\ retryDue = Never
  /\ retryUsed = FALSE
  /\ stopped = FALSE
  /\ watchdog = "wait"
  /\ stopping = "no"
  /\ sender = TRUE

-----------------------------------------------------------------------------
(* Helpers that run under the lock.                                        *)

\* backend.neutralize() inside try/except: either the pad is neutral, or the
\* call raised, the exception was logged and the pad kept its last report.
NeutralizePad ==
  \/ pad' = Neutral
  \/ "neutralize" \in Faults /\ pad' = pad

\* _release_session_locked resets the session fields ...
ClearSession ==
  /\ address' = NoAddress
  /\ connected' = FALSE
  /\ silence' = Never
  /\ neutralized' = FALSE

\* Fault: the session is given up and the pad left as it was.
ReleaseSessionKeepsPad ==
  /\ ClearSession
  /\ UNCHANGED <<pad, backend>>

\* ... and neutralizes the pad unless its caller already did.
ReleaseSession ==
  /\ ClearSession
  /\ IF backend THEN NeutralizePad ELSE UNCHANGED pad
  /\ UNCHANGED backend

\* Fault: the pad is removed under a session that stays.
DestroyBackendKeepsSession ==
  /\ backend' = FALSE
  /\ pad' = Absent
  /\ UNCHANGED session

\* _destroy_backend_locked: the neutralize it tries first cannot outlive the
\* disconnect that follows, which removes the pad whether or not it raised: it only
\* drops the references to the pad (gamepad.py:210-214) and cannot raise itself.
DestroyBackend ==
  /\ ClearSession
  /\ backend' = FALSE
  /\ pad' = Absent

\* Fault: a failed automatic retry schedules the next one.
RecordFailureAgain(automatic, used) ==
  /\ backendFailed' = TRUE
  /\ retryUsed' = used
  /\ retryDue' = RetryDelay

\* _record_backend_failure_locked
RecordFailure(automatic, used) ==
  /\ backendFailed' = TRUE
  /\ retryUsed' = used
  /\ retryDue' = IF ~automatic /\ ~used THEN RetryDelay ELSE Never

\* The body of ensure_backend: nothing to do, a preflight that succeeds, or one
\* in which the factory, connect or the first neutralize raises.
EnsureBackend(force, automatic) ==
  \/ /\ stopped \/ (backendFailed /\ ~force) \/ backend
     /\ UNCHANGED <<pad, backend, session, retry>>
  \/ /\ ~stopped /\ (backendFailed => force) /\ ~backend
     /\ backend' = TRUE
     /\ pad' = Neutral
     /\ backendFailed' = FALSE
     /\ retryDue' = Never
     /\ retryUsed' = FALSE
        /\ UNCHANGED session
  \/ /\ ~stopped /\ (backendFailed => force) /\ ~backend
     /\ Faults \cap {"connect", "neutralize"} # {}
     /\ DestroyBackend
     /\ RecordFailure(automatic, IF force /\ ~automatic THEN FALSE ELSE retryUsed)

-----------------------------------------------------------------------------
(* The receiver threads.                                                   *)

\* Fault: a snapshot is applied although the service was stopped.
HandleSnapshotAfterStop(a, x) ==
  /\ sender
  /\ ~backendFailed
  /\ backend' = TRUE
  /\ pad' = x
  /\ address' = a
  /\ connected' = TRUE
  /\ silence' = 0
  /\ neutralized' = FALSE
  /\ UNCHANGED <<retry, stopped, watchdog, stopping, sender>>

\* handle_snapshot with an actionable snapshot of client a carrying state x.
\* A change of client releases the old session first; connect and apply may
\* raise, and either exception tears the backend down.
HandleSnapshot(a, x) ==
  /\ sender
  /\ ~stopped /\ ~backendFailed
  /\ \/ /\ backend' = TRUE
        /\ pad' = x
        /\ address' = a
        /\ connected' = TRUE
        /\ silence' = 0
        /\ neutralized' = FALSE
        /\ UNCHANGED retry
     \/ /\ "apply" \in Faults \/ (~backend /\ "connect" \in Faults)
        /\ DestroyBackend
        /\ RecordFailure(FALSE, retryUsed)
  /\ UNCHANGED <<stopped, watchdog, stopping, sender>>

\* The PSP is switched off, walks out of range or is deselected: no snapshot
\* arrives any more.
SenderStops ==
  /\ sender
  /\ sender' = FALSE
  /\ UNCHANGED <<pad, backend, session, retry, stopped, watchdog, stopping>>

-----------------------------------------------------------------------------
(* The Tk thread; stop() is also called by the receiver thread when its    *)
(* loop ends, so the other calls may fall between the steps of a stop().   *)

\* ensure_backend(), called when the receiver starts (gui.py:1541).
Preflight ==
  /\ EnsureBackend(FALSE, FALSE)
  /\ UNCHANGED <<stopped, watchdog, stopping, sender>>

\* retry_backend(), the user's "retry" button.
RetryBackend ==
  /\ EnsureBackend(TRUE, FALSE)
  /\ UNCHANGED <<stopped, watchdog, stopping, sender>>

\* disconnect(reason)
Disconnect ==
  /\ ReleaseSession
  /\ UNCHANGED <<retry, stopped, watchdog, stopping, sender>>

\* stop(): mark, wake the watchdog, release the session, remove the pad.
\* A second call finds the mark and returns.
StopMark ==
  /\ ~stopped
  /\ stopped' = TRUE
  /\ stopping' = "marked"
  /\ UNCHANGED <<pad, backend, session, retry, watchdog, sender>>

StopSignal ==
  /\ stopping = "marked"
  /\ stopping' = "signalled"
  /\ UNCHANGED <<pad, backend, session, retry, stopped, watchdog, sender>>

StopDisconnect ==
  /\ stopping = "signalled"
  /\ ReleaseSession
  /\ stopping' = "disconnected"
  /\ UNCHANGED <<retry, stopped, watchdog, sender>>

StopDestroy ==
  /\ stopping = "disconnected"
  /\ DestroyBackend
  /\ stopping' = "destroyed"
  /\ UNCHANGED <<retry, stopped, watchdog, sender>>

-----------------------------------------------------------------------------
(* The watchdog thread: it waits for _stop_event, and if the wait expires   *)
(* without it calls check_timeout and check_backend_retry, whatever comes  *)
(* meanwhile.                                                              *)

\* Fault: the signal does not stay set.
StopSignalledOnce == stopping = "signalled"

StopSignalled == stopping \in {"signalled", "disconnected", "destroyed"}

\* Fault: only the pad's silence before the first snapshot counts.
SilenceReachedNever(limit) == ~connected /\ silence # Never /\ silence >= limit

SilenceReached(limit) == connected /\ silence # Never /\ silence >= limit

WaitExpires ==
  /\ watchdog = "wait" /\ ~StopSignalled
  /\ watchdog' = "timeout"
  /\ UNCHANGED <<pad, backend, session, retry, stopped, stopping, sender>>

CheckTimeout ==
  /\ watchdog = "timeout"
  /\ watchdog' = "retry"
  /\ IF SilenceReached(NeutralTimeout)
     THEN /\ IF ~neutralized /\ backend THEN NeutralizePad ELSE UNCHANGED pad
          /\ IF SilenceReached(SessionTimeout)
             THEN ClearSession
             ELSE /\ neutralized' = TRUE
                  /\ UNCHANGED <<address, connected, silence>>
     ELSE UNCHANGED <<pad, session>>
  /\ UNCHANGED <<backend, retry, stopped, stopping, sender>>

\* Fault: the comparison with the due time is inverted.
CheckBackendRetryInverted ==
  /\ watchdog = "retry"
  /\ IF ~stopped /\ retryDue # Never /\ retryDue # 0
     THEN /\ retryDue' = Never
          /\ retryUsed' = TRUE
          /\ watchdog' = "claimed"
     ELSE /\ UNCHANGED <<retryDue, retryUsed>>
          /\ watchdog' = "wait"
  /\ UNCHANGED <<pad, backend, session, backendFailed, stopped, stopping,
                 sender>>

\* First critical section of check_backend_retry: claim the scheduled retry.
CheckBackendRetry ==
  /\ watchdog = "retry"
  /\ IF ~stopped /\ retryDue # Never /\ retryDue = 0
     THEN /\ retryDue' = Never
          /\ retryUsed' = TRUE
          /\ watchdog' = "claimed"
     ELSE /\ UNCHANGED <<retryDue, retryUsed>>
          /\ watchdog' = "wait"
  /\ UNCHANGED <<pad, backend, session, backendFailed, stopped, stopping,
                 sender>>

\* Second critical section: ensure_backend(force_retry=True, automatic=True).
AutomaticRetry ==
  /\ watchdog = "claimed"
  /\ EnsureBackend(TRUE, TRUE)
  /\ watchdog' = "wait"
  /\ UNCHANGED <<stopped, stopping, sender>>

WatchdogExits ==
  /\ watchdog = "wait" /\ StopSignalled
  /\ watchdog' = "done"
  /\ UNCHANGED <<pad, backend, session, retry, stopped, stopping, sender>>

-----------------------------------------------------------------------------
\* Time passes.  Ages stop growing at the largest threshold they are compared
\* with, the retry countdown stops at zero.
Older(age, limit) ==
  IF age = Never \/ age = limit THEN age ELSE age + 1

Tick ==
  /\ silence' = Older(silence, SessionTimeout)
  /\ retryDue' = IF retryDue = Never \/ retryDue = 0 THEN retryDue ELSE retryDue - 1
  /\ UNCHANGED <<pad, backend, address, connected, neutralized, backendFailed,
                 retryUsed, stopped, watchdog, stopping, sender>>

WatchdogStep == WaitExpires \/ CheckTimeout \/ CheckBackendRetry \/ AutomaticRetry \/ WatchdogExits
StopStep     == StopSignal \/ StopDisconnect \/ StopDestroy

Next ==
  \/ \E a \in Addresses, x \in Inputs : HandleSnapshot(a, x)
  \/ SenderStops
  \/ Preflight
  \/ RetryBackend
  \/ Disconnect
  \/ StopMark
  \/ StopSignal
  \/ StopDisconnect
  \/ StopDestroy
  \/ WaitExpires
  \/ CheckTimeout
  \/ CheckBackendRetry
  \/ AutomaticRetry
  \/ WatchdogExits
  \/ Tick

Spec == Init /\ [][Next]_vars

\* The watchdog is a thread in a loop with a bounded wait, stop() never blocks
\* between its critical sections, and time does not stand still.
Fairness ==
  /\ WF_vars(Tick)
  /\ WF_vars(WatchdogStep)
  /\ WF_vars(StopStep)

FairSpec == Spec /\ Fairness

\* The service when nothing but the PSP's silence acts on the pad: no disconnect,
\* retry or stop of another thread, only snapshots, the watchdog and time.
SilenceNext ==
  \/ \E a \in Addresses, x \in Inputs : HandleSnapshot(a, x)
  \/ SenderStops
  \/ WaitExpires \/ CheckTimeout \/ CheckBackendRetry
  \/ Tick

SilenceSpec == Init /\ [][SilenceNext]_vars

-----------------------------------------------------------------------------
(* Properties.                                                             *)

\* A button the games see pressed belongs to a connected client that is not
\* known to be silent: none of the timeout, the change of client, a driver
\* failure, a disconnect or a stop leaves a pad pressed (gamepad.py:419-520).
PressedPadIsOwned ==
  pad \notin {Absent, Neutral} =>
    connected /\ backend /\ ~neutralized /\ address \in Addresses

\* After a driver failure there is neither a pad nor a session on it, and a
\* session never outlives its pad: gamepad.py:505-520, 554-577.
FailureLeavesNoSession ==
  /\ backend <=> pad # Absent
  /\ connected => backend
  /\ backendFailed => ~backend

\* Once stop() is over no late snapshot, retry or preflight of another thread
\* brings the pad back: gamepad.py:325, 367, 386, 473-484.
NoPadAfterStop ==
  stopping = "destroyed" => pad = Absent /\ ~backend /\ ~connected

\* A scheduled automatic retry always belongs to a failure that is still there
\* and that no automatic retry has been made for: gamepad.py:362-374, 554-570.
RetryBelongsToFailure ==
  retryDue # Never => backendFailed /\ ~retryUsed

\* The service implements the promise of SafePad: the owner is the session's
\* address, the application is closed from the mark that stop() makes.
Promise == INSTANCE SafePad WITH owner <- address, closed <- stopped

ImplementsSafePad == Promise!Spec

\* When no snapshot arrives any more, every button is released and the session
\* given up, whatever else the threads do: gamepad.py:419-456.
SilenceReleases == ~sender ~> (pad \in {Absent, Neutral} /\ ~connected)

\* A scheduled automatic retry is made, unless the failure is repaired, the
\* application stops, or the user never ceases to retry by hand, each failure of
\* which schedules it anew: gamepad.py:362-374, 565-570.
RetryIsMade ==
  \/ []<><<RetryBackend>>_vars
  \/ (retryDue # Never) ~> (watchdog = "claimed" \/ ~backendFailed \/ stopped)

\* stop() removes the pad and its watchdog exits: gamepad.py:473-484, 579-583.
StopCompletes == stopped ~> (stopping = "destroyed" /\ watchdog = "done")
=============================================================================
