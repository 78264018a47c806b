----------------------- MODULE ControllerServiceProofs -----------------------
(***************************************************************************)
(* Proofs about ControllerService for every set of clients and inputs and  *)
(* every choice of the timeouts.                                           *)
(***************************************************************************)
EXTENDS ControllerService, TLAPS

\* The order inside stop(): the fields are torn down after the mark.
StopIsMarked == stopping # "no" => stopped

\* The session fields are set and cleared together.
SessionIsWhole ==
  IF connected THEN address \in Addresses /\ silence # Never
               ELSE address = NoAddress

\* What the lock protects.  None of the conjuncts is inductive alone: that the
\* stopped service stays without a pad needs the mark, that a failure has no
\* session needs that there is no pad to drive.
IInv ==
  /\ TypeOK
  /\ StopIsMarked
  /\ SessionIsWhole
  /\ FailureLeavesNoSession
  /\ NoPadAfterStop
  /\ RetryBelongsToFailure

LEMMA Thresholds ==
  0 \in 0..SessionTimeout /\ 0 \in 0..RetryDelay /\ RetryDelay \in 0..RetryDelay
  BY ConstantsAssumption

LEMMA InitIInv == Init => IInv
  BY ConstantsAssumption
     DEF Init, IInv, TypeOK, StopIsMarked, SessionIsWhole, FailureLeavesNoSession,
         NoPadAfterStop, RetryBelongsToFailure

\* ensure_backend preserves the invariant for each of its callers.
LEMMA EnsureBackendIInv ==
  ASSUME IInv, NEW force \in BOOLEAN, NEW automatic \in BOOLEAN,
         EnsureBackend(force, automatic), UNCHANGED <<stopped, stopping>>,
         watchdog' \in {"wait", "timeout", "retry", "claimed", "done"}, sender' \in BOOLEAN
  PROVE  IInv'
<1> USE ConstantsAssumption, Thresholds DEF IInv, StopIsMarked, SessionIsWhole, FailureLeavesNoSession,
        NoPadAfterStop, RetryBelongsToFailure
<1>1. CASE UNCHANGED <<pad, backend, session, retry>>
  BY <1>1 DEF TypeOK, session, retry
<1>2. CASE /\ ~stopped /\ ~backend /\ backend' = TRUE /\ pad' = Neutral
           /\ backendFailed' = FALSE /\ retryDue' = Never
           /\ retryUsed' = FALSE /\ UNCHANGED session
  BY <1>2 DEF TypeOK, session
<1>3. CASE /\ ~stopped /\ ~backend
           /\ DestroyBackend
           /\ RecordFailure(automatic, IF force /\ ~automatic THEN FALSE ELSE retryUsed)
  <2> DEFINE used == IF force /\ ~automatic THEN FALSE ELSE retryUsed
  <2>1. used \in BOOLEAN
    BY DEF TypeOK
  <2> HIDE DEF used
  <2>2. RecordFailure(automatic, used)
    BY <1>3 DEF used
  <2>3. /\ retryDue' \in 0..RetryDelay \cup {Never}
        /\ retryDue' # Never => ~retryUsed'
        /\ retryUsed' \in BOOLEAN /\ backendFailed' = TRUE
    BY <2>1, <2>2 DEF RecordFailure
  <2>4. TypeOK'
    BY <1>3, <2>3 DEF TypeOK, DestroyBackend, ClearSession
  <2>5. StopIsMarked' /\ SessionIsWhole' /\ NoPadAfterStop'
    BY <1>3 DEF DestroyBackend, ClearSession
  <2>6. FailureLeavesNoSession' /\ RetryBelongsToFailure'
    BY <1>3, <2>3 DEF TypeOK, DestroyBackend, ClearSession
  <2> QED
    BY <2>4, <2>5, <2>6
<1> QED BY <1>1, <1>2, <1>3 DEF EnsureBackend

LEMMA ReleaseSessionIInv ==
  ASSUME IInv, ReleaseSession, UNCHANGED <<retry, stopped, watchdog, sender>>,
         \/ UNCHANGED stopping
         \/ stopping = "signalled" /\ stopping' = "disconnected"
  PROVE  IInv'
  BY ConstantsAssumption
     DEF IInv, TypeOK, StopIsMarked, SessionIsWhole, FailureLeavesNoSession, NoPadAfterStop,
         RetryBelongsToFailure, ReleaseSession, ClearSession, NeutralizePad, retry

LEMMA NextIInv == IInv /\ [Next]_vars => IInv'
<1> SUFFICES ASSUME IInv, [Next]_vars PROVE IInv'
  OBVIOUS
<1> USE ConstantsAssumption, Thresholds
<1>1. ASSUME NEW a \in Addresses, NEW x \in Inputs, HandleSnapshot(a, x)
      PROVE  IInv'
  <2>1. CASE /\ backend' = TRUE /\ pad' = x /\ address' = a
             /\ connected' = TRUE /\ silence' = 0 /\ neutralized' = FALSE
             /\ UNCHANGED retry
    <3>1. UNCHANGED <<stopped, watchdog, stopping, sender>> /\ ~stopped /\ ~backendFailed
      BY <1>1 DEF HandleSnapshot
    <3>2. TypeOK'
      BY <2>1, <3>1 DEF IInv, TypeOK, retry
    <3>3. SessionIsWhole' /\ FailureLeavesNoSession'
      BY <2>1, <3>1 DEF IInv, TypeOK, SessionIsWhole, FailureLeavesNoSession, retry
    <3>4. StopIsMarked' /\ NoPadAfterStop' /\ RetryBelongsToFailure'
      BY <2>1, <3>1 DEF IInv, StopIsMarked, NoPadAfterStop, RetryBelongsToFailure, retry
    <3> QED BY <3>2, <3>3, <3>4 DEF IInv
  <2>2. CASE DestroyBackend /\ RecordFailure(FALSE, retryUsed)
    <3>1. UNCHANGED <<stopped, watchdog, stopping, sender>> /\ ~stopped
      BY <1>1 DEF HandleSnapshot
    <3>2. TypeOK'
      BY <2>2, <3>1 DEF IInv, TypeOK, DestroyBackend, ClearSession, RecordFailure
    <3>3. SessionIsWhole' /\ FailureLeavesNoSession'
      BY <2>2, <3>1 DEF IInv, TypeOK, SessionIsWhole, FailureLeavesNoSession,
                        DestroyBackend, ClearSession, RecordFailure
    <3>4. StopIsMarked' /\ NoPadAfterStop' /\ RetryBelongsToFailure'
      BY <2>2, <3>1 DEF IInv, TypeOK, StopIsMarked, NoPadAfterStop, RetryBelongsToFailure,
                        DestroyBackend, ClearSession, RecordFailure
    <3> QED BY <3>2, <3>3, <3>4 DEF IInv
  <2> QED BY <1>1, <2>1, <2>2 DEF HandleSnapshot
<1>2. CASE SenderStops
  BY <1>2 DEF SenderStops, IInv, TypeOK, StopIsMarked, SessionIsWhole, FailureLeavesNoSession,
              NoPadAfterStop, RetryBelongsToFailure, session, retry
<1>3. CASE Preflight
  BY <1>3, EnsureBackendIInv DEF Preflight, IInv, TypeOK
<1>4. CASE RetryBackend
  BY <1>4, EnsureBackendIInv DEF RetryBackend, IInv, TypeOK
<1>5. CASE Disconnect
  BY <1>5, ReleaseSessionIInv DEF Disconnect
<1>6. CASE StopMark
  BY <1>6 DEF StopMark, IInv, TypeOK, StopIsMarked, SessionIsWhole, FailureLeavesNoSession,
              NoPadAfterStop, RetryBelongsToFailure, session, retry
<1>7. CASE StopSignal
  BY <1>7 DEF StopSignal, IInv, TypeOK, StopIsMarked, SessionIsWhole, FailureLeavesNoSession,
              NoPadAfterStop, RetryBelongsToFailure, session, retry
<1>8. CASE StopDisconnect
  BY <1>8, ReleaseSessionIInv DEF StopDisconnect
<1>9. CASE StopDestroy
  BY <1>9 DEF StopDestroy, IInv, TypeOK, StopIsMarked, SessionIsWhole, FailureLeavesNoSession,
              NoPadAfterStop, RetryBelongsToFailure, DestroyBackend,
              ClearSession, retry
<1>10. CASE CheckTimeout
  BY <1>10 DEF CheckTimeout, SilenceReached, NeutralizePad, ClearSession, IInv,
               TypeOK, StopIsMarked, SessionIsWhole, FailureLeavesNoSession, NoPadAfterStop,
               RetryBelongsToFailure, session, retry
<1>11. CASE CheckBackendRetry
  BY <1>11 DEF CheckBackendRetry, IInv, TypeOK, StopIsMarked, SessionIsWhole,
               FailureLeavesNoSession, NoPadAfterStop, RetryBelongsToFailure,
               session
<1>12. CASE AutomaticRetry
  BY <1>12, EnsureBackendIInv DEF AutomaticRetry, IInv, TypeOK
<1>13. CASE WaitExpires \/ WatchdogExits
  BY <1>13 DEF WaitExpires, WatchdogExits, IInv, TypeOK, StopIsMarked, SessionIsWhole,
               FailureLeavesNoSession, NoPadAfterStop, RetryBelongsToFailure,
               session, retry
<1>14. CASE Tick
  <2>1. /\ silence = Never => silence' = Never
        /\ silence # Never => silence' # Never
        /\ silence' \in 0..SessionTimeout \cup {Never}
        /\ retryDue' \in 0..RetryDelay \cup {Never}
        /\ retryDue' # Never => retryDue # Never
    BY <1>14 DEF Tick, Older, IInv, TypeOK
  <2> QED
    BY <1>14, <2>1 DEF Tick, IInv, TypeOK, StopIsMarked, SessionIsWhole, FailureLeavesNoSession,
                       NoPadAfterStop, RetryBelongsToFailure
<1>15. CASE UNCHANGED vars
  BY <1>15 DEF IInv, TypeOK, StopIsMarked, SessionIsWhole, FailureLeavesNoSession,
               NoPadAfterStop, RetryBelongsToFailure, vars, session, retry
<1> QED
  BY <1>1, <1>2, <1>3, <1>4, <1>5, <1>6, <1>7, <1>8, <1>9, <1>10, <1>11, <1>12,
     <1>13, <1>14, <1>15 DEF Next

LEMMA SpecIInv == Spec => []IInv
<1>1. Init => IInv
  BY InitIInv
<1>2. IInv /\ [Next]_vars => IInv'
  BY NextIInv
<1> QED BY <1>1, <1>2, PTL DEF Spec

\* Every variable of the service keeps its type, the ages and the countdown
\* inside the thresholds they are compared with (gamepad.py:268-297).
THEOREM TypeCorrect == Spec => []TypeOK
<1>1. IInv => TypeOK
  BY DEF IInv
<1> QED BY <1>1, SpecIInv, PTL

\* No failure, in any of the calls of the driver, leaves a session without a
\* pad or a failed backend with one (gamepad.py:505-577).
THEOREM FailureLeavesNoSessionHolds == Spec => []FailureLeavesNoSession
<1>1. IInv => FailureLeavesNoSession
  BY DEF IInv
<1> QED BY <1>1, SpecIInv, PTL

\* stop() is final: no thread that was past its first check brings the pad back
\* (gamepad.py:473-484).
THEOREM NoPadAfterStopHolds == Spec => []NoPadAfterStop
<1>1. IInv => NoPadAfterStop
  BY DEF IInv
<1> QED BY <1>1, SpecIInv, PTL

\* A scheduled automatic retry belongs to a failure it has not been made for
\* (gamepad.py:362-374).
THEOREM RetryBelongsToFailureHolds == Spec => []RetryBelongsToFailure
<1>1. IInv => RetryBelongsToFailure
  BY DEF IInv
<1> QED BY <1>1, SpecIInv, PTL

-----------------------------------------------------------------------------
(* The pad is never left pressed, when the driver lets itself be neutralized. *)

PadInv == IInv /\ PressedPadIsOwned

LEMMA EnsureBackendPad ==
  ASSUME PadInv, NEW force, NEW automatic, EnsureBackend(force, automatic)
  PROVE  /\ PressedPadIsOwned'
         /\ \/ UNCHANGED <<pad, address>>
            \/ ~stopped /\ pad = Absent /\ pad' = Neutral /\ address' = address
            \/ address' = NoAddress /\ pad' = Absent
<1>1. CASE UNCHANGED <<pad, backend, session, retry>>
  BY <1>1 DEF PadInv, PressedPadIsOwned, session
<1>2. CASE ~stopped /\ ~backend /\ pad' = Neutral /\ UNCHANGED session
  BY <1>2 DEF PadInv, PressedPadIsOwned, IInv, FailureLeavesNoSession, session
<1>3. CASE DestroyBackend
  BY <1>3 DEF DestroyBackend, ClearSession, PressedPadIsOwned
<1> QED BY <1>1, <1>2, <1>3 DEF EnsureBackend

\* One step of the service is one step of SafePad or leaves the pad, its owner
\* and the mark alone; and it keeps PressedPadIsOwned.
LEMMA StepIsSafe ==
  ASSUME "neutralize" \notin Faults, PadInv, [Next]_vars
  PROVE  PressedPadIsOwned' /\ [Promise!Next]_(Promise!padVars)
<1> USE DEF Promise!padVars, Promise!Next
<1>1. ASSUME NEW a \in Addresses, NEW x \in Inputs, HandleSnapshot(a, x)
      PROVE  PressedPadIsOwned' /\ Promise!Next
  <2>1. CASE /\ backend' = TRUE /\ pad' = x /\ address' = a
             /\ connected' = TRUE /\ silence' = 0 /\ neutralized' = FALSE
    <3>1. Promise!Drive(a, x)
      BY <1>1, <2>1 DEF HandleSnapshot, Promise!Drive
    <3>2. PressedPadIsOwned'
      BY <2>1 DEF PressedPadIsOwned
    <3> QED BY <3>1, <3>2
  <2>2. CASE DestroyBackend
    <3>1. Promise!Unplug
      BY <1>1, <2>2 DEF HandleSnapshot, DestroyBackend, ClearSession, Promise!Unplug
    <3>2. PressedPadIsOwned'
      BY <2>2 DEF DestroyBackend, PressedPadIsOwned
    <3> QED BY <3>1, <3>2
  <2> QED BY <1>1, <2>1, <2>2 DEF HandleSnapshot
<1>2. CASE SenderStops \/ StopSignal \/ CheckBackendRetry \/ WaitExpires
           \/ WatchdogExits \/ Tick \/ UNCHANGED vars
  BY <1>2 DEF SenderStops, StopSignal, CheckBackendRetry, WaitExpires, WatchdogExits, Tick,
              vars, session, PadInv, PressedPadIsOwned
<1>3. CASE Preflight \/ RetryBackend \/ AutomaticRetry
  <2>1. UNCHANGED stopped
    BY <1>3 DEF Preflight, RetryBackend, AutomaticRetry
  <2>2. /\ PressedPadIsOwned'
        /\ \/ UNCHANGED <<pad, address>>
           \/ ~stopped /\ pad = Absent /\ pad' = Neutral /\ address' = address
           \/ address' = NoAddress /\ pad' = Absent
    BY <1>3, EnsureBackendPad DEF Preflight, RetryBackend, AutomaticRetry
  <2> QED BY <2>1, <2>2 DEF Promise!Plug, Promise!Unplug
<1>4. CASE Disconnect \/ StopDisconnect
  <2>1. /\ UNCHANGED <<stopped, backend>>
        /\ address' = NoAddress
        /\ pad' = IF backend THEN Neutral ELSE pad
    BY <1>4 DEF Disconnect, StopDisconnect, ReleaseSession, ClearSession,
                NeutralizePad
  <2>2. backend <=> pad # Absent
    BY DEF PadInv, IInv, FailureLeavesNoSession
  <2>3. Promise!Release
    BY <2>1, <2>2 DEF Promise!Release
  <2>4. PressedPadIsOwned'
    BY <2>1, <2>2 DEF PressedPadIsOwned
  <2> QED BY <2>3, <2>4
<1>5. CASE StopMark
  BY <1>5 DEF StopMark, session, PadInv, PressedPadIsOwned, Promise!Close
<1>6. CASE StopDestroy
  BY <1>6 DEF StopDestroy, DestroyBackend, ClearSession, PressedPadIsOwned,
              Promise!Unplug
<1>7. CASE CheckTimeout
  <2>1. CASE ~SilenceReached(NeutralTimeout)
    BY <1>7, <2>1 DEF CheckTimeout, session, PadInv, PressedPadIsOwned
  <2>2. CASE SilenceReached(NeutralTimeout)
    <3>1. connected /\ backend /\ pad # Absent /\ address \in Addresses
      BY <2>2 DEF SilenceReached, PadInv, IInv, SessionIsWhole,
                  FailureLeavesNoSession
    <3>2. /\ pad' = Neutral
          /\ UNCHANGED <<backend, stopped>>
          /\ \/ address' = NoAddress
             \/ address' = address
      BY <1>7, <2>2, <3>1 DEF CheckTimeout, NeutralizePad, ClearSession, PadInv,
                              PressedPadIsOwned
    <3>3. address # NoAddress
      BY <3>1, ConstantsAssumption
    <3>4. PressedPadIsOwned'
      BY <3>2 DEF PressedPadIsOwned
    <3>5. Promise!Release \/ Promise!Relax
      BY <3>1, <3>2, <3>3 DEF Promise!Release, Promise!Relax
    <3> QED BY <3>4, <3>5
  <2> QED BY <2>1, <2>2
<1> QED BY <1>1, <1>2, <1>3, <1>4, <1>5, <1>6, <1>7 DEF Next

LEMMA SpecPadInv ==
  ASSUME "neutralize" \notin Faults
  PROVE  Spec => []PadInv
<1>1. Init => PadInv
  BY InitIInv DEF Init, PadInv, PressedPadIsOwned
<1>2. PadInv /\ [Next]_vars => PadInv'
  BY StepIsSafe, NextIInv DEF PadInv
<1> QED BY <1>1, <1>2, PTL DEF Spec

\* If the driver accepts the neutral report, no timeout, change of client,
\* failure, disconnect or stop leaves a pad pressed without a client that owns
\* it (gamepad.py:376-520).
THEOREM PressedPadIsOwnedHolds ==
  ASSUME "neutralize" \notin Faults
  PROVE  Spec => []PressedPadIsOwned
<1>1. PadInv => PressedPadIsOwned
  BY DEF PadInv
<1> QED BY <1>1, SpecPadInv, PTL

\* Under the same assumption the service implements SafePad
\* (gamepad.py:234-590).
THEOREM ServiceImplementsSafePad ==
  ASSUME "neutralize" \notin Faults
  PROVE  Spec => ImplementsSafePad
<1>1. Init => Promise!Init
  BY DEF Init, Promise!Init
<1>2. PadInv /\ [Next]_vars => [Promise!Next]_(Promise!padVars)
  BY StepIsSafe
<1> QED BY <1>1, <1>2, SpecPadInv, PTL DEF Spec, ImplementsSafePad, Promise!Spec
=============================================================================
