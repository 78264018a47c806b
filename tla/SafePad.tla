------------------------------- MODULE SafePad -------------------------------
(***************************************************************************)
(* What the controller service promises to the games on the PC: whatever   *)
(* the threads of the bridge do, the virtual pad shows a pressed state     *)
(* only while a client owns it, losing the owner leaves a pad that is      *)
(* neutral or gone, and a pad that is gone after the application closed    *)
(* never comes back.  pc-server/pc_server/gamepad.py, docs/input-protocol. *)
(***************************************************************************)

CONSTANTS Addresses, Inputs, Neutral, Absent, NoAddress

VARIABLES pad, owner, closed

padVars == <<pad, owner, closed>>

Init ==
  /\ pad = Absent
  /\ owner = NoAddress
  /\ closed = FALSE

\* The driver creates a pad that nothing presses.
Plug ==
  /\ ~closed /\ pad = Absent
  /\ pad' = Neutral
  /\ UNCHANGED <<owner, closed>>

\* Client a owns the pad from now on and sets its state.
Drive(a, x) ==
  /\ ~closed
  /\ owner' = a
  /\ pad' = x
  /\ UNCHANGED closed

\* The owner fell silent and keeps its session.
Relax ==
  /\ owner # NoAddress
  /\ pad' = Neutral
  /\ UNCHANGED <<owner, closed>>

\* The session ends: what remains of the pad is neutral.
Release ==
  /\ owner' = NoAddress
  /\ pad' = IF pad = Absent THEN Absent ELSE Neutral
  /\ UNCHANGED closed

Unplug ==
  /\ owner' = NoAddress
  /\ pad' = Absent
  /\ UNCHANGED closed

Close ==
  /\ closed' = TRUE
  /\ UNCHANGED <<pad, owner>>

Next ==
  \/ Plug
  \/ \E a \in Addresses, x \in Inputs : Drive(a, x)
  \/ Relax
  \/ Release
  \/ Unplug
  \/ Close

Spec == Init /\ [][Next]_padVars
=============================================================================
