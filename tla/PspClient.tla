------------------------------- MODULE PspClient -------------------------------
(***************************************************************************)
(* The application on the PSP (psp-client/src/main.c and usb_transport.c): *)
(* the links it brings up and takes down, the PC it sends to, and when it  *)
(* may save power.                                                         *)
(*                                                                         *)
(* One thread does everything; the HOME callback's thread only requests    *)
(* the exit.  Around it are the firmware, whose calls may fail, the user's *)
(* buttons, the access point, and PCs that answer input with ACKs, which   *)
(* the network loses and delays.  The WLAN switch and the cable are read   *)
(* from the hardware each time and may answer either way.                  *)
(*                                                                         *)
(* Time passes with the turns of a sender's loop (period_us each); pauses  *)
(* of the scheduler are not modelled.  A call that puts the brightness or  *)
(* the clock back is taken to succeed, one that lowers it may fail.        *)
(***************************************************************************)
EXTENDS Naturals, FiniteSets

CONSTANTS
  Pcs,        \* the PCs whose user entered this PSP's pairing code
  None,
  Broadcast,  \* DISCOVERY_IPV4
  AckTimeout, \* PAIRING_ACK_TIMEOUT_US, 2 s, in turns of the loop
  SleepDelay, \* DISPLAY_SLEEP_DELAY_US, 10 s
  HoldTime,   \* LINK_MENU_HOLD_US, 0.75 s
  ReadsFail   \* whether reading the buttons may fail

ASSUME PspAssumption ==
  /\ Broadcast \notin Pcs
  /\ None \notin Pcs \cup {Broadcast} \cup Nat
  /\ AckTimeout \in Nat
  /\ SleepDelay \in Nat
  /\ HoldTime \in Nat \ {0}
  /\ ReadsFail \in BOOLEAN

VARIABLES
  phase,   \* where the main thread is
  exit,    \* g_exit_requested
  usb,     \* how many of the stages of usb_transport_start are up
  modules, \* how many of the Wi-Fi modules and subsystems are up
  assoc,   \* the association with the access point
  socket,  \* whether the UDP socket is open
  dest,    \* the address in server_address
  session, \* the sender's local variables, the display and the clock
  acks,    \* the PCs with an ACK on its way or in the socket's buffer
  alive    \* the PCs that run the bridge and can be reached

link == <<usb, modules, assoc, socket, dest>>
vars == <<phase, exit, link, session, acks, alive>>

\* The USB module, bus, driver, activation and channel; the common module, the
\* internet module and the internet subsystem.
UsbStages  == 5
WifiStages == 3

Sending == {"usbSend", "wifiSend"}
Phases  == Sending \cup {"start", "menu", "usbStart", "usbWait", "usbStop", "load",
                         "profile", "connect", "backoff", "rejoin", "exited"}

\* ackAge is now - last_pairing_ack, sleepIn the time until display_sleep_due,
\* held is now - link_menu_held_since; they stop where the code stops looking.
Session == [authorized : BOOLEAN, ackAge : 0..AckTimeout + 1,
            sleepIn : (0..SleepDelay) \cup {None},
            held : (0..HoldTime) \cup {None},
            dark : BOOLEAN, slow : BOOLEAN]

NewSession(s) == [authorized |-> FALSE, ackAge |-> 0, sleepIn |-> None,
                  held |-> None, dark |-> s.dark, slow |-> s.slow]

TypeOK ==
  /\ phase \in Phases
  /\ exit \in BOOLEAN
  /\ usb \in 0..UsbStages
  /\ modules \in 0..WifiStages
  /\ assoc \in {"down", "joining", "up"}
  /\ socket \in BOOLEAN
  /\ dest \in Pcs \cup {Broadcast}
  /\ session \in Session
  /\ acks \subseteq Pcs
  /\ alive \subseteq Pcs

Init ==
  /\ phase = "start" /\ exit = FALSE
  /\ usb = 0 /\ modules = 0 /\ assoc = "down" /\ socket = FALSE
  /\ dest = Broadcast
  /\ session = NewSession([dark |-> FALSE, slow |-> FALSE])
  /\ acks = {}
  /\ alive \in SUBSET Pcs

-----------------------------------------------------------------------------
(* What one turn of a sender's loop does to its variables.                 *)

\* backlight_turn_on and set_performance_clock
Restored(s) == [s EXCEPT !.dark = FALSE, !.slow = FALSE]

\* The display is lit, for the delay after which it sleeps.
Lit(s) == [s EXCEPT !.dark = FALSE, !.sleepIn = SleepDelay]

\* One turn later.
Aged(s) ==
  [s EXCEPT
     !.ackAge  = IF @ > AckTimeout THEN @ ELSE @ + 1,
     !.sleepIn = IF @ \in {None, 0} THEN @ ELSE @ - 1,
     !.held    = IF @ \in {None, HoldTime} THEN @ ELSE @ + 1]

\* The buttons that were read: the chord, which also lights the display and is
\* timed by link_menu_chord_held, and HOME or SCREEN, which light a dark one.
Read(s, chord, wake) ==
  LET timed == [s EXCEPT !.held = IF ~chord THEN None ELSE IF @ = None THEN 0 ELSE @]
  IN IF chord \/ (wake /\ s.dark) THEN Lit(timed) ELSE timed

\* A matching ACK arrived; the first one lowers the clock.
Acked(s, obeys) ==
  IF s.authorized THEN [s EXCEPT !.ackAge = 0]
  ELSE [s EXCEPT !.authorized = TRUE, !.ackAge = 0, !.sleepIn = SleepDelay,
                 !.slow = @ \/ obeys]

\* Fault: a PC that is gone leaves the display as it is.
ExpiredInTheDark(s) == [s EXCEPT !.slow = FALSE, !.authorized = FALSE, !.sleepIn = None]

\* The PC is gone: what it allowed is taken back.
Expired(s) == [Restored(s) EXCEPT !.authorized = FALSE, !.sleepIn = None]

IsLost(s) == s.authorized /\ s.ackAge > AckTimeout

Slept(s, obeys) ==
  IF s.authorized /\ s.sleepIn = 0
  THEN [s EXCEPT !.sleepIn = None, !.dark = @ \/ obeys]
  ELSE s

\* The rest of a turn, after the buttons: ACKs, the timeout, the display.
AfterAcks(s, isHeard, obeys) == IF isHeard THEN Acked(s, obeys) ELSE s
EndOfTurn(s, obeys) == Slept(IF IsLost(s) THEN Expired(s) ELSE s, obeys)

ReadOutcomes == IF ReadsFail THEN BOOLEAN ELSE {TRUE}

-----------------------------------------------------------------------------
(* Starting, the selector and the end.                                     *)

\* A call of the startup that fails ends the program.
Startup ==
  /\ phase = "start"
  /\ phase' \in {"menu", "exited"}
  /\ UNCHANGED <<exit, link, session, acks, alive>>

\* select_transport, whose Wi-Fi entry needs the WLAN switch
SelectTransport ==
  /\ phase = "menu" /\ ~exit
  /\ phase' \in {"usbStart", "load"}
  /\ session' = Restored(session)
  /\ UNCHANGED <<exit, link, acks, alive>>

\* The end of main: a link that were still up would stay up.
Cleanup ==
  /\ phase = "menu" /\ exit
  /\ phase' = "exited"
  /\ modules' = 0
  /\ session' = [session EXCEPT !.dark = FALSE]
  /\ UNCHANGED <<exit, usb, assoc, socket, dest, acks, alive>>

-----------------------------------------------------------------------------
(* The USB link.                                                           *)

\* usb_transport_start: a stage comes up ...
UsbStageStarts ==
  /\ phase = "usbStart"
  /\ usb' = usb + 1
  /\ phase' = IF usb' = UsbStages THEN "usbWait" ELSE "usbStart"
  /\ UNCHANGED <<exit, modules, assoc, socket, dest, session, acks, alive>>

\* ... or fails, and usb_transport_stop begins.
UsbStageFails ==
  /\ phase = "usbStart"
  /\ phase' = "usbStop"
  /\ UNCHANGED <<exit, link, session, acks, alive>>

\* Fault: the stop forgets the stage that came up first, the module.
UsbStageStopsButModule ==
  /\ phase = "usbStop" /\ usb > 0
  /\ usb' = usb - 1
  /\ phase' = IF usb' <= 1 THEN "menu" ELSE phase
  /\ UNCHANGED <<exit, modules, assoc, socket, dest, session, acks, alive>>

\* usb_transport_stop: the stages that are up are taken down, the last one first, ...
UsbStageStops ==
  /\ phase = "usbStop" /\ usb > 0
  /\ usb' = usb - 1
  /\ UNCHANGED <<phase, exit, modules, assoc, socket, dest, session, acks, alive>>

\* ... and the display and the clock are restored, as they still are after a failed
\* start.
UsbStopped ==
  /\ phase = "usbStop" /\ usb = 0
  /\ phase' = "menu"
  /\ session' = Restored(session)
  /\ UNCHANGED <<exit, link, acks, alive>>

\* The cable is there ...
UsbCableFound ==
  /\ phase = "usbWait" /\ ~exit
  /\ phase' = "usbSend"
  /\ session' = NewSession(session)
  /\ UNCHANGED <<exit, link, acks, alive>>

\* ... or the user goes back, or leaves the program; or the cable is pulled or
\* the program left while sending.
UsbLeave ==
  /\ phase \in {"usbWait", "usbSend"}
  /\ phase' = "usbStop"
  /\ UNCHANGED <<exit, link, session, acks, alive>>

\* A turn of run_controller_sender_usb; any ACK that comes is for this link.
UsbTurn ==
  /\ phase = "usbSend" /\ ~exit
  /\ \E isRead \in ReadOutcomes, chord, wake, isHeard, obeys \in BOOLEAN :
       LET read == IF isRead THEN Read(Aged(session), chord, wake) ELSE Aged(session)
       IN /\ ~(isRead /\ read.held = HoldTime)
          /\ session' = EndOfTurn(AfterAcks(read, isHeard, obeys), obeys)
  /\ UNCHANGED <<phase, exit, link, acks, alive>>

-----------------------------------------------------------------------------
(* The Wi-Fi link.                                                         *)

\* Each stage is kept until the program ends.  One that fails, or a switch that
\* is off, leads back to the selector.
LoadModule ==
  /\ phase = "load" /\ modules < WifiStages
  /\ \/ modules' = modules + 1 /\ phase' = phase
     \/ modules' = modules /\ phase' = "menu"
  /\ UNCHANGED <<exit, usb, assoc, socket, dest, session, acks, alive>>

ModulesLoaded ==
  /\ phase = "load" /\ modules = WifiStages
  /\ phase' = "profile"
  /\ UNCHANGED <<exit, link, session, acks, alive>>

\* select_network_profile: a profile is chosen and connect_wifi asks for it, or
\* the selector is left or cannot be shown.
SelectProfile ==
  /\ phase = "profile"
  /\ \/ ~exit /\ phase' = "connect" /\ assoc' = "joining"
     \/ phase' = "menu" /\ assoc' = assoc
  /\ UNCHANGED <<exit, usb, modules, socket, dest, session, acks, alive>>

\* The end of the Wi-Fi link in main, whichever way it ended.
HangUp ==
  /\ socket' = FALSE /\ acks' = {}
  /\ assoc' = "down"
  /\ phase' = "menu"
  /\ session' = Restored(session)
  /\ UNCHANGED <<usb, modules, dest>>

\* connect_wifi fails, times out, finds the switch off or is left, or no socket
\* can be made: the association is undone.
ConnectFails ==
  /\ phase = "connect"
  /\ assoc' = "down"
  /\ phase' = "menu"
  /\ UNCHANGED <<exit, usb, modules, socket, dest, session, acks, alive>>

\* create_udp_socket: discovery starts with every socket.
OpenSocket ==
  /\ assoc = "up"
  /\ socket' = TRUE /\ dest' = Broadcast /\ acks' = {}
  /\ phase' = "wifiSend"
  /\ UNCHANGED <<usb, modules, assoc>>

Connected ==
  /\ phase = "connect"
  /\ OpenSocket
  /\ session' = NewSession(session)
  /\ UNCHANGED <<exit, alive>>

\* The WLAN switch is off or the program is left.
WifiLeave ==
  /\ phase = "wifiSend"
  /\ HangUp
  /\ UNCHANGED <<exit, alive>>

\* Who gets a packet that is sent now, if the network delivers it.
Reached == IF assoc # "up" THEN {} ELSE IF dest = Broadcast THEN alive ELSE alive \cap {dest}

\* Fault: an ACK from any PC is taken for the one the input goes to.
HeardFromAnyone(drained) == drained

\* Whose ACK counts, of those that were in the buffer: of the PC the input goes
\* to, or while it is broadcast of whichever comes first.
Heard(drained) == IF dest = Broadcast THEN drained ELSE drained \cap {dest}

\* Fault: the input goes on to the PC that is gone.
NextDestinationKept(lost, heard) == IF heard = None THEN dest ELSE heard

\* The address in server_address after a turn: an ACK's, or after a timeout the
\* one of reset_pc_discovery.
NextDestination(lost, heard) ==
  IF lost THEN Broadcast ELSE IF heard = None THEN dest ELSE heard

\* A turn of run_controller_sender: the input is sent, unless the buttons cannot
\* be read, answered PCs that it reached, and drained the ACKs in the buffer.
WifiTurn(isRead, drained, answered) ==
  /\ phase = "wifiSend" /\ ~exit
  /\ drained \subseteq acks
  /\ answered \subseteq (IF isRead THEN Reached ELSE {})
  /\ \E chord, wake, obeys \in BOOLEAN,
        heard \in (IF Heard(drained) = {} THEN {None} ELSE Heard(drained)) :
       LET read == IF isRead THEN Read(Aged(session), chord, wake) ELSE Aged(session)
           told == AfterAcks(read, heard # None, obeys)
       IN /\ ~(isRead /\ read.held = HoldTime)
          /\ session' = EndOfTurn(told, obeys)
          /\ dest' = NextDestination(IsLost(told), heard)
  /\ acks' = (acks \ drained) \cup answered
  /\ UNCHANGED <<phase, exit, usb, modules, assoc, socket, alive>>

\* L+R+START held for HoldTime lights the display and ends the link after a neutral
\* packet.
ChordLeaves ==
  /\ phase \in Sending /\ ~exit
  /\ Read(Aged(session), TRUE, FALSE).held = HoldTime
  /\ IF phase = "wifiSend" THEN HangUp
     ELSE /\ phase' = "usbStop"
          /\ session' = [session EXCEPT !.dark = FALSE]
          /\ UNCHANGED <<link, acks>>
  /\ UNCHANGED <<exit, alive>>

\* The access point is found gone: what the PC allowed is taken back and
\* reconnect_wifi_and_socket begins.
LoseLink ==
  /\ phase = "wifiSend" /\ ~exit
  /\ assoc # "up"
  /\ session' = [Restored(session) EXCEPT !.authorized = FALSE]
  /\ dest' = Broadcast
  /\ socket' = FALSE /\ acks' = {}
  /\ assoc' = "down"
  /\ phase' = "backoff"
  /\ UNCHANGED <<exit, usb, modules, alive>>

\* The backoff is over: the association starts anew ...
BackoffEnds ==
  /\ phase = "backoff" /\ ~exit
  /\ assoc' = "joining"
  /\ phase' = "rejoin"
  /\ UNCHANGED <<exit, usb, modules, socket, dest, session, acks, alive>>

\* Fault: an attempt that fails is repeated without a look at the exit request.
RejoinFailsAgain ==
  /\ phase = "rejoin"
  /\ phase' = phase /\ assoc' = "joining"
  /\ UNCHANGED <<exit, usb, modules, socket, dest, session, acks, alive>>

\* ... an attempt fails or times out, which leaves the association as it is, or
\* no socket can be made, which ends it ...
RejoinFails ==
  /\ phase = "rejoin"
  /\ phase' = "backoff"
  /\ assoc' \in {assoc, IF assoc = "up" THEN "down" ELSE assoc}
  /\ UNCHANGED <<exit, usb, modules, socket, dest, session, acks, alive>>

\* ... or succeeds, after a backoff of a second or more: the loop goes on with
\* its variables, the chord being timed from when it was first seen.
Reconnected ==
  /\ phase = "rejoin"
  /\ OpenSocket
  /\ \E left \in {None} \cup 0..SleepDelay :
       /\ IF session.sleepIn = None THEN left = None
                                    ELSE left # None /\ left <= session.sleepIn
       /\ session' = [session EXCEPT !.sleepIn = left,
                                     !.held = IF @ = None THEN None ELSE HoldTime]
  /\ UNCHANGED <<exit, alive>>

\* The user goes back while reconnecting, the switch is off or the program left.
ReconnectLeave ==
  /\ phase \in {"backoff", "rejoin"}
  /\ HangUp
  /\ UNCHANGED <<exit, alive>>

-----------------------------------------------------------------------------
(* The surroundings.                                                       *)

\* exit_callback, on the callback thread
RequestExit ==
  /\ ~exit /\ phase # "exited"
  /\ exit' = TRUE
  /\ UNCHANGED <<phase, link, session, acks, alive>>

\* The firmware gets an address, or the access point is lost.
Associate ==
  /\ assoc # "down"
  /\ assoc' = IF assoc = "joining" THEN "up" ELSE "down"
  /\ UNCHANGED <<phase, exit, usb, modules, socket, dest, session, acks, alive>>

PcsChange ==
  /\ alive' \in SUBSET Pcs
  /\ UNCHANGED <<phase, exit, link, session, acks>>

MainSteps ==
  \/ Startup \/ SelectTransport \/ Cleanup
  \/ UsbStageStarts \/ UsbStageFails \/ UsbCableFound \/ UsbLeave \/ UsbTurn
  \/ UsbStageStops \/ UsbStopped
  \/ LoadModule \/ ModulesLoaded \/ SelectProfile
  \/ ConnectFails \/ Connected \/ WifiLeave
  \/ \E isRead \in ReadOutcomes, drained, answered \in SUBSET Pcs :
       WifiTurn(isRead, drained, answered)
  \/ ChordLeaves \/ LoseLink \/ BackoffEnds \/ RejoinFails \/ Reconnected
  \/ ReconnectLeave

Next == MainSteps \/ RequestExit \/ Associate \/ PcsChange

Spec == Init /\ [][Next]_vars

\* The main thread runs, and a network that always can deliver input and ACKs at
\* once sometimes does.
Fairness ==
  /\ WF_vars(MainSteps)
  /\ SF_vars(WifiTurn(TRUE, acks, Reached))

LiveSpec == Spec /\ Fairness

-----------------------------------------------------------------------------
(* Properties.                                                             *)

\* main.c:1293-1482: the selector, the setup screens and the end of the program
\* are reached with no link left up, through every failed call and every way
\* out of the senders and the reconnection; USB and Wi-Fi are never both up,
\* and the program ends with the modules unloaded.
LinksAreTakenDown ==
  /\ phase \in {"start", "menu", "load", "profile", "exited"} =>
       usb = 0 /\ ~socket /\ assoc = "down"
  /\ usb > 0 => ~socket /\ assoc = "down"
  /\ socket <=> phase = "wifiSend"
  /\ phase = "exited" => modules = 0

\* The display is dark and the clock is low only while a PC takes the input, or took
\* it over the USB link that is being taken down: the user of a PSP that lost its PC,
\* its access point or its cable sees it.
SavesPowerOnlyWhileServed ==
  session.dark \/ session.slow =>
    phase \in Sending \cup {"usbStop"} /\ session.authorized

\* main.c:938-952 and 967-974: over Wi-Fi the input goes to one PC exactly as
\* long as the PSP says that it is authorized, and is broadcast otherwise.
AuthorizedPcGetsInput ==
  phase = "wifiSend" => (session.authorized <=> dest # Broadcast)

\* main.c:938-952: a second PC with the same pairing code does not draw the input
\* to itself; another PC gets it only after discovery began again.
NoSilentSwitch == [][(dest \in Pcs /\ dest' \in Pcs) => dest' = dest]_vars

\* A PC that stays, while others went away, gets the input again and again,
\* whichever PC had it before and whatever is still in the buffer.
PcIsFound ==
  \A p \in Pcs :
    <>[](phase = "wifiSend" /\ ~exit /\ assoc = "up" /\ alive = {p}) => []<>(dest = p)

\* g_exit_requested: HOME ends the program from every screen and loop.
ExitCompletes == exit ~> phase = "exited"
=============================================================================
