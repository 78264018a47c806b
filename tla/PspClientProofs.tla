---------------------------- MODULE PspClientProofs ----------------------------
(***************************************************************************)
(* Proofs about the PSP client for any set of PCs and any choice of its    *)
(* time limits.                                                            *)
(***************************************************************************)
EXTENDS PspClient, TLAPS

-----------------------------------------------------------------------------
(* The inductive invariant.                                                *)

\* Which link may be up, or coming up, in which phase.
LinksBelongToPhases ==
  /\ phase \in {"start", "exited"} => modules = 0
  /\ phase = "usbStart" => usb < UsbStages
  /\ usb > 0 => phase \in {"usbStart", "usbWait", "usbSend", "usbStop"}
  /\ assoc # "down" => phase \in {"connect", "wifiSend", "backoff", "rejoin"}
  /\ socket <=> phase = "wifiSend"

\* A reconnection starts without an authorization, which the sender's variables
\* carry over to the new socket.
ReconnectsUnauthorized == phase \in {"backoff", "rejoin"} => ~session.authorized

IInv ==
  /\ TypeOK
  /\ LinksBelongToPhases
  /\ ReconnectsUnauthorized
  /\ SavesPowerOnlyWhileServed
  /\ AuthorizedPcGetsInput

-----------------------------------------------------------------------------
(* What the helpers do to the sender's variables.                          *)

\* Power is saved only with an authorization.
Served(s) == s.dark \/ s.slow => s.authorized

\* A turn later only the timers differ.
LEMMA AgedSession ==
  ASSUME NEW s \in Session
  PROVE  /\ Aged(s) \in Session
         /\ Aged(s).authorized = s.authorized
         /\ Aged(s).dark = s.dark
         /\ Aged(s).slow = s.slow
<1> DEFINE a == IF s.ackAge > AckTimeout THEN s.ackAge ELSE s.ackAge + 1
           b == IF s.sleepIn \in {None, 0} THEN s.sleepIn ELSE s.sleepIn - 1
           c == IF s.held \in {None, HoldTime} THEN s.held ELSE s.held + 1
<1>1. a \in 0..AckTimeout + 1
  BY PspAssumption DEF Session
<1>2. b \in (0..SleepDelay) \cup {None}
  BY PspAssumption DEF Session
<1>3. c \in (0..HoldTime) \cup {None}
  BY PspAssumption DEF Session
<1>4. Aged(s) = [s EXCEPT !.ackAge = a, !.sleepIn = b, !.held = c]
  BY DEF Aged
<1> HIDE DEF a, b, c
<1> QED BY <1>1, <1>2, <1>3, <1>4 DEF Session

\* Lighting the display keeps the authorization and the clock.
LEMMA LitSession ==
  ASSUME NEW s \in Session
  PROVE  /\ Lit(s) \in Session
         /\ Lit(s).authorized = s.authorized
         /\ Lit(s).dark = FALSE
         /\ Lit(s).slow = s.slow
<1>1. SleepDelay \in (0..SleepDelay) \cup {None}
  BY PspAssumption
<1> QED BY <1>1 DEF Lit, Session

\* Expiry takes everything back.
LEMMA ExpiredSession ==
  ASSUME NEW s \in Session
  PROVE  /\ Expired(s) \in Session
         /\ Expired(s).authorized = FALSE
         /\ Expired(s).dark = FALSE
         /\ Expired(s).slow = FALSE
BY DEF Expired, Restored, Session
\* Reading the buttons never darkens the display.
LEMMA ReadSession ==
  ASSUME NEW s \in Session, NEW chord \in BOOLEAN, NEW wake \in BOOLEAN
  PROVE  /\ Read(s, chord, wake) \in Session
         /\ Read(s, chord, wake).authorized = s.authorized
         /\ Read(s, chord, wake).slow = s.slow
         /\ Read(s, chord, wake).dark => s.dark
<1> DEFINE h == IF ~chord THEN None ELSE IF s.held = None THEN 0 ELSE s.held
           timed == [s EXCEPT !.held = h]
<1>1. h \in (0..HoldTime) \cup {None}
  BY PspAssumption DEF Session
<1>2. Read(s, chord, wake) = IF chord \/ (wake /\ s.dark) THEN Lit(timed) ELSE timed
  BY DEF Read
<1> HIDE DEF h
<1>3. /\ timed \in Session
      /\ timed.authorized = s.authorized /\ timed.slow = s.slow /\ timed.dark = s.dark
  BY <1>1 DEF Session
<1> HIDE DEF timed
<1>4. /\ Lit(timed) \in Session
      /\ Lit(timed).authorized = timed.authorized
      /\ Lit(timed).dark = FALSE
      /\ Lit(timed).slow = timed.slow
  BY <1>3, LitSession
<1>5. CASE chord \/ (wake /\ s.dark)
  BY <1>2, <1>3, <1>4, <1>5
<1>6. CASE ~(chord \/ (wake /\ s.dark))
  BY <1>2, <1>3, <1>6
<1> QED BY <1>5, <1>6

\* An ACK authorizes, and leaves the display as it is.
LEMMA AckedSession ==
  ASSUME NEW s \in Session, NEW obeys \in BOOLEAN
  PROVE  /\ Acked(s, obeys) \in Session
         /\ Acked(s, obeys).authorized = TRUE
<1>1. SleepDelay \in (0..SleepDelay) \cup {None} /\ 0 \in 0..AckTimeout + 1
  BY PspAssumption
<1>2. CASE s.authorized
  <2>1. Acked(s, obeys) = [s EXCEPT !.ackAge = 0]
    BY <1>2 DEF Acked
  <2> QED BY <1>1, <1>2, <2>1 DEF Session
<1>3. CASE ~s.authorized
  <2> DEFINE slow == s.slow \/ obeys
  <2>1. slow \in BOOLEAN
    BY DEF Session
  <2>2. Acked(s, obeys) = [s EXCEPT !.authorized = TRUE, !.ackAge = 0,
                                    !.sleepIn = SleepDelay, !.slow = slow]
    BY <1>3 DEF Acked
  <2> HIDE DEF slow
  <2> QED BY <1>1, <2>1, <2>2 DEF Session
<1> QED BY <1>2, <1>3

\* The display sleeps only with an authorization.
LEMMA SleptSession ==
  ASSUME NEW s \in Session, NEW obeys \in BOOLEAN
  PROVE  /\ Slept(s, obeys) \in Session
         /\ Slept(s, obeys).authorized = s.authorized
         /\ Served(s) => Served(Slept(s, obeys))
<1>1. CASE s.authorized /\ s.sleepIn = 0
  <2> DEFINE dark == s.dark \/ obeys
  <2>1. dark \in BOOLEAN
    BY DEF Session
  <2>2. Slept(s, obeys) = [s EXCEPT !.sleepIn = None, !.dark = dark]
    BY <1>1 DEF Slept
  <2> HIDE DEF dark
  <2>3. Slept(s, obeys) \in Session /\ Slept(s, obeys).authorized = s.authorized
    BY <2>1, <2>2 DEF Session
  <2> QED BY <1>1, <2>3 DEF Served
<1>2. CASE ~(s.authorized /\ s.sleepIn = 0)
  BY <1>2 DEF Slept
<1> QED BY <1>1, <1>2

\* A whole turn: its end is authorized if its beginning was or an ACK came, unless
\* the last one is too old.
TurnIsFair(s, read, isHeard, obeys) ==
  LET told == AfterAcks(read, isHeard, obeys)
      last == EndOfTurn(told, obeys)
  IN /\ last \in Session
     /\ told.authorized <=> (s.authorized \/ isHeard)
     /\ last.authorized <=> (told.authorized /\ ~IsLost(told))
     /\ Served(last)

LEMMA TurnSession ==
  ASSUME NEW s \in Session, Served(s), NEW isRead \in BOOLEAN, NEW chord \in BOOLEAN,
         NEW wake \in BOOLEAN, NEW isHeard \in BOOLEAN, NEW obeys \in BOOLEAN
  PROVE  TurnIsFair(s, IF isRead THEN Read(Aged(s), chord, wake) ELSE Aged(s), isHeard, obeys)
<1> DEFINE read == IF isRead THEN Read(Aged(s), chord, wake) ELSE Aged(s)
           told == AfterAcks(read, isHeard, obeys)
           kept == IF IsLost(told) THEN Expired(told) ELSE told
<1>1. Aged(s) \in Session /\ Aged(s).authorized = s.authorized /\ Served(Aged(s))
  BY AgedSession DEF Served
<1>2. /\ Read(Aged(s), chord, wake) \in Session
      /\ Read(Aged(s), chord, wake).authorized = s.authorized
      /\ Served(Read(Aged(s), chord, wake))
  <2> DEFINE aged == Aged(s)
  <2>1. aged \in Session /\ aged.authorized = s.authorized /\ Served(aged)
    BY <1>1
  <2> HIDE DEF aged
  <2>2. /\ Read(aged, chord, wake) \in Session
        /\ Read(aged, chord, wake).authorized = aged.authorized
        /\ Read(aged, chord, wake).slow = aged.slow
        /\ Read(aged, chord, wake).dark => aged.dark
    BY <2>1, ReadSession
  <2>3. Served(Read(aged, chord, wake))
    BY <2>1, <2>2 DEF Served
  <2> QED BY <2>1, <2>2, <2>3 DEF aged
<1>3. read \in Session /\ read.authorized = s.authorized /\ Served(read)
  BY <1>1, <1>2
<1> HIDE DEF read
<1>4. /\ told \in Session
      /\ told.authorized <=> (s.authorized \/ isHeard)
      /\ Served(told)
  <2>1. CASE isHeard
    BY <1>3, <2>1, AckedSession DEF AfterAcks, Served
  <2>2. CASE ~isHeard
    BY <1>3, <2>2 DEF AfterAcks
  <2> QED BY <2>1, <2>2
<1> HIDE DEF told
<1>5. kept \in Session /\ (kept.authorized <=> (told.authorized /\ ~IsLost(told))) /\ Served(kept)
  <2>1. CASE IsLost(told)
    BY <1>4, <2>1, ExpiredSession DEF Served
  <2>2. CASE ~IsLost(told)
    BY <1>4, <2>2
  <2> QED BY <2>1, <2>2
<1>6. EndOfTurn(told, obeys) = Slept(kept, obeys)
  BY DEF EndOfTurn
<1> HIDE DEF kept
<1>7. /\ EndOfTurn(told, obeys) \in Session
      /\ EndOfTurn(told, obeys).authorized = kept.authorized
      /\ Served(EndOfTurn(told, obeys))
  <2>1. /\ Slept(kept, obeys) \in Session
        /\ Slept(kept, obeys).authorized = kept.authorized
        /\ Served(kept) => Served(Slept(kept, obeys))
    BY <1>5, SleptSession
  <2> QED BY <1>5, <1>6, <2>1, Zenon
<1>8. TurnIsFair(s, read, isHeard, obeys)
  BY <1>4, <1>5, <1>7 DEF TurnIsFair, told
<1> QED BY <1>8 DEF read

-----------------------------------------------------------------------------
(* Every step preserves the invariant.                                     *)

\* A new session keeps only the display and the clock.
LEMMA NewSessionIsSession ==
  ASSUME NEW s \in Session
  PROVE  /\ NewSession(s) \in Session
         /\ NewSession(s).authorized = FALSE
         /\ NewSession(s).dark = s.dark
         /\ NewSession(s).slow = s.slow
<1>1. 0 \in 0..AckTimeout + 1
  BY PspAssumption
<1> QED BY <1>1 DEF NewSession, Session

\* A link that ends leaves a lit display and the high clock.
LEMMA RestoredSession ==
  ASSUME NEW s \in Session
  PROVE  /\ Restored(s) \in Session
         /\ Restored(s).authorized = s.authorized
         /\ Restored(s).dark = FALSE
         /\ Restored(s).slow = FALSE
BY DEF Restored, Session

LEMMA InitIInv == Init => IInv
<1> SUFFICES ASSUME Init PROVE IInv
  OBVIOUS
<1>1. session \in Session /\ ~session.authorized /\ ~session.dark /\ ~session.slow
  <2>1. session = [authorized |-> FALSE, ackAge |-> 0, sleepIn |-> None,
                   held |-> None, dark |-> FALSE, slow |-> FALSE]
    BY DEF Init, NewSession
  <2>2. 0 \in 0..AckTimeout + 1
    BY PspAssumption
  <2> QED BY <2>1, <2>2 DEF Session
<1>2. /\ phase = "start" /\ exit = FALSE /\ usb = 0 /\ modules = 0 /\ assoc = "down"
      /\ socket = FALSE /\ dest = Broadcast /\ acks = {}
      /\ alive \subseteq Pcs
  BY Zenon DEF Init
<1>3. TypeOK
  <2>1. usb \in 0..UsbStages /\ modules \in 0..WifiStages /\ phase \in Phases
    BY <1>2 DEF UsbStages, WifiStages, Phases
  <2>2. acks \subseteq Pcs
    BY <1>2, Zenon
  <2> QED BY <1>1, <1>2, <2>1, <2>2 DEF TypeOK
<1> QED BY <1>1, <1>2, <1>3
        DEF IInv, LinksBelongToPhases, ReconnectsUnauthorized,
            SavesPowerOnlyWhileServed, AuthorizedPcGetsInput, Sending

\* The steps that leave the sender's variables, the socket and the address as
\* they are, outside of the senders.
LEMMA QuietStep ==
  ASSUME IInv,
         UNCHANGED <<session, socket, dest, acks>>,
         phase \notin Sending \cup {"usbStop"}, phase' \notin Sending,
         phase' \in {"backoff", "rejoin"} => phase \in {"backoff", "rejoin"},
         phase' \in Phases, exit' \in BOOLEAN, alive' \subseteq Pcs,
         usb' \in 0..UsbStages, modules' \in 0..WifiStages,
         assoc' \in {"down", "joining", "up"},
         phase' \in {"start", "exited"} => modules' = 0,
         phase' = "usbStart" => usb' < UsbStages,
         usb' > 0 => phase' \in {"usbStart", "usbWait", "usbStop"},
         assoc' # "down" => phase' \in {"connect", "backoff", "rejoin"}
  PROVE  IInv'
BY DEF IInv, TypeOK, LinksBelongToPhases, ReconnectsUnauthorized,
       SavesPowerOnlyWhileServed, AuthorizedPcGetsInput, Sending

\* The steps of the selector, of the setup and of the reconnection.
LEMMA SetupStep ==
  ASSUME IInv,
         \/ Startup \/ UsbStageStarts \/ UsbStageFails
         \/ LoadModule \/ ModulesLoaded \/ SelectProfile \/ ConnectFails
         \/ BackoffEnds \/ RejoinFails
  PROVE  IInv'
<1> USE DEF IInv, TypeOK, LinksBelongToPhases, UsbStages, WifiStages, Phases, Sending, link
<1>1. CASE Startup
  BY <1>1, QuietStep DEF Startup
<1>2. CASE UsbStageStarts
  BY <1>2, QuietStep DEF UsbStageStarts
<1>3. CASE UsbStageFails
  BY <1>3, QuietStep DEF UsbStageFails
<1>4. CASE LoadModule
  BY <1>4, QuietStep DEF LoadModule
<1>5. CASE ModulesLoaded
  BY <1>5, QuietStep DEF ModulesLoaded
<1>6. CASE SelectProfile
  BY <1>6, QuietStep DEF SelectProfile
<1>7. CASE ConnectFails
  BY <1>7, QuietStep DEF ConnectFails
<1>8. CASE BackoffEnds
  BY <1>8, QuietStep DEF BackoffEnds
<1>9. CASE RejoinFails
  BY <1>9, QuietStep DEF RejoinFails
<1> QED BY <1>1, <1>2, <1>3, <1>4, <1>5, <1>6, <1>7, <1>8, <1>9

\* A step back to the selector, or to the end of the program, that restores the
\* display and the clock and leaves no link up.
LEMMA LeaveStep ==
  ASSUME IInv,
         phase' = "menu", usb' = 0, assoc' = "down", ~socket', socket' \in BOOLEAN,
         session' = Restored(session),
         modules' = modules, exit' \in BOOLEAN,
         dest' \in Pcs \cup {Broadcast}, acks' \subseteq Pcs, alive' \subseteq Pcs
  PROVE  IInv'
<1>1. session \in Session
  BY DEF IInv, TypeOK
<1>2. /\ session' \in Session
      /\ session'.dark = FALSE
      /\ session'.slow = FALSE
  BY <1>1, RestoredSession
<1> QED BY <1>2 DEF IInv, TypeOK, LinksBelongToPhases, ReconnectsUnauthorized, UsbStages,
       SavesPowerOnlyWhileServed, AuthorizedPcGetsInput, Sending, Phases

\* The end of the Wi-Fi link leaves nothing of it.
LEMMA HangUpEffect ==
  ASSUME HangUp
  PROVE  /\ phase' = "menu" /\ usb' = usb /\ modules' = modules /\ dest' = dest
         /\ assoc' = "down" /\ ~socket' /\ socket' \in BOOLEAN
         /\ session' = Restored(session)
         /\ acks' \subseteq Pcs
BY Zenon DEF HangUp

\* The ways out of the links, among them the chord's.
LEMMA HangUpStep ==
  ASSUME IInv, UsbStopped \/ WifiLeave \/ ReconnectLeave \/ (ChordLeaves /\ phase = "wifiSend")
  PROVE  IInv'
<1> USE DEF IInv, TypeOK, LinksBelongToPhases, Sending, UsbStages
<1>1. CASE UsbStopped
  BY <1>1, LeaveStep DEF UsbStopped, link
<1>2. CASE WifiLeave
  <2>1. HangUp /\ phase = "wifiSend" /\ UNCHANGED <<exit, alive>>
    BY <1>2 DEF WifiLeave
  <2> QED BY <2>1, HangUpEffect, LeaveStep
<1>3. CASE ReconnectLeave
  <2>1. HangUp /\ phase \in {"backoff", "rejoin"} /\ UNCHANGED <<exit, alive>>
    BY <1>3 DEF ReconnectLeave
  <2> QED BY <2>1, HangUpEffect, LeaveStep
<1>4. CASE ChordLeaves /\ phase = "wifiSend"
  <2>1. HangUp /\ usb = 0 /\ UNCHANGED <<exit, alive>>
    BY <1>4 DEF ChordLeaves
  <2> QED BY <2>1, HangUpEffect, LeaveStep
<1> QED BY <1>1, <1>2, <1>3, <1>4

\* The way out of the USB link, stage by stage, with the sender's variables but
\* for the display.
LEMMA UsbStopStep ==
  ASSUME IInv, UsbLeave \/ UsbStageStops \/ (ChordLeaves /\ phase = "usbSend")
  PROVE  IInv'
<1>1. /\ phase' = "usbStop" /\ phase \in {"usbWait", "usbSend", "usbStop"}
      /\ usb' \in 0..UsbStages
      /\ UNCHANGED <<modules, assoc, socket, dest, acks>>
      /\ exit' \in BOOLEAN /\ alive' \subseteq Pcs
  <2>1. CASE UsbLeave
    BY <2>1 DEF UsbLeave, link, IInv, TypeOK
  <2>2. CASE UsbStageStops
    BY <2>2 DEF UsbStageStops, IInv, TypeOK, UsbStages
  <2>3. CASE ChordLeaves /\ phase = "usbSend"
    BY <2>3 DEF ChordLeaves, link, IInv, TypeOK
  <2> QED BY <2>1, <2>2, <2>3
<1>2. /\ session' \in Session
      /\ session'.authorized = session.authorized /\ session'.slow = session.slow
      /\ session'.dark => session.dark
  <2>1. CASE UsbLeave \/ UsbStageStops
    BY <2>1 DEF UsbLeave, UsbStageStops, IInv, TypeOK
  <2>2. CASE ChordLeaves /\ phase = "usbSend"
    <3>1. session \in Session /\ session' = [session EXCEPT !.dark = FALSE]
      BY <2>2 DEF ChordLeaves, IInv, TypeOK
    <3> QED BY <3>1 DEF Session
  <2> QED BY <2>1, <2>2
<1> QED BY <1>1, <1>2
        DEF IInv, TypeOK, LinksBelongToPhases, ReconnectsUnauthorized, Phases, UsbStages,
            SavesPowerOnlyWhileServed, AuthorizedPcGetsInput, Sending

\* The steps that restore the display or start the sender's variables anew.
LEMMA SessionStep ==
  ASSUME IInv,
         SelectTransport \/ Cleanup \/ UsbCableFound \/ Connected \/ LoseLink \/ Reconnected
  PROVE  IInv'
<1> USE DEF IInv, TypeOK, LinksBelongToPhases, ReconnectsUnauthorized, Sending, Phases, link,
        UsbStages, WifiStages, SavesPowerOnlyWhileServed, AuthorizedPcGetsInput
<1>1. session \in Session /\ session.dark \in BOOLEAN /\ session.slow \in BOOLEAN
  BY DEF Session
<1>2. /\ NewSession(session) \in Session
       /\ NewSession(session).authorized = FALSE
       /\ NewSession(session).dark = session.dark
       /\ NewSession(session).slow = session.slow
  BY <1>1, NewSessionIsSession
<1>3. CASE SelectTransport
  <2>1. session' \in Session /\ ~session'.dark /\ ~session'.slow
    BY <1>1, <1>3, RestoredSession DEF SelectTransport
  <2> QED BY <1>3, <2>1 DEF SelectTransport
<1>4. CASE Cleanup
  <2>1. session' = [session EXCEPT !.dark = FALSE]
    BY <1>4 DEF Cleanup
  <2>2. session' \in Session /\ ~session'.dark /\ session'.slow = session.slow
    BY <1>1, <2>1 DEF Session
  <2> QED BY <1>4, <2>2 DEF Cleanup
<1>5. CASE UsbCableFound
  <2>1. session' \in Session /\ session'.authorized = FALSE
        /\ session'.dark = session.dark /\ session'.slow = session.slow
    BY <1>2, <1>5 DEF UsbCableFound
  <2> QED BY <1>5, <2>1 DEF UsbCableFound
<1>6. CASE Connected
  <2>1. session' \in Session /\ session'.authorized = FALSE
        /\ session'.dark = session.dark /\ session'.slow = session.slow
    BY <1>2, <1>6 DEF Connected
  <2> QED BY <1>6, <2>1 DEF Connected, OpenSocket
<1>7. CASE LoseLink
  <2> DEFINE lit == Restored(session)
  <2>1. lit \in Session /\ lit.dark = FALSE /\ lit.slow = FALSE
    BY <1>1, RestoredSession
  <2>2. session' = [lit EXCEPT !.authorized = FALSE]
    BY <1>7 DEF LoseLink
  <2> HIDE DEF lit
  <2>3. session' \in Session /\ ~session'.dark /\ ~session'.slow /\ ~session'.authorized
    BY <2>1, <2>2 DEF Session
  <2> QED BY <1>7, <2>3 DEF LoseLink
<1>8. CASE Reconnected
  <2> DEFINE h == IF session.held = None THEN None ELSE HoldTime
  <2>1. h \in (0..HoldTime) \cup {None}
    BY PspAssumption
  <2>2. PICK left \in {None} \cup 0..SleepDelay :
          session' = [session EXCEPT !.sleepIn = left, !.held = h]
    BY <1>8 DEF Reconnected
  <2> HIDE DEF h
  <2>3. /\ session' \in Session
        /\ session'.authorized = session.authorized
        /\ session'.dark = session.dark
        /\ session'.slow = session.slow
    BY <1>1, <2>1, <2>2 DEF Session
  <2> QED BY <1>8, <2>3 DEF Reconnected, OpenSocket
<1> QED BY <1>3, <1>4, <1>5, <1>6, <1>7, <1>8

\* The surroundings.
LEMMA SurroundingsStep ==
  ASSUME IInv, RequestExit \/ Associate \/ PcsChange
  PROVE  IInv'
<1> USE DEF IInv, TypeOK, LinksBelongToPhases, ReconnectsUnauthorized, link,
        SavesPowerOnlyWhileServed, AuthorizedPcGetsInput
<1>1. CASE RequestExit
  BY <1>1 DEF RequestExit
<1>2. CASE Associate
  BY <1>2 DEF Associate
<1>3. CASE PcsChange
  BY <1>3 DEF PcsChange
<1> QED BY <1>1, <1>2, <1>3

\* A turn over the cable, whose address stays as it was.
LEMMA UsbTurnStep == ASSUME IInv, UsbTurn PROVE IInv'
<1>1. session \in Session /\ Served(session)
  BY DEF IInv, TypeOK, SavesPowerOnlyWhileServed, Served
<1>2. PICK isRead \in BOOLEAN, chord \in BOOLEAN, wake \in BOOLEAN, isHeard \in BOOLEAN,
           obeys \in BOOLEAN :
        LET read == IF isRead THEN Read(Aged(session), chord, wake) ELSE Aged(session)
        IN  session' = EndOfTurn(AfterAcks(read, isHeard, obeys), obeys)
  BY ZenonT(30) DEF UsbTurn, ReadOutcomes
<1> DEFINE read == IF isRead THEN Read(Aged(session), chord, wake) ELSE Aged(session)
<1>3. TurnIsFair(session, read, isHeard, obeys)
  BY <1>1, TurnSession
<1>4. session' = EndOfTurn(AfterAcks(read, isHeard, obeys), obeys)
  BY <1>2
<1> HIDE DEF read
<1>5. session' \in Session /\ Served(session')
  BY <1>3, <1>4 DEF TurnIsFair
<1>6. phase = "usbSend" /\ UNCHANGED <<phase, exit, link, acks, alive>>
  BY DEF UsbTurn
<1> QED BY <1>5, <1>6
        DEF IInv, TypeOK, LinksBelongToPhases, ReconnectsUnauthorized, link, Served, Sending,
            SavesPowerOnlyWhileServed, AuthorizedPcGetsInput

\* A turn over Wi-Fi: the address follows the authorization, and is never moved
\* from one PC to another.
LEMMA WifiTurnStep ==
  ASSUME IInv, NEW isRead \in BOOLEAN, NEW drained, NEW answered,
         WifiTurn(isRead, drained, answered)
  PROVE  IInv' /\ (dest \in Pcs /\ dest' \in Pcs => dest' = dest)
<1>1. /\ session \in Session /\ Served(session)
      /\ acks \subseteq Pcs /\ alive \subseteq Pcs /\ dest \in Pcs \cup {Broadcast}
  BY DEF IInv, TypeOK, SavesPowerOnlyWhileServed, Served
<1>2. /\ phase = "wifiSend" /\ drained \subseteq acks
      /\ acks' = (acks \ drained) \cup answered
      /\ answered \subseteq (IF isRead THEN Reached ELSE {})
      /\ UNCHANGED <<phase, exit, usb, modules, assoc, socket, alive>>
  BY DEF WifiTurn
<1>3. PICK chord \in BOOLEAN, wake \in BOOLEAN, obeys \in BOOLEAN,
           heard \in (IF Heard(drained) = {} THEN {None} ELSE Heard(drained)) :
        LET read == IF isRead THEN Read(Aged(session), chord, wake) ELSE Aged(session)
            told == AfterAcks(read, heard # None, obeys)
        IN  /\ session' = EndOfTurn(told, obeys)
            /\ dest' = NextDestination(IsLost(told), heard)
  BY DEF WifiTurn
<1> DEFINE read == IF isRead THEN Read(Aged(session), chord, wake) ELSE Aged(session)
           told == AfterAcks(read, heard # None, obeys)
<1>4. TurnIsFair(session, read, heard # None, obeys)
  <2>1. (heard # None) \in BOOLEAN
    OBVIOUS
  <2> QED BY <1>1, <2>1, TurnSession
<1>5. session' = EndOfTurn(told, obeys) /\ dest' = NextDestination(IsLost(told), heard)
  BY <1>3
<1> HIDE DEF read
<1>6. /\ session' \in Session
      /\ told.authorized <=> (session.authorized \/ heard # None)
      /\ session'.authorized <=> (told.authorized /\ ~IsLost(told))
      /\ Served(session')
  BY <1>4, <1>5 DEF TurnIsFair
<1> HIDE DEF told
<1>7. /\ Heard(drained) \subseteq Pcs
      /\ dest # Broadcast => Heard(drained) \subseteq {dest}
  BY <1>1, <1>2 DEF Heard
<1>8. heard = None \/ (heard \in Pcs /\ (dest # Broadcast => heard = dest))
  BY <1>7
<1>9. Broadcast \notin Pcs /\ None \notin Pcs
  BY PspAssumption
<1>10. session.authorized <=> dest # Broadcast
  BY <1>2 DEF IInv, AuthorizedPcGetsInput
<1>11. /\ dest' \in Pcs \cup {Broadcast}
       /\ session'.authorized <=> dest' # Broadcast
       /\ dest \in Pcs /\ dest' \in Pcs => dest' = dest
  <2>1. CASE IsLost(told)
    BY <1>5, <1>6, <1>9, <2>1 DEF NextDestination
  <2>2. CASE ~IsLost(told) /\ heard = None
    BY <1>1, <1>5, <1>6, <1>10, <2>2 DEF NextDestination
  <2>3. CASE ~IsLost(told) /\ heard # None
    BY <1>5, <1>6, <1>8, <1>9, <2>3 DEF NextDestination
  <2> QED BY <2>1, <2>2, <2>3
<1>12. acks' \subseteq Pcs
  BY <1>1, <1>2 DEF Reached
<1> QED BY <1>2, <1>6, <1>11, <1>12
        DEF IInv, TypeOK, LinksBelongToPhases, ReconnectsUnauthorized, Served, Sending,
            SavesPowerOnlyWhileServed, AuthorizedPcGetsInput

LEMMA NextIInv == IInv /\ [Next]_vars => IInv'
<1> SUFFICES ASSUME IInv, [Next]_vars PROVE IInv'
  OBVIOUS
<1>1. CASE UNCHANGED vars
  BY <1>1 DEF vars, link, IInv, TypeOK, LinksBelongToPhases, ReconnectsUnauthorized,
              SavesPowerOnlyWhileServed, AuthorizedPcGetsInput
<1>2. CASE RequestExit \/ Associate \/ PcsChange
  BY <1>2, SurroundingsStep
<1>3. CASE \E isRead \in ReadOutcomes, drained, answered \in SUBSET Pcs :
             WifiTurn(isRead, drained, answered)
  <2>1. ReadOutcomes \subseteq BOOLEAN
    BY DEF ReadOutcomes
  <2> QED BY <1>3, <2>1, WifiTurnStep
<1>4. CASE UsbTurn
  BY <1>4, UsbTurnStep
<1>5. CASE UsbLeave \/ UsbStageStops \/ UsbStopped \/ WifiLeave \/ ReconnectLeave \/ ChordLeaves
  BY <1>5, HangUpStep, UsbStopStep DEF ChordLeaves, Sending
<1>6. CASE \/ SelectTransport \/ Cleanup \/ UsbCableFound \/ Connected \/ LoseLink
           \/ Reconnected
  BY <1>6, SessionStep
<1>7. CASE \/ Startup \/ UsbStageStarts \/ UsbStageFails
           \/ LoadModule \/ ModulesLoaded \/ SelectProfile \/ ConnectFails
           \/ BackoffEnds \/ RejoinFails
  BY <1>7, SetupStep
<1> QED BY <1>1, <1>2, <1>3, <1>4, <1>5, <1>6, <1>7 DEF Next, MainSteps

LEMMA SpecIInv == Spec => []IInv
BY InitIInv, NextIInv, PTL DEF Spec

-----------------------------------------------------------------------------
(* The results.                                                            *)

\* The types of the client's variables, for any number of PCs.
THEOREM TypeCorrect == Spec => []TypeOK
<1>1. IInv => TypeOK
  BY DEF IInv
<1> QED BY <1>1, SpecIInv, PTL

\* main.c:1293-1482: no link is left up in the selector, in the setup screens or at
\* the end of the program, and USB and Wi-Fi are never both up.
THEOREM LinksAreTakenDownHolds == Spec => []LinksAreTakenDown
<1>1. IInv => LinksAreTakenDown
  BY DEF IInv, TypeOK, LinksBelongToPhases, LinksAreTakenDown, UsbStages
<1> QED BY <1>1, SpecIInv, PTL

\* main.c:799-812, 967-974: the display is dark and the clock low only while a PC
\* takes the input, or its USB link is being taken down.
THEOREM SavesPowerOnlyWhileServedHolds == Spec => []SavesPowerOnlyWhileServed
<1>1. IInv => SavesPowerOnlyWhileServed
  BY DEF IInv
<1> QED BY <1>1, SpecIInv, PTL

\* main.c:938-952, 967-974: over Wi-Fi the input goes to one PC exactly as long as
\* the PSP says that it is authorized.
THEOREM AuthorizedPcGetsInputHolds == Spec => []AuthorizedPcGetsInput
<1>1. IInv => AuthorizedPcGetsInput
  BY DEF IInv
<1> QED BY <1>1, SpecIInv, PTL

\* main.c:938-952: however many PCs have the pairing code, the input moves from one
\* to another only through a new discovery.
THEOREM NoSilentSwitchHolds == Spec => NoSilentSwitch
<1>1. IInv /\ [Next]_vars => [(dest \in Pcs /\ dest' \in Pcs) => dest' = dest]_vars
  <2> SUFFICES ASSUME IInv, Next PROVE dest \in Pcs /\ dest' \in Pcs => dest' = dest
    OBVIOUS
  <2>1. Broadcast \notin Pcs
    BY PspAssumption
  <2>2. CASE \E isRead \in ReadOutcomes, drained, answered \in SUBSET Pcs :
               WifiTurn(isRead, drained, answered)
    <3>1. ReadOutcomes \subseteq BOOLEAN
      BY DEF ReadOutcomes
    <3> QED BY <2>2, <3>1, WifiTurnStep
  <2>3. CASE Connected \/ LoseLink \/ Reconnected
    BY <2>1, <2>3 DEF Connected, LoseLink, Reconnected, OpenSocket
  <2>4. CASE \/ SelectTransport \/ Cleanup \/ UsbCableFound \/ UsbTurn
             \/ UsbLeave \/ UsbStageStops \/ UsbStopped
             \/ WifiLeave \/ ReconnectLeave \/ ChordLeaves
    BY <2>4 DEF SelectTransport, Cleanup, UsbCableFound, UsbTurn, UsbLeave, UsbStageStops,
                UsbStopped, WifiLeave, ReconnectLeave, ChordLeaves, HangUp, link
  <2>5. CASE \/ Startup \/ UsbStageStarts \/ UsbStageFails
             \/ LoadModule \/ ModulesLoaded \/ SelectProfile \/ ConnectFails
             \/ BackoffEnds \/ RejoinFails
    BY <2>5 DEF Startup, UsbStageStarts, UsbStageFails, LoadModule, ModulesLoaded,
                SelectProfile, ConnectFails, BackoffEnds, RejoinFails, link
  <2>6. CASE RequestExit \/ Associate \/ PcsChange
    BY <2>6 DEF RequestExit, Associate, PcsChange, link
  <2> QED BY <2>2, <2>3, <2>4, <2>5, <2>6 DEF Next, MainSteps
<1> QED BY <1>1, SpecIInv, PTL DEF Spec, NoSilentSwitch
=============================================================================
