------------------------------- MODULE Receiver -------------------------------
(***************************************************************************)
(* The receiver of the PC bridge (pc-server/pc_server/receiver.py, class   *)
(* UdpReceiver): who may drive the pad, and which datagrams update it.     *)
(*                                                                         *)
(* Two threads handle datagrams: the UDP loop (every Wi-Fi endpoint) and   *)
(* the USB reader (the one endpoint ("usb", 0)).  The Tk thread changes    *)
(* the pairing token, disconnects and re-allows endpoints, and stops the   *)
(* receiver.  A datagram is handled in steps, and the other threads run    *)
(* between them: the arrival time is read before the lock is taken, the    *)
(* routing decision is made under the lock, the callback runs after the    *)
(* lock is released, and the readiness ACK is checked for, sent and noted   *)
(* from what was decided, without the lock.                                *)
(***************************************************************************)
EXTENDS SequenceNumbers

CONSTANTS
  WifiAddresses,   \* the IP:port pairs that datagrams come from
  UsbAddress,      \* ("usb", 0)
  Tokens,          \* session tokens of PSP application sessions
  RequirePairing,  \* require_pairing; the desktop application passes True
  SwitchGrace,     \* TRANSPORT_SWITCH_GRACE_S, 0.15 s
  ActiveTimeout,   \* active_client_timeout_s, 1.75 s
  Retention,       \* client_retention_s, 10 s
  AckInterval,     \* PAIRING_ACK_INTERVAL_S, 0.1 s
  PadReadiness,    \* the answers pairing_ack_allowed may give
  Offered,         \* bound of the model: the sequence numbers that arrive
  MaxTime,         \* bound of the model: the last instant of the clock
  Stalls           \* bound of the model: longest wait of a thread for the lock

ASSUME ReceiverAssumption ==
  /\ UsbAddress \notin WifiAddresses
  /\ None \notin WifiAddresses \cup {UsbAddress} \cup Tokens
  /\ RequirePairing \in BOOLEAN
  /\ SwitchGrace \in Nat \ {0}
  /\ ActiveTimeout \in Nat \ {0}            \* receiver.py:204
  /\ Retention \in Nat
  /\ Retention >= ActiveTimeout             \* receiver.py:206
  /\ AckInterval \in Nat
  /\ PadReadiness \subseteq BOOLEAN
  /\ Offered \subseteq Sequences
  /\ MaxTime \in Nat
  /\ Stalls \in Nat

Addresses  == WifiAddresses \cup {UsbAddress}
Threads    == {"udp", "usb"}
Thread(a)  == IF a = UsbAddress THEN "usb" ELSE "udp"
Transports == {"wifi", "usb"}

\* A datagram without a token is a legacy v1 packet.
PacketTokens == Tokens \cup {None}

\* ClientState.  The rate and the logging flag steer nothing and are left out;
\* of the tracker only the last number does.
ClientState == [last : Sequences \cup {None}, lastSeen : Nat, lastFresh : Nat,
                token : PacketTokens, transport : Transports]

NewClient == [last |-> None, lastSeen |-> 0, lastFresh |-> 0, token |-> None,
              transport |-> "wifi"]

VARIABLES
  now,          \* time.monotonic()
  clients,      \* _clients
  activeClient, \* _active_client
  blocked,      \* _blocked_clients
  pairingToken, \* _pairing_token
  lastAck,      \* _last_ack_sent
  job,          \* what each thread is doing with which datagram
  stopEvent     \* _stop_event

routing == <<clients, activeClient, blocked>>
vars    == <<now, routing, pairingToken, lastAck, job, stopEvent>>

\* The steps of a thread: waiting in recvfrom or in the bulk read, between the
\* arrival and the lock, between the lock and the callback, between the callback
\* and the ACK, at the check of the ACK's interval, between that check and the
\* sending, between the sending and the note of its time, and out of its loop.
Steps == {"receive", "arrived", "decided", "delivered", "ack", "send", "note", "done"}

Job == [step : Steps, address : Addresses \cup {None}, token : PacketTokens,
        sequence : Sequences, at : Nat, isActive : BOOLEAN, isUpdate : BOOLEAN]

Idle == [step |-> "receive", address |-> None, token |-> None, sequence |-> 0,
         at |-> 0, isActive |-> FALSE, isUpdate |-> FALSE]

Arrived(a, token, sequence) ==
  [step |-> "arrived", address |-> a, token |-> token, sequence |-> sequence,
   at |-> now, isActive |-> FALSE, isUpdate |-> FALSE]

\* Of a datagram that was routed, and of one whose callbacks have run, only what
\* the rest of its handling reads.
Decided(j, isActive, isUpdate) ==
  [step |-> "decided", address |-> j.address, token |-> j.token,
   sequence |-> j.sequence, at |-> 0, isActive |-> isActive, isUpdate |-> isUpdate]

Later(j, step, at) ==
  [step |-> step, address |-> j.address, token |-> j.token,
   sequence |-> 0, at |-> at, isActive |-> TRUE, isUpdate |-> FALSE]

\* The end of a turn of the loop, whose condition is the stop event.
NextTurn == IF stopEvent THEN [Idle EXCEPT !.step = "done"] ELSE Idle

TypeOK ==
  /\ now \in Nat
  /\ DOMAIN clients \subseteq Addresses
  /\ \A a \in DOMAIN clients : clients[a] \in ClientState
  /\ activeClient \in Addresses \cup {None}
  /\ blocked \subseteq Addresses
  /\ pairingToken \in Tokens \cup {None}
  /\ DOMAIN lastAck \subseteq Addresses
  /\ \A a \in DOMAIN lastAck : lastAck[a] \in Nat
  /\ job \in [Threads -> Job]
  /\ stopEvent \in BOOLEAN

\* The clock of a running machine is past zero, which the code relies on where
\* it tests last_seen > 0.
Init ==
  /\ now = 1
  /\ clients = [a \in {} |-> NewClient]
  /\ activeClient = None
  /\ blocked = {}
  /\ pairingToken \in Tokens \cup {None}
  /\ lastAck = [a \in {} |-> 0]
  /\ job = [t \in Threads |-> Idle]
  /\ stopEvent = FALSE

-----------------------------------------------------------------------------
(* Helpers that run under the lock, as functions of the routing state.     *)

\* A function without the arguments of a set.
Without(f, S) == [x \in DOMAIN f \ S |-> f[x]]

With(f, x, v) == [y \in DOMAIN f \cup {x} |-> IF y = x THEN v ELSE f[y]]

\* _maintain_clients_locked: the clients that expire at time t ...
Expired(t) == {a \in DOMAIN clients : t - clients[a].lastSeen >= Retention}

\* Fault: retention is applied without timing the active client out first.
ActiveAtForgetsTimeout(t) == activeClient

\* ... and the active client that is left: it may time out, and the code does
\* not look whether it expired, because a client that is fresh is not old.
ActiveAt(t) ==
  IF /\ activeClient \in DOMAIN clients
     /\ t - clients[activeClient].lastFresh < ActiveTimeout
  THEN activeClient ELSE None

\* Fault: a new session at a known address inherits the tracker of the last one.
SenderStateInherits(known, a, token, t) ==
  LET old == IF a \in DOMAIN known THEN known[a] ELSE NewClient
      timedOut == old.lastSeen > 0 /\ t - old.lastSeen >= ActiveTimeout
  IN [old EXCEPT !.last = IF timedOut THEN None ELSE old.last,
                 !.lastSeen = t, !.token = token,
                 !.transport = IF a = UsbAddress THEN "usb" ELSE "wifi"]

\* receiver.py:576-600: the state of the sender as its packet finds it, with a
\* new tracker if it is a new session or was silent for the safety timeout.
SenderState(known, a, token, t) ==
  LET old == IF a \in DOMAIN known THEN known[a] ELSE NewClient
      restarted == \/ old.token # None /\ token # old.token
                   \/ old.lastSeen > 0 /\ t - old.lastSeen >= ActiveTimeout
  IN [last      |-> IF restarted THEN None ELSE old.last,
      lastSeen  |-> t,
      lastFresh |-> old.lastFresh,
      token     |-> token,
      transport |-> IF a = UsbAddress THEN "usb" ELSE "wifi"]

\* Fault: the same session takes over at once, without the grace period.
TakesOverAtOnce(known, active, a, s, t) ==
  /\ active # None /\ active # a
  /\ active \in DOMAIN known
  /\ known[active].transport # s.transport
  /\ known[active].token # None
  /\ known[active].token = s.token

\* Fault: the session's other transport waits for the safety timeout.
TakesOverLate(known, active, a, s, t) ==
  TakesOverAtOnce(known, active, a, s, t) /\ t - known[active].lastFresh >= ActiveTimeout

\* receiver.py:611-631: the sender takes the pad over from the active client if
\* it is the same session on the other transport and the active client has
\* produced nothing fresh for the grace period.
TakesOver(known, active, a, s, t) ==
  /\ active # None /\ active # a
  /\ active \in DOMAIN known
  /\ known[active].transport # s.transport
  /\ known[active].token # None
  /\ known[active].token = s.token
  /\ t - known[active].lastFresh >= SwitchGrace

\* Fault: a receiver without a pairing code yet accepts every code.
PairingRejectsOnlyMismatch(a, token) ==
  RequirePairing /\ a # UsbAddress /\ pairingToken # None /\ token # pairingToken

PairingRejects(a, token) ==
  RequirePairing /\ a # UsbAddress /\ (pairingToken = None \/ token # pairingToken)

-----------------------------------------------------------------------------
(* The receiver threads.                                                   *)

\* A datagram that decodes comes from an allowed host; its arrival time is read.
Receive(a, token, sequence) ==
  LET t == Thread(a) IN
  /\ job[t].step = "receive"
  /\ job' = [job EXCEPT ![t] = Arrived(a, token, sequence)]
  /\ UNCHANGED <<now, routing, pairingToken, lastAck, stopEvent>>

\* A datagram that does not decode, or that comes from a host that is not
\* allowed, is counted, logged and dropped: no client ages by it.
ReceiveRejected(t) ==
  /\ job[t].step = "receive"
  /\ job' = [job EXCEPT ![t] = NextTurn]
  /\ UNCHANGED <<now, routing, pairingToken, lastAck, stopEvent>>

\* recvfrom times out after 0.2 s and the UDP loop maintains the clients.  The
\* USB reader's read times out without a call into the receiver.
ReceiveTimeout(t) ==
  /\ job[t].step = "receive"
  /\ job' = [job EXCEPT ![t] = NextTurn]
  /\ IF t = "udp"
     THEN /\ activeClient' = ActiveAt(now)
          /\ clients' = Without(clients, Expired(now))
          /\ blocked' = blocked \ Expired(now)
          /\ lastAck' = Without(lastAck, Expired(now))
     ELSE UNCHANGED <<routing, lastAck>>
  /\ UNCHANGED <<now, pairingToken, stopEvent>>

\* _handle_packet up to the release of the lock: refused for its token ...
RejectPacket(t) ==
  LET j == job[t] IN
  /\ j.step = "arrived"
  /\ PairingRejects(j.address, j.token)
  /\ job' = [job EXCEPT ![t] = NextTurn]
  /\ UNCHANGED <<now, routing, pairingToken, lastAck, stopEvent>>

\* ... or routed: the clients are maintained, the sender's state updated, the
\* pad given to the sender if it is free or may be taken over, and the packet
\* classified by the sender's tracker, a new one after a takeover.
HandlePacket(t) ==
  LET j      == job[t]
      a      == j.address
      known  == Without(clients, Expired(j.at))
      active == ActiveAt(j.at)
      barred == blocked \ Expired(j.at)
      sender == SenderState(known, a, j.token, j.at)
      seized == a \notin barred /\ TakesOver(known, active, a, sender, j.at)
      taken  == a \notin barred /\ (active = None \/ seized)
      owner  == IF taken THEN a ELSE active
      event  == Classify(IF seized THEN None ELSE sender.last, j.sequence)
      fresh  == event \in Accepted
      kept   == IF seized THEN 0 ELSE sender.lastFresh
  IN
  /\ j.step = "arrived"
  /\ ~PairingRejects(a, j.token)
  /\ clients' = With(known, a,
               [last      |-> IF fresh THEN j.sequence ELSE sender.last,
                lastSeen  |-> j.at,
                lastFresh |-> IF fresh THEN j.at ELSE kept,
                token     |-> j.token,
                transport |-> sender.transport])
  /\ activeClient' = owner
  /\ blocked' = barred
  /\ lastAck' = Without(lastAck, Expired(j.at))
  /\ job' = [job EXCEPT ![t] = Decided(j, owner = a, owner = a /\ fresh)]
  /\ UNCHANGED <<now, pairingToken, stopEvent>>

\* The callbacks, after the lock is released: on_packet gets the state only if
\* it was found to be an update.  No ACK is owed to an inactive client.
Deliver(t) ==
  /\ job[t].step = "decided"
  /\ job' = [job EXCEPT ![t] =
               IF job[t].isActive THEN Later(job[t], "delivered", 0) ELSE NextTurn]
  /\ UNCHANGED <<now, routing, pairingToken, lastAck, stopEvent>>

\* receiver.py:496-523: an ACK is owed to the active client if its token is the
\* configured one now, or on the cable any token, and the pad is ready, which
\* the callback pairing_ack_allowed reports.
Authorize(t) ==
  LET j == job[t]
      authorized == /\ j.token # None
                    /\ j.address # UsbAddress => j.token = pairingToken
  IN
  /\ j.step = "delivered"
  /\ \E ready \in PadReadiness :
       job' = [job EXCEPT ![t] =
                 IF authorized /\ ready THEN Later(j, "ack", 0) ELSE NextTurn]
  /\ UNCHANGED <<now, routing, pairingToken, lastAck, stopEvent>>

\* receiver.py:524-527, without the lock: the clock is read, and no ACK follows
\* the last one within the interval.  Only this thread notes times for the address;
\* the others may remove what is noted.
CheckInterval(t) ==
  LET j == job[t] IN
  /\ j.step = "ack"
  /\ job' = [job EXCEPT ![t] =
               IF j.address \in DOMAIN lastAck /\ now - lastAck[j.address] < AckInterval
               THEN NextTurn ELSE Later(j, "send", now)]
  /\ UNCHANGED <<now, routing, pairingToken, lastAck, stopEvent>>

\* The ACK is sent, unless sending raises.
SendAck(t) ==
  /\ job[t].step = "send"
  /\ \E raises \in BOOLEAN :
       job' = [job EXCEPT ![t] = IF raises THEN NextTurn ELSE Later(@, "note", @.at)]
  /\ UNCHANGED <<now, routing, pairingToken, lastAck, stopEvent>>

\* Fault: the time of the first ACK to an address is kept (setdefault).
NoteAckOnce(t) ==
  LET j == job[t] IN
  /\ j.step = "note"
  /\ lastAck' = IF j.address \in DOMAIN lastAck THEN lastAck ELSE With(lastAck, j.address, j.at)
  /\ job' = [job EXCEPT ![t] = NextTurn]
  /\ UNCHANGED <<now, routing, pairingToken, stopEvent>>

\* What was read at the check is noted, also for a client forgotten meanwhile.
NoteAck(t) ==
  LET j == job[t] IN
  /\ j.step = "note"
  /\ lastAck' = With(lastAck, j.address, j.at)
  /\ job' = [job EXCEPT ![t] = NextTurn]
  /\ UNCHANGED <<now, routing, pairingToken, stopEvent>>

-----------------------------------------------------------------------------
(* The Tk thread.                                                          *)

\* set_pairing_token: every Wi-Fi client is forgotten, USB is left alone.
SetPairingToken(token) ==
  LET wifi == {a \in DOMAIN clients : clients[a].transport = "wifi"} IN
  /\ pairingToken' = token
  /\ clients' = Without(clients, wifi)
  /\ blocked' = blocked \ wifi
  /\ lastAck' = Without(lastAck, wifi)
  /\ activeClient' = IF activeClient \in wifi THEN None ELSE activeClient
  /\ UNCHANGED <<now, job, stopEvent>>

\* Fault: the client is blocked but keeps the pad.
DisconnectKeepsOwner ==
  /\ activeClient # None
  /\ blocked' = blocked \cup {activeClient}
  /\ UNCHANGED <<now, clients, activeClient, pairingToken, lastAck, job, stopEvent>>

DisconnectActiveClient ==
  /\ activeClient # None
  /\ blocked' = blocked \cup {activeClient}
  /\ activeClient' = None
  /\ UNCHANGED <<now, clients, pairingToken, lastAck, job, stopEvent>>

\* Fault: allowing one transport lifts every disconnection.
AllowEveryTransport(transport) ==
  /\ blocked' = {}
  /\ UNCHANGED <<now, clients, activeClient, pairingToken, lastAck, job, stopEvent>>

AllowTransport(transport) ==
  /\ blocked' = blocked \ {a \in DOMAIN clients : clients[a].transport = transport}
  /\ UNCHANGED <<now, clients, activeClient, pairingToken, lastAck, job, stopEvent>>

RequestStop ==
  /\ ~stopEvent
  /\ stopEvent' = TRUE
  /\ UNCHANGED <<now, routing, pairingToken, lastAck, job>>

-----------------------------------------------------------------------------
Tick ==
  /\ now < MaxTime
  /\ \A t \in Threads : job[t].step = "arrived" => now < job[t].at + Stalls
  /\ now' = now + 1
  /\ UNCHANGED <<routing, pairingToken, lastAck, job, stopEvent>>

Next ==
  \/ Tick
  \/ \E t \in Threads :
       \/ ReceiveRejected(t)
       \/ ReceiveTimeout(t)
       \/ RejectPacket(t)
       \/ HandlePacket(t)
       \/ Deliver(t)
       \/ Authorize(t)
       \/ CheckInterval(t)
       \/ SendAck(t)
       \/ NoteAck(t)
  \/ \E a \in Addresses, token \in PacketTokens, sequence \in Offered :
       Receive(a, token, sequence)
  \/ \E token \in Tokens \cup {None} : SetPairingToken(token)
  \/ DisconnectActiveClient
  \/ \E transport \in Transports : AllowTransport(transport)
  \/ RequestStop

Spec == Init /\ [][Next]_vars

-----------------------------------------------------------------------------
(* Properties.                                                             *)

\* How long the pad's owner, or any client, has produced nothing fresh, and how
\* long it has sent nothing at all.
Stale(a)  == now - clients[a].lastFresh
Silent(a) == now - clients[a].lastSeen

\* The owner of the pad is a client the receiver still knows: whatever removes a
\* client (retention, a new pairing code) never leaves the pad with it.
OwnerIsKnown == activeClient # None => activeClient \in DOMAIN clients

\* A client the user disconnected does not own the pad, and is not remembered
\* as disconnected longer than it is known, or a later client at its address
\* would be refused for ever (_blocked_clients against _clients).
BlockedIsKnownAndIdle ==
  /\ blocked \subseteq DOMAIN clients
  /\ activeClient \notin blocked

\* set_pairing_token: when pairing is required, every Wi-Fi client the receiver
\* knows, and so the owner, is of the session that is paired now.  A datagram
\* that arrived under the old code and waited for the lock changes nothing.
WifiClientsArePaired ==
  RequirePairing =>
    \A a \in DOMAIN clients \ {UsbAddress} :
      pairingToken # None /\ clients[a].token = pairingToken

\* docs/input-protocol.md:113-117: a step takes the pad from its owner only if
\* the owner timed out, was released by the user or lost its pairing, or is
\* the same session on the other transport and has stopped producing input.
TransferIsLegal(a) ==
  \/ Stale(a) >= ActiveTimeout
  \/ activeClient' = None /\ (a \in blocked' \/ a \notin DOMAIN clients')
  \/ /\ activeClient' \in Addresses
     /\ ~(activeClient' = UsbAddress <=> a = UsbAddress)
     /\ clients[a].token # None
     /\ clients[a].token = clients'[activeClient'].token
     /\ Stale(a) >= SwitchGrace

OwnerKeepsPad ==
  [][\A a \in Addresses : activeClient = a /\ activeClient' # a => TransferIsLegal(a)]_vars

\* disconnect_active_client: the user's disconnection stands until the user
\* allows that transport again, changes the pairing code, or the client has
\* been silent for the whole retention time; no packet of the client, of
\* another client or of its other transport lifts it.
LiftIsLegal(a) ==
  \/ Silent(a) >= Retention
  \/ a # UsbAddress /\ a \notin DOMAIN clients'
  \/ /\ UNCHANGED <<clients, activeClient, job>>
     /\ \A b \in blocked \ blocked' : clients[b].transport = clients[a].transport

DisconnectionStands == [][\A a \in blocked \ blocked' : LiftIsLegal(a)]_vars

\* A new PSP session that reaches the receiver through an address it knows (the
\* cable always has the same one) is heard from its first packet: the numbers
\* of the session before it do not make it stale (receiver.py:577-600).
RelaunchIsHeard ==
  [][\A t \in Threads :
       LET a == job[t].address IN
       /\ job[t].step = "arrived" /\ job'[t].step = "decided"
       /\ a \in DOMAIN clients
       /\ clients[a].token \notin {None, job[t].token}
       => /\ clients'[a].last = job[t].sequence
          /\ clients'[a].lastFresh = job[t].at
          /\ activeClient' = a => job'[t].isUpdate]_vars

\* The time that was read for the last ACK sent to an address, noted or not.
LastSent(a) ==
  LET j == job[Thread(a)] IN
  IF j.step = "note" /\ j.address = a THEN {j.at}
  ELSE IF a \in DOMAIN lastAck THEN {lastAck[a]} ELSE {}

\* docs/input-protocol.md:56-58: a client that stays known is sent ACKs "at no more
\* than 10 Hz", measured where the code reads the clock, although the check, the
\* sending and the note of its time are separate, and the other threads expire
\* clients, change the code and forget ACKs in between.
AcksAreSpaced ==
  [][\A a \in DOMAIN clients \cap DOMAIN clients' :
       Silent(a) < Retention =>
         \A m \in LastSent(a) : \E n \in LastSent(a)' : n = m \/ n - m >= AckInterval]_vars
=============================================================================
