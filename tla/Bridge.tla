-------------------------------- MODULE Bridge --------------------------------
(***************************************************************************)
(* The input path from end to end: one PSP application session, the two    *)
(* transports, the receiver's two threads, and the state the pad is left   *)
(* with.  The PSP numbers its packets in one sequence that spans both      *)
(* transports (psp-client/src/main.c), and changes the transport whenever  *)
(* the user asks for it or a cable is plugged in or pulled.  UDP delays,   *)
(* loses, duplicates and reorders; the cable delays, and loses what is in  *)
(* flight when it is pulled, but keeps the order.                          *)
(*                                                                         *)
(* The receiver's actions are those of Receiver, unchanged.  The user's    *)
(* commands are left out: the session is paired and is never disconnected. *)
(***************************************************************************)
EXTENDS Receiver

CONSTANTS
  WifiAddress,     \* the PSP's UDP endpoint
  Token,           \* the session's token
  MaxSent,         \* bound of the model: packets the PSP sends
  MaxDelay,        \* the longest time a packet that arrives is in flight
  CallbackStalls   \* whether time can pass between a decision and its callback

ASSUME BridgeAssumption ==
  /\ WifiAddress \in WifiAddresses
  /\ Token \in Tokens
  /\ MaxSent \in Nat /\ MaxSent < HalfRange
  /\ MaxDelay \in Nat
  /\ CallbackStalls \in BOOLEAN

VARIABLES
  sequence,     \* *next_sequence of the PSP
  link,         \* the endpoint the PSP sends from
  flight,       \* packets on their way: [sequence, address, sentAt]
  padSequence   \* the number of the state the pad was last given

bridgeVars == <<vars, sequence, link, flight, padSequence>>

Links  == {WifiAddress, UsbAddress}

BridgeInit ==
  /\ Init /\ pairingToken = Token
  /\ sequence = 0
  /\ link \in Links
  /\ flight = {}
  /\ padSequence = None

-----------------------------------------------------------------------------
\* main.c: a packet is encoded with the next number and handed to the transport;
\* the number advances whether or not the transport took it.
Send ==
  /\ sequence < MaxSent
  /\ \/ flight' = flight \cup {[sequence |-> sequence, address |-> link, sentAt |-> now]}
     \/ flight' = flight
  /\ sequence' = sequence + 1
  /\ UNCHANGED <<vars, link, padSequence>>

\* The sender of one transport returns and the other one is started.
SwitchLink ==
  /\ link' \in Links \ {link}
  /\ UNCHANGED <<vars, sequence, flight, padSequence>>

\* A packet reaches its thread: over Wi-Fi in any order and more than once, over
\* the cable in order.
Arrive(p) ==
  /\ Receive(p.address, Token, p.sequence)
  /\ \/ flight' = flight \ {p}
     \/ p.address # UsbAddress /\ flight' = flight
  /\ p.address = UsbAddress =>
       \A q \in flight : q.address = UsbAddress => p.sequence <= q.sequence
  /\ UNCHANGED <<sequence, link, padSequence>>

\* The callback hands an update to the controller.
Apply(t) ==
  /\ Deliver(t)
  /\ padSequence' = IF job[t].isUpdate THEN job[t].sequence ELSE padSequence
  /\ UNCHANGED <<sequence, link, flight>>

\* The rest of a thread.  The session is paired, so none of its packets is refused.
ThreadSteps(t) ==
  /\ \/ ReceiveTimeout(t) \/ HandlePacket(t)
     \/ Authorize(t) \/ CheckInterval(t) \/ SendAck(t) \/ NoteAck(t)
  /\ UNCHANGED <<sequence, link, flight, padSequence>>

\* Time passes; what is in flight for longer than the longest delay is lost.
Pass ==
  /\ Tick
  /\ CallbackStalls \/ \A t \in Threads : job[t].step # "decided"
  /\ flight' = {p \in flight : now' - p.sentAt <= MaxDelay}
  /\ UNCHANGED <<sequence, link, padSequence>>

BridgeNext ==
  \/ Send
  \/ SwitchLink
  \/ Pass
  \/ \E p \in flight : Arrive(p)
  \/ \E t \in Threads : Apply(t) \/ ThreadSteps(t)

BridgeSpec == BridgeInit /\ [][BridgeNext]_bridgeVars

-----------------------------------------------------------------------------
\* README.md:41: "stale, duplicate and out-of-order packets never roll input
\* back": the pad is never given a state older than the one it has, across
\* losses, duplicates, delays, changes of transport and both threads.
NoRollback ==
  [][padSequence' # padSequence /\ padSequence # None => padSequence' > padSequence]_bridgeVars

\* docs/input-protocol.md:113-117: a PSP that is sending has the pad as soon as
\* its packet is handled, unless its own other transport was heard within the
\* grace period: the sequence spanning both transports is never a reason to
\* refuse the newest packet.
NewestIsTaken ==
  [][\A t \in Threads :
       /\ job[t].step = "arrived" /\ job'[t].step = "decided"
       /\ \A a \in DOMAIN clients :
            /\ clients[a].last # None => clients[a].last < job[t].sequence
            /\ a # job[t].address => job[t].at - clients[a].lastFresh >= SwitchGrace
       => job'[t].isUpdate]_bridgeVars
=============================================================================
