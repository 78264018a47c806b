---------------------------- MODULE ReceiverProofs ----------------------------
(***************************************************************************)
(* Proofs about the receiver: for any set of endpoints, tokens, time       *)
(* limits and any delay between an arrival and the lock; and about the     *)
(* input path it is a part of: for any number of packets, delay and stall. *)
(***************************************************************************)
EXTENDS Bridge, TLAPS

-----------------------------------------------------------------------------
(* The inductive invariant.                                                *)

\* A client's transport is that of its address, and its last fresh state is no
\* later than its last packet.
ClientsAreDated ==
  \A a \in DOMAIN clients :
    /\ clients[a].transport = (IF a = UsbAddress THEN "usb" ELSE "wifi")
    /\ clients[a].lastFresh <= clients[a].lastSeen
    /\ clients[a].lastSeen <= now

\* A datagram waiting for the lock belongs to the thread of its address, arrived
\* no later than now, and is younger than everything handled for that address:
\* one thread handles an address's datagrams in order.
JobsAreDated ==
  \A t \in Threads :
    job[t].step = "arrived" =>
      /\ job[t].address \in Addresses
      /\ Thread(job[t].address) = t
      /\ job[t].at <= now
      /\ job[t].address \in DOMAIN clients =>
           clients[job[t].address].lastSeen <= job[t].at

\* What follows the arrival of a datagram: its routing's callbacks and its ACK.
Routing == {"decided", "delivered", "ack", "send", "note"}

\* An address in use is a real one, and the thread's own.
JobsAreAddressed ==
  \A t \in Threads :
    job[t].step \in Routing => job[t].address \in Addresses /\ Thread(job[t].address) = t

IInv ==
  /\ TypeOK
  /\ ClientsAreDated
  /\ JobsAreDated
  /\ JobsAreAddressed
  /\ OwnerIsKnown
  /\ BlockedIsKnownAndIdle
  /\ WifiClientsArePaired

-----------------------------------------------------------------------------
(* Lemmas about the helpers.                                               *)

\* The sequence space is not empty.
LEMMA ZeroIsSequence == 0 \in Sequences
BY SequenceAssumption DEF Sequences, SequenceAssumption

\* A thread that waits for a datagram has a well-formed job.
LEMMA IdleIsJob == Idle \in Job
BY ZeroIsSequence DEF Idle, Job, Steps, PacketTokens

\* The end of a turn is a job that waits for nothing.
LEMMA NextTurnIsJob ==
  ASSUME stopEvent \in BOOLEAN
  PROVE  NextTurn \in Job /\ NextTurn.step \in {"receive", "done"}
<1>1. Idle.step = "receive"
  BY DEF Idle
<1>2. [Idle EXCEPT !.step = "done"] \in Job /\ [Idle EXCEPT !.step = "done"].step = "done"
  BY IdleIsJob DEF Idle, Job, Steps
<1> QED BY <1>1, <1>2, IdleIsJob DEF NextTurn

\* The active client that maintenance leaves is the owner of before, recent
\* enough, and so not among the expired.
LEMMA ActiveAtIsRecent ==
  ASSUME IInv, NEW t \in Nat, ActiveAt(t) # None
  PROVE  /\ ActiveAt(t) = activeClient
         /\ activeClient \in DOMAIN clients \ Expired(t)
         /\ activeClient \notin blocked
         /\ t - clients[activeClient].lastFresh < ActiveTimeout
<1>1. /\ ActiveAt(t) = activeClient
      /\ activeClient \in DOMAIN clients
      /\ t - clients[activeClient].lastFresh < ActiveTimeout
  BY DEF ActiveAt
<1>2. clients[activeClient].lastFresh \in Nat /\ clients[activeClient].lastSeen \in Nat
  BY <1>1 DEF IInv, TypeOK, ClientState
<1>3. clients[activeClient].lastFresh <= clients[activeClient].lastSeen
  BY <1>1 DEF IInv, ClientsAreDated
<1>4. ~ (t - clients[activeClient].lastSeen >= Retention)
  BY <1>1, <1>2, <1>3, ReceiverAssumption DEF ReceiverAssumption
<1>5. activeClient \notin Expired(t)
  BY <1>4 DEF Expired
<1> QED BY <1>1, <1>5 DEF IInv, BlockedIsKnownAndIdle

\* The owner is the sender's session on the other transport, and is stale.
SwitchesTransport(t, a, s) ==
  /\ ActiveAt(s) = activeClient
  /\ ~(a = UsbAddress <=> activeClient = UsbAddress)
  /\ clients[activeClient].token # None
  /\ clients[activeClient].token = job[t].token
  /\ s - clients[activeClient].lastFresh >= SwitchGrace

\* What a packet that is not refused does to the state: the sender is known
\* afterwards as of its arrival, the expired are forgotten, all others stay as
\* they were, and the pad is the sender's or stays with a recent owner.
Routed(t, a, s) ==
  /\ a \in Addresses /\ s \in Nat /\ s <= now
  /\ DOMAIN clients' = (DOMAIN clients \ Expired(s)) \cup {a}
  /\ \A b \in DOMAIN clients' \ {a} : clients'[b] = clients[b]
  /\ clients'[a] \in ClientState
  /\ clients'[a].lastSeen = s
  /\ clients'[a].lastFresh <= s
  /\ clients'[a].token = job[t].token
  /\ clients'[a].transport = (IF a = UsbAddress THEN "usb" ELSE "wifi")
  /\ blocked' = blocked \ Expired(s)
  /\ activeClient' # ActiveAt(s) =>
       /\ activeClient' = a
       /\ a \notin blocked'
       /\ ActiveAt(s) # None => SwitchesTransport(t, a, s)

\* HandlePacket has that effect.
LEMMA HandlePacketEffect ==
  ASSUME IInv, NEW t \in Threads, HandlePacket(t),
         NEW a, a = job[t].address, NEW s, s = job[t].at
  PROVE  Routed(t, a, s)
<1> DEFINE known  == Without(clients, Expired(s))
           barred == blocked \ Expired(s)
           sender == SenderState(known, a, job[t].token, s)
           seized == a \notin barred /\ TakesOver(known, ActiveAt(s), a, sender, s)
           taken  == a \notin barred /\ (ActiveAt(s) = None \/ seized)
           event  == Classify(IF seized THEN None ELSE sender.last, job[t].sequence)
           fresh  == event \in Accepted
           kept   == IF seized THEN 0 ELSE sender.lastFresh
           row    == [last      |-> IF fresh THEN job[t].sequence ELSE sender.last,
                      lastSeen  |-> s,
                      lastFresh |-> IF fresh THEN s ELSE kept,
                      token     |-> job[t].token,
                      transport |-> sender.transport]
<1>1. /\ clients' = With(known, a, row)
      /\ activeClient' = IF taken THEN a ELSE ActiveAt(s)
      /\ blocked' = barred
      /\ job[t].step = "arrived"
  BY DEF HandlePacket
<1>2. /\ job[t] \in Job /\ a \in Addresses /\ s \in Nat /\ s <= now
      /\ job[t].token \in PacketTokens /\ job[t].sequence \in Sequences
      /\ a \in DOMAIN clients => clients[a].lastSeen <= s
  BY <1>1 DEF IInv, TypeOK, JobsAreDated, Job
<1>3. /\ DOMAIN known = DOMAIN clients \ Expired(s)
      /\ \A b \in DOMAIN known : known[b] = clients[b] /\ known[b] \in ClientState
  <2>1. \A b \in DOMAIN clients : clients[b] \in ClientState
    BY DEF IInv, TypeOK
  <2> QED BY <2>1 DEF Without
<1>4. a \in DOMAIN known => known[a].lastFresh <= s
  <2>1. CASE a \in DOMAIN known
    <3>1. a \in DOMAIN clients /\ known[a] = clients[a]
      BY <2>1, <1>3
    <3>2. clients[a].lastFresh <= clients[a].lastSeen /\ clients[a] \in ClientState
      BY <3>1 DEF IInv, ClientsAreDated, TypeOK
    <3> QED BY <3>1, <3>2, <1>2 DEF ClientState
  <2> QED BY <2>1
<1> HIDE DEF known
<1>5. /\ sender \in ClientState
      /\ sender.lastSeen = s
      /\ sender.lastFresh <= s
      /\ sender.token = job[t].token
      /\ sender.transport = (IF a = UsbAddress THEN "usb" ELSE "wifi")
  <2> DEFINE old == IF a \in DOMAIN known THEN known[a] ELSE NewClient
  <2>1. NewClient \in ClientState /\ NewClient.lastFresh = 0
    BY DEF NewClient, ClientState, PacketTokens, Transports
  <2>2. old \in ClientState /\ old.lastFresh <= s
    BY <1>2, <1>3, <1>4, <2>1
  <2>3. old.last \in Sequences \cup {None} /\ old.lastFresh \in Nat
    BY <2>2 DEF ClientState
  <2> QED BY <1>2, <2>2, <2>3 DEF SenderState, ClientState, Transports
<1> HIDE DEF sender
<1>6. /\ row \in ClientState /\ row.lastSeen = s /\ row.lastFresh <= s
      /\ row.token = job[t].token
      /\ row.transport = (IF a = UsbAddress THEN "usb" ELSE "wifi")
  <2>1. kept \in Nat /\ kept <= s
    BY <1>5, <1>2 DEF ClientState
  <2>2. sender.last \in Sequences \cup {None} /\ sender.transport \in Transports
    BY <1>5 DEF ClientState
  <2> HIDE DEF kept, fresh
  <2>3. (IF fresh THEN s ELSE kept) \in Nat /\ (IF fresh THEN s ELSE kept) <= s
    BY <2>1, <1>2
  <2>4. row.last \in Sequences \cup {None} /\ row.lastFresh \in Nat /\ row.lastFresh <= s
    BY <2>2, <2>3, <1>2
  <2>5. row \in ClientState
    BY <2>2, <2>4, <1>2 DEF ClientState
  <2> QED BY <2>4, <2>5, <1>5
<1> HIDE DEF row
<1>7. /\ DOMAIN clients' = DOMAIN known \cup {a}
      /\ clients'[a] = row
      /\ \A b \in DOMAIN known \ {a} : clients'[b] = known[b]
  BY <1>1 DEF With
<1>8. ASSUME seized
      PROVE  SwitchesTransport(t, a, s)
  <2>1. /\ ActiveAt(s) # None /\ ActiveAt(s) \in DOMAIN known
        /\ known[ActiveAt(s)].transport # sender.transport
        /\ known[ActiveAt(s)].token # None
        /\ known[ActiveAt(s)].token = sender.token
        /\ s - known[ActiveAt(s)].lastFresh >= SwitchGrace
    BY <1>8 DEF TakesOver
  <2>2. ActiveAt(s) = activeClient
    BY <2>1 DEF ActiveAt
  <2>3. activeClient \in DOMAIN clients /\ known[activeClient] = clients[activeClient]
    BY <2>1, <2>2, <1>3
  <2>4. clients[activeClient].transport = (IF activeClient = UsbAddress THEN "usb" ELSE "wifi")
    BY <2>3 DEF IInv, ClientsAreDated
  <2> QED BY <2>1, <2>2, <2>3, <2>4, <1>5 DEF SwitchesTransport
<1> HIDE DEF seized
<1>9. activeClient' # ActiveAt(s) =>
        activeClient' = a /\ a \notin blocked' /\ (ActiveAt(s) = None \/ seized)
  BY <1>1
<1>10. DOMAIN clients' = (DOMAIN clients \ Expired(s)) \cup {a}
       /\ \A b \in DOMAIN clients' \ {a} : clients'[b] = clients[b]
  BY <1>3, <1>7
<1>11. blocked' = blocked \ Expired(s)
  BY <1>1
<1> QED BY <1>2, <1>6, <1>7, <1>8, <1>9, <1>10, <1>11 DEF Routed

-----------------------------------------------------------------------------
(* Every step preserves the inductive invariant.                           *)

\* A step that only moves one thread on, to a well-formed job, and perhaps
\* notes the time of an ACK.
LEMMA JobStep ==
  ASSUME IInv, UNCHANGED <<now, clients, activeClient, blocked, pairingToken, stopEvent>>,
         DOMAIN lastAck' \subseteq Addresses,
         \A a \in DOMAIN lastAck' : lastAck'[a] \in Nat,
         NEW t \in Threads, NEW j \in Job, job' = [job EXCEPT ![t] = j],
         j.step = "arrived" =>
           /\ j.address \in Addresses /\ Thread(j.address) = t /\ j.at <= now
           /\ j.address \in DOMAIN clients => clients[j.address].lastSeen <= j.at,
         j.step \in Routing => j.address \in Addresses /\ Thread(j.address) = t
  PROVE  IInv'
<1>1. job \in [Threads -> Job]
  BY DEF IInv, TypeOK
<1>2. job'[t] = j /\ \A u \in Threads \ {t} : job'[u] = job[u]
  BY <1>1
<1>3. TypeOK'
  BY <1>1 DEF IInv, TypeOK
<1>4. JobsAreDated'
  BY <1>2 DEF IInv, JobsAreDated
<1>5. JobsAreAddressed'
  BY <1>2 DEF IInv, JobsAreAddressed
<1>6. ClientsAreDated'
  BY DEF IInv, ClientsAreDated
<1>7. (OwnerIsKnown /\ BlockedIsKnownAndIdle /\ WifiClientsArePaired)'
  BY DEF IInv, OwnerIsKnown, BlockedIsKnownAndIdle, WifiClientsArePaired
<1> QED BY <1>3, <1>4, <1>5, <1>6, <1>7 DEF IInv

\* A step after which a subset of the clients is known, none of them changed,
\* and nothing else of the receiver's threads changed.
LEMMA ForgetStep ==
  ASSUME IInv, UNCHANGED now, job' \in [Threads -> Job], stopEvent' \in BOOLEAN,
         DOMAIN clients' \subseteq DOMAIN clients,
         \A a \in DOMAIN clients' : clients'[a] = clients[a],
         DOMAIN lastAck' \subseteq DOMAIN lastAck,
         \A a \in DOMAIN lastAck' : lastAck'[a] = lastAck[a],
         pairingToken' \in Tokens \cup {None},
         activeClient' \in Addresses \cup {None},
         blocked' \subseteq DOMAIN clients',
         activeClient' # None => activeClient' \in DOMAIN clients' \ blocked',
         \A t \in Threads : job'[t] = job[t] \/ job'[t].step \in {"receive", "done"},
         WifiClientsArePaired'
  PROVE  IInv'
<1>1. DOMAIN clients \subseteq Addresses
  BY DEF IInv, TypeOK
<1>2. TypeOK'
  BY <1>1 DEF IInv, TypeOK
<1>3. ClientsAreDated'
  BY DEF IInv, ClientsAreDated
<1>4. JobsAreDated' /\ JobsAreAddressed'
  BY DEF IInv, JobsAreDated, JobsAreAddressed, Routing
<1>5. None \notin DOMAIN clients'
  BY <1>1, ReceiverAssumption DEF ReceiverAssumption, Addresses
<1>6. OwnerIsKnown' /\ BlockedIsKnownAndIdle'
  BY <1>5 DEF OwnerIsKnown, BlockedIsKnownAndIdle
<1> QED BY <1>2, <1>3, <1>4, <1>6 DEF IInv

\* Maintenance by the UDP loop.
LEMMA ReceiveTimeoutStep ==
  ASSUME IInv, NEW t \in Threads, ReceiveTimeout(t)
  PROVE  IInv'
<1>1. /\ stopEvent \in BOOLEAN /\ now \in Nat
      /\ job \in [Threads -> Job]
      /\ DOMAIN clients \subseteq Addresses
      /\ DOMAIN lastAck \subseteq Addresses
      /\ \A a \in DOMAIN lastAck : lastAck[a] \in Nat
      /\ pairingToken \in Tokens \cup {None}
      /\ blocked \subseteq DOMAIN clients
  BY DEF IInv, TypeOK, BlockedIsKnownAndIdle
<1>2. NextTurn \in Job /\ NextTurn.step \in {"receive", "done"}
  BY <1>1, NextTurnIsJob
<1>3. /\ job' = [job EXCEPT ![t] = NextTurn]
      /\ UNCHANGED <<now, pairingToken, stopEvent>>
  BY DEF ReceiveTimeout
<1>4. job' \in [Threads -> Job] /\ \A u \in Threads : job'[u] = job[u] \/ job'[u] = NextTurn
  BY <1>1, <1>2, <1>3
<1>5. CASE t = "udp"
  <2>1. /\ activeClient' = ActiveAt(now)
        /\ clients' = Without(clients, Expired(now))
        /\ blocked' = blocked \ Expired(now)
        /\ lastAck' = Without(lastAck, Expired(now))
    BY <1>5 DEF ReceiveTimeout
  <2>2. /\ DOMAIN clients' = DOMAIN clients \ Expired(now)
        /\ \A a \in DOMAIN clients' : clients'[a] = clients[a]
        /\ DOMAIN lastAck' \subseteq DOMAIN lastAck
        /\ \A a \in DOMAIN lastAck' : lastAck'[a] = lastAck[a]
    BY <2>1 DEF Without
  <2>3. /\ activeClient' \in Addresses \cup {None}
        /\ activeClient' # None => activeClient' \in DOMAIN clients' \ blocked'
    BY <2>1, <2>2, <1>1, ActiveAtIsRecent
  <2>4. WifiClientsArePaired'
    BY <2>2, <1>3 DEF IInv, WifiClientsArePaired
  <2> QED BY <1>1, <1>2, <1>3, <1>4, <2>1, <2>2, <2>3, <2>4, ForgetStep
<1>6. CASE t # "udp"
  <2>1. UNCHANGED <<clients, activeClient, blocked, lastAck>>
    BY <1>6 DEF ReceiveTimeout, routing
  <2> QED BY <1>1, <1>2, <1>3, <2>1, JobStep DEF Routing
<1> QED BY <1>5, <1>6

\* The steps from a routed datagram to its ACK.
AckSteps(t) == Authorize(t) \/ CheckInterval(t) \/ SendAck(t) \/ NoteAck(t)

\* Such a step ends the turn, or goes one step on with the same address.
LEMMA AckStepEffect ==
  ASSUME NEW t \in Threads, AckSteps(t)
  PROVE  /\ UNCHANGED <<now, clients, activeClient, blocked, pairingToken, stopEvent>>
         /\ job[t].step \in Routing
         /\ \/ job' = [job EXCEPT ![t] = NextTurn]
            \/ job' = [job EXCEPT ![t] = Later(job[t], "ack", 0)] /\ UNCHANGED lastAck
            \/ job' = [job EXCEPT ![t] = Later(job[t], "send", now)]
               /\ UNCHANGED lastAck
            \/ job' = [job EXCEPT ![t] = Later(job[t], "note", job[t].at)] /\ UNCHANGED lastAck
         /\ lastAck' \in {lastAck, With(lastAck, job[t].address, job[t].at)}
<1>1. CASE Authorize(t)
  BY <1>1 DEF Authorize, routing, Routing
<1>2. CASE CheckInterval(t)
  BY <1>2 DEF CheckInterval, routing, Routing
<1>3. CASE SendAck(t)
  BY <1>3 DEF SendAck, routing, Routing
<1>4. CASE NoteAck(t)
  BY <1>4 DEF NoteAck, routing, Routing
<1> QED BY <1>1, <1>2, <1>3, <1>4 DEF AckSteps

\* Such a step takes no datagram to the lock and none to the pad.
LEMMA AckStepIsQuiet ==
  ASSUME NEW t \in Threads, AckSteps(t)
  PROVE  \E j : /\ job' = [job EXCEPT ![t] = j]
               /\ j.step \notin {"arrived", "decided"} /\ j.isUpdate = FALSE
<1>1. NextTurn.step \notin {"arrived", "decided"} /\ NextTurn.isUpdate = FALSE
  BY DEF NextTurn, Idle
<1>2. \A step, at : LET j == Later(job[t], step, at) IN j.step = step /\ j.isUpdate = FALSE
  BY DEF Later
<1> QED BY <1>1, <1>2, AckStepEffect

\* The steps of a thread that do not change the routing state.
LEMMA ThreadStep ==
  ASSUME IInv, NEW t \in Threads,
         \/ ReceiveRejected(t) \/ RejectPacket(t) \/ Deliver(t) \/ AckSteps(t)
  PROVE  IInv'
<1>1. /\ stopEvent \in BOOLEAN /\ now \in Nat
      /\ job \in [Threads -> Job] /\ job[t] \in Job
      /\ DOMAIN lastAck \subseteq Addresses
      /\ \A a \in DOMAIN lastAck : lastAck[a] \in Nat
  BY DEF IInv, TypeOK
<1>2. NextTurn \in Job /\ NextTurn.step \in {"receive", "done"}
  BY <1>1, NextTurnIsJob
<1>3. job[t].step \in Routing =>
        job[t].address \in Addresses /\ Thread(job[t].address) = t
  BY DEF IInv, JobsAreAddressed
<1>4. UNCHANGED <<now, clients, activeClient, blocked, pairingToken, stopEvent>>
  BY AckStepEffect DEF ReceiveRejected, RejectPacket, Deliver, routing
<1>5. ASSUME job[t].step \in Routing,
             NEW step \in {"delivered", "ack", "send", "note"}, NEW at \in Nat
      PROVE  LET j == Later(job[t], step, at)
             IN  j \in Job /\ j.step = step /\ j.address = job[t].address
  BY <1>1, <1>3, <1>5, ZeroIsSequence DEF Later, Job, Steps
<1>6. job[t].at \in Nat
  BY <1>1 DEF Job
<1>7. CASE job' = [job EXCEPT ![t] = NextTurn] /\ UNCHANGED lastAck
  BY <1>1, <1>2, <1>4, <1>7, JobStep DEF Routing
<1>8. ASSUME job[t].step \in Routing, UNCHANGED lastAck,
             NEW step \in {"delivered", "ack", "send", "note"}, NEW at \in Nat,
             job' = [job EXCEPT ![t] = Later(job[t], step, at)]
      PROVE  IInv'
  <2> DEFINE next == Later(job[t], step, at)
  <2>1. next \in Job /\ next.step = step /\ next.address = job[t].address
    BY <1>5, <1>8
  <2>2. job' = [job EXCEPT ![t] = next]
    BY <1>8
  <2> HIDE DEF next
  <2> QED BY <1>1, <1>3, <1>4, <1>8, <2>1, <2>2, JobStep
<1>9. CASE ReceiveRejected(t) \/ RejectPacket(t)
  BY <1>7, <1>9 DEF ReceiveRejected, RejectPacket
<1>10. CASE Deliver(t)
  <2>1. /\ job[t].step \in Routing /\ UNCHANGED lastAck
        /\ \/ job' = [job EXCEPT ![t] = Later(job[t], "delivered", 0)]
           \/ job' = [job EXCEPT ![t] = NextTurn]
    BY <1>10 DEF Deliver, Routing
  <2>2. CASE job' = [job EXCEPT ![t] = Later(job[t], "delivered", 0)]
    BY <1>8, <2>1, <2>2
  <2> QED BY <1>7, <2>1, <2>2
<1>11. CASE AckSteps(t)
  <2>1. /\ job[t].step \in Routing
        /\ \/ job' = [job EXCEPT ![t] = NextTurn]
           \/ job' = [job EXCEPT ![t] = Later(job[t], "ack", 0)] /\ UNCHANGED lastAck
           \/ job' = [job EXCEPT ![t] = Later(job[t], "send", now)]
              /\ UNCHANGED lastAck
           \/ job' = [job EXCEPT ![t] = Later(job[t], "note", job[t].at)] /\ UNCHANGED lastAck
        /\ lastAck' \in {lastAck, With(lastAck, job[t].address, job[t].at)}
    BY <1>11, AckStepEffect
  <2>2. CASE job' = [job EXCEPT ![t] = NextTurn]
    <3>1. DOMAIN lastAck' \subseteq Addresses /\ \A a \in DOMAIN lastAck' : lastAck'[a] \in Nat
      BY <1>1, <1>3, <1>6, <2>1 DEF With
    <3> QED BY <1>2, <1>4, <2>2, <3>1, JobStep DEF Routing
  <2>3. ASSUME NEW step \in {"ack", "note"}, NEW at \in Nat, UNCHANGED lastAck,
               job' = [job EXCEPT ![t] = Later(job[t], step, at)]
        PROVE  IInv'
    BY <1>8, <2>1, <2>3
  <2>4. CASE /\ job' = [job EXCEPT ![t] = Later(job[t], "send", now)]
             /\ UNCHANGED lastAck
    BY <1>1, <1>8, <2>1, <2>4
  <2> QED BY <1>6, <2>1, <2>2, <2>3, <2>4
<1> QED BY <1>9, <1>10, <1>11

LEMMA ReceiveStep ==
  ASSUME IInv, NEW a \in Addresses, NEW token \in PacketTokens, NEW n \in Sequences,
         Receive(a, token, n)
  PROVE  IInv'
<1> DEFINE t    == Thread(a)
           next == Arrived(a, token, n)
<1>1. /\ job' = [job EXCEPT ![t] = next]
      /\ UNCHANGED <<now, clients, activeClient, blocked, pairingToken, lastAck, stopEvent>>
  BY DEF Receive, routing
<1>2. now \in Nat /\ t \in Threads
  BY ReceiverAssumption DEF IInv, TypeOK, Thread, Threads, ReceiverAssumption
<1>3. /\ next \in Job /\ next.step = "arrived" /\ next.address = a /\ next.at = now
  BY <1>2 DEF Arrived, Job, Steps
<1>4. a \in DOMAIN clients => clients[a].lastSeen <= now
  BY DEF IInv, ClientsAreDated
<1>5. /\ DOMAIN lastAck' \subseteq Addresses
      /\ \A b \in DOMAIN lastAck' : lastAck'[b] \in Nat
  BY <1>1 DEF IInv, TypeOK
<1>6. Thread(a) = t /\ now <= now
  BY <1>2
<1> HIDE DEF next, t
<1> QED BY <1>1, <1>2, <1>3, <1>4, <1>5, <1>6, JobStep DEF Routing

LEMMA HandlePacketStep ==
  ASSUME IInv, NEW t \in Threads, HandlePacket(t),
         NEW a, a = job[t].address, NEW s, s = job[t].at
  PROVE  IInv'
<1>1. /\ a \in Addresses /\ s \in Nat /\ s <= now
      /\ DOMAIN clients' = (DOMAIN clients \ Expired(s)) \cup {a}
      /\ \A b \in DOMAIN clients' \ {a} : clients'[b] = clients[b]
      /\ clients'[a] \in ClientState
      /\ clients'[a].lastSeen = s
      /\ clients'[a].lastFresh <= s
      /\ clients'[a].token = job[t].token
      /\ clients'[a].transport = (IF a = UsbAddress THEN "usb" ELSE "wifi")
      /\ blocked' = blocked \ Expired(s)
      /\ activeClient' # ActiveAt(s) => activeClient' = a /\ a \notin blocked'
  <2>1. Routed(t, a, s)
    BY HandlePacketEffect
  <2> QED BY <2>1 DEF Routed
<1>2. /\ job[t].step = "arrived" /\ ~PairingRejects(a, job[t].token)
      /\ lastAck' = Without(lastAck, Expired(s))
      /\ UNCHANGED <<now, pairingToken, stopEvent>>
      /\ \E isActive, isUpdate \in BOOLEAN :
           job' = [job EXCEPT ![t] = Decided(job[t], isActive, isUpdate)]
  <2>1. /\ job[t].step = "arrived" /\ ~PairingRejects(a, job[t].token)
        /\ lastAck' = Without(lastAck, Expired(s))
        /\ UNCHANGED <<now, pairingToken, stopEvent>>
    BY DEF HandlePacket
  <2>2. \E isActive, isUpdate \in BOOLEAN :
           job' = [job EXCEPT ![t] = Decided(job[t], isActive, isUpdate)]
    BY Zenon DEF HandlePacket
  <2> QED BY <2>1, <2>2
<1>3. job \in [Threads -> Job] /\ job[t] \in Job /\ job[t].token \in PacketTokens
  BY DEF IInv, TypeOK, Job
<1>4. /\ job' \in [Threads -> Job]
      /\ job'[t].step = "decided" /\ job'[t].address = a
      /\ \A u \in Threads \ {t} : job'[u] = job[u]
  <2>1. job[t].sequence \in Sequences
    BY <1>3 DEF Job
  <2>2. \A isActive, isUpdate \in BOOLEAN :
          LET d == Decided(job[t], isActive, isUpdate)
          IN  d \in Job /\ d.step = "decided" /\ d.address = a
    BY <1>1, <1>3, <2>1 DEF Decided, Job, Steps
  <2> QED BY <1>2, <1>3, <2>2
<1>5. Thread(a) = t
  BY <1>2 DEF IInv, JobsAreDated
<1>6. TypeOK'
  <2>1. DOMAIN clients' \subseteq Addresses /\ \A b \in DOMAIN clients' : clients'[b] \in ClientState
    BY <1>1 DEF IInv, TypeOK
  <2>2. DOMAIN lastAck' \subseteq Addresses /\ \A b \in DOMAIN lastAck' : lastAck'[b] \in Nat
    BY <1>2 DEF IInv, TypeOK, Without
  <2>3. activeClient' \in Addresses \cup {None}
    BY <1>1 DEF IInv, TypeOK, ActiveAt
  <2> QED BY <1>1, <1>2, <1>4, <2>1, <2>2, <2>3 DEF IInv, TypeOK
<1>7. ClientsAreDated'
  BY <1>1, <1>2 DEF IInv, ClientsAreDated
<1>8. JobsAreDated'
  <2> SUFFICES ASSUME NEW u \in Threads, job'[u].step = "arrived"
               PROVE  /\ job'[u].address \in Addresses
                      /\ Thread(job'[u].address) = u
                      /\ job'[u].at <= now'
                      /\ job'[u].address \in DOMAIN clients' =>
                           clients'[job'[u].address].lastSeen <= job'[u].at
    BY DEF JobsAreDated
  <2>1. u # t /\ job'[u] = job[u]
    BY <1>4
  <2>2. /\ job[u].address \in Addresses
        /\ Thread(job[u].address) = u
        /\ job[u].at <= now
        /\ job[u].address \in DOMAIN clients => clients[job[u].address].lastSeen <= job[u].at
    BY <2>1 DEF IInv, JobsAreDated
  <2>3. job[u].address # a
    BY <1>5, <2>1, <2>2
  <2> QED BY <1>1, <1>2, <2>1, <2>2, <2>3
<1>9. JobsAreAddressed'
  BY <1>1, <1>4, <1>5 DEF IInv, JobsAreAddressed
<1>10. OwnerIsKnown' /\ BlockedIsKnownAndIdle'
  <2>1. blocked \subseteq DOMAIN clients /\ activeClient \notin blocked /\ None \notin blocked
    BY ReceiverAssumption DEF IInv, BlockedIsKnownAndIdle, TypeOK, ReceiverAssumption, Addresses
  <2>2. CASE activeClient' = a /\ a \notin blocked'
    BY <1>1, <2>1, <2>2 DEF OwnerIsKnown, BlockedIsKnownAndIdle
  <2>3. CASE activeClient' = ActiveAt(s) /\ ActiveAt(s) # None
    <3>1. activeClient' = activeClient /\ activeClient \in DOMAIN clients \ Expired(s)
      BY <1>1, <2>3, ActiveAtIsRecent
    <3> QED BY <1>1, <2>1, <3>1 DEF OwnerIsKnown, BlockedIsKnownAndIdle
  <2>4. CASE activeClient' = None
    BY <1>1, <2>1, <2>4 DEF OwnerIsKnown, BlockedIsKnownAndIdle
  <2> QED BY <1>1, <2>2, <2>3, <2>4
<1>11. WifiClientsArePaired'
  <2> SUFFICES ASSUME RequirePairing, NEW b \in DOMAIN clients' \ {UsbAddress}
               PROVE  pairingToken # None /\ clients'[b].token = pairingToken
    BY <1>2 DEF WifiClientsArePaired
  <2>1. CASE b = a
    BY <1>1, <1>2, <2>1 DEF PairingRejects
  <2>2. CASE b # a
    BY <1>1, <2>2 DEF IInv, WifiClientsArePaired
  <2> QED BY <2>1, <2>2
<1> QED BY <1>6, <1>7, <1>8, <1>9, <1>10, <1>11 DEF IInv

LEMMA SetPairingTokenStep ==
  ASSUME IInv, NEW token \in Tokens \cup {None}, SetPairingToken(token)
  PROVE  IInv'
<1> DEFINE wifi == {a \in DOMAIN clients : clients[a].transport = "wifi"}
<1>1. /\ pairingToken' = token
      /\ clients' = Without(clients, wifi)
      /\ blocked' = blocked \ wifi
      /\ lastAck' = Without(lastAck, wifi)
      /\ activeClient' = IF activeClient \in wifi THEN None ELSE activeClient
      /\ UNCHANGED <<now, job, stopEvent>>
  BY DEF SetPairingToken
<1>2. DOMAIN clients \ wifi \subseteq {UsbAddress}
  BY DEF IInv, ClientsAreDated
<1> HIDE DEF wifi
<1>3. /\ DOMAIN clients' = DOMAIN clients \ wifi
      /\ \A a \in DOMAIN clients' : clients'[a] = clients[a]
      /\ DOMAIN lastAck' \subseteq DOMAIN lastAck
      /\ \A a \in DOMAIN lastAck' : lastAck'[a] = lastAck[a]
  BY <1>1 DEF Without
<1>4. /\ blocked' \subseteq DOMAIN clients'
      /\ activeClient' \in Addresses \cup {None}
      /\ activeClient' # None => activeClient' \in DOMAIN clients' \ blocked'
  BY <1>1, <1>3 DEF IInv, TypeOK, OwnerIsKnown, BlockedIsKnownAndIdle
<1>5. WifiClientsArePaired'
  BY <1>2, <1>3 DEF WifiClientsArePaired
<1>6. job' \in [Threads -> Job] /\ stopEvent' \in BOOLEAN /\ \A t \in Threads : job'[t] = job[t]
  BY <1>1 DEF IInv, TypeOK
<1> QED BY <1>1, <1>3, <1>4, <1>5, <1>6, ForgetStep

\* The user's other commands change the routing state without touching clients.
LEMMA CommandStep ==
  ASSUME IInv,
         \/ DisconnectActiveClient
         \/ \E transport \in Transports : AllowTransport(transport)
         \/ RequestStop
  PROVE  IInv'
<1>1. UNCHANGED <<now, clients, pairingToken, lastAck, job>>
  BY DEF DisconnectActiveClient, AllowTransport, RequestStop, routing
<1>2. /\ stopEvent' \in BOOLEAN
      /\ activeClient' \in {activeClient, None}
      /\ activeClient' \notin blocked'
      /\ blocked' \subseteq DOMAIN clients
  <2>1. /\ stopEvent \in BOOLEAN /\ blocked \subseteq DOMAIN clients
        /\ activeClient \notin blocked /\ None \notin DOMAIN clients
        /\ activeClient # None => activeClient \in DOMAIN clients
    BY ReceiverAssumption
    DEF IInv, TypeOK, BlockedIsKnownAndIdle, OwnerIsKnown, ReceiverAssumption, Addresses
  <2>2. CASE DisconnectActiveClient
    BY <2>1, <2>2 DEF DisconnectActiveClient
  <2>3. CASE \E transport \in Transports : AllowTransport(transport)
    BY <2>1, <2>3 DEF AllowTransport
  <2>4. CASE RequestStop
    BY <2>1, <2>4 DEF RequestStop, routing
  <2> QED BY <2>2, <2>3, <2>4
<1>3. /\ job' \in [Threads -> Job] /\ DOMAIN clients' \subseteq DOMAIN clients
      /\ \A a \in DOMAIN clients' : clients'[a] = clients[a]
      /\ pairingToken' \in Tokens \cup {None} /\ activeClient' \in Addresses \cup {None}
      /\ activeClient' # None => activeClient' \in DOMAIN clients' \ blocked'
  BY <1>1, <1>2 DEF IInv, TypeOK, OwnerIsKnown
<1>4. WifiClientsArePaired'
  BY <1>1 DEF IInv, WifiClientsArePaired
<1> QED BY <1>1, <1>2, <1>3, <1>4, ForgetStep

LEMMA TickStep ==
  ASSUME IInv, Tick
  PROVE  IInv'
<1>1. /\ now \in Nat /\ now' = now + 1
      /\ UNCHANGED <<clients, activeClient, blocked, pairingToken, lastAck, job, stopEvent>>
  BY DEF Tick, routing, IInv, TypeOK
<1>2. TypeOK'
  BY <1>1 DEF IInv, TypeOK
<1>3. ClientsAreDated'
  <2>1. \A a \in DOMAIN clients : clients[a] \in ClientState
    BY DEF IInv, TypeOK
  <2> QED BY <1>1, <2>1 DEF IInv, ClientsAreDated, ClientState
<1>4. JobsAreDated' /\ JobsAreAddressed'
  <2>1. \A t \in Threads : job[t].at \in Nat
    BY DEF IInv, TypeOK, Job
  <2> QED BY <1>1, <2>1 DEF IInv, JobsAreDated, JobsAreAddressed
<1>5. OwnerIsKnown' /\ BlockedIsKnownAndIdle' /\ WifiClientsArePaired'
  BY <1>1 DEF IInv, OwnerIsKnown, BlockedIsKnownAndIdle, WifiClientsArePaired
<1> QED BY <1>2, <1>3, <1>4, <1>5 DEF IInv

-----------------------------------------------------------------------------
(* The theorems.                                                           *)

LEMMA InitEstablishes == Init => IInv
<1> SUFFICES ASSUME Init PROVE IInv
  OBVIOUS
<1>1. job \in [Threads -> Job] /\ \A t \in Threads : job[t].step = "receive"
  BY IdleIsJob DEF Init, Idle
<1>2. TypeOK
  BY <1>1 DEF Init, TypeOK
<1> QED BY <1>1, <1>2 DEF Init, IInv, ClientsAreDated, JobsAreDated, JobsAreAddressed, Routing,
           OwnerIsKnown, BlockedIsKnownAndIdle, WifiClientsArePaired

LEMMA NextPreserves == IInv /\ [Next]_vars => IInv'
<1> SUFFICES ASSUME IInv, [Next]_vars PROVE IInv'
  OBVIOUS
<1>1. CASE Tick
  BY <1>1, TickStep
<1>2. ASSUME NEW t \in Threads,
             \/ ReceiveRejected(t) \/ RejectPacket(t) \/ Deliver(t) \/ AckSteps(t)
      PROVE  IInv'
  BY <1>2, ThreadStep
<1>3. ASSUME NEW t \in Threads, ReceiveTimeout(t)
      PROVE  IInv'
  BY <1>3, ReceiveTimeoutStep
<1>4. ASSUME NEW t \in Threads, HandlePacket(t)
      PROVE  IInv'
  BY <1>4, HandlePacketStep
<1>5. ASSUME NEW a \in Addresses, NEW token \in PacketTokens, NEW n \in Offered,
             Receive(a, token, n)
      PROVE  IInv'
  BY <1>5, ReceiverAssumption, ReceiveStep DEF ReceiverAssumption
<1>6. ASSUME NEW token \in Tokens \cup {None}, SetPairingToken(token)
      PROVE  IInv'
  BY <1>6, SetPairingTokenStep
<1>7. CASE DisconnectActiveClient \/ (\E transport \in Transports : AllowTransport(transport))
           \/ RequestStop
  BY <1>7, CommandStep
<1>8. CASE UNCHANGED vars
  BY <1>8 DEF vars, routing, IInv, TypeOK, ClientsAreDated, JobsAreDated, JobsAreAddressed,
     OwnerIsKnown, BlockedIsKnownAndIdle, WifiClientsArePaired, Expired
<1> QED BY <1>1, <1>2, <1>3, <1>4, <1>5, <1>6, <1>7, <1>8 DEF Next, AckSteps

\* The strengthening holds of every behaviour of the receiver.
LEMMA Invariance == Spec => []IInv
<1> QED BY InitEstablishes, NextPreserves, PTL DEF Spec

\* The receiver's variables keep their types, whatever is received and however
\* its threads and the user's commands interleave.
THEOREM TypeCorrect == Spec => []TypeOK
<1>1. IInv => TypeOK
  BY DEF IInv
<1> QED BY <1>1, Invariance, PTL

\* The pad's owner is always a client the receiver knows
\* (_maintain_clients_locked, set_pairing_token).
THEOREM OwnerIsKnownHolds == Spec => []OwnerIsKnown
<1>1. IInv => OwnerIsKnown
  BY DEF IInv
<1> QED BY <1>1, Invariance, PTL

\* A disconnected client is known and does not own the pad
\* (disconnect_active_client, _handle_packet).
THEOREM BlockedIsKnownAndIdleHolds == Spec => []BlockedIsKnownAndIdle
<1>1. IInv => BlockedIsKnownAndIdle
  BY DEF IInv
<1> QED BY <1>1, Invariance, PTL

\* When pairing is required, only the session paired now is known over Wi-Fi
\* (set_pairing_token, _handle_packet).
THEOREM WifiClientsArePairedHolds == Spec => []WifiClientsArePaired
<1>1. IInv => WifiClientsArePaired
  BY DEF IInv
<1> QED BY <1>1, Invariance, PTL

\* No step takes the pad from its owner unless the owner timed out, was released
\* by the user or lost its pairing, or its own session moved to the other
\* transport after the grace period (docs/input-protocol.md:113-116).
THEOREM OwnerKeepsPadHolds == Spec => OwnerKeepsPad
<1>1. ASSUME IInv, [Next]_vars, NEW a \in Addresses, activeClient = a, activeClient' # a
      PROVE  TransferIsLegal(a)
  <2>1. a \in DOMAIN clients /\ a # None /\ now \in Nat /\ clients[a] \in ClientState
    BY <1>1, ReceiverAssumption DEF IInv, TypeOK, OwnerIsKnown, ReceiverAssumption, Addresses
  <2>2. ASSUME NEW s \in Nat, s <= now, ActiveAt(s) # a
        PROVE  Stale(a) >= ActiveTimeout
    <3>1. ~ (s - clients[a].lastFresh < ActiveTimeout)
      BY <1>1, <2>1, <2>2 DEF ActiveAt
    <3> QED BY <2>1, <2>2, <3>1, ReceiverAssumption DEF Stale, ClientState, ReceiverAssumption
  <2>3. ASSUME NEW t \in Threads, HandlePacket(t)
        PROVE  \/ Stale(a) >= ActiveTimeout
               \/ /\ activeClient' \in Addresses
                  /\ ~(activeClient' = UsbAddress <=> a = UsbAddress)
                  /\ clients[a].token # None
                  /\ clients[a].token = clients'[activeClient'].token
                  /\ Stale(a) >= SwitchGrace
    <3> DEFINE b == job[t].address
               s == job[t].at
    <3>1. Routed(t, b, s)
      BY <1>1, <2>3, HandlePacketEffect
    <3>2. b \in Addresses /\ s \in Nat /\ s <= now /\ clients'[b].token = job[t].token
      BY <3>1 DEF Routed
    <3>3. CASE ActiveAt(s) # a
      BY <2>2, <3>2, <3>3
    <3>4. CASE ActiveAt(s) = a
      <4>1. activeClient' = b /\ SwitchesTransport(t, b, s)
        BY <1>1, <2>1, <3>1, <3>4 DEF Routed
      <4>2. s - clients[a].lastFresh >= SwitchGrace
        BY <1>1, <4>1 DEF SwitchesTransport
      <4>3. Stale(a) >= SwitchGrace
        BY <2>1, <3>2, <4>2, ReceiverAssumption DEF Stale, ClientState, ReceiverAssumption
      <4> QED BY <1>1, <3>2, <4>1, <4>3 DEF SwitchesTransport
    <3> QED BY <3>3, <3>4
  <2>4. ASSUME NEW t \in Threads, ReceiveTimeout(t)
        PROVE  Stale(a) >= ActiveTimeout
    <3>1. ActiveAt(now) # a
      BY <1>1, <2>4 DEF ReceiveTimeout, routing
    <3> QED BY <2>1, <2>2, <3>1
  <2>5. ASSUME NEW token \in Tokens \cup {None}, SetPairingToken(token)
        PROVE  activeClient' = None /\ a \notin DOMAIN clients'
    BY <1>1, <2>5 DEF SetPairingToken, Without
  <2>6. CASE DisconnectActiveClient
    BY <1>1, <2>6 DEF DisconnectActiveClient, TransferIsLegal
  <2>7. UNCHANGED activeClient \/ (\E t \in Threads : HandlePacket(t) \/ ReceiveTimeout(t))
        \/ (\E token \in Tokens \cup {None} : SetPairingToken(token)) \/ DisconnectActiveClient
    BY <1>1 DEF Next, vars, routing, Tick, ReceiveRejected, RejectPacket, Deliver, Authorize,
       CheckInterval, SendAck, NoteAck, Receive, AllowTransport, RequestStop
  <2> QED BY <1>1, <2>3, <2>4, <2>5, <2>6, <2>7 DEF TransferIsLegal
<1>2. IInv /\ [Next]_vars =>
        [\A a \in Addresses : activeClient = a /\ activeClient' # a => TransferIsLegal(a)]_vars
  BY <1>1
<1> QED BY <1>2, Invariance, PTL DEF Spec, OwnerKeepsPad

\* Nothing but the user, a new pairing code or the client's own silence for the
\* retention time lifts a disconnection (disconnect_active_client).
THEOREM DisconnectionStandsHolds == Spec => DisconnectionStands
<1>1. ASSUME IInv, [Next]_vars, NEW a \in blocked \ blocked'
      PROVE  LiftIsLegal(a)
  <2>1. /\ now \in Nat /\ a \in DOMAIN clients /\ clients[a] \in ClientState
        /\ clients[a].transport = (IF a = UsbAddress THEN "usb" ELSE "wifi")
    BY <1>1 DEF IInv, TypeOK, BlockedIsKnownAndIdle, ClientsAreDated
  <2>2. ASSUME NEW s \in Nat, s <= now, a \in Expired(s)
        PROVE  Silent(a) >= Retention
    BY <2>1, <2>2, ReceiverAssumption DEF Expired, Silent, ClientState, ReceiverAssumption
  <2>3. ASSUME NEW t \in Threads, HandlePacket(t)
        PROVE  Silent(a) >= Retention
    <3> DEFINE b == job[t].address
               s == job[t].at
    <3>1. Routed(t, b, s)
      BY <1>1, <2>3, HandlePacketEffect
    <3>2. s \in Nat /\ s <= now /\ a \in Expired(s)
      BY <1>1, <3>1 DEF Routed
    <3> QED BY <2>2, <3>2
  <2>4. ASSUME NEW t \in Threads, ReceiveTimeout(t)
        PROVE  Silent(a) >= Retention
    <3>1. a \in Expired(now)
      BY <1>1, <2>4 DEF ReceiveTimeout, routing
    <3> QED BY <2>1, <2>2, <3>1
  <2>5. ASSUME NEW token \in Tokens \cup {None}, SetPairingToken(token)
        PROVE  a # UsbAddress /\ a \notin DOMAIN clients'
    BY <1>1, <2>1, <2>5 DEF SetPairingToken, Without
  <2>6. ASSUME NEW transport \in Transports, AllowTransport(transport)
        PROVE  /\ UNCHANGED <<clients, activeClient, job>>
               /\ \A b \in blocked \ blocked' : clients[b].transport = clients[a].transport
    BY <1>1, <2>6 DEF AllowTransport
  <2>7. \/ \E t \in Threads : HandlePacket(t) \/ ReceiveTimeout(t)
        \/ \E token \in Tokens \cup {None} : SetPairingToken(token)
        \/ \E transport \in Transports : AllowTransport(transport)
    BY <1>1 DEF Next, vars, routing, Tick, ReceiveRejected, RejectPacket, Deliver, Authorize,
       CheckInterval, SendAck, NoteAck, Receive, DisconnectActiveClient, RequestStop
  <2> QED BY <2>3, <2>4, <2>5, <2>6, <2>7 DEF LiftIsLegal
<1>2. IInv /\ [Next]_vars => [\A a \in blocked \ blocked' : LiftIsLegal(a)]_vars
  BY <1>1
<1> QED BY <1>2, Invariance, PTL DEF Spec, DisconnectionStands

\* Only the locked section takes a waiting datagram to its decision, and no other
\* thread's step touches a thread's job.
LEMMA OnlyHandlePacketDecides ==
  ASSUME TypeOK, [Next]_vars, NEW t \in Threads,
         job[t].step = "arrived", job'[t].step = "decided"
  PROVE  HandlePacket(t)
<1>1. job \in [Threads -> Job]
  BY DEF TypeOK
<1>2. NextTurn.step \in {"receive", "done"}
  BY DEF NextTurn, Idle
<1>3. \A a, token, n : Arrived(a, token, n).step = "arrived"
  BY DEF Arrived
<1>4. \A j, step, at : Later(j, step, at).step = step
  BY DEF Later
<1>5. ASSUME NEW u \in Threads, u # t, HandlePacket(u) PROVE FALSE
  <2>1. \E j : job' = [job EXCEPT ![u] = j]
    BY <1>5 DEF HandlePacket
  <2> QED BY <1>1, <1>5, <2>1
<1>6. ASSUME NEW u \in Threads,
             \/ ReceiveRejected(u) \/ ReceiveTimeout(u) \/ RejectPacket(u) \/ Deliver(u)
             \/ AckSteps(u)
      PROVE  FALSE
  <2>1. \E j : job' = [job EXCEPT ![u] = j] /\ j.step # "decided"
    <3>1. CASE AckSteps(u)
      BY <3>1, AckStepIsQuiet
    <3>2. CASE ~AckSteps(u)
      BY <1>2, <1>4, <1>6, <3>2
      DEF ReceiveRejected, ReceiveTimeout, RejectPacket, Deliver
    <3> QED BY <3>1, <3>2
  <2> QED BY <1>1, <2>1
<1>7. ASSUME NEW a \in Addresses, NEW token \in PacketTokens, NEW n \in Offered,
             Receive(a, token, n)
      PROVE  FALSE
  <2>1. job' = [job EXCEPT ![Thread(a)] = Arrived(a, token, n)]
    BY <1>7 DEF Receive
  <2> QED BY <1>1, <1>3, <2>1
<1>8. CASE UNCHANGED job
  BY <1>8
<1>9. \/ \E u \in Threads :
           \/ HandlePacket(u) \/ ReceiveRejected(u) \/ ReceiveTimeout(u) \/ RejectPacket(u)
           \/ Deliver(u) \/ AckSteps(u)
      \/ \E a \in Addresses, token \in PacketTokens, n \in Offered :
           Receive(a, token, n)
      \/ UNCHANGED job
  BY DEF Next, AckSteps, vars, Tick, SetPairingToken, DisconnectActiveClient, AllowTransport,
     RequestStop
<1> QED BY <1>5, <1>6, <1>7, <1>8, <1>9

\* A datagram of another session than the one its address was known for starts
\* the tracker of that address anew, and is the first one of it.
LEMMA NewSessionIsFirst ==
  ASSUME TypeOK, NEW t \in Threads, HandlePacket(t), NEW a, a = job[t].address,
         a \in DOMAIN clients, clients[a].token \notin {None, job[t].token}
  PROVE  /\ clients'[a].last = job[t].sequence
         /\ clients'[a].lastFresh = job[t].at
         /\ activeClient' = a => job'[t].isUpdate
<1> DEFINE s      == job[t].at
           known  == Without(clients, Expired(s))
           barred == blocked \ Expired(s)
           sender == SenderState(known, a, job[t].token, s)
           seized == a \notin barred /\ TakesOver(known, ActiveAt(s), a, sender, s)
           owner  == IF a \notin barred /\ (ActiveAt(s) = None \/ seized) THEN a
                                                                      ELSE ActiveAt(s)
           event  == Classify(IF seized THEN None ELSE sender.last, job[t].sequence)
           fresh  == event \in Accepted
           row    == [last      |-> IF fresh THEN job[t].sequence ELSE sender.last,
                      lastSeen  |-> s,
                      lastFresh |-> IF fresh THEN s ELSE IF seized THEN 0
                                                         ELSE sender.lastFresh,
                      token     |-> job[t].token,
                      transport |-> sender.transport]
<1>1. /\ clients' = With(known, a, row)
      /\ activeClient' = owner
      /\ job' = [job EXCEPT ![t] = Decided(job[t], owner = a, owner = a /\ fresh)]
  BY DEF HandlePacket
<1>2. a \in DOMAIN known => known[a] = clients[a]
  BY DEF Without
<1>3. sender.last = None
  <2>1. CASE a \in DOMAIN known
    BY <1>2, <2>1 DEF SenderState
  <2>2. CASE a \notin DOMAIN known
    BY <2>2 DEF SenderState, NewClient
  <2> QED BY <2>1, <2>2
<1>4. fresh
  BY <1>3 DEF Classify, Accepted
<1> HIDE DEF fresh, known, sender, seized, owner
<1>5. row.last = job[t].sequence /\ row.lastFresh = s
  BY <1>4
<1>6. clients'[a] = row
  BY <1>1 DEF With
<1>7. activeClient' = a => job'[t].isUpdate
  BY <1>1, <1>4 DEF TypeOK, Decided
<1> QED BY <1>5, <1>6, <1>7

\* A PSP that is started again at an address the receiver knows is heard from its
\* first packet, whatever the numbers of its last session (receiver.py:577-600).
THEOREM RelaunchIsHeardHolds == Spec => RelaunchIsHeard
<1> DEFINE Heard ==
      \A t \in Threads :
        LET a == job[t].address IN
        /\ job[t].step = "arrived" /\ job'[t].step = "decided"
        /\ a \in DOMAIN clients
        /\ clients[a].token \notin {None, job[t].token}
        => /\ clients'[a].last = job[t].sequence
           /\ clients'[a].lastFresh = job[t].at
           /\ activeClient' = a => job'[t].isUpdate
<1>1. ASSUME TypeOK, [Next]_vars PROVE Heard
  BY <1>1, OnlyHandlePacketDecides, NewSessionIsFirst
<1>2. TypeOK /\ [Next]_vars => [Heard]_vars
  BY <1>1
<1> QED BY <1>2, TypeCorrect, PTL DEF Spec, RelaunchIsHeard

\* What was read at the check of the interval still holds when the ACK is sent: the
\* last time that is noted for the address, if one is, lies the interval back.
AcksAreDue ==
  \A t \in Threads :
    LET j == job[t] IN
    j.step = "send" /\ j.address \in DOMAIN lastAck => j.at - lastAck[j.address] >= AckInterval

\* Only the thread of an address notes a time for it, and then ends its turn; the
\* steps of the others only forget times.
LEMMA NotedTimes ==
  ASSUME IInv, [Next]_vars, NEW a \in Addresses
  PROVE  \/ a \notin DOMAIN lastAck'
         \/ a \in DOMAIN lastAck /\ lastAck'[a] = lastAck[a]
         \/ /\ NoteAck(Thread(a)) /\ job[Thread(a)].address = a
            /\ lastAck'[a] = job[Thread(a)].at
<1>1. ASSUME NEW t \in Threads, NoteAck(t), job[t].address = a
      PROVE  /\ NoteAck(Thread(a)) /\ job[Thread(a)].address = a
             /\ lastAck'[a] = job[Thread(a)].at
  <2>1. t = Thread(a)
    BY <1>1 DEF IInv, JobsAreAddressed, Routing, NoteAck
  <2> QED BY <1>1, <2>1 DEF NoteAck, With
<1>2. ASSUME NEW t \in Threads, NoteAck(t), job[t].address # a
      PROVE  a \notin DOMAIN lastAck' \/ (a \in DOMAIN lastAck /\ lastAck'[a] = lastAck[a])
  BY <1>2 DEF NoteAck, With
<1>3. ASSUME ~ \E t \in Threads : NoteAck(t)
      PROVE  UNCHANGED lastAck \/ \E S : lastAck' = Without(lastAck, S)
  <2>1. ASSUME NEW t \in Threads, HandlePacket(t) \/ ReceiveTimeout(t)
        PROVE  UNCHANGED lastAck \/ \E S : lastAck' = Without(lastAck, S)
    BY <2>1 DEF HandlePacket, ReceiveTimeout
  <2>2. ASSUME NEW token \in Tokens \cup {None}, SetPairingToken(token)
        PROVE  \E S : lastAck' = Without(lastAck, S)
    BY <2>2 DEF SetPairingToken
  <2>3. \/ UNCHANGED lastAck
        \/ \E t \in Threads : HandlePacket(t) \/ ReceiveTimeout(t)
        \/ \E token \in Tokens \cup {None} : SetPairingToken(token)
    BY <1>3 DEF Next, vars, Tick, ReceiveRejected, RejectPacket, Deliver, Authorize,
       CheckInterval, SendAck, Receive, DisconnectActiveClient, AllowTransport, RequestStop
  <2> QED BY <2>1, <2>2, <2>3
<1> QED BY <1>1, <1>2, <1>3 DEF Without

\* A thread's job changes only by a step of the thread.
LEMMA OwnSteps ==
  ASSUME IInv, [Next]_vars, NEW t \in Threads
  PROVE  \/ job'[t] = job[t]
         \/ ReceiveRejected(t) \/ ReceiveTimeout(t) \/ RejectPacket(t) \/ HandlePacket(t)
         \/ Deliver(t) \/ AckSteps(t)
         \/ \E a \in Addresses, token \in PacketTokens, n \in Offered :
              Receive(a, token, n) /\ Thread(a) = t
<1>1. job \in [Threads -> Job]
  BY DEF IInv, TypeOK
<1>2. ASSUME NEW u \in Threads, u # t,
             \/ ReceiveRejected(u) \/ ReceiveTimeout(u) \/ RejectPacket(u) \/ HandlePacket(u)
             \/ Deliver(u) \/ AckSteps(u)
      PROVE  job'[t] = job[t]
  <2>1. \E j : job' = [job EXCEPT ![u] = j]
    <3>1. CASE AckSteps(u)
      BY <3>1, AckStepIsQuiet
    <3>2. CASE ~AckSteps(u)
      BY <1>2, <3>2
      DEF ReceiveRejected, ReceiveTimeout, RejectPacket, HandlePacket, Deliver
    <3> QED BY <3>1, <3>2
  <2> QED BY <1>1, <1>2, <2>1
<1>3. ASSUME NEW a \in Addresses, NEW token \in PacketTokens, NEW n \in Offered,
             Receive(a, token, n), Thread(a) # t
      PROVE  job'[t] = job[t]
  BY <1>1, <1>3 DEF Receive
<1>4. \/ \E u \in Threads :
           \/ ReceiveRejected(u) \/ ReceiveTimeout(u) \/ RejectPacket(u) \/ HandlePacket(u)
           \/ Deliver(u) \/ AckSteps(u)
      \/ \E a \in Addresses, token \in PacketTokens, n \in Offered : Receive(a, token, n)
      \/ UNCHANGED job
  BY DEF Next, AckSteps, vars, Tick, SetPairingToken, DisconnectActiveClient, AllowTransport,
     RequestStop
<1> QED BY <1>2, <1>3, <1>4

\* A thread comes to the sending of an ACK from the check of the interval, and from
\* there to the note of its time.
LEMMA JobMoves ==
  ASSUME IInv, [Next]_vars, NEW t \in Threads
  PROVE  \/ job'[t] = job[t]
         \/ job'[t].step \notin {"send", "note"}
         \/ CheckInterval(t) /\ job'[t] = Later(job[t], "send", now)
         \/ SendAck(t) /\ job'[t] = Later(job[t], "note", job[t].at)
<1>1. job \in [Threads -> Job]
  BY DEF IInv, TypeOK
<1>2. \A step, at : Later(job[t], step, at).step = step
  BY DEF Later
<1>3. NextTurn.step \notin {"send", "note"}
  BY DEF NextTurn, Idle
<1>4. CASE HandlePacket(t)
  <2>1. PICK d1, d2 : job' = [job EXCEPT ![t] = Decided(job[t], d1, d2)]
    BY <1>4 DEF HandlePacket
  <2>2. Decided(job[t], d1, d2).step = "decided"
    BY DEF Decided
  <2> QED BY <1>1, <2>1, <2>2
<1>5. CASE \/ ReceiveRejected(t) \/ ReceiveTimeout(t) \/ RejectPacket(t) \/ Deliver(t)
           \/ Authorize(t) \/ NoteAck(t)
  <2>1. \/ job' = [job EXCEPT ![t] = NextTurn]
        \/ job' = [job EXCEPT ![t] = Later(job[t], "delivered", 0)]
        \/ job' = [job EXCEPT ![t] = Later(job[t], "ack", 0)]
    BY <1>5 DEF ReceiveRejected, ReceiveTimeout, RejectPacket, Deliver, Authorize, NoteAck
  <2> QED BY <1>1, <1>2, <1>3, <2>1
<1>6. CASE CheckInterval(t) \/ SendAck(t)
  BY <1>1, <1>3, <1>6 DEF CheckInterval, SendAck
<1>7. ASSUME NEW a \in Addresses, NEW token \in PacketTokens, NEW n \in Offered,
             Receive(a, token, n), Thread(a) = t
      PROVE  job'[t].step \notin {"send", "note"}
  <2>1. job' = [job EXCEPT ![t] = Arrived(a, token, n)]
    BY <1>7 DEF Receive
  <2>2. Arrived(a, token, n).step = "arrived"
    BY DEF Arrived
  <2> QED BY <1>1, <2>1, <2>2
<1> QED BY <1>4, <1>5, <1>6, <1>7, OwnSteps DEF AckSteps

\* A thread that is to note the time of an ACK does nothing else.
LEMMA NoteIsNext ==
  ASSUME IInv, [Next]_vars, NEW t \in Threads, job[t].step = "note"
  PROVE  NoteAck(t) \/ job'[t] = job[t]
BY OwnSteps
DEF ReceiveRejected, ReceiveTimeout, RejectPacket, HandlePacket, Deliver, AckSteps, Authorize,
    CheckInterval, SendAck, Receive

\* What is noted for a client that stays known and was heard within the retention
\* time is not forgotten.
LEMMA TimesAreKept ==
  ASSUME IInv, [Next]_vars, NEW a \in DOMAIN clients \cap DOMAIN clients',
         Silent(a) < Retention, a \in DOMAIN lastAck
  PROVE  a \in DOMAIN lastAck'
<1>1. now \in Nat /\ clients[a] \in ClientState
  BY DEF IInv, TypeOK
<1>2. ASSUME NEW s \in Nat, s <= now, lastAck' = Without(lastAck, Expired(s))
      PROVE  a \in DOMAIN lastAck'
  <2>1. a \notin Expired(s)
    BY <1>1, <1>2, ReceiverAssumption
    DEF Expired, Silent, ClientState, ReceiverAssumption
  <2> QED BY <1>2, <2>1 DEF Without
<1>3. ASSUME NEW t \in Threads, HandlePacket(t)
      PROVE  a \in DOMAIN lastAck'
  <2>1. /\ job[t].step = "arrived" /\ job[t] \in Job
        /\ lastAck' = Without(lastAck, Expired(job[t].at))
    BY <1>3 DEF HandlePacket, IInv, TypeOK
  <2>2. job[t].at \in Nat /\ job[t].at <= now
    BY <2>1 DEF IInv, JobsAreDated, Job
  <2> QED BY <1>2, <2>1, <2>2
<1>4. ASSUME NEW t \in Threads, ReceiveTimeout(t)
      PROVE  a \in DOMAIN lastAck'
  <2>1. lastAck' = Without(lastAck, Expired(now)) \/ UNCHANGED lastAck
    BY <1>4 DEF ReceiveTimeout
  <2> QED BY <1>1, <1>2, <2>1
<1>5. ASSUME NEW t \in Threads, NoteAck(t)
      PROVE  a \in DOMAIN lastAck'
  BY <1>5 DEF NoteAck, With
<1>6. ASSUME NEW token \in Tokens \cup {None}, SetPairingToken(token)
      PROVE  a \in DOMAIN lastAck'
  BY <1>6 DEF SetPairingToken, Without
<1>7. \/ UNCHANGED lastAck
      \/ \E t \in Threads : HandlePacket(t) \/ ReceiveTimeout(t) \/ NoteAck(t)
      \/ \E token \in Tokens \cup {None} : SetPairingToken(token)
  BY DEF Next, vars, Tick, ReceiveRejected, RejectPacket, Deliver, Authorize, CheckInterval,
     SendAck, Receive, DisconnectActiveClient, AllowTransport, RequestStop
<1> QED BY <1>3, <1>4, <1>5, <1>6, <1>7

\* What was read at the check stays true up to the sending.
LEMMA AcksAreDuePreserved ==
  ASSUME IInv, AcksAreDue, [Next]_vars
  PROVE  AcksAreDue'
<1> SUFFICES ASSUME NEW t \in Threads, job'[t].step = "send",
                    NEW a, a = job'[t].address, a \in DOMAIN lastAck'
             PROVE  job'[t].at - lastAck'[a] >= AckInterval
  BY DEF AcksAreDue
<1>1. job \in [Threads -> Job]
  BY DEF IInv, TypeOK
<1>2. Later(job[t], "note", job[t].at).step = "note"
  BY DEF Later
<1>3. CASE job'[t] = job[t]
  <2>1. a \in Addresses /\ Thread(a) = t
    BY <1>3 DEF IInv, JobsAreAddressed, Routing
  <2>2. ~NoteAck(t)
    BY <1>3 DEF NoteAck
  <2>3. a \in DOMAIN lastAck /\ lastAck'[a] = lastAck[a]
    BY <2>1, <2>2, NotedTimes
  <2> QED BY <1>3, <2>3 DEF AcksAreDue
<1>4. CASE CheckInterval(t) /\ job'[t] = Later(job[t], "send", now)
  <2>1. a = job[t].address /\ job'[t].at = now
    BY <1>4 DEF Later
  <2>2. UNCHANGED lastAck
    BY <1>4 DEF CheckInterval
  <2>3. ~(a \in DOMAIN lastAck /\ now - lastAck[a] < AckInterval)
    <3>1. NextTurn.step # "send"
      BY DEF NextTurn, Idle
    <3> QED BY <1>1, <1>4, <2>1, <3>1 DEF CheckInterval
  <2>4. now \in Nat /\ lastAck[a] \in Nat /\ AckInterval \in Nat
    BY <2>2, ReceiverAssumption DEF IInv, TypeOK, ReceiverAssumption
  <2> QED BY <2>1, <2>2, <2>3, <2>4
<1> QED BY <1>2, <1>3, <1>4, JobMoves

\* The check of the interval, the sending and the note of its time are separate
\* steps without the lock (receiver.py:524-539), yet the ACKs to a client that
\* stays known are spaced (docs/input-protocol.md:57): one thread does all three
\* for an address, so what it read stays true until it notes the next time; and
\* the other threads forget the time of an ACK only with the client, or with one
\* that was silent for the retention time.
THEOREM AcksAreSpacedHolds == Spec => AcksAreSpaced
<1> DEFINE Spaced ==
      \A a \in DOMAIN clients \cap DOMAIN clients' :
        Silent(a) < Retention =>
          \A m \in LastSent(a) : \E n \in LastSent(a)' : n = m \/ n - m >= AckInterval
<1>1. ASSUME IInv, AcksAreDue, [Next]_vars,
             NEW a \in DOMAIN clients \cap DOMAIN clients', Silent(a) < Retention,
             NEW m \in LastSent(a)
      PROVE  \E n \in LastSent(a)' : n = m \/ n - m >= AckInterval
  <2> DEFINE T == Thread(a)
  <2>1. /\ now \in Nat /\ clients[a] \in ClientState /\ a \in Addresses
        /\ job \in [Threads -> Job] /\ T \in Threads
    BY <1>1 DEF IInv, TypeOK, Thread, Threads
  <2> HIDE DEF T
  <2>2. CASE job[T].step = "note" /\ job[T].address = a
    <3>1. m = job[T].at
      BY <1>1, <2>2 DEF LastSent, T
    <3>2. CASE NoteAck(T)
      <4>1. /\ lastAck' = With(lastAck, a, m)
            /\ job' = [job EXCEPT ![T] = NextTurn]
        BY <2>2, <3>1, <3>2 DEF NoteAck
      <4>2. a \in DOMAIN lastAck' /\ lastAck'[a] = m
        BY <4>1 DEF With
      <4>3. job'[T].step # "note"
        BY <2>1, <4>1 DEF NextTurn, Idle
      <4> QED BY <4>2, <4>3 DEF LastSent, T
    <3>3. CASE ~NoteAck(T)
      <4>1. job'[T] = job[T]
        BY <1>1, <2>1, <2>2, <3>3, NoteIsNext
      <4> QED BY <2>2, <3>1, <4>1 DEF LastSent, T
    <3> QED BY <3>2, <3>3
  <2>3. CASE ~(job[T].step = "note" /\ job[T].address = a)
    <3>1. a \in DOMAIN lastAck /\ m = lastAck[a] /\ m \in Nat
      BY <1>1, <2>3 DEF LastSent, T, IInv, TypeOK
    <3>2. a \in DOMAIN lastAck' /\ lastAck'[a] = lastAck[a]
      <4>1. a \in DOMAIN lastAck'
        BY <1>1, <3>1, TimesAreKept
      <4>2. ~(NoteAck(Thread(a)) /\ job[Thread(a)].address = a)
        BY <2>3 DEF NoteAck, T
      <4> QED BY <1>1, <2>1, <4>1, <4>2, NotedTimes
    <3>3. CASE job'[T].step = "note" /\ job'[T].address = a
      <4>1. SendAck(T) /\ job'[T] = Later(job[T], "note", job[T].at) /\ job[T].step = "send"
        <5>1. Later(job[T], "send", now).step # "note"
          BY DEF Later
        <5> QED BY <1>1, <2>1, <2>3, <3>3, <5>1, JobMoves DEF SendAck
      <4>2. job[T].address = a /\ job'[T].at = job[T].at
        BY <3>3, <4>1 DEF Later
      <4>3. job'[T].at - m >= AckInterval
        BY <1>1, <2>1, <3>1, <4>1, <4>2 DEF AcksAreDue
      <4> QED BY <3>3, <4>3 DEF LastSent, T
    <3>4. CASE ~(job'[T].step = "note" /\ job'[T].address = a)
      BY <3>1, <3>2, <3>4 DEF LastSent, T
    <3> QED BY <3>3, <3>4
  <2> QED BY <2>2, <2>3
<1>2. Init => AcksAreDue
  BY DEF Init, Idle, AcksAreDue
<1>3. IInv /\ AcksAreDue /\ [Next]_vars => AcksAreDue'
  BY AcksAreDuePreserved
<1>4. IInv /\ AcksAreDue /\ [Next]_vars => [Spaced]_vars
  BY <1>1
<1> QED BY <1>2, <1>3, <1>4, Invariance, PTL DEF Spec, AcksAreSpaced

-----------------------------------------------------------------------------
(* The input path (Bridge): its inductive invariant.                       *)

\* The numbers of the packets that were sent.
Sent == 0..(sequence - 1)

\* What is in flight was sent, and not longer ago than the longest delay.
FlightIsDated ==
  \A p \in flight : /\ p.sequence \in Sent /\ p.address \in Links
                    /\ p.sentAt \in Nat /\ p.sentAt <= now /\ now - p.sentAt <= MaxDelay

\* All there is was sent by the one session, which is paired and never
\* disconnected, and no thread waits for the lock for longer than the bound.
OneSession ==
  /\ sequence \in 0..MaxSent /\ link \in Links
  /\ pairingToken = Token /\ blocked = {}
  /\ \A a \in DOMAIN clients : a \in Links /\ clients[a].token = Token /\ clients[a].last \in Sent
  /\ \A t \in Threads :
       job[t].step = "arrived" =>
         /\ job[t].address \in Links /\ job[t].token = Token
         /\ job[t].sequence \in Sent /\ now - job[t].at <= Stalls

\* Number q was sent by the time m: every packet that was certainly sent after
\* m, seen from when it was sent or from when it arrived, has a later number.
SentBy(q, m) ==
  /\ \A p \in flight : p.sentAt > m => p.sequence > q
  /\ \A t \in Threads :
       job[t].step = "arrived" /\ job[t].at - MaxDelay > m => job[t].sequence > q

JobsWereSent == \A t \in Threads : job[t].step = "arrived" => SentBy(job[t].sequence, job[t].at)
ClientsWereSent == \A a \in DOMAIN clients : SentBy(clients[a].last, clients[a].lastFresh)

PathInv ==
  /\ IInv
  /\ FlightIsDated
  /\ OneSession
  /\ JobsWereSent
  /\ ClientsWereSent

-----------------------------------------------------------------------------
(* Every step of the input path preserves its invariant.                   *)

\* A packet is new in flight with the next number, and new in a thread's hands
\* from the flight.
KeepsOrder ==
  /\ \A p \in flight' : p \in flight \/ p.sequence = sequence
  /\ \A t \in Threads :
       job'[t].step = "arrived" =>
         \/ job'[t] = job[t]
         \/ \E p \in flight : /\ job'[t].sequence = p.sequence
                              /\ job'[t].at \in Nat /\ job'[t].at - MaxDelay <= p.sentAt

\* SentBy, of the state that a step leads to.
StillSentBy(q, m) ==
  /\ \A p \in flight' : p.sentAt > m => p.sequence > q
  /\ \A t \in Threads :
       job'[t].step = "arrived" /\ job'[t].at - MaxDelay > m => job'[t].sequence > q

LEMMA SentByKept ==
  ASSUME PathInv, KeepsOrder, NEW q \in Sent, NEW m \in Nat, SentBy(q, m)
  PROVE  StillSentBy(q, m)
<1>1. sequence \in Nat /\ MaxDelay \in Nat
  BY BridgeAssumption DEF PathInv, OneSession, BridgeAssumption
<1>2. \A p \in flight' : p.sentAt > m => p.sequence > q
  BY <1>1 DEF KeepsOrder, SentBy, Sent
<1>3. ASSUME NEW t \in Threads, job'[t].step = "arrived", job'[t].at - MaxDelay > m
      PROVE  job'[t].sequence > q
  <2>1. CASE job'[t] = job[t]
    BY <1>3, <2>1 DEF SentBy
  <2>2. ASSUME NEW p \in flight, job'[t].sequence = p.sequence,
               job'[t].at \in Nat, job'[t].at - MaxDelay <= p.sentAt
        PROVE  job'[t].sequence > q
    <3>1. p.sentAt \in Nat
      BY DEF PathInv, FlightIsDated
    <3>2. p.sentAt > m
      BY <1>1, <1>3, <2>2, <3>1
    <3> QED BY <2>2, <3>2 DEF SentBy
  <2> QED BY <1>3, <2>1, <2>2 DEF KeepsOrder
<1> QED BY <1>2, <1>3 DEF StillSentBy

LEMMA JobKept ==
  ASSUME PathInv, KeepsOrder, NEW t \in Threads, job[t].step = "arrived"
  PROVE  StillSentBy(job[t].sequence, job[t].at)
<1>1. job[t].sequence \in Sent /\ job[t].at \in Nat /\ SentBy(job[t].sequence, job[t].at)
  BY DEF PathInv, OneSession, JobsWereSent, IInv, TypeOK, Job
<1> QED BY <1>1, SentByKept

LEMMA ClientKept ==
  ASSUME PathInv, KeepsOrder, NEW a \in DOMAIN clients
  PROVE  StillSentBy(clients[a].last, clients[a].lastFresh)
<1>1. /\ clients[a].last \in Sent /\ clients[a].lastFresh \in Nat
      /\ SentBy(clients[a].last, clients[a].lastFresh)
  BY DEF PathInv, OneSession, ClientsWereSent, IInv, TypeOK, ClientState
<1> QED BY <1>1, SentByKept

\* What is to be shown of a step that keeps the order: that it keeps the types, and
\* that the numbers it notes, of a client or a packet, were sent by then.
LEMMA OrderStep ==
  ASSUME PathInv, KeepsOrder, IInv', FlightIsDated', OneSession',
         \A t \in Threads : job'[t].step = "arrived" =>
           job'[t] = job[t] \/ StillSentBy(job'[t].sequence, job'[t].at),
         \A a \in DOMAIN clients' :
           \/ a \in DOMAIN clients /\ clients'[a].last = clients[a].last
                                   /\ clients'[a].lastFresh = clients[a].lastFresh
           \/ StillSentBy(clients'[a].last, clients'[a].lastFresh)
  PROVE  PathInv'
<1>1. \A t \in Threads : job'[t].step = "arrived" => StillSentBy(job'[t].sequence, job'[t].at)
  BY JobKept
<1>2. \A a \in DOMAIN clients' : StillSentBy(clients'[a].last, clients'[a].lastFresh)
  BY ClientKept
<1>3. JobsWereSent'
  BY <1>1 DEF JobsWereSent, SentBy, StillSentBy
<1>4. ClientsWereSent'
  BY <1>2 DEF ClientsWereSent, SentBy, StillSentBy
<1> QED BY <1>3, <1>4 DEF PathInv

\* A step of a thread that takes no packet up and hands none on, and may forget
\* clients.
LEMMA QuietStep ==
  ASSUME PathInv, IInv', UNCHANGED <<now, pairingToken, sequence, link, flight>>,
         NEW t \in Threads, NEW j, job' = [job EXCEPT ![t] = j], j.step # "arrived",
         DOMAIN clients' \subseteq DOMAIN clients,
         \A a \in DOMAIN clients' : clients'[a] = clients[a],
         blocked' = {}
  PROVE  PathInv'
<1>1. \A u \in Threads : job'[u].step = "arrived" => job'[u] = job[u]
  BY DEF PathInv, IInv, TypeOK
<1>2. KeepsOrder
  BY <1>1 DEF KeepsOrder
<1>3. FlightIsDated'
  BY DEF PathInv, FlightIsDated, Sent
<1>4. OneSession'
  BY <1>1 DEF PathInv, OneSession, Sent
<1> QED BY <1>1, <1>2, <1>3, <1>4, OrderStep

\* A packet is sent, or the PSP changes the transport.
LEMMA SendStep ==
  ASSUME PathInv, Send \/ SwitchLink
  PROVE  PathInv'
<1>1. UNCHANGED vars
  BY DEF Send, SwitchLink
<1>2. IInv' /\ UNCHANGED <<now, clients, blocked, pairingToken, job>>
  BY <1>1, NextPreserves DEF PathInv, vars, routing
<1>3. sequence \in Nat /\ now \in Nat /\ MaxDelay \in Nat
  BY BridgeAssumption DEF PathInv, OneSession, IInv, TypeOK, BridgeAssumption
<1>4. /\ sequence' \in 0..MaxSent /\ sequence <= sequence' /\ link' \in Links /\ link \in Links
      /\ \A p \in flight' :
           \/ p \in flight
           \/ /\ p.sequence = sequence /\ p.address = link /\ p.sentAt = now
              /\ sequence' = sequence + 1
  BY <1>3, BridgeAssumption DEF Send, SwitchLink, PathInv, OneSession, BridgeAssumption
<1>5. KeepsOrder
  BY <1>2, <1>4 DEF KeepsOrder
<1>6. FlightIsDated'
  BY <1>2, <1>3, <1>4 DEF PathInv, FlightIsDated, Sent
<1>7. OneSession'
  BY <1>2, <1>4 DEF PathInv, OneSession, Sent
<1> QED BY <1>2, <1>5, <1>6, <1>7, OrderStep

\* Time passes.
LEMMA PassStep ==
  ASSUME PathInv, Pass
  PROVE  PathInv'
<1>1. /\ Tick /\ UNCHANGED <<sequence, link, clients, blocked, pairingToken, job>>
      /\ flight' = {p \in flight : now' - p.sentAt <= MaxDelay}
      /\ now' = now + 1
      /\ \A t \in Threads : job[t].step = "arrived" => now < job[t].at + Stalls
  BY DEF Pass, Tick, routing
<1>2. IInv'
  BY <1>1, TickStep DEF PathInv
<1>3. now \in Nat /\ Stalls \in Nat /\ \A t \in Threads : job[t].at \in Nat
  BY ReceiverAssumption DEF PathInv, IInv, TypeOK, Job, ReceiverAssumption
<1>4. KeepsOrder
  BY <1>1 DEF KeepsOrder
<1>5. FlightIsDated'
  BY <1>1, <1>3 DEF PathInv, FlightIsDated, Sent
<1>6. OneSession'
  BY <1>1, <1>3 DEF PathInv, OneSession, Sent
<1> QED BY <1>1, <1>2, <1>4, <1>5, <1>6, OrderStep

\* A number of the path is one of the sequence space, and far from its end.
LEMMA SentIsSequence ==
  ASSUME OneSession, NEW q \in Sent
  PROVE  q \in Sequences /\ q \in Nat /\ q < HalfRange
BY SequenceAssumption, BridgeAssumption
DEF OneSession, Sent, Sequences, SequenceAssumption, BridgeAssumption

\* A packet arrives: it was sent by now, and it was in flight for no longer than
\* the longest delay.
LEMMA ArriveStep ==
  ASSUME PathInv, NEW p \in flight, Arrive(p)
  PROVE  PathInv'
<1> DEFINE t    == Thread(p.address)
           next == Arrived(p.address, Token, p.sequence)
<1>1. /\ Receive(p.address, Token, p.sequence)
      /\ flight' \subseteq flight
      /\ job' = [job EXCEPT ![t] = next]
      /\ UNCHANGED <<now, clients, blocked, pairingToken, sequence, link>>
  BY DEF Arrive, Receive, routing
<1>2. /\ p.address \in Links /\ p.sequence \in Sent /\ p.sentAt \in Nat
      /\ p.sentAt <= now /\ now - p.sentAt <= MaxDelay
  BY DEF PathInv, FlightIsDated
<1>3. p.address \in Addresses /\ Token \in PacketTokens /\ p.sequence \in Sequences
  BY <1>2, SentIsSequence, BridgeAssumption
  DEF PathInv, Links, Addresses, PacketTokens, BridgeAssumption
<1>4. IInv'
  BY <1>1, <1>3, ReceiveStep DEF PathInv
<1>5. /\ now \in Nat /\ MaxDelay \in Nat /\ Stalls \in Nat /\ job \in [Threads -> Job]
      /\ \A u \in Threads : job[u].at \in Nat
  BY ReceiverAssumption, BridgeAssumption
  DEF PathInv, IInv, TypeOK, Job, ReceiverAssumption, BridgeAssumption
<1>6. /\ next.step = "arrived" /\ next.address = p.address /\ next.token = Token
      /\ next.sequence = p.sequence /\ next.at = now
  BY DEF Arrived
<1>7. t \in Threads
  BY DEF Thread, Threads
<1> HIDE DEF t, next
<1>8. job'[t] = next /\ \A u \in Threads \ {t} : job'[u] = job[u]
  BY <1>1, <1>5, <1>7
<1>9. KeepsOrder
  <2>1. next.at \in Nat /\ next.at - MaxDelay <= p.sentAt
    BY <1>2, <1>5, <1>6
  <2> QED BY <1>1, <1>6, <1>8, <2>1 DEF KeepsOrder
<1>10. FlightIsDated'
  BY <1>1 DEF PathInv, FlightIsDated, Sent
<1>11. OneSession'
  <2>1. now - next.at <= Stalls
    BY <1>5, <1>6
  <2> QED BY <1>1, <1>2, <1>6, <1>8, <2>1 DEF PathInv, OneSession, Sent
<1>12. StillSentBy(p.sequence, now)
  <2>1. \A q \in flight' : ~(q.sentAt > now)
    BY <1>1, <1>5 DEF PathInv, FlightIsDated
  <2>2. \A u \in Threads : job'[u].step = "arrived" => ~(job'[u].at - MaxDelay > now)
    <3>1. \A u \in Threads : job[u].step = "arrived" => job[u].at <= now
      BY DEF PathInv, IInv, JobsAreDated
    <3> QED BY <1>5, <1>6, <1>8, <3>1
  <2> QED BY <2>1, <2>2 DEF StillSentBy
<1> QED BY <1>1, <1>4, <1>6, <1>8, <1>9, <1>10, <1>11, <1>12, OrderStep

\* What a packet of the session does when it is handled: its sender's tracker is
\* at its number as of its arrival, or was at it or past it before; nobody is
\* disconnected, so the pad has an owner; and it is an update only if its sender
\* owns the pad and its number is a new one to the sender's tracker, unless the
\* tracker starts anew because the pad changed hands.
Heard(t, a, s) ==
  \/ clients'[a].last = job[t].sequence /\ clients'[a].lastFresh = s
  \/ /\ a \in DOMAIN clients /\ job[t].sequence <= clients[a].last
     /\ clients'[a].last = clients[a].last /\ clients'[a].lastFresh = clients[a].lastFresh

Updates(t, a, s) ==
  /\ activeClient' = a
  /\ clients'[a].last = job[t].sequence /\ clients'[a].lastFresh = s
  /\ ActiveAt(s) = a => clients[a].last < job[t].sequence

LEMMA HandlePathEffect ==
  ASSUME PathInv, NEW t \in Threads, HandlePacket(t),
         NEW a, a = job[t].address, NEW s, s = job[t].at
  PROVE  /\ Heard(t, a, s)
         /\ activeClient' = a \/ (activeClient' = ActiveAt(s) /\ ActiveAt(s) # None)
         /\ SwitchesTransport(t, a, s) => activeClient' = a
         /\ ActiveAt(s) = a => clients[a].last <= clients'[a].last
         /\ \E isActive, isUpdate \in BOOLEAN :
              /\ job' = [job EXCEPT ![t] = Decided(job[t], isActive, isUpdate)]
              /\ isUpdate => Updates(t, a, s)
              /\ /\ activeClient' = a
                 /\ a \in DOMAIN clients => clients[a].last < job[t].sequence
                 => isUpdate
<1> DEFINE known  == Without(clients, Expired(s))
           barred == blocked \ Expired(s)
           sender == SenderState(known, a, job[t].token, s)
           seized == a \notin barred /\ TakesOver(known, ActiveAt(s), a, sender, s)
           owner  == IF a \notin barred /\ (ActiveAt(s) = None \/ seized) THEN a
                                                                      ELSE ActiveAt(s)
           base   == IF seized THEN None ELSE sender.last
           fresh  == Classify(base, job[t].sequence) \in Accepted
           row    == [last      |-> IF fresh THEN job[t].sequence ELSE sender.last,
                      lastSeen  |-> s,
                      lastFresh |-> IF fresh THEN s ELSE IF seized THEN 0
                                                         ELSE sender.lastFresh,
                      token     |-> job[t].token,
                      transport |-> sender.transport]
<1>1. /\ clients' = With(known, a, row)
      /\ activeClient' = owner
      /\ job' = [job EXCEPT ![t] = Decided(job[t], owner = a, owner = a /\ fresh)]
      /\ job[t].step = "arrived"
  BY DEF HandlePacket
<1>2. /\ job[t].sequence \in Sent /\ job[t].sequence \in Nat /\ job[t].sequence < HalfRange
      /\ job[t].sequence # None
      /\ s \in Nat /\ a \in Links /\ a # None
  BY <1>1, SentIsSequence, SequenceAssumption, ReceiverAssumption, BridgeAssumption
  DEF PathInv, OneSession, IInv, TypeOK, Job, Links, SequenceAssumption, ReceiverAssumption,
      BridgeAssumption
<1>3. a \in DOMAIN known => a \in DOMAIN clients /\ known[a] = clients[a]
  BY DEF Without
<1>4. \/ sender.last = None
      \/ /\ a \in DOMAIN known
         /\ sender.last = clients[a].last
         /\ sender.lastFresh = clients[a].lastFresh
         /\ clients[a].last \in Nat /\ clients[a].last < HalfRange /\ clients[a].last # None
  <2>1. CASE a \in DOMAIN known
    <3>1. /\ clients[a].last \in Nat /\ clients[a].last < HalfRange /\ clients[a].last # None
      BY <1>3, <2>1, SentIsSequence, SequenceAssumption
      DEF PathInv, OneSession, SequenceAssumption
    <3> QED BY <1>3, <2>1, <3>1 DEF SenderState
  <2>2. CASE a \notin DOMAIN known
    BY <2>2 DEF SenderState, NewClient
  <2> QED BY <2>1, <2>2
<1>5. blocked = {}
  BY DEF PathInv, OneSession
<1>6. ActiveAt(s) = a =>
        /\ sender.last = clients[a].last /\ ~seized
        /\ clients[a].last \in Nat /\ clients[a].last < HalfRange /\ clients[a].last # None
  <2> SUFFICES ASSUME ActiveAt(s) = a
               PROVE  /\ sender.last = clients[a].last /\ ~seized
                      /\ clients[a].last \in Nat /\ clients[a].last < HalfRange
                      /\ clients[a].last # None
    OBVIOUS
  <2>1. a \in DOMAIN known /\ a \in DOMAIN clients /\ s - clients[a].lastFresh < ActiveTimeout
    BY <1>2, ActiveAtIsRecent DEF PathInv, Without
  <2>2. /\ clients[a].last \in Nat /\ clients[a].last < HalfRange /\ clients[a].last # None
    BY <2>1, SentIsSequence, SequenceAssumption DEF PathInv, OneSession, SequenceAssumption
  <2>3. clients[a].token = job[t].token /\ clients[a].token # None
    BY <1>1, <2>1, ReceiverAssumption, BridgeAssumption
    DEF PathInv, OneSession, ReceiverAssumption, BridgeAssumption
  <2>4. ~ (s - clients[a].lastSeen >= ActiveTimeout)
    BY <1>2, <2>1, ReceiverAssumption
    DEF PathInv, IInv, TypeOK, ClientsAreDated, ClientState, ReceiverAssumption
  <2>5. sender.last = clients[a].last
    BY <1>3, <2>1, <2>3, <2>4 DEF SenderState
  <2>6. ~seized
    BY DEF TakesOver
  <2> QED BY <2>2, <2>5, <2>6
<1>6a. SwitchesTransport(t, a, s) => activeClient' = a
  <2> SUFFICES ASSUME SwitchesTransport(t, a, s), ActiveAt(s) # None
               PROVE  activeClient' = a
    BY <1>1, <1>5
  <2>1. /\ ActiveAt(s) = activeClient /\ activeClient \in DOMAIN clients \ Expired(s)
    BY <1>2, ActiveAtIsRecent DEF PathInv
  <2>2. activeClient \in DOMAIN known /\ known[activeClient] = clients[activeClient]
    BY <2>1 DEF Without
  <2>3. /\ sender.transport = (IF a = UsbAddress THEN "usb" ELSE "wifi")
        /\ sender.token = job[t].token
    BY DEF SenderState
  <2>4. clients[activeClient].transport = (IF activeClient = UsbAddress THEN "usb" ELSE "wifi")
    BY <2>1 DEF PathInv, IInv, ClientsAreDated
  <2>5. seized
    BY <1>5, <2>1, <2>2, <2>3, <2>4 DEF SwitchesTransport, TakesOver
  <2> QED BY <1>1, <1>5, <2>5
<1> HIDE DEF known, sender, seized
<1>7. base = None => fresh
  BY DEF Classify, Accepted
<1>8. ASSUME base # None
      PROVE  /\ ~seized /\ base = sender.last
             /\ base \in Nat /\ base < HalfRange
             /\ fresh <=> base < job[t].sequence
  <2>1. /\ ~seized /\ base = sender.last /\ base \in Nat /\ base < HalfRange
    BY <1>4, <1>8
  <2>2. HalfRange \in Nat \ {0, 1} /\ Modulus = 2 * HalfRange
    BY SequenceAssumption DEF SequenceAssumption
  <2> HIDE DEF base
  <2>3. (Classify(base, job[t].sequence) \in Accepted) <=> base < job[t].sequence
    BY <1>2, <1>8, <2>1, <2>2 DEF Classify, Delta, Accepted
  <2> QED BY <2>1, <2>3 DEF base
<1> HIDE DEF fresh
<1>9. clients'[a] = row
  BY <1>1 DEF With
<1>10. CASE base = None
  <2>1. fresh /\ clients'[a].last = job[t].sequence /\ clients'[a].lastFresh = s
    BY <1>7, <1>9, <1>10
  <2>2. ActiveAt(s) # a
    BY <1>6, <1>10
  <2>3. activeClient' = a \/ (activeClient' = ActiveAt(s) /\ ActiveAt(s) # None)
    BY <1>1, <1>5
  <2>4. owner = a /\ fresh => Updates(t, a, s)
    BY <1>1, <2>1, <2>2 DEF Updates
  <2> HIDE DEF owner, row, barred, base
  <2> QED BY <1>1, <1>6a, <2>1, <2>2, <2>3, <2>4 DEF Heard
<1>11. CASE base # None
  <2>1. /\ ~seized /\ base = sender.last /\ base \in Nat
        /\ fresh <=> base < job[t].sequence
    BY <1>8, <1>11
  <2>2. /\ a \in DOMAIN clients /\ base = clients[a].last
        /\ sender.lastFresh = clients[a].lastFresh
    BY <1>3, <1>4, <1>11, <2>1
  <2>3. /\ clients'[a].last = (IF fresh THEN job[t].sequence ELSE clients[a].last)
        /\ clients'[a].lastFresh = (IF fresh THEN s ELSE clients[a].lastFresh)
    BY <1>9, <2>1, <2>2
  <2>4. Heard(t, a, s)
    BY <1>2, <2>1, <2>2, <2>3 DEF Heard
  <2>5. activeClient' = a \/ (activeClient' = ActiveAt(s) /\ ActiveAt(s) # None)
    BY <1>1, <1>5
  <2>6. owner = a /\ fresh => Updates(t, a, s)
    BY <1>1, <2>1, <2>2, <2>3 DEF Updates
  <2>7. clients[a].last <= clients'[a].last
    BY <1>2, <2>1, <2>2, <2>3
  <2>8. fresh <=> clients[a].last < job[t].sequence
    BY <2>1, <2>2
  <2> HIDE DEF owner, row, barred, base
  <2> QED BY <1>1, <1>6a, <2>2, <2>4, <2>5, <2>6, <2>7, <2>8
<1> QED BY <1>10, <1>11

\* The rest of a packet's handling, and the times at which none arrives.
LEMMA ThreadStepsStep ==
  ASSUME PathInv, NEW t \in Threads, Apply(t) \/ ThreadSteps(t)
  PROVE  PathInv'
<1>1. /\ UNCHANGED <<now, pairingToken, sequence, link, flight>>
      /\ Deliver(t) \/ ReceiveTimeout(t) \/ HandlePacket(t) \/ AckSteps(t)
  BY AckStepEffect DEF Apply, ThreadSteps, AckSteps, Deliver, ReceiveTimeout, HandlePacket
<1>2. IInv'
  BY <1>1, ThreadStep, ReceiveTimeoutStep, HandlePacketStep DEF PathInv
<1>3. NextTurn.step \in {"receive", "done"}
  BY DEF NextTurn, Idle
<1>4. CASE ReceiveTimeout(t) \/ Deliver(t) \/ AckSteps(t)
  <2>1. \E j : job' = [job EXCEPT ![t] = j] /\ j.step # "arrived"
    <3>1. \A step, at : Later(job[t], step, at).step = step
      BY DEF Later
    <3>2. CASE ReceiveTimeout(t) \/ Deliver(t)
      BY <1>3, <3>1, <3>2 DEF ReceiveTimeout, Deliver
    <3>3. CASE AckSteps(t)
      BY <3>3, AckStepIsQuiet
    <3> QED BY <1>4, <3>2, <3>3
  <2>2. /\ DOMAIN clients' \subseteq DOMAIN clients
        /\ \A a \in DOMAIN clients' : clients'[a] = clients[a]
        /\ blocked' = {}
    BY <1>4, AckStepEffect DEF ReceiveTimeout, Deliver, routing, Without, PathInv, OneSession
  <2> QED BY <1>1, <1>2, <2>1, <2>2, QuietStep
<1>5. CASE HandlePacket(t)
  <2> DEFINE a == job[t].address
             s == job[t].at
  <2>1. /\ job[t].step = "arrived" /\ job[t].sequence \in Sent /\ job[t].token = Token
        /\ a \in Links /\ s \in Nat /\ job \in [Threads -> Job]
        /\ SentBy(job[t].sequence, s)
    BY <1>5 DEF PathInv, OneSession, JobsWereSent, HandlePacket, IInv, TypeOK, Job
  <2>2. /\ DOMAIN clients' = (DOMAIN clients \ Expired(s)) \cup {a}
        /\ \A b \in DOMAIN clients' \ {a} : clients'[b] = clients[b]
        /\ clients'[a].token = job[t].token
        /\ blocked' = {}
    <3>1. Routed(t, a, s)
      BY <1>5, HandlePacketEffect DEF PathInv
    <3> QED BY <3>1 DEF PathInv, OneSession, Routed
  <2>3. Heard(t, a, s)
    BY <1>5, HandlePathEffect
  <2>4. \E isActive, isUpdate \in BOOLEAN :
          job' = [job EXCEPT ![t] = Decided(job[t], isActive, isUpdate)]
    BY <1>5, HandlePathEffect
  <2>5. \A isActive, isUpdate : Decided(job[t], isActive, isUpdate).step = "decided"
    BY DEF Decided
  <2>6. \A u \in Threads : job'[u].step = "arrived" => job'[u] = job[u] /\ u # t
    BY <2>1, <2>4, <2>5
  <2>7. KeepsOrder
    BY <1>1, <2>6 DEF KeepsOrder
  <2>8. FlightIsDated'
    BY <1>1 DEF PathInv, FlightIsDated, Sent
  <2>9. clients'[a].last \in Sent
    BY <2>1, <2>3 DEF Heard, PathInv, OneSession
  <2>10. OneSession'
    BY <1>1, <2>1, <2>2, <2>6, <2>9 DEF PathInv, OneSession, Sent
  <2>11. StillSentBy(job[t].sequence, s)
    BY <2>1, <2>7, SentByKept
  <2>12. \A b \in DOMAIN clients' :
           \/ b \in DOMAIN clients /\ clients'[b].last = clients[b].last
                                   /\ clients'[b].lastFresh = clients[b].lastFresh
           \/ StillSentBy(clients'[b].last, clients'[b].lastFresh)
    BY <2>2, <2>3, <2>11 DEF Heard
  <2> HIDE DEF a, s
  <2> QED BY <1>2, <2>6, <2>7, <2>8, <2>10, <2>12, OrderStep
<1> QED BY <1>1, <1>4, <1>5

LEMMA BridgeInitPath == BridgeInit => PathInv
<1> SUFFICES ASSUME BridgeInit PROVE PathInv
  OBVIOUS
<1>1. IInv
  BY InitEstablishes DEF BridgeInit
<1>2. \A t \in Threads : job[t].step # "arrived"
  BY DEF BridgeInit, Init, Idle
<1>3. DOMAIN clients = {} /\ blocked = {} /\ flight = {} /\ sequence \in 0..MaxSent
  BY BridgeAssumption DEF BridgeInit, Init, BridgeAssumption
<1>4. FlightIsDated
  BY <1>3 DEF FlightIsDated
<1>5. OneSession
  BY <1>2, <1>3 DEF OneSession, BridgeInit
<1>6. JobsWereSent /\ ClientsWereSent
  BY <1>2, <1>3 DEF JobsWereSent, ClientsWereSent
<1> QED BY <1>1, <1>4, <1>5, <1>6 DEF PathInv

LEMMA BridgeNextPath == PathInv /\ [BridgeNext]_bridgeVars => PathInv'
<1> SUFFICES ASSUME PathInv, [BridgeNext]_bridgeVars PROVE PathInv'
  OBVIOUS
<1>1. CASE UNCHANGED bridgeVars
  <2>1. UNCHANGED vars /\ UNCHANGED <<now, clients, blocked, pairingToken, job, sequence, link, flight>>
    BY <1>1 DEF bridgeVars, vars, routing
  <2>2. IInv'
    BY <2>1, NextPreserves DEF PathInv
  <2>3. (FlightIsDated /\ OneSession)'
    BY <2>1 DEF PathInv, FlightIsDated, OneSession, Sent
  <2>4. KeepsOrder
    BY <2>1 DEF KeepsOrder
  <2> QED BY <2>1, <2>2, <2>3, <2>4, OrderStep
<1>2. CASE BridgeNext
  BY <1>2, SendStep, PassStep, ArriveStep, ThreadStepsStep DEF BridgeNext
<1> QED BY <1>1, <1>2

LEMMA PathInvariance == BridgeSpec => []PathInv
<1> QED BY BridgeInitPath, BridgeNextPath, PTL DEF BridgeSpec

\* The steps of the input path that are the receiver's, or none of them.
LEMMA BridgeStepIsReceivers ==
  ASSUME PathInv, [BridgeNext]_bridgeVars
  PROVE  \/ [Next]_vars
         \/ \E p \in flight : Arrive(p)
<1>1. CASE Send \/ SwitchLink \/ UNCHANGED bridgeVars
  BY <1>1 DEF Send, SwitchLink, bridgeVars
<1>2. CASE Pass \/ \E t \in Threads : Apply(t) \/ ThreadSteps(t)
  BY <1>2 DEF Pass, Apply, ThreadSteps, Next
<1> QED BY <1>1, <1>2 DEF BridgeNext

\* A PSP that sends has the pad as soon as its packet is handled, unless its other
\* transport was heard within the grace period (docs/input-protocol.md:113-117), for
\* any limits, delays and stalls: it is the newest packet's number, and nothing that
\* the receiver remembers of either transport, that decides.
THEOREM NewestIsTakenHolds == BridgeSpec => NewestIsTaken
<1> DEFINE Newest(t) ==
             /\ job[t].step = "arrived" /\ job'[t].step = "decided"
             /\ \A a \in DOMAIN clients :
                  /\ clients[a].last # None => clients[a].last < job[t].sequence
                  /\ a # job[t].address => job[t].at - clients[a].lastFresh >= SwitchGrace
           Taken == \A t \in Threads : Newest(t) => job'[t].isUpdate
<1>1. ASSUME PathInv, [BridgeNext]_bridgeVars, NEW t \in Threads, Newest(t)
      PROVE  job'[t].isUpdate
  <2> DEFINE a == job[t].address
             s == job[t].at
  <2>1. job \in [Threads -> Job] /\ TypeOK
    BY <1>1 DEF PathInv, IInv, TypeOK
  <2>2. HandlePacket(t)
    <3>1. ASSUME NEW p \in flight, Arrive(p) PROVE FALSE
      <4>1. /\ job' = [job EXCEPT ![Thread(p.address)] = Arrived(p.address, Token, p.sequence)]
            /\ Arrived(p.address, Token, p.sequence).step = "arrived"
        BY <3>1 DEF Arrive, Receive, Arrived
      <4> QED BY <1>1, <2>1, <4>1
    <3> QED BY <1>1, <2>1, <3>1, BridgeStepIsReceivers, OnlyHandlePacketDecides
  <2>3. /\ s \in Nat /\ a \in Links /\ job[t].token = Token /\ job[t].sequence # None
    BY <1>1, SequenceAssumption
    DEF PathInv, OneSession, IInv, TypeOK, Job, Sent, SequenceAssumption
  <2>4. activeClient' # a => SwitchesTransport(t, a, s)
    <3> SUFFICES ASSUME activeClient' # a PROVE SwitchesTransport(t, a, s)
      OBVIOUS
    <3>1. ActiveAt(s) # None /\ ActiveAt(s) # a
      BY <1>1, <2>2, HandlePathEffect
    <3>2. ActiveAt(s) = activeClient /\ activeClient \in DOMAIN clients
      BY <1>1, <2>3, <3>1, ActiveAtIsRecent DEF PathInv
    <3>3. activeClient \in Links /\ clients[activeClient].token = Token /\ Token # None
      BY <1>1, <3>2, ReceiverAssumption, BridgeAssumption
      DEF PathInv, OneSession, ReceiverAssumption, BridgeAssumption
    <3>4. s - clients[activeClient].lastFresh >= SwitchGrace
      BY <1>1, <3>1, <3>2
    <3> QED BY <2>3, <3>1, <3>2, <3>3, <3>4, ReceiverAssumption, BridgeAssumption
            DEF SwitchesTransport, Links, ReceiverAssumption, BridgeAssumption
  <2>5. activeClient' = a
    BY <1>1, <2>2, <2>4, HandlePathEffect
  <2>6. a \in DOMAIN clients => clients[a].last < job[t].sequence
    BY <1>1, SequenceAssumption DEF PathInv, OneSession, Sent, SequenceAssumption
  <2>7. \E isActive, isUpdate \in BOOLEAN :
          /\ job' = [job EXCEPT ![t] = Decided(job[t], isActive, isUpdate)]
          /\ isUpdate
    BY <1>1, <2>2, <2>5, <2>6, HandlePathEffect
  <2> QED BY <2>1, <2>7 DEF Decided
<1>2. PathInv /\ [BridgeNext]_bridgeVars => [Taken]_bridgeVars
  BY <1>1
<1> QED BY <1>2, PathInvariance, PTL DEF BridgeSpec, NewestIsTaken

\* The input path is a receiver: whatever the PSP, its transports and the network
\* do, every step of theirs is one that Receiver allows, or none of the receiver's.
THEOREM BridgeIsReceiver ==
  ASSUME Offered = Sequences
  PROVE  BridgeSpec => Spec
<1>1. BridgeInit => Init
  BY DEF BridgeInit
<1>2. ASSUME PathInv, NEW p \in flight, Arrive(p) PROVE Next
  <2>1. Receive(p.address, Token, p.sequence)
    BY <1>2 DEF Arrive
  <2>2. p.address \in Addresses /\ Token \in PacketTokens /\ p.sequence \in Sequences
    BY <1>2, SentIsSequence, BridgeAssumption
    DEF PathInv, FlightIsDated, Links, Addresses, PacketTokens, BridgeAssumption
  <2> QED BY <2>1, <2>2 DEF Next
<1>3. PathInv /\ [BridgeNext]_bridgeVars => [Next]_vars
  BY <1>2, BridgeStepIsReceivers
<1> QED BY <1>1, <1>3, PathInvariance, PTL DEF BridgeSpec, Spec

-----------------------------------------------------------------------------
(* The pad is never rolled back.  That the receiver compares numbers of    *)
(* one tracker only, and starts it anew when the pad changes hands, makes  *)
(* it rest on time: a packet is in flight for less than the grace period,  *)
(* a thread waits for the lock for less than it, and both together for     *)
(* less than the safety timeout; and no time passes between a decision and *)
(* its callback.                                                           *)
InTime ==
  /\ MaxDelay < SwitchGrace
  /\ Stalls < SwitchGrace
  /\ MaxDelay + Stalls < ActiveTimeout
  /\ ~CallbackStalls

\* The pad has nothing newer than its owner's tracker; or it has no owner, and
\* everything that may still arrive is newer than what the pad has.
PadIsOwners ==
  padSequence # None =>
    /\ padSequence \in Sent
    /\ activeClient # None => padSequence <= clients[activeClient].last
    /\ activeClient = None =>
         /\ \A p \in flight : p.sequence > padSequence
         /\ \A t \in Threads : job[t].step = "arrived" => job[t].sequence > padSequence

\* An update on its way to the pad is the owner's last packet, is newer than
\* what the pad has, and is so recent that the pad cannot have changed hands.
UpdateIsOwners ==
  \A t \in Threads :
    /\ job[t].isUpdate => job[t].step = "decided"
    /\ job[t].isUpdate =>
         LET a == job[t].address IN
         /\ activeClient = a /\ Thread(a) = t
         /\ clients[a].last = job[t].sequence
         /\ now - clients[a].lastFresh <= Stalls
         /\ padSequence # None => padSequence < job[t].sequence

PadInv == PathInv /\ PadIsOwners /\ UpdateIsOwners

\* A packet that arrived when the owner was silent for longer than the longest
\* delay was sent after all that the pad was given.
LEMMA LaterArrivalIsNewer ==
  ASSUME PadInv, padSequence # None, NEW t \in Threads, job[t].step = "arrived",
         activeClient # None => job[t].at - clients[activeClient].lastFresh > MaxDelay
  PROVE  padSequence < job[t].sequence
<1>1. CASE activeClient = None
  BY <1>1 DEF PadInv, PadIsOwners, Sent, PathInv, OneSession
<1>2. CASE activeClient # None
  <2>1. activeClient \in DOMAIN clients
    BY <1>2 DEF PadInv, PathInv, IInv, OwnerIsKnown
  <2>2. /\ clients[activeClient].lastFresh \in Nat /\ clients[activeClient].last \in Sent
        /\ job[t].at \in Nat /\ job[t].sequence \in Sent /\ MaxDelay \in Nat /\ sequence \in Nat
    BY <2>1, BridgeAssumption
    DEF PadInv, PathInv, OneSession, IInv, TypeOK, ClientState, Job, BridgeAssumption
  <2>3. job[t].at - MaxDelay > clients[activeClient].lastFresh
    BY <1>2, <2>2
  <2>4. job[t].sequence > clients[activeClient].last
    BY <2>1, <2>3 DEF PadInv, PathInv, ClientsWereSent, SentBy
  <2>5. padSequence \in Sent /\ padSequence <= clients[activeClient].last
    BY <1>2 DEF PadInv, PadIsOwners
  <2> QED BY <2>2, <2>4, <2>5 DEF Sent
<1> QED BY <1>1, <1>2

\* A step that neither routes a packet, nor times the owner out, nor changes the pad.
Calm ==
  /\ now' = now \/ \A t \in Threads : ~job[t].isUpdate
  /\ UNCHANGED <<clients, activeClient, padSequence>>
  /\ sequence <= sequence'
  /\ \A p \in flight' : p \in flight \/ p.sequence = sequence
  /\ \A t \in Threads :
       \/ job'[t] = job[t]
       \/ /\ job'[t].isUpdate = FALSE
          /\ job'[t].step = "arrived" => \E p \in flight : job'[t].sequence = p.sequence

LEMMA CalmStep ==
  ASSUME PadInv, PathInv', Calm
  PROVE  PadInv'
<1> USE DEF Calm
<1>1. sequence \in Nat /\ sequence' \in Nat
  BY DEF PadInv, PathInv, OneSession
<1>2. PadIsOwners'
  <2> SUFFICES ASSUME padSequence # None
               PROVE  /\ padSequence \in 0..(sequence' - 1)
                      /\ activeClient # None => padSequence <= clients[activeClient].last
                      /\ activeClient = None =>
                           /\ \A p \in flight' : p.sequence > padSequence
                           /\ \A t \in Threads :
                                job'[t].step = "arrived" => job'[t].sequence > padSequence
    BY DEF PadIsOwners, Sent
  <2>1. padSequence \in Sent /\ (activeClient # None => padSequence <= clients[activeClient].last)
    BY DEF PadInv, PadIsOwners
  <2>2. activeClient = None => \A p \in flight' : p.sequence > padSequence
    BY <1>1, <2>1 DEF PadInv, PadIsOwners, Sent
  <2>3. activeClient = None =>
          \A t \in Threads : job'[t].step = "arrived" => job'[t].sequence > padSequence
    BY DEF PadInv, PadIsOwners
  <2> QED BY <1>1, <2>1, <2>2, <2>3 DEF Sent
<1>3. UpdateIsOwners'
  <2> SUFFICES ASSUME NEW t \in Threads, job'[t].isUpdate
               PROVE  /\ job'[t] = job[t] /\ now' = now
    BY DEF PadInv, UpdateIsOwners
  <2> QED OBVIOUS
<1> QED BY <1>2, <1>3 DEF PadInv

\* The UDP loop times the owner out: nothing that the pad was given can still be
\* overtaken by what is in flight or waits for the lock.
LEMMA PadReceiveTimeoutStep ==
  ASSUME InTime, PadInv, PathInv', NEW t \in Threads, ReceiveTimeout(t),
         UNCHANGED <<sequence, link, flight, padSequence>>
  PROVE  PadInv'
<1>1. /\ job \in [Threads -> Job] /\ now \in Nat
      /\ job' = [job EXCEPT ![t] = NextTurn] /\ UNCHANGED now
      /\ NextTurn.step # "arrived" /\ NextTurn.isUpdate = FALSE
      /\ sequence \in Nat
  BY DEF PadInv, PathInv, OneSession, IInv, TypeOK, ReceiveTimeout, NextTurn, Idle
<1>2. \A u \in Threads : job'[u] = job[u] \/ (job'[u].isUpdate = FALSE /\ job'[u].step # "arrived")
  BY <1>1
<1>3. \/ UNCHANGED <<clients, activeClient>>
      \/ activeClient' = ActiveAt(now) /\ clients' = Without(clients, Expired(now))
  BY DEF ReceiveTimeout, routing
<1>4. CASE UNCHANGED <<clients, activeClient>>
  <2>1. Calm
    BY <1>1, <1>2, <1>4 DEF Calm
  <2> QED BY <2>1, CalmStep
<1>5. CASE activeClient' = activeClient /\ clients' = Without(clients, Expired(now))
           /\ activeClient' = ActiveAt(now)
  <2>1. activeClient # None => clients'[activeClient] = clients[activeClient]
    BY <1>1, <1>5, ActiveAtIsRecent DEF PadInv, PathInv, Without
  <2>2. PadIsOwners'
    BY <1>2, <1>5, <2>1 DEF PadInv, PadIsOwners, Sent
  <2>3. UpdateIsOwners'
    <3>1. \A u \in Threads : job[u].isUpdate => activeClient # None
      <4>1. None \notin Addresses
        BY ReceiverAssumption DEF ReceiverAssumption, Addresses
      <4> QED BY <4>1 DEF PadInv, PathInv, IInv, JobsAreAddressed, Routing, UpdateIsOwners
    <3> QED BY <1>1, <1>2, <1>5, <2>1, <3>1 DEF PadInv, UpdateIsOwners
  <2> QED BY <2>2, <2>3 DEF PadInv
<1>6. CASE activeClient' = ActiveAt(now) /\ activeClient' # activeClient
  <2> DEFINE owner == activeClient
             fresh == clients[activeClient].lastFresh
  <2>1. /\ owner # None /\ owner \in DOMAIN clients /\ activeClient' = None
        /\ ~(now - fresh < ActiveTimeout)
    BY <1>6 DEF ActiveAt, PadInv, PathInv, IInv, OwnerIsKnown
  <2>2. /\ fresh \in Nat /\ clients[owner].last \in Sent
        /\ MaxDelay \in Nat /\ Stalls \in Nat /\ ActiveTimeout \in Nat
    BY <2>1, ReceiverAssumption, BridgeAssumption
    DEF PadInv, PathInv, OneSession, IInv, TypeOK, ClientState, ReceiverAssumption,
        BridgeAssumption
  <2>3. \A u \in Threads : ~job[u].isUpdate
    BY <1>1, <2>1, <2>2 DEF InTime, PadInv, UpdateIsOwners
  <2>4. ASSUME padSequence # None, NEW p \in flight PROVE p.sequence > padSequence
    <3>1. p.sentAt \in Nat /\ now - p.sentAt <= MaxDelay /\ p.sequence \in Sent
      BY DEF PadInv, PathInv, FlightIsDated
    <3>2. p.sentAt > fresh
      BY <1>1, <2>1, <2>2, <3>1 DEF InTime
    <3>3. p.sequence > clients[owner].last
      BY <2>1, <3>2 DEF PadInv, PathInv, ClientsWereSent, SentBy
    <3>4. padSequence \in Sent /\ padSequence <= clients[owner].last
      BY <2>1, <2>4 DEF PadInv, PadIsOwners
    <3> QED BY <1>1, <2>2, <3>1, <3>3, <3>4 DEF Sent
  <2>5. ASSUME padSequence # None, NEW u \in Threads, job[u].step = "arrived"
        PROVE  job[u].sequence > padSequence
    <3>1. job[u].at \in Nat /\ now - job[u].at <= Stalls /\ job[u].sequence \in Sent
      BY <1>1, <2>5 DEF Job, PadInv, PathInv, OneSession
    <3>2. job[u].at - fresh > MaxDelay
      BY <1>1, <2>1, <2>2, <3>1 DEF InTime
    <3>3. padSequence < job[u].sequence
      BY <2>5, <3>2, LaterArrivalIsNewer
    <3>4. padSequence \in Sent
      BY <2>5 DEF PadInv, PadIsOwners
    <3> QED BY <1>1, <3>1, <3>3, <3>4 DEF Sent
  <2>6. PadIsOwners'
    BY <1>2, <2>1, <2>4, <2>5 DEF PadInv, PadIsOwners, Sent
  <2>7. UpdateIsOwners'
    BY <1>2, <2>3 DEF UpdateIsOwners
  <2> QED BY <2>6, <2>7 DEF PadInv
<1> QED BY <1>3, <1>4, <1>5, <1>6

\* An update reaches the pad: there is no other, and it is the owner's last packet.
LEMMA PadApplyStep ==
  ASSUME PadInv, PathInv', NEW t \in Threads, Apply(t)
  PROVE  PadInv'
<1>1. /\ job \in [Threads -> Job] /\ sequence \in Nat
      /\ UNCHANGED <<now, clients, activeClient, sequence, flight>>
      /\ padSequence' = IF job[t].isUpdate THEN job[t].sequence ELSE padSequence
  BY DEF PadInv, PathInv, OneSession, IInv, TypeOK, Apply, Deliver, routing
<1>2. \A u \in Threads \ {t} : job'[u] = job[u]
  BY <1>1 DEF Apply, Deliver
<1>3. job'[t].isUpdate = FALSE /\ job'[t].step # "arrived"
  <2>1. NextTurn.isUpdate = FALSE /\ NextTurn.step # "arrived"
    BY DEF NextTurn, Idle
  <2>2. Later(job[t], "delivered", 0).isUpdate = FALSE /\ Later(job[t], "delivered", 0).step # "arrived"
    BY DEF Later
  <2> QED BY <1>1, <2>1, <2>2 DEF Apply, Deliver
<1>4. CASE ~job[t].isUpdate
  <2>1. Calm
    BY <1>1, <1>2, <1>3, <1>4 DEF Calm
  <2> QED BY <2>1, CalmStep
<1>5. CASE job[t].isUpdate
  <2> DEFINE a == job[t].address
  <2>1. activeClient = a /\ Thread(a) = t /\ clients[a].last = job[t].sequence
        /\ job[t].step = "decided"
    BY <1>5 DEF PadInv, UpdateIsOwners
  <2>2. a \in Addresses /\ a # None
    BY <2>1, ReceiverAssumption
    DEF PadInv, PathInv, IInv, JobsAreAddressed, Routing, ReceiverAssumption, Addresses
  <2>3. clients[a].last \in Sent
    BY <2>1, <2>2 DEF PadInv, PathInv, IInv, OwnerIsKnown, OneSession
  <2>4. \A u \in Threads : ~job'[u].isUpdate
    BY <1>2, <1>3, <2>1 DEF PadInv, UpdateIsOwners
  <2>5. PadIsOwners'
    BY <1>1, <1>5, <2>1, <2>2, <2>3 DEF PadIsOwners, Sent
  <2>6. UpdateIsOwners'
    BY <2>4 DEF UpdateIsOwners
  <2> QED BY <2>5, <2>6 DEF PadInv
<1> QED BY <1>4, <1>5

\* A packet is routed: it stays with an owner whose tracker is then past the pad's
\* number, or makes its sender one by a number that is.
LEMMA PadHandleStep ==
  ASSUME InTime, PadInv, PathInv', NEW t \in Threads, HandlePacket(t),
         UNCHANGED <<sequence, link, flight, padSequence>>,
         NEW a, a = job[t].address, NEW s, s = job[t].at
  PROVE  PadInv'
<1>1. /\ job[t].step = "arrived" /\ job \in [Threads -> Job] /\ now \in Nat /\ s \in Nat
      /\ job[t].sequence \in Sent /\ sequence \in Nat /\ UNCHANGED now
      /\ s <= now /\ now - s <= Stalls
      /\ Thread(a) = t /\ a # None
  <2>1. job[t].step = "arrived" /\ UNCHANGED now
    BY DEF HandlePacket
  <2>2. job \in [Threads -> Job] /\ now \in Nat /\ s \in Nat
    BY DEF PadInv, PathInv, IInv, TypeOK, Job
  <2>3. /\ job[t].sequence \in Sent /\ sequence \in Nat /\ now - s <= Stalls
    BY <2>1 DEF PadInv, PathInv, OneSession
  <2>4. s <= now /\ Thread(a) = t /\ a # None
    BY <2>1, ReceiverAssumption
    DEF PadInv, PathInv, IInv, JobsAreDated, ReceiverAssumption, Addresses
  <2> QED BY <2>1, <2>2, <2>3, <2>4
<1>2. /\ \A b \in DOMAIN clients' \ {a} : clients'[b] = clients[b]
      /\ a \in DOMAIN clients'
      /\ DOMAIN clients \ Expired(s) \subseteq DOMAIN clients'
      /\ activeClient' # ActiveAt(s) =>
           activeClient' = a /\ (ActiveAt(s) # None => SwitchesTransport(t, a, s))
  <2>1. Routed(t, a, s)
    BY HandlePacketEffect DEF PadInv, PathInv
  <2> QED BY <2>1 DEF Routed
<1>3. /\ Heard(t, a, s)
      /\ activeClient' = a \/ (activeClient' = ActiveAt(s) /\ ActiveAt(s) # None)
      /\ ActiveAt(s) = a => clients[a].last <= clients'[a].last
      /\ \E isActive, isUpdate \in BOOLEAN :
           /\ job' = [job EXCEPT ![t] = Decided(job[t], isActive, isUpdate)]
           /\ isUpdate => Updates(t, a, s)
  BY HandlePathEffect DEF PadInv
<1>4. /\ job'[t].step = "decided" /\ job'[t].address = a
      /\ job'[t].sequence = job[t].sequence
      /\ job'[t].isUpdate => Updates(t, a, s)
      /\ \A u \in Threads \ {t} : job'[u] = job[u]
  BY <1>1, <1>3 DEF Decided
<1>5. \A b \in DOMAIN clients : clients[b].last \in Sent /\ clients[b].lastFresh \in Nat
  BY DEF PadInv, PathInv, OneSession, IInv, TypeOK, ClientState
<1>6. clients'[a].last \in Sent
  BY <1>2, <1>1 DEF PathInv, OneSession, Sent
<1>7. CASE ActiveAt(s) # None /\ activeClient' = ActiveAt(s)
  <2>1. activeClient' = activeClient /\ activeClient \in DOMAIN clients'
        /\ activeClient \in DOMAIN clients
    BY <1>1, <1>2, <1>7, ActiveAtIsRecent DEF PadInv, PathInv
  <2>2. activeClient = a \/ clients'[activeClient] = clients[activeClient]
    BY <1>2, <2>1
  <2>3. clients[activeClient].last <= clients'[activeClient].last
    BY <1>1, <1>3, <1>5, <1>7, <2>1, <2>2 DEF Sent
  <2>4. PadIsOwners'
    <3>1. padSequence # None =>
            padSequence \in Sent /\ padSequence <= clients[activeClient].last
      BY <1>7, <2>1 DEF PadInv, PadIsOwners
    <3>2. clients'[activeClient].last \in Sent
      BY <1>5, <1>6, <2>1, <2>2
    <3> QED BY <1>1, <1>5, <1>7, <2>1, <2>3, <3>1, <3>2 DEF PadIsOwners, Sent
  <2>5. ASSUME job'[t].isUpdate, padSequence # None PROVE padSequence < job[t].sequence
    <3>1. activeClient = a /\ clients[a].last < job[t].sequence
      BY <1>4, <1>7, <2>1, <2>5 DEF Updates
    <3>2. padSequence \in Sent /\ padSequence <= clients[a].last
      BY <1>1, <2>5, <3>1 DEF PadInv, PadIsOwners
    <3> QED BY <1>1, <1>5, <2>1, <3>1, <3>2 DEF Sent
  <2>6. ASSUME NEW u \in Threads \ {t}, job[u].isUpdate
        PROVE  clients'[activeClient] = clients[activeClient]
    <3>1. Thread(activeClient) = u
      BY <2>6 DEF PadInv, UpdateIsOwners
    <3> QED BY <1>1, <2>2, <2>6, <3>1
  <2>7. UpdateIsOwners'
    BY <1>1, <1>4, <2>1, <2>5, <2>6 DEF PadInv, UpdateIsOwners, Updates
  <2> QED BY <2>4, <2>7 DEF PadInv
<1>8. CASE activeClient' = a /\ activeClient' # ActiveAt(s)
  <2>1. activeClient # None =>
          /\ activeClient \in DOMAIN clients
          /\ \/ s - clients[activeClient].lastFresh >= SwitchGrace
             \/ s - clients[activeClient].lastFresh >= ActiveTimeout
    <3>1. activeClient # None => activeClient \in DOMAIN clients
      BY DEF PadInv, PathInv, IInv, OwnerIsKnown
    <3>2. CASE ActiveAt(s) # None
      BY <1>2, <1>8, <3>1, <3>2 DEF SwitchesTransport
    <3>3. CASE ActiveAt(s) = None /\ activeClient # None
      <4>1. ~(s - clients[activeClient].lastFresh < ActiveTimeout)
        BY <3>1, <3>3 DEF ActiveAt
      <4> QED BY <1>1, <1>5, <3>1, <3>3, <4>1, ReceiverAssumption DEF ReceiverAssumption
    <3> QED BY <3>1, <3>2, <3>3
  <2>2. MaxDelay \in Nat /\ Stalls \in Nat /\ SwitchGrace \in Nat /\ ActiveTimeout \in Nat
    BY ReceiverAssumption, BridgeAssumption DEF ReceiverAssumption, BridgeAssumption
  <2>3. activeClient # None => s - clients[activeClient].lastFresh > MaxDelay
    BY <1>1, <1>5, <2>1, <2>2 DEF InTime
  <2>4. padSequence # None => padSequence \in Sent /\ padSequence < job[t].sequence
    BY <1>1, <2>3, LaterArrivalIsNewer DEF PadInv, PadIsOwners
  <2>5. \A u \in Threads : ~job[u].isUpdate
    <3> SUFFICES ASSUME NEW u \in Threads, job[u].isUpdate PROVE FALSE
      OBVIOUS
    <3>1. job[u].step = "decided" /\ activeClient = job[u].address
          /\ now - clients[activeClient].lastFresh <= Stalls
      BY DEF PadInv, UpdateIsOwners
    <3>2. activeClient # None
      BY <3>1, ReceiverAssumption
      DEF PadInv, PathInv, IInv, JobsAreAddressed, Routing, ReceiverAssumption, Addresses
    <3> QED BY <1>1, <1>5, <2>1, <2>2, <3>1, <3>2 DEF InTime
  <2>6. job[t].sequence <= clients'[a].last
    BY <1>1, <1>3, <1>6 DEF Heard, Sent
  <2>7. PadIsOwners'
    BY <1>1, <1>6, <1>8, <2>4, <2>6 DEF PadIsOwners, Sent
  <2>8. UpdateIsOwners'
    BY <1>1, <1>4, <2>4, <2>5 DEF UpdateIsOwners, Updates
  <2> QED BY <2>7, <2>8 DEF PadInv
<1> QED BY <1>1, <1>3, <1>7, <1>8

LEMMA PadNext ==
  ASSUME InTime, PadInv, [BridgeNext]_bridgeVars
  PROVE  PadInv'
<1>1. PathInv' /\ sequence \in Nat /\ now \in Nat /\ job \in [Threads -> Job]
  BY BridgeNextPath DEF PadInv, PathInv, OneSession, IInv, TypeOK
<1>2. CASE UNCHANGED bridgeVars
  <2>1. Calm
    BY <1>1, <1>2 DEF Calm, bridgeVars, vars, routing
  <2> QED BY <1>1, <2>1, CalmStep
<1>3. CASE Send \/ SwitchLink
  <2>1. UNCHANGED <<clients, activeClient, now, job, padSequence>> /\ sequence <= sequence'
        /\ \A p \in flight' : p \in flight \/ p.sequence = sequence
    BY <1>1, <1>3 DEF Send, SwitchLink, vars, routing
  <2>2. Calm
    BY <1>1, <2>1 DEF Calm
  <2> QED BY <1>1, <2>2, CalmStep
<1>4. CASE Pass
  <2>1. UNCHANGED <<clients, activeClient, job, padSequence, sequence>>
        /\ flight' \subseteq flight
    BY <1>4 DEF Pass, Tick, routing
  <2>2. \A t \in Threads : ~job[t].isUpdate
    BY <1>4 DEF Pass, InTime, PadInv, UpdateIsOwners
  <2>3. Calm
    BY <1>1, <2>1, <2>2 DEF Calm
  <2> QED BY <1>1, <2>3, CalmStep
<1>5. ASSUME NEW p \in flight, Arrive(p) PROVE PadInv'
  <2> DEFINE j == Arrived(p.address, Token, p.sequence)
  <2>1. /\ UNCHANGED <<clients, activeClient, now, padSequence, sequence>>
        /\ flight' \subseteq flight
        /\ job' = [job EXCEPT ![Thread(p.address)] = j]
    BY <1>5 DEF Arrive, Receive, routing
  <2>2. j.isUpdate = FALSE /\ j.sequence = p.sequence
    BY DEF Arrived
  <2>3. \A t \in Threads : job'[t] = job[t] \/ job'[t] = j
    BY <1>1, <2>1
  <2> HIDE DEF j
  <2>4. Calm
    BY <1>1, <2>1, <2>2, <2>3 DEF Calm
  <2> QED BY <1>1, <2>4, CalmStep
<1>6. ASSUME NEW t \in Threads, AckSteps(t),
             UNCHANGED <<sequence, link, flight, padSequence>>
      PROVE  PadInv'
  <2>1. UNCHANGED <<clients, activeClient, now>>
    BY <1>6, AckStepEffect
  <2>2. PICK j : /\ job' = [job EXCEPT ![t] = j]
                 /\ j.step \notin {"arrived", "decided"} /\ j.isUpdate = FALSE
    BY <1>6, AckStepIsQuiet
  <2>3. \A u \in Threads : job'[u] = job[u] \/ (job'[u].isUpdate = FALSE /\ job'[u].step # "arrived")
    BY <1>1, <2>2
  <2>4. Calm
    BY <1>1, <1>6, <2>1, <2>3 DEF Calm
  <2> QED BY <1>1, <2>4, CalmStep
<1>7. ASSUME NEW t \in Threads, ThreadSteps(t) PROVE PadInv'
  BY <1>1, <1>6, <1>7, PadReceiveTimeoutStep, PadHandleStep DEF ThreadSteps, AckSteps
<1> QED BY <1>1, <1>2, <1>3, <1>4, <1>5, <1>7, PadApplyStep DEF BridgeNext

\* README.md:41: stale, duplicate and out-of-order packets never roll input back.
\* As long as what is in flight and what waits for the lock are in time, the pad is
\* never given a state older than the one it has, for any number of packets, any
\* losses, duplicates and reorderings, and any changes of transport.
THEOREM NoRollbackHolds ==
  ASSUME InTime
  PROVE  BridgeSpec => NoRollback
<1> DEFINE Advances == padSequence' # padSequence /\ padSequence # None => padSequence' > padSequence
<1>1. BridgeInit => PadInv
  <2> SUFFICES ASSUME BridgeInit PROVE PadInv
    OBVIOUS
  <2>1. PathInv
    BY BridgeInitPath
  <2>2. padSequence = None /\ \A t \in Threads : ~job[t].isUpdate
    BY DEF BridgeInit, Init, Idle
  <2> QED BY <2>1, <2>2 DEF PadInv, PadIsOwners, UpdateIsOwners
<1>2. PadInv /\ [BridgeNext]_bridgeVars => PadInv'
  BY PadNext
<1>3. ASSUME PadInv, [BridgeNext]_bridgeVars PROVE Advances
  <2> SUFFICES ASSUME padSequence' # padSequence, padSequence # None
               PROVE  padSequence' > padSequence
    OBVIOUS
  <2>1. PICK t \in Threads : Apply(t)
    BY <1>3 DEF BridgeNext, bridgeVars, Send, SwitchLink, Pass, Arrive, ThreadSteps
  <2>2. job[t].isUpdate /\ padSequence' = job[t].sequence
    BY <2>1 DEF Apply
  <2>3. padSequence < job[t].sequence /\ padSequence \in Sent /\ job[t].sequence \in Sequences
    BY <1>3, <2>2 DEF PadInv, UpdateIsOwners, PadIsOwners, PathInv, IInv, TypeOK, Job
  <2> QED BY <2>2, <2>3, SequenceAssumption DEF Sent, Sequences, SequenceAssumption
<1>4. PadInv /\ [BridgeNext]_bridgeVars => [Advances]_bridgeVars
  BY <1>3
<1> QED BY <1>1, <1>2, <1>4, PTL DEF BridgeSpec, NoRollback
=============================================================================
