--------------------------- MODULE SequenceTracker ---------------------------
(***************************************************************************)
(* The uint32 sequence numbers of the input stream: the PSP numbers every  *)
(* datagram it tries to send (psp-client/src/main.c), the network loses,   *)
(* duplicates and reorders them, and the bridge's SequenceTracker          *)
(* (pc-server/pc_server/receiver.py) classifies what arrives by            *)
(* serial-number arithmetic.                                               *)
(*                                                                         *)
(* The wire number wraps at Modulus.  Beside it the model numbers the      *)
(* datagrams without wrapping (index), which is what the tracker tries to  *)
(* recover.                                                                *)
(***************************************************************************)
EXTENDS SequenceNumbers

CONSTANTS
  MaxSent,    \* bound of the model: number of datagrams sent
  MaxHeard    \* bound of the model: datagrams one tracker observes

ASSUME BoundsAssumption == MaxSent \in Nat /\ MaxHeard \in Nat

-----------------------------------------------------------------------------
VARIABLES
  sent,      \* how many numbers the PSP has used up
  wire,      \* the uint32 `sequence` it will put into the next datagram
  inflight,  \* the datagrams under way: [index, wire]
  tracker,   \* the SequenceTracker of this client
  first,     \* history: index of the datagram classified "first"
  newest,    \* history: index of the last accepted datagram
  verdict    \* history: the last classification, and what was true of it

vars == <<sent, wire, inflight, tracker, first, newest, verdict>>

Datagrams == [index : Nat, wire : Sequences]
NoVerdict == [event |-> "none", index |-> 0, before |-> None]

TypeOK ==
  /\ sent \in Nat
  /\ wire \in Sequences
  /\ inflight \subseteq Datagrams
  /\ tracker \in [last : Sequences \cup {None}, received : Nat, lost : Nat,
                  duplicates : Nat, outOfOrder : Nat]
  /\ first \in Nat
  /\ newest \in Nat
  /\ verdict \in [event : Events \cup {"none"}, index : Nat, before : Nat \cup {None}]

\* The PSP may be anywhere in its numbering when the bridge first hears it.
Init ==
  /\ sent = 0
  /\ wire \in Sequences
  /\ inflight = {}
  /\ tracker = NewTracker
  /\ first = 0
  /\ newest = 0
  /\ verdict = NoVerdict

\* One send attempt: the number is used up whether or not the datagram leaves.
\* The assumptions about the network stand here: it keeps no datagram, and the
\* bridge does not go without one, for half the sequence space of attempts
\* (at 60 a second, more than a year).
Send ==
  /\ sent < MaxSent
  /\ \A p \in inflight : sent + 1 - p.index < HalfRange
  /\ tracker.last # None => sent + 1 - newest < HalfRange
  /\ sent' = sent + 1
  /\ wire' = IF wire = Modulus - 1 THEN 0 ELSE wire + 1
  /\ inflight' = inflight \cup {[index |-> sent, wire |-> wire]}
  /\ UNCHANGED <<tracker, first, newest, verdict>>

\* The bridge observes a datagram; the network may still hold a copy of it.
Deliver(p, copy) ==
  LET event == Classify(tracker.last, p.wire) IN
  /\ tracker.received < MaxHeard
  /\ tracker' = Observe(tracker, p.wire)
  /\ first' = IF event = "first" THEN p.index ELSE first
  /\ newest' = IF event \in Accepted THEN p.index ELSE newest
  /\ verdict' = [event |-> event, index |-> p.index,
                 before |-> IF tracker.last = None THEN None ELSE newest]
  /\ inflight' = IF copy THEN inflight ELSE inflight \ {p}
  /\ UNCHANGED <<sent, wire>>

Lose(p) ==
  /\ inflight' = inflight \ {p}
  /\ UNCHANGED <<sent, wire, tracker, first, newest, verdict>>

\* The receiver replaces the tracker: another session token, a full safety
\* timeout of silence, or a change of transport.
Restart ==
  /\ tracker' = NewTracker
  /\ verdict' = NoVerdict
  /\ UNCHANGED <<sent, wire, inflight, first, newest>>

Next ==
  \/ Send
  \/ \E p \in inflight, copy \in BOOLEAN : Deliver(p, copy)
  \/ \E p \in inflight : Lose(p)
  \/ Restart

Spec == Init /\ [][Next]_vars

-----------------------------------------------------------------------------
(* Properties.                                                             *)

\* The serial-number arithmetic tells the truth across the wrap of the sequence
\* number: a datagram is accepted exactly when it is newer than every datagram
\* accepted before it in this session, duplicate exactly when it is the newest
\* again, in-order exactly when it is the next (receiver.py:85-106).
VerdictIsTrue ==
  LET event == verdict.event  index == verdict.index  before == verdict.before
  IN  event # "none" =>
        /\ event = "first" <=> before = None
        /\ before # None =>
             /\ event = "duplicate"    <=> index = before
             /\ event = "out-of-order" <=> index < before
             /\ event = "in-order"     <=> index = before + 1
             /\ event = "gap"          <=> index > before + 1

\* The counters on the diagnostics page add up: the accepted datagrams and the
\* ones counted lost make up the whole stretch of the numbering from the first
\* to the newest datagram, with no number counted twice (receiver.py:80-106).
LossAddsUp ==
  tracker.last # None =>
    tracker.received - tracker.duplicates - tracker.outOfOrder + tracker.lost
      = newest - first + 1
=============================================================================
