------------------------ MODULE SequenceTrackerProofs ------------------------
(***************************************************************************)
(* Proofs about SequenceTracker for every even sequence space, and so for  *)
(* the 2^32 of the code.                                                   *)
(***************************************************************************)
EXTENDS SequenceTracker, TLAPS

\* The sequence number the PSP used d attempts before it reached number w.
Back(w, d) == IF w >= d THEN w - d ELSE w - d + Modulus

\* The wire number of a datagram is tied to its index by the distance to the
\* sender's, and no datagram lags by half the sequence space.
Numbered ==
  \A p \in inflight : /\ p.index < sent
                      /\ sent - p.index < HalfRange
                      /\ p.wire = Back(wire, sent - p.index)

\* The same holds for the number that the tracker remembers.
Remembered ==
  tracker.last # None =>
    /\ newest < sent
    /\ sent - newest < HalfRange
    /\ tracker.last = Back(wire, sent - newest)

\* A tracker without a last number has counted nothing yet.
Untouched == tracker.last = None => tracker = NewTracker

IInv == TypeOK /\ Untouched /\ Numbered /\ Remembered /\ LossAddsUp /\ VerdictIsTrue

-----------------------------------------------------------------------------
\* One more attempt moves the sender's number and every distance to it by one.
LEMMA BackStep ==
  ASSUME NEW w \in Sequences, NEW d \in Nat, d < HalfRange
  PROVE  LET w1 == IF w = Modulus - 1 THEN 0 ELSE w + 1
         IN  w1 \in Sequences /\ Back(w1, d + 1) = Back(w, d)
  BY SequenceAssumption DEF Back, Sequences

LEMMA BackInSpace ==
  ASSUME NEW w \in Sequences, NEW d \in Nat, d < HalfRange
  PROVE  Back(w, d) \in Sequences
  BY SequenceAssumption DEF Back, Sequences

\* Serial-number arithmetic recovers the true distance between two datagrams
\* that both lag the sender by less than half the sequence space.
LEMMA DeltaIsDistance ==
  ASSUME NEW w \in Sequences, NEW d \in Nat, NEW e \in Nat,
         d < HalfRange, e < HalfRange
  PROVE  Delta(Back(w, d), Back(w, e)) = IF e >= d THEN e - d ELSE Modulus - (d - e)
  BY SequenceAssumption DEF Back, Sequences, Delta

\* So the classification of a datagram is the true one: its number b lags the
\* sender by d, the remembered number a by e.
LEMMA ClassifyIsTrue ==
  ASSUME NEW w \in Sequences, NEW d \in Nat, NEW e \in Nat,
         d < HalfRange, e < HalfRange,
         NEW a, a = Back(w, e), NEW b, b = Back(w, d)
  PROVE  /\ Classify(a, b) \in Events \ {"first"}
         /\ Classify(a, b) = "duplicate"    <=> d = e
         /\ Classify(a, b) = "out-of-order" <=> d > e
         /\ Classify(a, b) = "in-order"     <=> e = d + 1
         /\ Classify(a, b) = "gap"          <=> e > d + 1
         /\ e > d => Delta(b, a) = e - d
<1> DEFINE delta == Delta(b, a)
<1>1. delta = IF e >= d THEN e - d ELSE Modulus - (d - e)
  BY DeltaIsDistance
<1>2. a \in Int /\ None \notin Int
  BY BackInSpace, SequenceAssumption DEF Sequences
<1>3. Classify(a, b) =
        IF delta = 0 THEN "duplicate"
        ELSE IF delta < HalfRange
             THEN IF delta = 1 THEN "in-order" ELSE "gap"
             ELSE "out-of-order"
  BY <1>2 DEF Classify
<1> HIDE DEF delta
<1>4. /\ delta = 0 <=> d = e
      /\ delta # 0 /\ delta < HalfRange <=> e > d
      /\ delta = 1 /\ delta < HalfRange <=> e = d + 1
  BY <1>1, SequenceAssumption
<1>5. e > d => delta = e - d
  BY <1>1
<1>6. delta \in Int
  BY <1>1, SequenceAssumption
<1> QED BY <1>3, <1>4, <1>5, <1>6 DEF Events, Accepted, delta

-----------------------------------------------------------------------------
LEMMA InitIInv == Init => IInv
  BY SequenceAssumption
     DEF Init, IInv, TypeOK, Untouched, Numbered, Remembered, LossAddsUp, VerdictIsTrue,
         NewTracker, NoVerdict, Datagrams, Events, Accepted

LEMMA SendIInv == ASSUME IInv, Send PROVE IInv'
<1> USE DEF IInv
<1>1. wire' \in Sequences /\ wire \in Sequences /\ sent \in Nat /\ sent' = sent + 1
  BY SequenceAssumption DEF Send, TypeOK, Sequences
<1>2. TypeOK'
  BY <1>1 DEF Send, TypeOK, Datagrams
<1>3. Numbered'
  <2>1. ASSUME NEW p \in inflight
        PROVE  /\ p.index < sent' /\ sent' - p.index < HalfRange
               /\ p.wire = Back(wire', sent' - p.index)
    <3>1. p.index \in Nat /\ p.index < sent /\ sent - p.index < HalfRange
          /\ p.wire = Back(wire, sent - p.index)
      BY DEF TypeOK, Datagrams, Numbered
    <3>2. sent - p.index \in Nat
      BY <1>1, <3>1
    <3>3. Back(wire', (sent - p.index) + 1) = Back(wire, sent - p.index)
      BY <1>1, <3>1, <3>2, BackStep DEF Send
    <3>4. sent' - p.index = (sent - p.index) + 1
      BY <1>1, <3>1
    <3> QED BY <1>1, <3>1, <3>3, <3>4 DEF Send
  <2>2. /\ sent < sent' /\ sent' - sent < HalfRange
        /\ wire = Back(wire', sent' - sent)
    <3>1. Back(wire', 0 + 1) = Back(wire, 0)
      BY <1>1, BackStep, SequenceAssumption DEF Send
    <3>2. Back(wire, 0) = wire
      BY <1>1 DEF Back, Sequences
    <3> QED BY <1>1, <3>1, <3>2, SequenceAssumption
  <2>3. inflight' = inflight \cup {[index |-> sent, wire |-> wire]}
    BY DEF Send
  <2> QED BY <2>1, <2>2, <2>3 DEF Numbered
<1>4. Remembered'
  <2> SUFFICES ASSUME tracker.last # None
               PROVE  /\ newest < sent' /\ sent' - newest < HalfRange
                      /\ tracker.last = Back(wire', sent' - newest)
    BY DEF Remembered, Send
  <2>1. newest \in Nat /\ newest < sent /\ sent - newest < HalfRange
        /\ tracker.last = Back(wire, sent - newest)
    BY DEF TypeOK, Remembered
  <2>2. sent - newest \in Nat /\ sent' - newest = (sent - newest) + 1
    BY <1>1, <2>1
  <2>3. Back(wire', (sent - newest) + 1) = Back(wire, sent - newest)
    BY <1>1, <2>1, <2>2, BackStep DEF Send
  <2> QED BY <1>1, <2>1, <2>2, <2>3 DEF Send
<1>5. LossAddsUp' /\ VerdictIsTrue' /\ Untouched'
  BY DEF Send, LossAddsUp, VerdictIsTrue, Untouched
<1> QED BY <1>2, <1>3, <1>4, <1>5

LEMMA DeliverIInv ==
  ASSUME IInv, NEW p \in inflight, NEW copy \in BOOLEAN, Deliver(p, copy)
  PROVE  IInv'
<1> USE DEF IInv
<1> DEFINE event == Classify(tracker.last, p.wire)
<1>1. /\ p.index \in Nat /\ p.wire \in Sequences /\ p.index < sent
      /\ sent - p.index < HalfRange /\ p.wire = Back(wire, sent - p.index)
  BY DEF TypeOK, Datagrams, Numbered
<1>2. /\ sent \in Nat /\ wire \in Sequences /\ newest \in Nat /\ first \in Nat
      /\ tracker.received \in Nat /\ tracker.lost \in Nat
      /\ tracker.duplicates \in Nat /\ tracker.outOfOrder \in Nat
      /\ tracker.last \in Sequences \cup {None}
  BY DEF TypeOK
<1>3. /\ tracker' = Observe(tracker, p.wire)
      /\ first' = IF event = "first" THEN p.index ELSE first
      /\ newest' = IF event \in Accepted THEN p.index ELSE newest
      /\ verdict' = [event |-> event, index |-> p.index,
                     before |-> IF tracker.last = None THEN None ELSE newest]
      /\ inflight' \subseteq inflight
      /\ sent' = sent /\ wire' = wire
  BY DEF Deliver
<1>4. Numbered' /\ inflight' \subseteq Datagrams
  BY <1>3 DEF Numbered, TypeOK
<1>5. CASE tracker.last = None
  <2>1. event = "first"
    BY <1>5 DEF Classify
  <2>2. tracker' = [last |-> p.wire, received |-> tracker.received + 1,
                    lost |-> tracker.lost, duplicates |-> tracker.duplicates,
                    outOfOrder |-> tracker.outOfOrder]
    BY <1>3, <2>1 DEF Observe, Accepted
  <2>3. first' = p.index /\ newest' = p.index
    BY <1>3, <2>1 DEF Accepted
  <2>4. TypeOK'
    BY <1>1, <1>2, <1>3, <1>4, <1>5, <2>1, <2>2, <2>3 DEF TypeOK, Events, Accepted
  <2>5. Remembered'
    BY <1>1, <1>3, <2>2, <2>3 DEF Remembered
  <2>6. LossAddsUp'
    BY <1>1, <1>2, <1>5, <2>2, <2>3 DEF LossAddsUp, Untouched, NewTracker
  <2>7. VerdictIsTrue'
    BY <1>3, <1>5, <2>1 DEF VerdictIsTrue
  <2>8. Untouched'
    BY <1>1, <2>2, SequenceAssumption DEF Untouched, Sequences
  <2> QED BY <1>4, <2>4, <2>5, <2>6, <2>7, <2>8
<1>6. CASE tracker.last # None
  <2>1. /\ newest < sent /\ sent - newest < HalfRange
        /\ tracker.last = Back(wire, sent - newest)
    BY <1>6 DEF Remembered
  <2>2. /\ event \in Events \ {"first"}
        /\ event = "duplicate"    <=> p.index = newest
        /\ event = "out-of-order" <=> p.index < newest
        /\ event = "in-order"     <=> p.index = newest + 1
        /\ event = "gap"          <=> p.index > newest + 1
        /\ p.index > newest => Delta(p.wire, tracker.last) = p.index - newest
    <3> DEFINE d == sent - p.index  e == sent - newest
    <3>1. /\ d \in Nat /\ d < HalfRange /\ p.wire = Back(wire, d)
          /\ e \in Nat /\ e < HalfRange /\ tracker.last = Back(wire, e)
      BY <1>1, <1>2, <2>1
    <3>2. /\ d = e <=> p.index = newest
          /\ d > e <=> p.index < newest
          /\ e = d + 1 <=> p.index = newest + 1
          /\ e > d + 1 <=> p.index > newest + 1
          /\ p.index > newest => e > d /\ e - d = p.index - newest
      BY <1>1, <1>2
    <3> HIDE DEF d, e
    <3>3. /\ event \in Events \ {"first"}
          /\ event = "duplicate"    <=> d = e
          /\ event = "out-of-order" <=> d > e
          /\ event = "in-order"     <=> e = d + 1
          /\ event = "gap"          <=> e > d + 1
          /\ e > d => Delta(p.wire, tracker.last) = e - d
      BY <1>2, <3>1, ClassifyIsTrue
    <3> QED BY <3>2, <3>3
  <2> HIDE DEF event
  <2>3. first' = first
    BY <1>3, <2>2
  <2>4. VerdictIsTrue' /\ verdict' \in [event : Events \cup {"none"}, index : Nat,
                                         before : Nat \cup {None}]
    <3>1. verdict' = [event |-> event, index |-> p.index, before |-> newest]
      BY <1>3, <1>6
    <3>2. newest # None
      BY <1>2, SequenceAssumption
    <3> QED BY <1>1, <1>2, <2>2, <3>1, <3>2 DEF VerdictIsTrue
  <2>5. CASE event \in {"duplicate", "out-of-order"}
    <3>1. newest' = newest
      BY <1>3, <2>5 DEF Accepted
    <3>2. /\ tracker'.last = tracker.last
          /\ tracker'.lost = tracker.lost
          /\ tracker'.received = tracker.received + 1
          /\ tracker'.duplicates + tracker'.outOfOrder
               = tracker.duplicates + tracker.outOfOrder + 1
          /\ tracker'.duplicates \in Nat /\ tracker'.outOfOrder \in Nat
          /\ tracker' = [last |-> tracker'.last, received |-> tracker'.received,
                         lost |-> tracker'.lost, duplicates |-> tracker'.duplicates,
                         outOfOrder |-> tracker'.outOfOrder]
      BY <1>2, <1>3, <2>5 DEF Observe, Accepted, event
    <3>3. TypeOK'
      BY <1>2, <1>3, <1>4, <2>3, <2>4, <3>1, <3>2 DEF TypeOK
    <3>4. Remembered'
      BY <1>3, <2>1, <3>1, <3>2 DEF Remembered
    <3>5. LossAddsUp'
      BY <1>2, <1>6, <2>3, <3>1, <3>2 DEF LossAddsUp
    <3>6. Untouched'
      BY <1>6, <3>2 DEF Untouched
    <3> QED BY <1>4, <2>4, <3>3, <3>4, <3>5, <3>6
  <2>6. CASE event \in {"in-order", "gap"}
    <3>1. newest' = p.index /\ p.index > newest
      BY <1>1, <1>2, <1>3, <2>2, <2>6 DEF Accepted
    <3>2. /\ tracker'.last = p.wire
          /\ tracker'.lost = tracker.lost + (p.index - newest) - 1
          /\ tracker'.received = tracker.received + 1
          /\ tracker'.duplicates = tracker.duplicates
          /\ tracker'.outOfOrder = tracker.outOfOrder
          /\ tracker' = [last |-> tracker'.last, received |-> tracker'.received,
                         lost |-> tracker'.lost, duplicates |-> tracker'.duplicates,
                         outOfOrder |-> tracker'.outOfOrder]
      BY <1>1, <1>2, <1>3, <2>2, <2>6, <3>1 DEF Observe, Accepted, event
    <3>3. tracker'.lost \in Nat
      BY <1>1, <1>2, <3>1, <3>2
    <3>4. TypeOK'
      BY <1>1, <1>2, <1>3, <1>4, <2>3, <2>4, <3>1, <3>2, <3>3 DEF TypeOK
    <3>5. Remembered'
      BY <1>1, <1>3, <3>1, <3>2 DEF Remembered
    <3>6. LossAddsUp'
      BY <1>1, <1>2, <1>6, <2>3, <3>1, <3>2 DEF LossAddsUp
    <3>7. Untouched'
      BY <1>1, <3>2, SequenceAssumption DEF Untouched, Sequences
    <3> QED BY <1>4, <2>4, <3>4, <3>5, <3>6, <3>7
  <2> QED BY <2>2, <2>5, <2>6 DEF Events, Accepted
<1> QED BY <1>5, <1>6

LEMMA NextIInv == IInv /\ [Next]_vars => IInv'
<1> SUFFICES ASSUME IInv, [Next]_vars PROVE IInv'
  OBVIOUS
<1>1. CASE Send
  BY <1>1, SendIInv
<1>2. ASSUME NEW p \in inflight, NEW copy \in BOOLEAN, Deliver(p, copy) PROVE IInv'
  BY <1>2, DeliverIInv
<1>3. ASSUME NEW p \in inflight, Lose(p) PROVE IInv'
  BY <1>3 DEF Lose, IInv, TypeOK, Untouched, Numbered, Remembered, LossAddsUp, VerdictIsTrue
<1>4. CASE Restart
  BY <1>4 DEF Restart, NewTracker, NoVerdict, IInv, TypeOK, Untouched, Numbered, Remembered,
              LossAddsUp, VerdictIsTrue
<1>5. CASE UNCHANGED vars
  BY <1>5 DEF vars, IInv, TypeOK, Untouched, Numbered, Remembered, LossAddsUp, VerdictIsTrue
<1> QED BY <1>1, <1>2, <1>3, <1>4, <1>5 DEF Next

LEMMA SpecIInv == Spec => []IInv
<1>1. Init => IInv
  BY InitIInv
<1>2. IInv /\ [Next]_vars => IInv'
  BY NextIInv
<1> QED BY <1>1, <1>2, PTL DEF Spec

\* Whatever the network loses, repeats or reorders within half the sequence
\* space, the tracker's verdict on a datagram is the true one, across any number
\* of wraps of the uint32 (receiver.py:80-106).
THEOREM VerdictIsTrueHolds == Spec => []VerdictIsTrue
<1>1. IInv => VerdictIsTrue
  BY DEF IInv
<1> QED BY <1>1, SpecIInv, PTL

\* The loss statistics account for every number of the stream exactly once
\* (receiver.py:85-106).
THEOREM LossAddsUpHolds == Spec => []LossAddsUp
<1>1. IInv => LossAddsUp
  BY DEF IInv
<1> QED BY <1>1, SpecIInv, PTL
=============================================================================
