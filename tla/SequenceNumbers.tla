--------------------------- MODULE SequenceNumbers ---------------------------
(***************************************************************************)
(* Serial-number arithmetic on the uint32 sequence of input packets, as    *)
(* SequenceTracker.observe computes it (pc-server/pc_server/receiver.py).  *)
(***************************************************************************)
EXTENDS Integers

CONSTANTS
  Modulus,    \* size of the sequence space, 2^32 in the code
  HalfRange,  \* UINT32_HALF_RANGE
  None        \* an optional value that is absent

ASSUME SequenceAssumption ==
  /\ HalfRange \in Nat \ {0, 1}
  /\ Modulus = 2 * HalfRange
  /\ None \notin Int

Sequences == 0..(Modulus - 1)
Accepted  == {"first", "in-order", "gap"}
Events    == Accepted \cup {"duplicate", "out-of-order"}

\* (sequence - last) & UINT32_MASK for two numbers of the sequence space.
Delta(sequence, last) ==
  IF sequence >= last THEN sequence - last ELSE sequence - last + Modulus

\* Fault: newer means greater, as if the number never wrapped.
ClassifyUnwrapped(last, sequence) ==
  IF last = None THEN "first"
  ELSE IF sequence = last THEN "duplicate"
       ELSE IF sequence < last THEN "out-of-order"
            ELSE IF sequence = last + 1 THEN "in-order" ELSE "gap"

\* The SequenceEvent that observe() returns when last_sequence is last.
Classify(last, sequence) ==
  IF last = None THEN "first"
  ELSE LET delta == Delta(sequence, last) IN
       IF delta = 0 THEN "duplicate"
       ELSE IF delta < HalfRange
            THEN IF delta = 1 THEN "in-order" ELSE "gap"
            ELSE "out-of-order"

NewTracker ==
  [last |-> None, received |-> 0, lost |-> 0, duplicates |-> 0, outOfOrder |-> 0]

\* Fault: the datagram that reveals a gap is counted lost as well.
ObserveLosesOneMore(t, sequence) ==
  LET event == Classify(t.last, sequence) IN
  [last       |-> IF event \in Accepted THEN sequence ELSE t.last,
   received   |-> t.received + 1,
   lost       |-> IF event = "gap" THEN t.lost + Delta(sequence, t.last) ELSE t.lost,
   duplicates |-> IF event = "duplicate" THEN t.duplicates + 1 ELSE t.duplicates,
   outOfOrder |-> IF event = "out-of-order" THEN t.outOfOrder + 1 ELSE t.outOfOrder]

\* SequenceTracker.observe
Observe(t, sequence) ==
  LET event == Classify(t.last, sequence) IN
  [last       |-> IF event \in Accepted THEN sequence ELSE t.last,
   received   |-> t.received + 1,
   lost       |-> IF event = "gap" THEN t.lost + Delta(sequence, t.last) - 1
                                   ELSE t.lost,
   duplicates |-> IF event = "duplicate" THEN t.duplicates + 1 ELSE t.duplicates,
   outOfOrder |-> IF event = "out-of-order" THEN t.outOfOrder + 1 ELSE t.outOfOrder]
=============================================================================
