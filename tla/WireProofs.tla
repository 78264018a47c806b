----------------------------- MODULE WireProofs -----------------------------
(***************************************************************************)
(* Proofs about the codecs, for every value that a field can have, and     *)
(* about the exchange of datagrams, for every token.                       *)
(***************************************************************************)
EXTENDS Wire, SequenceTheorems, FiniteSetTheorems, TLAPS

-----------------------------------------------------------------------------
(* The scales of the stick, for every position of it.                      *)

\* Whether a number fits the 16 bits of an axis of XInput.
Fits(n) == n \in Int /\ -32768 <= n /\ n <= 32767

\* Python's round() is off by half a unit at most (gamepad.py:84-102).
LEMMA RoundIsNear ==
  ASSUME NEW n \in Int, NEW d \in {127, 128}
  PROVE  /\ Round(n, d) \in Int
         /\ 2 * n - d <= 2 * d * Round(n, d)
         /\ 2 * d * Round(n, d) <= 2 * n + d
<1>1. CASE d = 127
  BY <1>1, SMT DEF Round
<1>2. CASE d = 128
  BY <1>2, SMT DEF Round
<1>3. QED
  BY <1>1, <1>2

\* Where the horizontal axis lies for each position of the stick.
LEMMA LeftHalf ==
  ASSUME NEW v \in 0..127
  PROVE  /\ HorizontalAxis(v) \in Int
         /\ (v - 128) * 65536 - 128 <= 256 * HorizontalAxis(v)
         /\ 256 * HorizontalAxis(v) <= (v - 128) * 65536 + 128
<1>1. HorizontalAxis(v) = Round((v - 128) * 32768, 128)
  BY SMT DEF HorizontalAxis
<1>2. (v - 128) * 32768 \in Int
  BY SMT
<1>3. 2 * ((v - 128) * 32768) = (v - 128) * 65536
  BY SMT
<1>4. QED
  BY <1>1, <1>2, <1>3, RoundIsNear, SMT

LEMMA RightHalf ==
  ASSUME NEW v \in 129..255
  PROVE  /\ HorizontalAxis(v) \in Int
         /\ (v - 128) * 65534 - 127 <= 254 * HorizontalAxis(v)
         /\ 254 * HorizontalAxis(v) <= (v - 128) * 65534 + 127
<1>1. HorizontalAxis(v) = Round((v - 128) * 32767, 127)
  BY SMT DEF HorizontalAxis
<1>2. (v - 128) * 32767 \in Int
  BY SMT
<1>3. 2 * ((v - 128) * 32767) = (v - 128) * 65534
  BY SMT
<1>4. QED
  BY <1>1, <1>2, <1>3, RoundIsNear, SMT

\* The horizontal axis of the pad stays within XInput's 16 bits, and a stick
\* further to the right gives strictly more, also across the centre, where the
\* scales meet (_horizontal_axis, gamepad.py:84).
THEOREM HorizontalAxisFollows ==
  ASSUME NEW v \in 0..255, NEW w \in 0..255, v < w
  PROVE  /\ Fits(HorizontalAxis(v)) /\ Fits(HorizontalAxis(w))
         /\ HorizontalAxis(v) < HorizontalAxis(w)
<1>1. HorizontalAxis(128) = 0
  BY SMT DEF HorizontalAxis
<1>2. CASE w < 128
  <2>1. /\ HorizontalAxis(v) \in Int
        /\ (v - 128) * 65536 - 128 <= 256 * HorizontalAxis(v)
        /\ 256 * HorizontalAxis(v) <= (v - 128) * 65536 + 128
    BY <1>2, v \in 0..127, LeftHalf, SMT
  <2>2. /\ HorizontalAxis(w) \in Int
        /\ (w - 128) * 65536 - 128 <= 256 * HorizontalAxis(w)
        /\ 256 * HorizontalAxis(w) <= (w - 128) * 65536 + 128
    BY <1>2, w \in 0..127, LeftHalf, SMT
  <2>3. QED
    BY <1>2, <2>1, <2>2, SMT DEF Fits
<1>3. CASE v < 128 /\ w = 128
  BY <1>1, <1>3, LeftHalf, SMT DEF Fits
<1>4. CASE v < 128 /\ w > 128
  <2>1. HorizontalAxis(v) \in Int /\ -32768 <= HorizontalAxis(v) /\ HorizontalAxis(v) < 0
    BY <1>4, v \in 0..127, LeftHalf, SMT
  <2>2. HorizontalAxis(w) \in Int /\ 0 < HorizontalAxis(w) /\ HorizontalAxis(w) <= 32767
    BY <1>4, w \in 129..255, RightHalf, SMT
  <2>3. QED
    BY <2>1, <2>2, SMT DEF Fits
<1>5. CASE v = 128 /\ w > 128
  BY <1>1, <1>5, RightHalf, SMT DEF Fits
<1>6. CASE v > 128
  <2>1. /\ HorizontalAxis(v) \in Int
        /\ (v - 128) * 65534 - 127 <= 254 * HorizontalAxis(v)
        /\ 254 * HorizontalAxis(v) <= (v - 128) * 65534 + 127
    BY <1>6, v \in 129..255, RightHalf, SMT
  <2>2. /\ HorizontalAxis(w) \in Int
        /\ (w - 128) * 65534 - 127 <= 254 * HorizontalAxis(w)
        /\ 254 * HorizontalAxis(w) <= (w - 128) * 65534 + 127
    BY <1>6, w \in 129..255, RightHalf, SMT
  <2>3. QED
    BY <1>6, <2>1, <2>2, SMT DEF Fits
<1>7. QED
  BY <1>2, <1>3, <1>4, <1>5, <1>6, SMT

LEMMA UpperHalf ==
  ASSUME NEW v \in 0..127
  PROVE  /\ VerticalAxis(v) \in Int
         /\ (128 - v) * 65534 - 128 <= 256 * VerticalAxis(v)
         /\ 256 * VerticalAxis(v) <= (128 - v) * 65534 + 128
<1>1. VerticalAxis(v) = Round((128 - v) * 32767, 128)
  BY SMT DEF VerticalAxis
<1>2. (128 - v) * 32767 \in Int
  BY SMT
<1>3. 2 * ((128 - v) * 32767) = (128 - v) * 65534
  BY SMT
<1>4. QED
  BY <1>1, <1>2, <1>3, RoundIsNear, SMT

LEMMA LowerHalf ==
  ASSUME NEW v \in 129..255
  PROVE  /\ VerticalAxis(v) \in Int
         /\ (128 - v) * 65536 - 127 <= 254 * VerticalAxis(v)
         /\ 254 * VerticalAxis(v) <= (128 - v) * 65536 + 127
<1>1. VerticalAxis(v) = -Round((v - 128) * 32768, 127)
  BY SMT DEF VerticalAxis
<1>2. (v - 128) * 32768 \in Int
  BY SMT
<1>3. 2 * ((v - 128) * 32768) = -((128 - v) * 65536)
  BY SMT
<1> DEFINE r == Round((v - 128) * 32768, 127)
<1>4. /\ r \in Int
      /\ -((128 - v) * 65536) - 127 <= 254 * r
      /\ 254 * r <= -((128 - v) * 65536) + 127
  BY <1>2, <1>3, RoundIsNear, SMT
<1>5. VerticalAxis(v) = -r
  BY <1>1
<1> HIDE DEF r
<1>6. QED
  BY <1>4, <1>5, SMT

\* The vertical axis of the pad stays within XInput's 16 bits although it is
\* turned round, and a stick further down gives strictly less (_vertical_axis,
\* gamepad.py:94).
THEOREM VerticalAxisFollows ==
  ASSUME NEW v \in 0..255, NEW w \in 0..255, v < w
  PROVE  /\ Fits(VerticalAxis(v)) /\ Fits(VerticalAxis(w))
         /\ VerticalAxis(w) < VerticalAxis(v)
<1>1. VerticalAxis(128) = 0
  BY SMT DEF VerticalAxis
<1>2. CASE w < 128
  <2>1. /\ VerticalAxis(v) \in Int
        /\ (128 - v) * 65534 - 128 <= 256 * VerticalAxis(v)
        /\ 256 * VerticalAxis(v) <= (128 - v) * 65534 + 128
    BY <1>2, v \in 0..127, UpperHalf, SMT
  <2>2. /\ VerticalAxis(w) \in Int
        /\ (128 - w) * 65534 - 128 <= 256 * VerticalAxis(w)
        /\ 256 * VerticalAxis(w) <= (128 - w) * 65534 + 128
    BY <1>2, w \in 0..127, UpperHalf, SMT
  <2>3. QED
    BY <1>2, <2>1, <2>2, SMT DEF Fits
<1>3. CASE v < 128 /\ w = 128
  BY <1>1, <1>3, UpperHalf, SMT DEF Fits
<1>4. CASE v < 128 /\ w > 128
  <2>1. VerticalAxis(v) \in Int /\ 0 < VerticalAxis(v) /\ VerticalAxis(v) <= 32767
    BY <1>4, v \in 0..127, UpperHalf, SMT
  <2>2. VerticalAxis(w) \in Int /\ -32768 <= VerticalAxis(w) /\ VerticalAxis(w) < 0
    BY <1>4, w \in 129..255, LowerHalf, SMT
  <2>3. QED
    BY <2>1, <2>2, SMT DEF Fits
<1>5. CASE v = 128 /\ w > 128
  BY <1>1, <1>5, LowerHalf, SMT DEF Fits
<1>6. CASE v > 128
  <2>1. /\ VerticalAxis(v) \in Int
        /\ (128 - v) * 65536 - 127 <= 254 * VerticalAxis(v)
        /\ 254 * VerticalAxis(v) <= (128 - v) * 65536 + 127
    BY <1>6, v \in 129..255, LowerHalf, SMT
  <2>2. /\ VerticalAxis(w) \in Int
        /\ (128 - w) * 65536 - 127 <= 254 * VerticalAxis(w)
        /\ 254 * VerticalAxis(w) <= (128 - w) * 65536 + 127
    BY <1>6, w \in 129..255, LowerHalf, SMT
  <2>3. QED
    BY <1>6, <2>1, <2>2, SMT DEF Fits
<1>7. QED
  BY <1>2, <1>3, <1>4, <1>5, <1>6, SMT

-----------------------------------------------------------------------------
(* Pairing codes, for every token and for every text.                      *)

Codes == [1..PAIRING_TOKEN_LENGTH -> PAIRING_ALPHABET]

\* The number that the loop of parse_pairing_token makes of five characters.
Value(c) == (((c[1] * 32 + c[2]) * 32 + c[3]) * 32 + c[4]) * 32 + c[5]

LEMMA MaxOfNonempty ==
  ASSUME NEW s \in SUBSET (1..5), s # {}
  PROVE  Max(s) \in s /\ \A i \in s : i <= Max(s)
<1> DEFINE Top(m) == m \in s /\ \A i \in s : i <= m
<1>1. \E m \in 1..5 : Top(m)
  <2>1. CASE 5 \in s
    BY <2>1, SMT
  <2>2. CASE 5 \notin s /\ 4 \in s
    BY <2>2, SMT
  <2>3. CASE 5 \notin s /\ 4 \notin s /\ 3 \in s
    BY <2>3, SMT
  <2>4. CASE 5 \notin s /\ 4 \notin s /\ 3 \notin s /\ 2 \in s
    BY <2>4, SMT
  <2>5. CASE 5 \notin s /\ 4 \notin s /\ 3 \notin s /\ 2 \notin s
    <3>1. \A i \in s : i = 1
      BY <2>5, SMT
    <3>2. 1 \in s
      BY <3>1
    <3>3. QED
      BY <3>1, <3>2, SMT
  <2>6. QED
    BY <2>1, <2>2, <2>3, <2>4, <2>5
<1>2. Max(s) \in s /\ \A i \in s : Max(s) >= i
  <2>1. \E m \in s : \A i \in s : m >= i
    BY <1>1, SMT
  <2>2. QED
    BY <2>1, Zenon DEF Max
<1>3. QED
  BY <1>2, SMT

\* The fold over five characters, taken apart: the recursive function in it has
\* a solution, h, so that the one it is satisfies its equation.
LEMMA FoldOfFive ==
  ASSUME NEW c \in [1..5 -> Int]
  PROVE  FoldLeft(LAMBDA value, digit : value * 32 + digit, 0, c) = Value(c)
<1> DEFINE Body(g, s) == IF s = {} THEN 0 ELSE g[s \ {Max(s)}] * 32 + c[Max(s)]
           iter == CHOOSE g : g = [s \in SUBSET (1..5) |-> Body(g, s)]
           h1(s) == IF 1 \in s THEN c[1] ELSE 0
           h2(s) == IF 2 \in s THEN h1(s) * 32 + c[2] ELSE h1(s)
           h3(s) == IF 3 \in s THEN h2(s) * 32 + c[3] ELSE h2(s)
           h4(s) == IF 4 \in s THEN h3(s) * 32 + c[4] ELSE h3(s)
           h5(s) == IF 5 \in s THEN h4(s) * 32 + c[5] ELSE h4(s)
           h == [s \in SUBSET (1..5) |-> h5(s)]
<1>1. FoldLeft(LAMBDA value, digit : value * 32 + digit, 0, c) = iter[1..5]
  BY DEF FoldLeft, MapThenFoldSet
<1>2. \A s \in SUBSET (1..5) : h5(s) = Body(h, s)
  <2>1. h5({}) = Body(h, {})
    OBVIOUS
  <2>2. ASSUME NEW s \in SUBSET (1..5), s # {}
        PROVE  h5(s) = h5(s \ {Max(s)}) * 32 + c[Max(s)]
    <3>1. PICK m \in 1..5 : m = Max(s) /\ m \in s /\ \A i \in s : i <= m
      BY <2>2, MaxOfNonempty
    <3> HIDE DEF iter, h
    <3>2. CASE m = 1
      BY <3>1, <3>2, SMT
    <3>3. CASE m = 2
      BY <3>1, <3>3, SMT
    <3>4. CASE m = 3
      BY <3>1, <3>4, SMT
    <3>5. CASE m = 4
      BY <3>1, <3>5, SMT
    <3>6. CASE m = 5
      BY <3>1, <3>6, SMT
    <3>7. QED
      BY <3>2, <3>3, <3>4, <3>5, <3>6
  <2> HIDE DEF h5
  <2>3. ASSUME NEW s \in SUBSET (1..5), s # {}  PROVE  h5(s) = Body(h, s)
    BY <2>2, <2>3
  <2>4. QED
    BY <2>1, <2>3
<1>3. iter = [s \in SUBSET (1..5) |-> Body(iter, s)]
  <2> HIDE DEF h5
  <2>1. h = [s \in SUBSET (1..5) |-> Body(h, s)]
    BY <1>2
  <2> HIDE DEF h, Body
  <2>2. \E g : g = [s \in SUBSET (1..5) |-> Body(g, s)]
    BY <2>1
  <2>3. QED
    BY <2>2
<1> HIDE DEF iter, h1, h2, h3, h4, h5, h
<1>4. ASSUME NEW n \in 1..5  PROVE  iter[1..n] = iter[1..(n - 1)] * 32 + c[n]
  <2>1. 1..n \in SUBSET (1..5) /\ 1..n # {} /\ (1..n) \ {n} = 1..(n - 1)
    BY SMT
  <2>2. Max(1..n) \in 1..n /\ n <= Max(1..n)
    BY <2>1, n \in 1..n, MaxOfNonempty
  <2>3. Max(1..n) = n
    BY <2>2, SMT
  <2>4. QED
    BY <1>3, <2>1, <2>3
<1>5. iter[1..0] = 0
  BY <1>3, 1..0 = {}
<1>6. /\ iter[1..1] = iter[1..0] * 32 + c[1]
      /\ iter[1..2] = iter[1..1] * 32 + c[2]
      /\ iter[1..3] = iter[1..2] * 32 + c[3]
      /\ iter[1..4] = iter[1..3] * 32 + c[4]
      /\ iter[1..5] = iter[1..4] * 32 + c[5]
  <2>1. 1 - 1 = 0 /\ 2 - 1 = 1 /\ 3 - 1 = 2 /\ 4 - 1 = 3 /\ 5 - 1 = 4
    OBVIOUS
  <2>2. QED
    BY <1>4, <2>1
<1>7. iter[1..5] = Value(c)
  <2>1. iter[1..1] = c[1]
    BY <1>5, <1>6, c[1] \in Int, SMT
  <2>2. QED
    BY <1>6, <2>1 DEF Value
<1>8. QED
  BY <1>1, <1>7

\* What is normalized is a sequence of characters again.
LEMMA NormalizedIsSequence ==
  ASSUME NEW n \in Nat, NEW text, DOMAIN text = 1..n
  PROVE  /\ Len(Normalized(text)) \in Nat
         /\ Normalized(text) = [k \in 1..Len(Normalized(text)) |-> Normalized(text)[k]]
<1> DEFINE kept == {i \in DOMAIN text : text[i] \notin {Space, Hyphen}}
<1>1. Cardinality(kept) \in Nat
  <2>1. IsFiniteSet(1..n)
    BY FS_Interval
  <2>2. kept \subseteq 1..n
    OBVIOUS
  <2>3. QED
    BY <2>1, <2>2, FS_Subset, FS_CardinalityType
<1>2. Normalized(text) = [k \in 1..Cardinality(kept) |-> Upper(text[Place(k, kept)])]
  BY DEF Normalized
<1> HIDE DEF kept
<1>3. Len(Normalized(text)) = Cardinality(kept)
  BY <1>1, <1>2
<1>4. QED
  BY <1>1, <1>2, <1>3

\* Capitals without blanks are left as they are.
LEMMA CleanIsNormalized ==
  ASSUME NEW n \in Nat, NEW text \in [1..n -> PAIRING_ALPHABET]
  PROVE  Normalized(text) = text
<1> DEFINE kept == {i \in DOMAIN text : text[i] \notin {Space, Hyphen}}
<1>1. \A i \in 1..n : text[i] \in 0..31
  BY DEF PAIRING_ALPHABET, PairingBase
<1>2. \A i \in 1..n : text[i] \notin {Space, Hyphen} /\ Upper(text[i]) = text[i]
  <2>1. \A x \in 0..31 : x \notin {Space, Hyphen} /\ Upper(x) = x
    BY SMT DEF Space, Hyphen, Upper, PairingBase
  <2>2. QED
    BY <1>1, <2>1
<1>3. kept = 1..n
  BY <1>2
<1>4. \A i \in 0..n : Cardinality(1..i) = i
  BY FS_Interval, SMT
<1>5. Cardinality(1..n) = n
  BY <1>4, SMT
<1>6. ASSUME NEW k \in 1..n  PROVE  Place(k, 1..n) = k
  <2>1. ASSUME NEW i \in 1..n  PROVE  Cardinality({j \in 1..n : j <= i}) = i
    <3>1. {j \in 1..n : j <= i} = 1..i
      BY SMT
    <3>2. Cardinality(1..i) = i
      BY <1>4, SMT
    <3>3. QED
      BY <3>1, <3>2
  <2>2. QED
    BY <2>1, Zenon DEF Place
<1>7. Normalized(text) = [k \in 1..n |-> Upper(text[Place(k, 1..n)])]
  BY <1>3, <1>5 DEF Normalized
<1>8. QED
  BY <1>2, <1>6, <1>7

\* What parse_pairing_token accepts is five characters of the alphabet, and their
\* value is what it returns.
LEMMA ParseIsValue ==
  ASSUME NEW text, Normalized(text) \in Codes
  PROVE  ParsePairingToken(text) = Value(Normalized(text))
<1> DEFINE c == Normalized(text)
<1>1. c \in [1..5 -> Int] /\ Len(c) = 5
  BY SMT DEF Codes, PAIRING_TOKEN_LENGTH, PAIRING_ALPHABET, PairingBase
<1>2. Range(c) \subseteq PAIRING_ALPHABET
  BY DEF Range, Codes
<1>3. ParsePairingToken(text) = FoldLeft(LAMBDA value, digit : value * 32 + digit, 0, c)
  BY <1>1, <1>2 DEF ParsePairingToken, PAIRING_TOKEN_LENGTH, PairingBase
<1> HIDE DEF c
<1>4. QED
  BY <1>1, <1>3, FoldOfFive DEF c

LEMMA ParsedIsCode ==
  ASSUME NEW n \in Nat, NEW text, DOMAIN text = 1..n, ParsePairingToken(text) # -1
  PROVE  Normalized(text) \in Codes
<1>1. /\ Len(Normalized(text)) = 5
      /\ Range(Normalized(text)) \subseteq PAIRING_ALPHABET
  BY DEF ParsePairingToken, PAIRING_TOKEN_LENGTH
<1>2. Normalized(text) = [k \in 1..5 |-> Normalized(text)[k]]
  BY <1>1, NormalizedIsSequence
<1>3. \A k \in 1..5 : Normalized(text)[k] \in PAIRING_ALPHABET
  BY <1>1, <1>2 DEF Range
<1>4. QED
  BY <1>2, <1>3 DEF Codes, PAIRING_TOKEN_LENGTH

\* A number to the base 32: what is left of it without its last digit, and how
\* the two make it up.
Rest(v) == v \div 32

LEMMA Digit ==
  /\ \A v \in Nat : /\ Rest(v) \in Nat /\ v % 32 \in 0..31
                    /\ v = Rest(v) * 32 + (v % 32)
  /\ \A a \in Nat, b \in 0..31 : /\ a * 32 + b \in Nat
                               /\ Rest(a * 32 + b) = a /\ (a * 32 + b) % 32 = b
BY SMT DEF Rest

LEMMA Powers ==
  /\ 32 ^ (5 - 1) = 1048576 /\ 32 ^ (5 - 2) = 32768 /\ 32 ^ (5 - 3) = 1024
  /\ 32 ^ (5 - 4) = 32 /\ 32 ^ (5 - 5) = 1
  /\ 2 ^ 25 = 33554432
BY SMT

LEMMA Quotients ==
  ASSUME NEW v \in Nat
  PROVE  /\ v \div 1 = v
         /\ v \div 1024 = (v \div 32) \div 32
         /\ v \div 32768 = (v \div 1024) \div 32
         /\ v \div 1048576 = (v \div 32768) \div 32
BY SMT

\* The characters of a code, each from the number without those behind it.
LEMMA FormatIsDigits ==
  ASSUME NEW v \in Nat
  PROVE  /\ FormatPairingToken(v) \in Codes
         /\ FormatPairingToken(v)[1] = Rest(Rest(Rest(Rest(v)))) % 32
         /\ FormatPairingToken(v)[2] = Rest(Rest(Rest(v))) % 32
         /\ FormatPairingToken(v)[3] = Rest(Rest(v)) % 32
         /\ FormatPairingToken(v)[4] = Rest(v) % 32
         /\ FormatPairingToken(v)[5] = v % 32
<1> DEFINE f == FormatPairingToken(v)
           v1 == Rest(v)
           v2 == Rest(v1)
           v3 == Rest(v2)
           v4 == Rest(v3)
<1>1. f = [i \in 1..5 |-> (v \div 32 ^ (5 - i)) % 32]
  BY DEF FormatPairingToken, PAIRING_TOKEN_LENGTH, PairingBase
<1>2. v1 \in Nat /\ v2 \in Nat /\ v3 \in Nat /\ v4 \in Nat
  BY Digit
<1>3. /\ v \div 32 ^ (5 - 1) = v4 /\ v \div 32 ^ (5 - 2) = v3 /\ v \div 32 ^ (5 - 3) = v2
      /\ v \div 32 ^ (5 - 4) = v1 /\ v \div 32 ^ (5 - 5) = v
  BY Powers, Quotients, SMT DEF Rest
<1> HIDE DEF v1, v2, v3, v4, f
<1>4. /\ f[1] = v4 % 32 /\ f[2] = v3 % 32 /\ f[3] = v2 % 32
      /\ f[4] = v1 % 32 /\ f[5] = v % 32
  BY <1>1, <1>3
<1>5. \A i \in 1..5 : f[i] \in 0..31
  <2>1. f[1] \in 0..31 /\ f[2] \in 0..31 /\ f[3] \in 0..31 /\ f[4] \in 0..31 /\ f[5] \in 0..31
    BY <1>2, <1>4, Digit
  <2>2. \A i \in 1..5 : i = 1 \/ i = 2 \/ i = 3 \/ i = 4 \/ i = 5
    BY SMT
  <2>3. QED
    BY <2>1, <2>2
<1>6. f \in Codes
  BY <1>1, <1>5 DEF Codes, PAIRING_TOKEN_LENGTH, PAIRING_ALPHABET, PairingBase
<1>7. QED
  BY <1>4, <1>6 DEF v1, v2, v3, v4, f

LEMMA ValueOfFormat ==
  ASSUME NEW v \in 0..(2 ^ 25 - 1)
  PROVE  Value(FormatPairingToken(v)) = v
<1> DEFINE f == FormatPairingToken(v)
           v1 == Rest(v)
           v2 == Rest(v1)
           v3 == Rest(v2)
           v4 == Rest(v3)
<1>1. v \in Nat
  OBVIOUS
<1>2. /\ f[1] = v4 % 32 /\ f[2] = v3 % 32 /\ f[3] = v2 % 32
      /\ f[4] = v1 % 32 /\ f[5] = v % 32
  BY <1>1, FormatIsDigits
<1>3. v4 = v4 % 32
  <2>1. v < 33554432
    BY Powers, SMT
  <2>2. QED
    BY <2>1, SMT DEF Rest
<1>4. v1 \in Nat /\ v2 \in Nat /\ v3 \in Nat /\ v4 \in Nat
  BY <1>1, Digit
<1> HIDE DEF v1, v2, v3, v4, f
<1>5. /\ v = v1 * 32 + (v % 32) /\ v1 = v2 * 32 + (v1 % 32)
      /\ v2 = v3 * 32 + (v2 % 32) /\ v3 = v4 * 32 + (v3 % 32)
  BY <1>1, <1>4, Digit DEF v1, v2, v3, v4
<1>6. Value(f) = v
  BY <1>2, <1>3, <1>5 DEF Value
<1>7. QED
  BY <1>6 DEF f

LEMMA FormatOfValue ==
  ASSUME NEW c \in Codes
  PROVE  Value(c) \in 0..(2 ^ 25 - 1) /\ FormatPairingToken(Value(c)) = c
<1> DEFINE u2 == c[1] * 32 + c[2]
           u3 == u2 * 32 + c[3]
           u4 == u3 * 32 + c[4]
           u5 == u4 * 32 + c[5]
           f == FormatPairingToken(u5)
<1>1. \A i \in 1..5 : c[i] \in 0..31
  BY DEF Codes, PAIRING_TOKEN_LENGTH, PAIRING_ALPHABET, PairingBase
<1>2. /\ c[1] \in Nat /\ c[1] \in 0..31 /\ c[2] \in 0..31 /\ c[3] \in 0..31
      /\ c[4] \in 0..31 /\ c[5] \in 0..31
  BY <1>1, SMT
<1>3. u2 \in Nat /\ Rest(u2) = c[1] /\ u2 % 32 = c[2]
  BY <1>2, Digit
<1> HIDE DEF u2
<1>4. u3 \in Nat /\ Rest(u3) = u2 /\ u3 % 32 = c[3]
  BY <1>2, <1>3, Digit
<1> HIDE DEF u3
<1>5. u4 \in Nat /\ Rest(u4) = u3 /\ u4 % 32 = c[4]
  BY <1>2, <1>4, Digit
<1> HIDE DEF u4
<1>6. u5 \in Nat /\ Rest(u5) = u4 /\ u5 % 32 = c[5]
  BY <1>2, <1>5, Digit
<1>7. u5 \in 0..(2 ^ 25 - 1)
  <2>1. u2 < 1024
    BY <1>2, SMT DEF u2
  <2>2. u3 < 32768
    BY <1>2, <1>3, <2>1, SMT DEF u3
  <2>3. u4 < 1048576
    BY <1>2, <1>4, <2>2, SMT DEF u4
  <2>4. u5 < 33554432
    BY <1>2, <1>5, <2>3, SMT
  <2>5. QED
    BY <1>6, <2>4, Powers, SMT
<1>8. Value(c) = u5
  BY DEF Value, u2, u3, u4
<1> HIDE DEF u5, f
<1>9. c[1] % 32 = c[1]
  BY <1>2, SMT
<1>10. f \in Codes /\ f[1] = c[1] /\ f[2] = c[2] /\ f[3] = c[3] /\ f[4] = c[4] /\ f[5] = c[5]
  BY <1>3, <1>4, <1>5, <1>6, <1>9, FormatIsDigits DEF f
<1>11. f \in [1..5 -> PAIRING_ALPHABET] /\ c \in [1..5 -> PAIRING_ALPHABET]
  BY <1>10 DEF Codes, PAIRING_TOKEN_LENGTH
<1>12. \A i \in 1..5 : f[i] = c[i]
  BY <1>10, SMT
<1>13. f = c
  BY <1>11, <1>12
<1>14. QED
  BY <1>7, <1>8, <1>13 DEF f

-----------------------------------------------------------------------------
(* Datagrams, for every value of their fields.                             *)

Word(n) == [1..n -> Int]

LEMMA WordIsBytes ==
  ASSUME NEW n \in Nat, NEW x \in Word(n)
  PROVE  x \in Seq(Int) /\ Len(x) = n
<1>1. x = [i \in 1..n |-> x[i]] /\ \A i \in 1..n : x[i] \in Int
  BY DEF Word
<1>2. QED
  BY <1>1

LEMMA PairsJoin ==
  ASSUME NEW a \in Int, NEW b \in Int, NEW c \in Int, NEW d \in Int
  PROVE  <<a, b>> \o <<c, d>> = <<a, b, c, d>>
<1> DEFINE s == <<a, b>>
           t == <<c, d>>
           u == <<a, b, c, d>>
<1>1. s \in Seq(Int) /\ t \in Seq(Int) /\ u \in Seq(Int)
  OBVIOUS
<1>2. Len(s) = 2 /\ Len(t) = 2 /\ Len(u) = 4
  OBVIOUS
<1>3. s \o t \in Seq(Int) /\ Len(s \o t) = 4
  BY <1>1, <1>2, ConcatProperties
<1>4. ASSUME NEW i \in 1..4  PROVE  (s \o t)[i] = u[i]
  <2>1. (s \o t)[i] = IF i <= 2 THEN s[i] ELSE t[i - 2]
    BY <1>1, <1>2, ConcatProperties
  <2>2. CASE i = 1
    BY <2>1, <2>2
  <2>3. CASE i = 2
    BY <2>1, <2>3
  <2>4. CASE i = 3
    BY <2>1, <2>4, 3 - 2 = 1
  <2>5. CASE i = 4
    BY <2>1, <2>5, 4 - 2 = 2
  <2>6. QED
    BY <2>2, <2>3, <2>4, <2>5
<1> HIDE DEF s, t, u
<1>5. s \o t = u
  BY <1>1, <1>2, <1>3, <1>4, SeqEqual
<1>6. QED
  BY <1>5 DEF s, t, u

LEMMA JoinIs ==
  ASSUME NEW f, NEW x, NEW y, NEW a \in Nat, NEW b \in Nat,
         \A j \in 1..(a + b) : f[j] = IF j <= a THEN x[j] ELSE y[j - a]
  PROVE  /\ \A i \in 1..a : f[i] = x[i]
         /\ \A i \in 1..b : f[a + i] = y[i]
<1>1. ASSUME NEW i \in 1..b  PROVE  f[a + i] = y[i]
  <2>1. a + i \in 1..(a + b) /\ ~(a + i <= a) /\ a + i - a = i
    BY SMT
  <2>2. QED
    BY <2>1
<1>2. QED
  BY <1>1

LEMMA ConcatIs ==
  ASSUME NEW s \in Seq(Int), NEW t \in Seq(Int)
  PROVE  /\ \A i \in 1..Len(s) : (s \o t)[i] = s[i]
         /\ \A i \in 1..Len(t) : (s \o t)[Len(s) + i] = t[i]
<1> DEFINE f == s \o t
           a == Len(s)
           b == Len(t)
<1>1. a \in Nat /\ b \in Nat
  BY LenProperties
<1>2. \A j \in 1..(a + b) : f[j] = IF j <= a THEN s[j] ELSE t[j - a]
  BY ConcatProperties
<1> HIDE DEF f, a, b
<1>3. /\ \A i \in 1..a : f[i] = s[i]
      /\ \A i \in 1..b : f[a + i] = t[i]
  BY <1>1, <1>2, JoinIs
<1>4. QED
  BY <1>3 DEF f, a, b

\* Two datagrams put together from parts of the same lengths are equal only if
\* the parts are.
LEMMA SplitEqual ==
  ASSUME NEW s \in Seq(Int), NEW t \in Seq(Int), NEW u \in Seq(Int), NEW v \in Seq(Int)
  PROVE  Len(s) = Len(u) /\ s \o t = u \o v => s = u /\ t = v
<1>1. SUFFICES ASSUME Len(s) = Len(u), s \o t = u \o v  PROVE  s = u /\ t = v
  BY Zenon
<1>2. Len(s) \in Nat /\ Len(t) \in Nat /\ Len(u) \in Nat /\ Len(v) \in Nat
  BY LenProperties
<1>3. Len(t) = Len(v)
  <2>1. Len(s \o t) = Len(s) + Len(t) /\ Len(u \o v) = Len(u) + Len(v)
    BY ConcatProperties, Zenon
  <2>2. Len(s) + Len(t) = Len(s) + Len(v)
    BY <1>1, <2>1, Zenon
  <2>3. QED
    BY <1>2, <2>2, SMT
<1>4. /\ \A i \in 1..Len(s) : (s \o t)[i] = s[i]
      /\ \A i \in 1..Len(t) : (s \o t)[Len(s) + i] = t[i]
  BY ConcatIs, Zenon
<1>5. /\ \A i \in 1..Len(u) : (u \o v)[i] = u[i]
      /\ \A i \in 1..Len(v) : (u \o v)[Len(u) + i] = v[i]
  BY ConcatIs, Zenon
<1>6. \A i \in 1..Len(s) : s[i] = u[i]
  <2>1. ASSUME NEW i \in 1..Len(s)  PROVE  s[i] = u[i]
    <3>1. (s \o t)[i] = s[i]
      BY <1>4, Zenon
    <3>2. i \in 1..Len(u)
      BY <1>1
    <3>3. (u \o v)[i] = u[i]
      BY <1>5, <3>2, Zenon
    <3>4. QED
      BY <1>1, <3>1, <3>3, Zenon
  <2>2. QED
    BY <2>1, Zenon
<1>7. \A i \in 1..Len(t) : t[i] = v[i]
  <2>1. ASSUME NEW i \in 1..Len(t)  PROVE  t[i] = v[i]
    <3>1. (s \o t)[Len(s) + i] = t[i]
      BY <1>4, Zenon
    <3>2. i \in 1..Len(v)
      BY <1>3
    <3>3. (u \o v)[Len(u) + i] = v[i]
      BY <1>5, <3>2, Zenon
    <3>4. QED
      BY <1>1, <3>1, <3>3, Zenon
  <2>2. QED
    BY <2>1, Zenon
<1>8. s = u
  BY <1>1, <1>6, SeqEqual, Zenon
<1>9. t = v
  BY <1>3, <1>7, SeqEqual, Zenon
<1>10. QED
  BY <1>8, <1>9

\* The four bytes of a number on the wire.
LEMMA BytesOfNumber ==
  ASSUME NEW n \in Int
  PROVE  /\ Bytes32(n) \in Word(4)
         /\ Bytes32(n) = <<n \div 2 ^ 24, (n \div 2 ^ 16) % 256,
                           (n % 2 ^ 16) \div 256, (n % 2 ^ 16) % 256>>
<1> DEFINE a == n \div 2 ^ 24
           b == (n \div 2 ^ 16) % 256
           c == (n % 2 ^ 16) \div 256
           d == (n % 2 ^ 16) % 256
<1>1. 2 ^ 24 = 16777216 /\ 2 ^ 16 = 65536
  BY SMT
<1>2. a \in Int /\ b \in Int /\ c \in Int /\ d \in Int
  BY <1>1, SMT
<1>3. Bytes32(n) = <<a, b>> \o <<c, d>>
  BY DEF Bytes32, Bytes16
<1> HIDE DEF a, b, c, d
<1>4. Bytes32(n) = <<a, b, c, d>>
  BY <1>2, <1>3, PairsJoin
<1>5. <<a, b, c, d>> \in Word(4)
  BY <1>2, SMT DEF Word
<1>6. QED
  BY <1>4, <1>5 DEF a, b, c, d

\* They give the number back.
LEMMA BytesAreExact ==
  ASSUME NEW n \in Int, NEW m \in Int, Bytes32(n) = Bytes32(m)
  PROVE  n = m
<1>1. /\ n \div 2 ^ 24 = m \div 2 ^ 24
      /\ (n \div 2 ^ 16) % 256 = (m \div 2 ^ 16) % 256
      /\ (n % 2 ^ 16) \div 256 = (m % 2 ^ 16) \div 256
      /\ (n % 2 ^ 16) % 256 = (m % 2 ^ 16) % 256
  <2> DEFINE F(k) == <<k \div 2 ^ 24, (k \div 2 ^ 16) % 256,
                       (k % 2 ^ 16) \div 256, (k % 2 ^ 16) % 256>>
  <2>1. F(n) = F(m)
    BY BytesOfNumber
  <2>2. F(n)[1] = F(m)[1] /\ F(n)[2] = F(m)[2] /\ F(n)[3] = F(m)[3] /\ F(n)[4] = F(m)[4]
    <3> HIDE DEF F
    <3>1. QED BY <2>1
  <2>3. QED
    BY <2>2
<1>2. 2 ^ 24 = 16777216 /\ 2 ^ 16 = 65536
  BY SMT
<1>3. /\ n \div 16777216 = m \div 16777216
      /\ (n \div 65536) % 256 = (m \div 65536) % 256
      /\ (n % 65536) \div 256 = (m % 65536) \div 256
      /\ (n % 65536) % 256 = (m % 65536) % 256
  BY <1>1, <1>2, SMT
<1>4. n % 65536 = m % 65536
  BY <1>3, SMT
<1>5. \A k \in Int : /\ k \div 16777216 = (k \div 65536) \div 256
                     /\ k = (k \div 65536) * 65536 + (k % 65536)
  BY SMT
<1>6. n \div 65536 = m \div 65536
  BY <1>3, <1>5, SMT
<1>7. QED
  BY <1>4, <1>5, <1>6, SMT

LEMMA TokenIsInRange ==
  ASSUME NEW n \in 0..(2 ^ 25 - 1)
  PROVE  TokenInRange(Bytes32(n))
<1>1. 2 ^ 24 = 16777216 /\ n < 33554432
  BY Powers, SMT
<1>2. n \div 2 ^ 24 < 2
  BY <1>1, SMT
<1>3. Bytes32(n)[1] = n \div 2 ^ 24
  BY BytesOfNumber
<1>4. QED
  BY <1>2, <1>3 DEF TokenInRange

\* Two adjacent fields, together.
LEMMA FieldsJoin ==
  ASSUME NEW data \in Seq(Int), NEW i \in Nat, NEW w \in Nat, NEW v \in Nat,
         i + w + v <= Len(data)
  PROVE  Field(data, i, w) \o Field(data, i + w, v) = Field(data, i, w + v)
<1>1. Len(data) \in Nat
  OBVIOUS
<1>2. /\ i + 1 \in 1..(Len(data) + 1)
      /\ i + w \in ((i + 1) - 1)..Len(data)
      /\ i + w + v \in (i + w)..Len(data)
  BY <1>1, SMT
<1>3. SubSeq(data, i + 1, i + w) \o SubSeq(data, (i + w) + 1, i + w + v)
        = SubSeq(data, i + 1, i + w + v)
  BY <1>2, ConcatAdjacentSubSeq, Zenon
<1>4. i + (w + v) = i + w + v
  BY SMT
<1>5. QED
  BY <1>3, <1>4 DEF Field

\* A field has the bytes of the datagram at its place.
LEMMA FieldIs ==
  ASSUME NEW data \in Seq(Int), NEW i \in Nat, NEW w \in Nat, i + w <= Len(data)
  PROVE  /\ Field(data, i, w) \in Word(w) /\ Field(data, i, w) \in Seq(Int)
         /\ Len(Field(data, i, w)) = w
         /\ \A k \in 1..w : Field(data, i, w)[k] = data[i + k]
<1>1. Len(data) \in Nat /\ \A k \in 1..Len(data) : data[k] \in Int
  OBVIOUS
<1>2. \A k \in (i + 1)..(i + w) : data[k] \in Int
  BY <1>1, SMT
<1> DEFINE a == i + 1
           b == i + w
<1>3. a \in Int /\ b \in Int
  OBVIOUS
<1>4. /\ Field(data, i, w) \in Seq(Int)
      /\ Len(Field(data, i, w)) = IF a <= b THEN b - a + 1 ELSE 0
      /\ \A k \in 1..(b - a + 1) : Field(data, i, w)[k] = data[a + k - 1]
  <2> HIDE DEF a, b
  <2>1. /\ SubSeq(data, a, b) \in Seq(Int)
        /\ Len(SubSeq(data, a, b)) = IF a <= b THEN b - a + 1 ELSE 0
        /\ \A k \in 1..(b - a + 1) : SubSeq(data, a, b)[k] = data[a + k - 1]
    <3>1. \A k \in a..b : data[k] \in Int
      BY <1>2 DEF a, b
    <3>2. QED
      BY <1>3, <3>1, SubSeqProperties
  <2>2. SubSeq(data, a, b) = Field(data, i, w)
    BY DEF Field, a, b
  <2>3. QED
    BY <2>1, <2>2
<1>5. Len(Field(data, i, w)) = w
  BY <1>4, SMT
<1>6. \A k \in 1..w : Field(data, i, w)[k] = data[i + k]
  <2>1. b - a + 1 = w
    BY SMT
  <2>2. \A k \in 1..w : a + k - 1 = i + k
    BY SMT
  <2>3. QED
    BY <1>4, <2>1, <2>2
<1>7. Field(data, i, w) \in Word(w)
  BY <1>4, <1>5, SMT DEF Word
<1>8. QED
  BY <1>4, <1>5, <1>6, <1>7

LEMMA PrefixGrows ==
  ASSUME NEW data \in Seq(Int), NEW w \in Nat, NEW v \in Nat, NEW u \in Nat,
         u = w + v, u <= Len(data)
  PROVE  Field(data, 0, w) \o Field(data, w, v) = Field(data, 0, u)
<1>1. 0 + w = w /\ 0 + w + v = u
  BY SMT
<1>2. 0 \in Nat /\ 0 + w + v <= Len(data)
  BY <1>1
<1>3. Field(data, 0, w) \o Field(data, 0 + w, v) = Field(data, 0, w + v)
  BY <1>2, FieldsJoin, ZenonT(30)
<1>4. QED
  BY <1>1, <1>3, Zenon

LEMMA PairIsField ==
  ASSUME NEW data \in Seq(Int), Len(data) >= 18
  PROVE  <<data[17], data[18]>> = Field(data, 16, 2)
<1>1. Field(data, 16, 2) \in Word(2) /\ \A k \in 1..2 : Field(data, 16, 2)[k] = data[16 + k]
  BY FieldIs, SMT
<1>2. Field(data, 16, 2)[1] = data[17] /\ Field(data, 16, 2)[2] = data[18]
  BY <1>1, SMT
<1>3. QED
  BY <1>1, <1>2, SMT DEF Word

\* What is checked of a datagram that is accepted.
LEMMA AcceptedIs ==
  ASSUME NEW data \in Seq(Int), PacketError(data) = "none"
  PROVE  /\ Field(data, 0, 4) = INPUT_MAGIC /\ Field(data, 18, 2) = <<0, 0>>
         /\ \/ /\ Field(data, 4, 2) = LEGACY_INPUT_VERSION
               /\ Field(data, 6, 2) = Bytes16(V1_PACKET_SIZE) /\ Len(data) = 28
            \/ /\ Field(data, 4, 2) = INPUT_VERSION /\ INPUT_VERSION # LEGACY_INPUT_VERSION
               /\ Field(data, 6, 2) = Bytes16(PACKET_SIZE) /\ Len(data) = 32
               /\ TokenInRange(Field(data, 20, 4))
<1>1. INPUT_VERSION # LEGACY_INPUT_VERSION
  BY SMT DEF INPUT_VERSION, LEGACY_INPUT_VERSION
<1>2. Field(data, 4, 2) \in {LEGACY_INPUT_VERSION, INPUT_VERSION}
  BY DEF PacketError
<1>3. Field(data, 0, 4) = INPUT_MAGIC /\ Field(data, 18, 2) = <<0, 0>>
  BY DEF PacketError
<1>4. CASE Field(data, 4, 2) = LEGACY_INPUT_VERSION
  BY <1>3, <1>4 DEF PacketError, V1_PACKET_SIZE
<1>5. CASE Field(data, 4, 2) = INPUT_VERSION
  BY <1>1, <1>3, <1>5 DEF PacketError, PACKET_SIZE
<1>6. QED
  BY <1>2, <1>4, <1>5

\* A datagram that decode_packet accepts is what an encoder makes of the packet
\* that it returns (protocol.py:121).
LEMMA InputIsCanonical ==
  ASSUME NEW data \in Seq(Int), PacketError(data) = "none"
  PROVE  LET p == Unpack(data) IN
           IF p.session_token = Absent THEN data = EncodeLegacy(p)
                                       ELSE Encodable(p) /\ data = EncodePacket(p)
<1> DEFINE p == Unpack(data)
           Header == /\ Field(data, 0, 4) = INPUT_MAGIC /\ Field(data, 18, 2) = <<0, 0>>
           Legacy == /\ Field(data, 4, 2) = LEGACY_INPUT_VERSION
                     /\ Field(data, 6, 2) = Bytes16(V1_PACKET_SIZE) /\ Len(data) = 28
           Version2 == /\ Field(data, 4, 2) = INPUT_VERSION
                       /\ INPUT_VERSION # LEGACY_INPUT_VERSION
                       /\ Field(data, 6, 2) = Bytes16(PACKET_SIZE) /\ Len(data) = 32
                       /\ TokenInRange(Field(data, 20, 4))
<1>0. Header /\ (Legacy \/ Version2)
  BY AcceptedIs
<1>1. CASE Version2
  <2> HIDE DEF p
  <2>0. Len(data) = 32
    BY <1>1
  <2>1. /\ Field(data, 0, 4) = INPUT_MAGIC
        /\ Field(data, 6, 2) = Bytes16(PACKET_SIZE) /\ Field(data, 18, 2) = <<0, 0>>
        /\ TokenInRange(Field(data, 20, 4))
    BY <1>0, <1>1
  <2>2. /\ p.session_token = Field(data, 20, 4) /\ p.sequence = Field(data, 8, 4)
        /\ p.buttons = Field(data, 12, 4) /\ p.analog_x = data[17] /\ p.analog_y = data[18]
        /\ p.reserved = Field(data, 18, 2) /\ p.timestamp_us = Field(data, 24, 8)
    BY <1>1 DEF Unpack, p
  <2>3. p.session_token # Absent
    <3>1. 20 + 4 <= Len(data) /\ 20 \in Nat /\ 4 \in Nat
      BY <2>0
    <3>2. Len(Field(data, 20, 4)) = 4
      BY <3>1, FieldIs, Zenon
    <3>3. Len(Absent) = 0 /\ 4 # 0
      BY DEF Absent
    <3>4. Field(data, 20, 4) # Absent
      BY <3>2, <3>3, Zenon
    <3>5. QED
      BY <2>2, <3>4, Zenon
  <2>4. Encodable(p)
    BY <2>1, <2>2, <2>3 DEF Encodable
  <2>5. EncodePacket(p)
          = Field(data, 0, 4) \o Field(data, 4, 2) \o Field(data, 6, 2)
              \o Field(data, 8, 4) \o Field(data, 12, 4) \o Field(data, 16, 2)
              \o Field(data, 18, 2) \o Field(data, 20, 4) \o Field(data, 24, 8)
    <3>1. <<p.analog_x, p.analog_y>> = Field(data, 16, 2)
      <4>1. Len(data) >= 18
        BY <2>0
      <4>2. QED
        BY <2>2, <4>1, PairIsField, Zenon
    <3>2. QED
      BY <1>1, <2>1, <2>2, <3>1 DEF EncodePacket
  <2>6. /\ Field(data, 0, 4) \o Field(data, 4, 2) = Field(data, 0, 6)
        /\ Field(data, 0, 6) \o Field(data, 6, 2) = Field(data, 0, 8)
        /\ Field(data, 0, 8) \o Field(data, 8, 4) = Field(data, 0, 12)
        /\ Field(data, 0, 12) \o Field(data, 12, 4) = Field(data, 0, 16)
        /\ Field(data, 0, 16) \o Field(data, 16, 2) = Field(data, 0, 18)
        /\ Field(data, 0, 18) \o Field(data, 18, 2) = Field(data, 0, 20)
        /\ Field(data, 0, 20) \o Field(data, 20, 4) = Field(data, 0, 24)
        /\ Field(data, 0, 24) \o Field(data, 24, 8) = Field(data, 0, 32)
    <3> DEFINE Grow(w, v, u) == Field(data, 0, w) \o Field(data, w, v) = Field(data, 0, u)
    <3>1. \A w, v, u \in Nat : u = w + v /\ u <= 32 => Grow(w, v, u)
      BY <2>0, PrefixGrows, ZenonT(30)
    <3> HIDE DEF Grow
    <3>2. Grow(4, 2, 6)
      BY <3>1, SMT
    <3>3. Grow(6, 2, 8)
      BY <3>1, SMT
    <3>4. Grow(8, 4, 12)
      BY <3>1, SMT
    <3>5. Grow(12, 4, 16)
      BY <3>1, SMT
    <3>6. Grow(16, 2, 18)
      BY <3>1, SMT
    <3>7. Grow(18, 2, 20)
      BY <3>1, SMT
    <3>8. Grow(20, 4, 24)
      BY <3>1, SMT
    <3>9. Grow(24, 8, 32)
      BY <3>1, SMT
    <3>10. QED
      BY <3>2, <3>3, <3>4, <3>5, <3>6, <3>7, <3>8, <3>9 DEF Grow
  <2>7. Field(data, 0, 32) = data
    BY <2>0, SubSeqFull DEF Field
  <2>8. data = EncodePacket(p)
    BY <2>5, <2>6, <2>7
  <2>9. QED
    BY <2>3, <2>4, <2>8 DEF p
<1>2. CASE Legacy
  <2> HIDE DEF p
  <2>0. Len(data) = 28
    BY <1>2
  <2>1. /\ Field(data, 0, 4) = INPUT_MAGIC
        /\ Field(data, 4, 2) = LEGACY_INPUT_VERSION
        /\ Field(data, 6, 2) = Bytes16(V1_PACKET_SIZE) /\ Field(data, 18, 2) = <<0, 0>>
    BY <1>0, <1>2
  <2>2. /\ p.session_token = Absent /\ p.sequence = Field(data, 8, 4)
        /\ p.buttons = Field(data, 12, 4) /\ p.analog_x = data[17] /\ p.analog_y = data[18]
        /\ p.timestamp_us = Field(data, 20, 8)
    <3>1. Field(data, 4, 2) # INPUT_VERSION
      BY <1>2, SMT DEF INPUT_VERSION, LEGACY_INPUT_VERSION
    <3>2. QED
      BY <3>1 DEF Unpack, p
  <2>3. <<p.analog_x, p.analog_y, 0, 0>> = Field(data, 16, 4)
    <3>1. data[17] \in Int /\ data[18] \in Int
      <4>1. 17 \in 1..Len(data) /\ 18 \in 1..Len(data)
        BY <2>0
      <4>2. QED
        BY <4>1, ElementOfSeq, Zenon
    <3>2. <<data[17], data[18]>> \o <<0, 0>> = <<data[17], data[18], 0, 0>>
      BY <3>1, PairsJoin
    <3>3. Field(data, 16, 2) \o Field(data, 18, 2) = Field(data, 16, 4)
      <4>1. /\ 16 \in Nat /\ 2 \in Nat /\ 16 + 2 = 18 /\ 2 + 2 = 4
            /\ 16 + 2 + 2 <= Len(data)
        BY <2>0
      <4>2. QED
        BY <4>1, FieldsJoin, Zenon
    <3>4. <<data[17], data[18]>> = Field(data, 16, 2)
      <4>1. Len(data) >= 18
        BY <2>0
      <4>2. QED
        BY <4>1, PairIsField, Zenon
    <3>5. QED
      BY <2>1, <2>2, <3>2, <3>3, <3>4
  <2>4. EncodeLegacy(p)
          = Field(data, 0, 4) \o Field(data, 4, 2) \o Field(data, 6, 2)
              \o Field(data, 8, 4) \o Field(data, 12, 4) \o Field(data, 16, 4)
              \o Field(data, 20, 8)
    BY <2>1, <2>2, <2>3 DEF EncodeLegacy
  <2>5. /\ Field(data, 0, 4) \o Field(data, 4, 2) = Field(data, 0, 6)
        /\ Field(data, 0, 6) \o Field(data, 6, 2) = Field(data, 0, 8)
        /\ Field(data, 0, 8) \o Field(data, 8, 4) = Field(data, 0, 12)
        /\ Field(data, 0, 12) \o Field(data, 12, 4) = Field(data, 0, 16)
        /\ Field(data, 0, 16) \o Field(data, 16, 4) = Field(data, 0, 20)
        /\ Field(data, 0, 20) \o Field(data, 20, 8) = Field(data, 0, 28)
    <3> DEFINE Grow(w, v, u) == Field(data, 0, w) \o Field(data, w, v) = Field(data, 0, u)
    <3>1. \A w, v, u \in Nat : u = w + v /\ u <= 28 => Grow(w, v, u)
      BY <2>0, PrefixGrows, ZenonT(30)
    <3> HIDE DEF Grow
    <3>2. Grow(4, 2, 6)
      BY <3>1, SMT
    <3>3. Grow(6, 2, 8)
      BY <3>1, SMT
    <3>4. Grow(8, 4, 12)
      BY <3>1, SMT
    <3>5. Grow(12, 4, 16)
      BY <3>1, SMT
    <3>6. Grow(16, 4, 20)
      BY <3>1, SMT
    <3>7. Grow(20, 8, 28)
      BY <3>1, SMT
    <3>8. QED
      BY <3>2, <3>3, <3>4, <3>5, <3>6, <3>7 DEF Grow
  <2>6. Field(data, 0, 28) = data
    BY <2>0, SubSeqFull DEF Field
  <2>7. data = EncodeLegacy(p)
    BY <2>4, <2>5, <2>6
  <2>8. QED
    BY <2>2, <2>7 DEF p
<1>3. QED
  BY <1>0, <1>1, <1>2

\* What the header of an answer is made of.
LEMMA HeaderParts ==
  ASSUME NEW data \in Seq(Int), NEW m \in Seq(Int), NEW r \in Seq(Int), NEW z \in Seq(Int)
  PROVE  /\ Len(m) = 4 /\ Len(r) = 2 /\ Len(data) >= 8
         /\ Field(data, 0, 8) = (m \o r) \o z
         => Field(data, 0, 4) = m /\ Field(data, 4, 2) = r /\ Field(data, 6, 2) = z
<1> DEFINE a == Field(data, 0, 4)
           b == Field(data, 4, 2)
           c == Field(data, 0, 6)
           d == Field(data, 6, 2)
           mr == m \o r
<1>1. SUFFICES ASSUME Len(m) = 4, Len(r) = 2, Len(data) >= 8,
                      Field(data, 0, 8) = (m \o r) \o z
               PROVE  a = m /\ b = r /\ d = z
  BY Zenon
<1>2. mr \in Seq(Int) /\ Len(mr) = 6
  <2>1. mr \in Seq(Int) /\ Len(mr) = Len(m) + Len(r)
    BY ConcatProperties, Zenon
  <2>2. QED
    BY <1>1, <2>1, 4 + 2 = 6, Zenon
<1>3. /\ 0 \in Nat /\ 2 \in Nat /\ 4 \in Nat /\ 6 \in Nat /\ 8 \in Nat
      /\ 6 = 4 + 2 /\ 8 = 6 + 2
      /\ 0 + 4 <= Len(data) /\ 0 + 6 <= Len(data) /\ 6 <= Len(data) /\ 8 <= Len(data)
      /\ 4 + 2 <= Len(data) /\ 6 + 2 <= Len(data)
  BY <1>1, LenProperties
<1>4. a \in Seq(Int) /\ Len(a) = 4 /\ b \in Seq(Int)
  BY <1>3, FieldIs, Zenon
<1>5. c \in Seq(Int) /\ Len(c) = 6 /\ d \in Seq(Int)
  BY <1>3, FieldIs, Zenon
<1>6. a \o b = c /\ c \o d = Field(data, 0, 8)
  <2> DEFINE Grow(w, v, u) == Field(data, 0, w) \o Field(data, w, v) = Field(data, 0, u)
  <2>1. \A w, v, u \in Nat : u = w + v /\ u <= 8 => Grow(w, v, u)
    <3>1. ASSUME NEW w \in Nat, NEW v \in Nat, NEW u \in Nat, u = w + v, u <= 8
          PROVE  Grow(w, v, u)
      <4>1. u <= Len(data)
        BY <1>1, <3>1, LenProperties, SMT
      <4>2. QED
        BY <3>1, <4>1, PrefixGrows, ZenonT(30)
    <3>2. QED
      BY <3>1
  <2> HIDE DEF Grow
  <2>2. Grow(4, 2, 6)
    BY <2>1, SMT
  <2>3. Grow(6, 2, 8)
    BY <2>1, SMT
  <2>4. QED
    BY <2>2, <2>3 DEF Grow
<1>7. c \o d = mr \o z
  BY <1>1, <1>6, Zenon
<1> HIDE DEF a, b, c, d, mr
<1>8. c = mr /\ d = z
  BY <1>2, <1>5, <1>7, SplitEqual, Zenon
<1>9. a = m /\ b = r
  <2>1. a \o b = m \o r
    BY <1>6, <1>8, Zenon DEF mr
  <2>2. Len(a) = Len(m)
    BY <1>1, <1>4, Zenon
  <2>3. QED
    BY <1>4, <2>1, <2>2, SplitEqual, Zenon
<1>10. QED
  BY <1>8, <1>9

\* An answer that the PSP takes for its own is one of its own token, which
\* decode_pairing_ack takes too.
LEMMA AckIsCanonical ==
  ASSUME NEW data \in Seq(Int), NEW n \in 0..(2 ^ 25 - 1),
         PspPairingAckMatches(data, Bytes32(n))
  PROVE  DecodePairingAckError(data) = "none" /\ data = EncodePairingAck(Bytes32(n))
<1> DEFINE m == PAIRING_ACK_MAGIC
           r == PAIRING_ACK_VERSION
           z == Bytes16(PAIRING_ACK_SIZE)
<1>1. Len(data) = 12 /\ Field(data, 0, 8) = (m \o r) \o z /\ Field(data, 8, 4) = Bytes32(n)
  BY DEF PspPairingAckMatches, PAIRING_ACK_SIZE
<1>2. /\ m \in Seq(Int) /\ Len(m) = 4 /\ r \in Seq(Int) /\ Len(r) = 2 /\ z \in Seq(Int)
  BY SMT DEF PAIRING_ACK_MAGIC, PAIRING_ACK_VERSION, PAIRING_ACK_SIZE, Bytes16
<1> HIDE DEF m, r, z
<1>3. Field(data, 0, 4) = m /\ Field(data, 4, 2) = r /\ Field(data, 6, 2) = z
  <2>1. Len(data) >= 8
    BY <1>1
  <2>2. QED
    BY <1>1, <1>2, <2>1, HeaderParts, Zenon
<1>4. TokenInRange(Field(data, 8, 4))
  BY <1>1, TokenIsInRange
<1>5. DecodePairingAckError(data) = "none"
  BY <1>1, <1>3, <1>4 DEF DecodePairingAckError, PAIRING_ACK_SIZE, m, r, z
<1>6. data = EncodePairingAck(Bytes32(n))
  <2>1. Field(data, 0, 8) \o Field(data, 8, 4) = Field(data, 0, 12)
    <3>1. 8 \in Nat /\ 4 \in Nat /\ 12 \in Nat /\ 12 = 8 + 4 /\ 12 <= Len(data)
      BY <1>1
    <3>2. QED
      BY <3>1, PrefixGrows
  <2>2. Field(data, 0, 12) = data
    BY <1>1, SubSeqFull DEF Field
  <2>3. QED
    BY <1>1, <2>1, <2>2 DEF EncodePairingAck, m, r, z
<1>7. QED
  BY <1>5, <1>6

\* A datagram put together from two parts gives them back.
LEMMA PartsOfConcat ==
  ASSUME NEW s \in Seq(Int), NEW t \in Seq(Int)
  PROVE  /\ s \o t \in Seq(Int) /\ Len(s \o t) = Len(s) + Len(t)
         /\ Field(s \o t, 0, Len(s)) = s
         /\ Field(s \o t, Len(s), Len(t)) = t
<1> DEFINE f == s \o t
           a == Len(s)
           b == Len(t)
           p == Field(f, 0, a)
           q == Field(f, a, b)
<1>1. a \in Nat /\ b \in Nat
  BY LenProperties
<1>2. f \in Seq(Int) /\ Len(f) = a + b
  BY ConcatProperties, Zenon
<1> HIDE DEF f
<1>3. p \in Seq(Int) /\ Len(p) = a /\ q \in Seq(Int)
  <2>1. 0 \in Nat /\ 0 + a <= Len(f) /\ a + b <= Len(f)
    BY <1>1, <1>2, SMT
  <2>2. QED
    BY <1>1, <1>2, <2>1, FieldIs, ZenonT(30)
<1>4. p \o q = f
  <2>1. a + b \in Nat /\ a + b <= Len(f)
    BY <1>1, <1>2, SMT
  <2>2. p \o q = Field(f, 0, a + b)
    BY <1>1, <1>2, <2>1, PrefixGrows, ZenonT(30)
  <2>3. Field(f, 0, a + b) = SubSeq(f, 1, Len(f))
    BY <1>2, <2>1 DEF Field
  <2>4. SubSeq(f, 1, Len(f)) = f
    BY <1>2, SubSeqFull
  <2>5. QED
    BY <2>2, <2>3, <2>4, Zenon
<1>5. p = s /\ q = t
  <2>1. p \o q = s \o t /\ Len(p) = Len(s)
    BY <1>3, <1>4 DEF f
  <2> HIDE DEF p, q
  <2>2. QED
    BY <1>3, <2>1, SplitEqual, Zenon
<1>6. QED
  BY <1>2, <1>5 DEF f

\* The bulk frames of the cable carry a datagram unchanged (usb_transport.py:104,
\* 114).
LEMMA CableIsExact ==
  ASSUME NEW d \in Seq(Int)
  PROVE  EncodeAsyncPayload(d) \in Seq(Int) /\ DecodeAsyncPayload(EncodeAsyncPayload(d)) = d
<1> DEFINE h == USBHOSTFS_ASYNC_MAGIC \o USBHOSTFS_ASYNC_CHANNEL
           e == h \o d
<1>1. h \in Seq(Int) /\ Len(h) = 8
  <2> DEFINE x == USBHOSTFS_ASYNC_MAGIC
             y == USBHOSTFS_ASYNC_CHANNEL
  <2>1. x \in Seq(Int) /\ Len(x) = 4 /\ y \in Seq(Int) /\ Len(y) = 4
    BY SMT DEF USBHOSTFS_ASYNC_MAGIC, USBHOSTFS_ASYNC_CHANNEL
  <2> HIDE DEF x, y
  <2>2. x \o y \in Seq(Int) /\ Len(x \o y) = 8
    <3>1. x \o y \in Seq(Int) /\ Len(x \o y) = Len(x) + Len(y)
      BY <2>1, ConcatProperties, Zenon
    <3>2. QED
      BY <2>1, <3>1, 4 + 4 = 8, Zenon
  <2>3. QED
    BY <2>2 DEF x, y
<1> HIDE DEF h
<1>2. Len(d) \in Nat
  BY LenProperties
<1>3. /\ e \in Seq(Int) /\ Len(e) = 8 + Len(d)
      /\ Field(e, 0, 8) = h /\ Field(e, 8, Len(d)) = d
  BY <1>1, PartsOfConcat
<1> HIDE DEF e
<1>4. EncodeAsyncPayload(d) = e
  BY DEF EncodeAsyncPayload, e, h
<1>5. DecodeAsyncPayload(e) = SubSeq(e, 9, Len(e))
  <2>1. Len(e) >= 8
    BY <1>2, <1>3, SMT
  <2>2. QED
    BY <1>3, <2>1 DEF DecodeAsyncPayload, h
<1>6. SubSeq(e, 9, Len(e)) = Field(e, 8, Len(d))
  <2>1. 8 + 1 = 9
    OBVIOUS
  <2>2. QED
    BY <1>3, <2>1 DEF Field
<1>7. QED
  BY <1>3, <1>4, <1>5, <1>6

LEMMA PayloadIsBytes ==
  ASSUME NEW data \in Seq(Int), NEW link
  PROVE  Payload(link, data) \in Seq(Int)
<1>1. CASE link # "USB"
  BY <1>1 DEF Payload
<1>2. CASE link = "USB"
  <2>1. Len(data) \in Nat /\ \A k \in 1..Len(data) : data[k] \in Int
    BY LenProperties, ElementOfSeq
  <2>2. \A k \in 9..Len(data) : data[k] \in Int
    BY <2>1, SMT
  <2>3. SubSeq(data, 9, Len(data)) \in Seq(Int)
    BY <2>1, <2>2, SubSeqProperties
  <2>4. Absent \in Seq(Int)
    BY DEF Absent
  <2>5. QED
    BY <1>2, <2>3, <2>4 DEF Payload, DecodeAsyncPayload
<1>3. QED
  BY <1>1, <1>2

LEMMA CarriedIsExact ==
  ASSUME NEW d \in Seq(Int), NEW link
  PROVE  Carried(link, d) \in Seq(Int) /\ Payload(link, Carried(link, d)) = d
BY CableIsExact DEF Carried, Payload

\* An acknowledgement matches only the token that it was made of.
LEMMA AckIsOfToken ==
  ASSUME NEW x \in Word(4), NEW y, PspPairingAckMatches(EncodePairingAck(x), y)
  PROVE  x = y
<1> DEFINE m == PAIRING_ACK_MAGIC
           r == PAIRING_ACK_VERSION
           z == Bytes16(PAIRING_ACK_SIZE)
           h == (m \o r) \o z
<1>1. /\ m \in Seq(Int) /\ Len(m) = 4 /\ r \in Seq(Int) /\ Len(r) = 2
      /\ z \in Seq(Int) /\ Len(z) = 2
  BY SMT DEF PAIRING_ACK_MAGIC, PAIRING_ACK_VERSION, PAIRING_ACK_SIZE, Bytes16
<1> HIDE DEF m, r, z
<1>2. h \in Seq(Int) /\ Len(h) = 8
  <2> DEFINE mr == m \o r
  <2>1. mr \in Seq(Int) /\ Len(mr) = Len(m) + Len(r)
    BY <1>1, ConcatProperties, Zenon
  <2> HIDE DEF mr
  <2>2. mr \o z \in Seq(Int) /\ Len(mr \o z) = Len(mr) + Len(z)
    BY <1>1, <2>1, ConcatProperties, Zenon
  <2>3. h = mr \o z
    BY DEF mr
  <2>4. Len(mr) = 6
    BY <1>1, <2>1, 4 + 2 = 6, Zenon
  <2>5. QED
    BY <1>1, <2>2, <2>3, <2>4, 6 + 2 = 8, Zenon
<1> HIDE DEF h
<1>3. x \in Seq(Int) /\ Len(x) = 4
  <2>1. 4 \in Nat
    OBVIOUS
  <2>2. QED
    BY <2>1, WordIsBytes, Zenon
<1>4. Field(h \o x, 8, 4) = x
  BY <1>2, <1>3, PartsOfConcat
<1>5. EncodePairingAck(x) = h \o x
  BY DEF EncodePairingAck, h, m, r, z
<1>6. QED
  BY <1>4, <1>5 DEF PspPairingAckMatches

LEMMA AckIsBytes ==
  ASSUME NEW x \in Seq(Int)
  PROVE  EncodePairingAck(x) \in Seq(Int)
<1>1. /\ PAIRING_ACK_MAGIC \in Seq(Int) /\ PAIRING_ACK_VERSION \in Seq(Int)
      /\ Bytes16(PAIRING_ACK_SIZE) \in Seq(Int)
  BY SMT DEF PAIRING_ACK_MAGIC, PAIRING_ACK_VERSION, PAIRING_ACK_SIZE, Bytes16
<1>2. QED
  BY <1>1, ConcatProperties, Zenon DEF EncodePairingAck

LEMMA BytesAreWord ==
  ASSUME NEW x \in Seq(Int), NEW n \in Nat, Len(x) = n
  PROVE  x \in Word(n)
BY DEF Word

\* A field of a datagram is a word if it has its bytes.
LEMMA SameField ==
  ASSUME NEW data \in Seq(Int), NEW i \in Nat, NEW w \in Nat, NEW x \in Word(w)
  PROVE  i + w <= Len(data) /\ (\A k \in 1..w : data[i + k] = x[k]) => Field(data, i, w) = x
<1>1. SUFFICES ASSUME i + w <= Len(data), \A k \in 1..w : data[i + k] = x[k]
               PROVE  Field(data, i, w) = x
  BY Zenon
<1> DEFINE f == Field(data, i, w)
<1>2. f \in Word(w) /\ \A k \in 1..w : f[k] = data[i + k]
  BY <1>1, FieldIs, Zenon
<1> HIDE DEF f
<1>3. \A k \in 1..w : f[k] = x[k]
  BY <1>1, <1>2, Zenon
<1>4. f = x
  BY <1>2, <1>3 DEF Word
<1>5. QED
  BY <1>4 DEF f

LEMMA BitBytesAreWord ==
  ASSUME NEW bit \in 0..9
  PROVE  BitBytes(bit) \in Word(4)
<1> DEFINE b == bit % 8
           c == 4 - bit \div 8
<1>1. b \in 0..7
  BY SMT
<1>2. \A k \in 0..7 : 2 ^ k \in Int
  <2>1. /\ 2 ^ 0 = 1 /\ 2 ^ 1 = 2 /\ 2 ^ 2 = 4 /\ 2 ^ 3 = 8
        /\ 2 ^ 4 = 16 /\ 2 ^ 5 = 32 /\ 2 ^ 6 = 64 /\ 2 ^ 7 = 128
    BY SMT
  <2>2. \A k \in 0..7 : k = 0 \/ k = 1 \/ k = 2 \/ k = 3 \/ k = 4 \/ k = 5 \/ k = 6 \/ k = 7
    BY SMT
  <2>3. QED
    BY <2>1, <2>2, SMT
<1>3. 2 ^ b \in Int
  BY <1>1, <1>2
<1>4. BitBytes(bit) = [i \in 1..4 |-> IF i = c THEN 2 ^ b ELSE 0]
  BY DEF BitBytes
<1> HIDE DEF b, c
<1>5. QED
  BY <1>3, <1>4 DEF Word

LEMMA ButtonsOfPattern ==
  ASSUME NEW i \in 1..12
  PROVE  BUTTON_PATTERN[i] \in Word(4)
<1> DEFINE S == Word(4)
           o == <<0, 3, 1, 2, 4, 5, 6, 7, 8, 9>>
           s == <<<<0, 0, 0, 0>>>>
           t == [k \in 1..10 |-> BitBytes(o[k])]
           u == <<<<0, 0, 12, 0>>>>
           st == s \o t
<1>1. s \in Seq(S) /\ Len(s) = 1 /\ u \in Seq(S) /\ Len(u) = 1
  <2>1. <<0, 0, 0, 0>> \in S /\ <<0, 0, 12, 0>> \in S
    BY DEF Word
  <2> HIDE DEF S
  <2>2. QED
    BY <2>1
<1>2. t \in Seq(S) /\ Len(t) = 10
  <2>1. \A k \in 1..10 : o[k] \in 0..9
    BY SMT
  <2> HIDE DEF o
  <2>2. \A k \in 1..10 : BitBytes(o[k]) \in S
    BY <2>1, BitBytesAreWord
  <2> HIDE DEF S
  <2>3. QED
    BY <2>2
<1>3. BUTTON_PATTERN = st \o u
  BY DEF BUTTON_PATTERN
<1> HIDE DEF S, s, t, u
<1>4. st \in Seq(S) /\ Len(st) = 11
  <2>1. st \in Seq(S) /\ Len(st) = Len(s) + Len(t)
    BY <1>1, <1>2, ConcatProperties, Zenon
  <2>2. QED
    BY <1>1, <1>2, <2>1, 1 + 10 = 11, Zenon
<1> HIDE DEF st
<1>5. st \o u \in Seq(S) /\ Len(st \o u) = 12
  <2>1. st \o u \in Seq(S) /\ Len(st \o u) = Len(st) + Len(u)
    BY <1>1, <1>4, ConcatProperties, Zenon
  <2>2. QED
    BY <1>1, <1>4, <2>1, 11 + 1 = 12, Zenon
<1>6. (st \o u)[i] \in S
  <2>1. i \in 1..Len(st \o u)
    BY <1>5
  <2>2. QED
    BY <1>5, <2>1, ElementOfSeq, Zenon
<1>7. QED
  BY <1>3, <1>6 DEF S

\* The values of the fields of a packet that a PSP sends.
Controls ==
  [sequence : Word(4), buttons : Word(4), analog_x : 0..255, analog_y : 0..255,
   reserved : {<<0, 0>>}, session_token : Word(4), timestamp_us : Word(8)]

LEMMA ClockIsWord ==
  ASSUME NEW index \in Nat
  PROVE  Clock(index) \in Word(8)
<1> DEFINE s == <<0, 0>>
           t == Bytes32(index)
           u == <<1, 2>>
           st == s \o t
<1>1. s \in Seq(Int) /\ Len(s) = 2 /\ u \in Seq(Int) /\ Len(u) = 2
  OBVIOUS
<1>2. t \in Seq(Int) /\ Len(t) = 4
  <2>1. t \in Word(4) /\ 4 \in Nat
    BY BytesOfNumber
  <2>2. QED
    BY <2>1, WordIsBytes, Zenon
<1>3. Clock(index) = st \o u
  BY DEF Clock
<1> HIDE DEF s, t, u
<1>4. st \in Seq(Int) /\ Len(st) = 6
  <2>1. st \in Seq(Int) /\ Len(st) = Len(s) + Len(t)
    BY <1>1, <1>2, ConcatProperties, Zenon
  <2>2. QED
    BY <1>1, <1>2, <2>1, 2 + 4 = 6, Zenon
<1> HIDE DEF st
<1>5. st \o u \in Seq(Int) /\ Len(st \o u) = 8
  <2>1. st \o u \in Seq(Int) /\ Len(st \o u) = Len(st) + Len(u)
    BY <1>1, <1>4, ConcatProperties, Zenon
  <2>2. QED
    BY <1>1, <1>4, <2>1, 6 + 2 = 8, Zenon
<1>6. QED
  <2>1. 8 \in Nat
    OBVIOUS
  <2>2. QED
    BY <1>3, <1>5, <2>1, BytesAreWord, Zenon

LEMMA PacketIsControls ==
  ASSUME NEW index \in Nat, token \in 0..(2 ^ 25 - 1)
  PROVE  Packet(index) \in Controls /\ Packet(index).session_token = Bytes32(token)
<1> DEFINE x == (index * 5) % 256
           i == ((index \div 30) % 12) + 1
           t == Bytes32(token)
           q == Bytes32(index)
           b == BUTTON_PATTERN[i]
           k == Clock(index)
<1>1. x \in 0..255 /\ 255 - x \in 0..255 /\ i \in 1..12
  BY SMT
<1>2. t \in Word(4) /\ q \in Word(4)
  <2>1. token \in Int /\ index \in Int
    OBVIOUS
  <2>2. QED
    BY <2>1, BytesOfNumber
<1>3. b \in Word(4)
  BY <1>1, ButtonsOfPattern
<1>4. k \in Word(8)
  BY ClockIsWord
<1>5. Packet(index) = [sequence |-> q, buttons |-> b, analog_x |-> x,
                       analog_y |-> 255 - x, reserved |-> <<0, 0>>,
                       session_token |-> t, timestamp_us |-> k]
  BY DEF Packet, BuildDemoPacket
<1> DEFINE y == 255 - x
<1>6. y \in 0..255
  BY <1>1
<1>7. Packet(index) = [sequence |-> q, buttons |-> b, analog_x |-> x,
                       analog_y |-> y, reserved |-> <<0, 0>>,
                       session_token |-> t, timestamp_us |-> k]
  BY <1>5
<1> HIDE DEF x, y, i, t, q, b, k
<1>8. QED
  BY <1>1, <1>2, <1>3, <1>4, <1>6, <1>7 DEF Controls, t

\* A packet in version 2 as psp_input_encode writes it, byte by byte.
LEMMA EncodedIs ==
  ASSUME NEW p \in Controls
  PROVE  LET d == PspInputEncode(p) IN
         /\ d \in Seq(Int) /\ Len(d) = 32
         /\ d[5] = 0 /\ d[6] = 2
         /\ \A k \in 1..4 : d[12 + k] = p.buttons[k]
         /\ d[17] = p.analog_x /\ d[18] = p.analog_y
         /\ \A k \in 1..4 : d[20 + k] = p.session_token[k]
<1> DEFINE d == PspInputEncode(p)
           m == INPUT_MAGIC
           w == INPUT_VERSION
           z == Bytes16(PACKET_SIZE)
           F(i) == CASE i <= 4        -> m[i]
                     [] i \in 5..6    -> w[i - 4]
                     [] i \in 7..8    -> z[i - 6]
                     [] i \in 9..12   -> p.sequence[i - 8]
                     [] i \in 13..16  -> p.buttons[i - 12]
                     [] i = 17        -> p.analog_x
                     [] i = 18        -> p.analog_y
                     [] i \in 19..20  -> 0
                     [] i \in 21..24  -> p.session_token[i - 20]
                     [] i \in 25..32  -> p.timestamp_us[i - 24]
<1>1. d = [i \in 1..32 |-> F(i)]
  BY DEF PspInputEncode, PACKET_SIZE
<1>2. m \in Word(4) /\ w \in Word(2) /\ z \in Word(2) /\ w[1] = 0 /\ w[2] = 2
  BY SMT DEF INPUT_MAGIC, INPUT_VERSION, PACKET_SIZE, Bytes16, Word
<1>3. /\ p.sequence \in Word(4) /\ p.buttons \in Word(4) /\ p.session_token \in Word(4)
      /\ p.timestamp_us \in Word(8) /\ p.analog_x \in Int /\ p.analog_y \in Int
  BY DEF Controls
<1> DEFINE q == p.sequence
           b == p.buttons
           t == p.session_token
           c == p.timestamp_us
           x == p.analog_x
           y == p.analog_y
<1> HIDE DEF m, w, z, q, b, t, c, x, y
<1>4. /\ \A i \in 1..4 : F(i) = m[i] /\ F(20 + i) = t[i] /\ F(12 + i) = b[i] /\ F(8 + i) = q[i]
      /\ \A i \in 1..2 : F(4 + i) = w[i] /\ F(6 + i) = z[i] /\ F(18 + i) = 0
      /\ \A i \in 1..8 : F(24 + i) = c[i]
      /\ F(17) = x /\ F(18) = y
  BY SMT DEF q, b, t, c, x, y
<1> HIDE DEF F
<1>5. \A i \in 1..32 : F(i) \in Int
  <2> TAKE i \in 1..32
  <2>1. CASE i \in 1..4
    BY <1>2, <1>4, <2>1 DEF Word
  <2>2. CASE i \in 5..8
    <3>1. (i - 4 \in 1..2 /\ i = 4 + (i - 4)) \/ (i - 6 \in 1..2 /\ i = 6 + (i - 6))
      BY <2>2, SMT
    <3>2. \A j \in 1..2 : w[j] \in Int /\ z[j] \in Int
      BY <1>2 DEF Word
    <3>3. QED
      BY <1>4, <3>1, <3>2
  <2>3. CASE i \in 9..16
    <3>1. (i - 8 \in 1..4 /\ i = 8 + (i - 8)) \/ (i - 12 \in 1..4 /\ i = 12 + (i - 12))
      BY <2>3, SMT
    <3>2. \A j \in 1..4 : q[j] \in Int /\ b[j] \in Int
      BY <1>3 DEF q, b, Word
    <3>3. QED
      BY <1>4, <3>1, <3>2
  <2>4. CASE i \in 17..20
    <3>1. i = 17 \/ i = 18 \/ (i - 18 \in 1..2 /\ i = 18 + (i - 18))
      BY <2>4, SMT
    <3>2. x \in Int /\ y \in Int
      BY <1>3 DEF x, y
    <3>3. QED
      BY <1>4, <3>1, <3>2
  <2>5. CASE i \in 21..24
    <3>1. i - 20 \in 1..4 /\ i = 20 + (i - 20)
      BY <2>5, SMT
    <3>2. \A j \in 1..4 : t[j] \in Int
      BY <1>3 DEF t, Word
    <3>3. QED
      BY <1>4, <3>1, <3>2
  <2>6. CASE i \in 25..32
    <3>1. i - 24 \in 1..8 /\ i = 24 + (i - 24)
      BY <2>6, SMT
    <3>2. \A j \in 1..8 : c[j] \in Int
      BY <1>3 DEF c, Word
    <3>3. QED
      BY <1>4, <3>1, <3>2
  <2>7. QED
    BY <2>1, <2>2, <2>3, <2>4, <2>5, <2>6, SMT
<1>6. d \in Word(32)
  BY <1>1, <1>5 DEF Word
<1>7. d \in Seq(Int) /\ Len(d) = 32
  <2>1. 32 \in Nat
    OBVIOUS
  <2> HIDE DEF d
  <2>2. QED
    BY <1>6, <2>1, WordIsBytes, Zenon
<1>8. \A i \in 1..32 : d[i] = F(i)
  BY <1>1
<1> HIDE DEF d
<1>9. d[5] = 0 /\ d[6] = 2
  <2>1. F(5) = w[1] /\ F(6) = w[2]
    <3>1. 4 + 1 = 5 /\ 4 + 2 = 6
      OBVIOUS
    <3>2. QED
      BY <1>4, <3>1
  <2>2. QED
    BY <1>2, <1>8, <2>1
<1>10. /\ \A k \in 1..4 : d[12 + k] = b[k] /\ d[20 + k] = t[k]
       /\ d[17] = x /\ d[18] = y
  <2>1. \A k \in 1..4 : 12 + k \in 1..32 /\ 20 + k \in 1..32
    BY SMT
  <2>2. QED
    BY <1>4, <1>8, <2>1
<1>11. QED
  BY <1>7, <1>9, <1>10 DEF d, b, t, x, y

LEMMA UnpackEncoded ==
  ASSUME NEW p \in Controls
  PROVE  LET u == Unpack(PspInputEncode(p)) IN
         /\ u.session_token = p.session_token /\ u.buttons = p.buttons
         /\ u.analog_x = p.analog_x /\ u.analog_y = p.analog_y
<1> DEFINE d == PspInputEncode(p)
           b == p.buttons
           t == p.session_token
<1>1. /\ d \in Seq(Int) /\ Len(d) = 32 /\ d[5] = 0 /\ d[6] = 2
      /\ \A k \in 1..4 : d[12 + k] = b[k] /\ d[20 + k] = t[k]
      /\ d[17] = p.analog_x /\ d[18] = p.analog_y
  BY EncodedIs, Zenon
<1>2. b \in Word(4) /\ t \in Word(4)
  BY DEF Controls
<1> HIDE DEF d, b, t
<1>3. /\ 4 \in Nat /\ 2 \in Nat /\ 12 \in Nat /\ 20 \in Nat
      /\ 4 + 2 <= Len(d) /\ 12 + 4 <= Len(d) /\ 20 + 4 <= Len(d)
  BY <1>1
<1>4. Field(d, 12, 4) = b /\ Field(d, 20, 4) = t
  BY <1>1, <1>2, <1>3, SameField, ZenonT(30)
<1>5. Field(d, 4, 2) = INPUT_VERSION
  <2> DEFINE w == INPUT_VERSION
  <2>1. w \in Word(2) /\ w[1] = 0 /\ w[2] = 2
    BY SMT DEF INPUT_VERSION, Word
  <2>2. \A k \in 1..2 : k = 1 \/ k = 2
    BY SMT
  <2>3. 4 + 1 = 5 /\ 4 + 2 = 6
    OBVIOUS
  <2> HIDE DEF w
  <2>4. \A k \in 1..2 : d[4 + k] = w[k]
    BY <1>1, <2>1, <2>2, <2>3, Zenon
  <2>5. Field(d, 4, 2) = w
    BY <1>1, <1>3, <2>1, <2>4, SameField, Zenon
  <2>6. QED
    BY <2>5 DEF w
<1>6. /\ Unpack(d).session_token = t /\ Unpack(d).buttons = b
      /\ Unpack(d).analog_x = d[17] /\ Unpack(d).analog_y = d[18]
  BY <1>4, <1>5 DEF Unpack
<1>7. QED
  BY <1>1, <1>6 DEF d, b, t

\* What is appended to a datagram leaves its fields alone.
LEMMA FieldOfPrefix ==
  ASSUME NEW s \in Seq(Int), NEW t \in Seq(Int), NEW i \in Nat, NEW w \in Nat
  PROVE  i + w <= Len(s) => Field(s \o t, i, w) = Field(s, i, w)
<1>1. SUFFICES ASSUME i + w <= Len(s)  PROVE  Field(s \o t, i, w) = Field(s, i, w)
  BY Zenon
<1> DEFINE f == s \o t
           x == Field(s, i, w)
<1>2. Len(s) \in Nat /\ Len(t) \in Nat
  BY LenProperties
<1>3. f \in Seq(Int) /\ Len(f) = Len(s) + Len(t) /\ \A k \in 1..Len(s) : f[k] = s[k]
  BY ConcatProperties, ConcatIs, Zenon
<1>4. x \in Word(w) /\ \A k \in 1..w : x[k] = s[i + k]
  BY <1>1, FieldIs, Zenon
<1> HIDE DEF f, x
<1>5. \A k \in 1..w : f[i + k] = x[k]
  <2>1. \A k \in 1..w : i + k \in 1..Len(s)
    BY <1>1, <1>2, SMT
  <2>2. QED
    BY <1>3, <1>4, <2>1, Zenon
<1>6. i + w <= Len(f)
  BY <1>1, <1>2, <1>3, SMT
<1>7. QED
  BY <1>3, <1>4, <1>5, <1>6, SameField, Zenon DEF f, x

LEMMA UnpackLegacy ==
  ASSUME NEW p \in Controls
  PROVE  LET d == EncodeLegacy(p)
             u == Unpack(d)
         IN  /\ d \in Seq(Int) /\ u.session_token = Absent /\ u.buttons = p.buttons
             /\ u.analog_x = p.analog_x /\ u.analog_y = p.analog_y
<1> DEFINE v == LEGACY_INPUT_VERSION
           z == Bytes16(V1_PACKET_SIZE)
           q == p.sequence
           b == p.buttons
           xy == <<p.analog_x, p.analog_y, 0, 0>>
           c == p.timestamp_us
           s1 == INPUT_MAGIC
           s2 == s1 \o v
           s3 == s2 \o z
           s4 == s3 \o q
           s5 == s4 \o b
           s6 == s5 \o xy
           d == s6 \o c
<1>1. EncodeLegacy(p) = d
  BY DEF EncodeLegacy
<1>2. /\ s1 \in Seq(Int) /\ Len(s1) = 4 /\ v \in Seq(Int) /\ Len(v) = 2
      /\ z \in Seq(Int) /\ Len(z) = 2
  BY SMT DEF INPUT_MAGIC, LEGACY_INPUT_VERSION, V1_PACKET_SIZE, Bytes16
<1>3. /\ q \in Word(4) /\ b \in Word(4) /\ c \in Word(8)
      /\ p.analog_x \in Int /\ p.analog_y \in Int
  BY DEF Controls
<1>4. 2 \in Nat /\ 4 \in Nat /\ 6 \in Nat /\ 8 \in Nat /\ 12 \in Nat /\ 16 \in Nat /\ 20 \in Nat
  OBVIOUS
<1>5. xy \in Seq(Int) /\ Len(xy) = 4 /\ xy[1] = p.analog_x /\ xy[2] = p.analog_y
  BY <1>3
<1>6. /\ q \in Seq(Int) /\ Len(q) = 4 /\ b \in Seq(Int) /\ Len(b) = 4
      /\ c \in Seq(Int) /\ Len(c) = 8
  BY <1>3, <1>4, WordIsBytes, Zenon
<1> HIDE DEF s1, v, z, q, b, xy, c
<1>7. s2 \in Seq(Int) /\ Len(s2) = 6
  <2>1. s2 \in Seq(Int) /\ Len(s2) = Len(s1) + Len(v)
    BY <1>2, ConcatProperties, Zenon
  <2>2. QED
    BY <1>2, <2>1, 4 + 2 = 6, Zenon
<1> HIDE DEF s2
<1>8. s3 \in Seq(Int) /\ Len(s3) = 8
  <2>1. s3 \in Seq(Int) /\ Len(s3) = Len(s2) + Len(z)
    BY <1>2, <1>7, ConcatProperties, Zenon
  <2>2. QED
    BY <1>2, <1>7, <2>1, 6 + 2 = 8, Zenon
<1> HIDE DEF s3
<1>9. s4 \in Seq(Int) /\ Len(s4) = 12
  <2>1. s4 \in Seq(Int) /\ Len(s4) = Len(s3) + Len(q)
    BY <1>6, <1>8, ConcatProperties, Zenon
  <2>2. QED
    BY <1>6, <1>8, <2>1, 8 + 4 = 12, Zenon
<1> HIDE DEF s4
<1>10. s5 \in Seq(Int) /\ Len(s5) = 16
  <2>1. s5 \in Seq(Int) /\ Len(s5) = Len(s4) + Len(b)
    BY <1>6, <1>9, ConcatProperties, Zenon
  <2>2. QED
    BY <1>6, <1>9, <2>1, 12 + 4 = 16, Zenon
<1> HIDE DEF s5
<1>11. s6 \in Seq(Int) /\ Len(s6) = 20
  <2>1. s6 \in Seq(Int) /\ Len(s6) = Len(s5) + Len(xy)
    BY <1>5, <1>10, ConcatProperties, Zenon
  <2>2. QED
    BY <1>5, <1>10, <2>1, 16 + 4 = 20, Zenon
<1> HIDE DEF s6
<1>12. d \in Seq(Int) /\ Len(d) = 28
  <2>1. d \in Seq(Int) /\ Len(d) = Len(s6) + Len(c)
    BY <1>6, <1>11, ConcatProperties, Zenon
  <2>2. QED
    BY <1>6, <1>11, <2>1, 20 + 8 = 28, Zenon
<1>13. Field(d, 4, 2) = v
  <2>1. /\ 4 + 2 <= Len(s2) /\ 4 + 2 <= Len(s3) /\ 4 + 2 <= Len(s4)
        /\ 4 + 2 <= Len(s5) /\ 4 + 2 <= Len(s6)
    BY <1>7, <1>8, <1>9, <1>10, <1>11
  <2>2. Field(s2, 4, 2) = v
    <3>1. s1 \in Seq(Int) /\ v \in Seq(Int)
      BY <1>2
    <3>2. Len(s1) = 4 /\ Len(v) = 2
      BY <1>2
    <3>3. Field(s1 \o v, Len(s1), Len(v)) = v
      BY <3>1, PartsOfConcat, Zenon
    <3>4. QED
      BY <3>2, <3>3, Zenon DEF s2
  <2>3. Field(s3, 4, 2) = Field(s2, 4, 2)
    <3>1. s2 \in Seq(Int) /\ z \in Seq(Int) /\ 4 \in Nat /\ 2 \in Nat
      BY <1>2, <1>7
    <3>2. 4 + 2 <= Len(s2)
      BY <2>1
    <3>3. QED
      BY <3>1, <3>2, FieldOfPrefix, Zenon DEF s3
  <2>4. Field(s4, 4, 2) = Field(s3, 4, 2)
    <3>1. s3 \in Seq(Int) /\ q \in Seq(Int) /\ 4 \in Nat /\ 2 \in Nat
      BY <1>6, <1>8
    <3>2. 4 + 2 <= Len(s3)
      BY <2>1
    <3>3. QED
      BY <3>1, <3>2, FieldOfPrefix, Zenon DEF s4
  <2>5. Field(s5, 4, 2) = Field(s4, 4, 2)
    <3>1. s4 \in Seq(Int) /\ b \in Seq(Int) /\ 4 \in Nat /\ 2 \in Nat
      BY <1>6, <1>9
    <3>2. 4 + 2 <= Len(s4)
      BY <2>1
    <3>3. QED
      BY <3>1, <3>2, FieldOfPrefix, Zenon DEF s5
  <2>6. Field(s6, 4, 2) = Field(s5, 4, 2)
    <3>1. s5 \in Seq(Int) /\ xy \in Seq(Int) /\ 4 \in Nat /\ 2 \in Nat
      BY <1>5, <1>10
    <3>2. 4 + 2 <= Len(s5)
      BY <2>1
    <3>3. QED
      BY <3>1, <3>2, FieldOfPrefix, Zenon DEF s6
  <2>7. Field(d, 4, 2) = Field(s6, 4, 2)
    <3>1. s6 \in Seq(Int) /\ c \in Seq(Int) /\ 4 \in Nat /\ 2 \in Nat
      BY <1>6, <1>11
    <3>2. 4 + 2 <= Len(s6)
      BY <2>1
    <3>3. QED
      BY <3>1, <3>2, FieldOfPrefix, Zenon
  <2> HIDE DEF d
  <2>8. QED
    BY <2>2, <2>3, <2>4, <2>5, <2>6, <2>7, Zenon
<1>14. Field(d, 12, 4) = b
  <2>1. 12 + 4 <= Len(s5) /\ 12 + 4 <= Len(s6)
    BY <1>10, <1>11
  <2>2. Field(s5, 12, 4) = b
    <3>1. s4 \in Seq(Int) /\ b \in Seq(Int)
      BY <1>6, <1>9
    <3>2. Len(s4) = 12 /\ Len(b) = 4
      BY <1>6, <1>9
    <3>3. Field(s4 \o b, Len(s4), Len(b)) = b
      BY <3>1, PartsOfConcat, Zenon
    <3>4. QED
      BY <3>2, <3>3, Zenon DEF s5
  <2>3. Field(s6, 12, 4) = Field(s5, 12, 4)
    <3>1. s5 \in Seq(Int) /\ xy \in Seq(Int) /\ 12 \in Nat /\ 4 \in Nat
      BY <1>5, <1>10
    <3>2. 12 + 4 <= Len(s5)
      BY <2>1
    <3>3. QED
      BY <3>1, <3>2, FieldOfPrefix, Zenon DEF s6
  <2>4. Field(d, 12, 4) = Field(s6, 12, 4)
    <3>1. s6 \in Seq(Int) /\ c \in Seq(Int) /\ 12 \in Nat /\ 4 \in Nat
      BY <1>6, <1>11
    <3>2. 12 + 4 <= Len(s6)
      BY <2>1
    <3>3. QED
      BY <3>1, <3>2, FieldOfPrefix, Zenon
  <2> HIDE DEF d
  <2>5. QED
    BY <2>2, <2>3, <2>4, Zenon
<1>15. d[17] = p.analog_x /\ d[18] = p.analog_y
  <2>1. Field(s6, 16, 4) = xy
    <3>1. s5 \in Seq(Int) /\ xy \in Seq(Int)
      BY <1>5, <1>10
    <3>2. Len(s5) = 16 /\ Len(xy) = 4
      BY <1>5, <1>10
    <3>3. Field(s5 \o xy, Len(s5), Len(xy)) = xy
      BY <3>1, PartsOfConcat, Zenon
    <3>4. QED
      BY <3>2, <3>3, Zenon DEF s6
  <2>2. Field(d, 16, 4) = Field(s6, 16, 4)
    <3>1. 16 + 4 <= Len(s6)
      BY <1>11
    <3>2. s6 \in Seq(Int) /\ c \in Seq(Int) /\ 16 \in Nat /\ 4 \in Nat
      BY <1>6, <1>11
    <3>3. QED
      BY <3>1, <3>2, FieldOfPrefix, Zenon
  <2> HIDE DEF d
  <2>3. \A k \in 1..4 : Field(d, 16, 4)[k] = d[16 + k]
    <3>1. 16 + 4 <= Len(d)
      BY <1>12
    <3>2. QED
      BY <1>4, <1>12, <3>1, FieldIs, ZenonT(30)
  <2>4. 1 \in 1..4 /\ 2 \in 1..4 /\ 16 + 1 = 17 /\ 16 + 2 = 18
    OBVIOUS
  <2>5. xy[1] = d[17] /\ xy[2] = d[18]
    BY <2>1, <2>2, <2>3, <2>4, Zenon
  <2>6. QED
    BY <1>5, <2>5, Zenon
<1> HIDE DEF d
<1>16. Field(d, 4, 2) # INPUT_VERSION
  <2>1. v # INPUT_VERSION
    BY SMT DEF v, LEGACY_INPUT_VERSION, INPUT_VERSION
  <2>2. QED
    BY <1>13, <2>1, Zenon
<1>17. /\ Unpack(d).session_token = Absent /\ Unpack(d).buttons = Field(d, 12, 4)
       /\ Unpack(d).analog_x = d[17] /\ Unpack(d).analog_y = d[18]
  BY <1>16 DEF Unpack
<1>18. QED
  BY <1>1, <1>12, <1>14, <1>15, <1>17, Zenon DEF b

-----------------------------------------------------------------------------
(* The inductive invariant of the exchange.                                *)

WireType ==
  /\ token \in Tokens /\ damage \in Nat
  /\ step \in {"idle", "sent", "taken", "acked"} /\ transport \in {"WIFI", "USB"}
  /\ wire \in Seq(Int)
  /\ sent \in Controls /\ sent.session_token = Bytes32(token)

\* The entry shows nothing but what _validate_code_entry lets pass.
EntryIsClean == \E n \in 0..5 : entry \in [1..n -> PAIRING_ALPHABET]

CodeIsTyped == code \in Int /\ typed \in BOOLEAN /\ (code = token => typed)

\* What is underway and undamaged is the packet that was sent, in one of the
\* versions.
UnderwayIsSent ==
  step \in {"sent", "taken"} /\ damage = 0 =>
    \/ wire = Carried(transport, PspInputEncode(sent))
    \/ wire = Carried(transport, EncodeLegacy(sent))

\* What the receiver took passed decode_packet, is what the pad shows, and on
\* Wi-Fi is of the session of the code.
TakenIsAccepted ==
  step = "taken" =>
    LET data == Payload(transport, wire) IN
    /\ PacketError(data) = "none" /\ pad = MapPacketToXbox360(Unpack(data))
    /\ transport = "WIFI" => Unpack(data).session_token = Bytes32(code)

IInv == WireType /\ EntryIsClean /\ CodeIsTyped /\ UnderwayIsSent /\ TakenIsAccepted

LEMMA TokenIsNumber ==
  ASSUME NEW t \in Tokens
  PROVE  t \in 0..(2 ^ 25 - 1) /\ t \in Nat /\ t \in Int
<1>1. t \in 0..(2 ^ 25 - 1)
  BY WireAssumption
<1>2. QED
  BY <1>1

\* Whatever the user makes of a code is a text.
LEMMA SpellingsAreTexts ==
  ASSUME NEW c \in Codes, NEW text \in Spellings(c)
  PROVE  \E n \in Nat : DOMAIN text = 1..n
<1>1. c \in [1..5 -> Int]
  BY SMT DEF Codes, PAIRING_TOKEN_LENGTH, PAIRING_ALPHABET, PairingBase
<1>2. c \in Seq(Int) /\ Len(c) = 5
  <2>1. 5 \in Nat /\ c \in Word(5)
    BY <1>1 DEF Word
  <2>2. QED
    BY <2>1, WordIsBytes, Zenon
<1>3. CASE text \in {c, [i \in 1..5 |-> IF c[i] < 24 THEN c[i] + PairingBase ELSE c[i]],
                     [c EXCEPT ![3] = Other]}
  <2>1. DOMAIN text = 1..5
    BY <1>1, <1>3
  <2>2. QED
    BY <2>1
<1>4. CASE text \in {SubSeq(c, 1, 2) \o <<Hyphen>> \o SubSeq(c, 3, 5) \o <<Space>>,
                     SubSeq(c, 1, 3) \o <<c[5], c[4]>>,
                     SubSeq(c, 1, 4), Append(c, c[1])}
  <2>1. /\ SubSeq(c, 1, 2) \in Seq(Int) /\ SubSeq(c, 3, 5) \in Seq(Int)
        /\ SubSeq(c, 1, 3) \in Seq(Int) /\ SubSeq(c, 1, 4) \in Seq(Int)
    <3>1. \A i \in 1..5 : c[i] \in Int
      BY <1>1
    <3>2. ASSUME NEW a \in 1..5, NEW b \in 1..5  PROVE  SubSeq(c, a, b) \in Seq(Int)
      <4>1. \A i \in a..b : c[i] \in Int
        BY <3>1, SMT
      <4>2. QED
        BY <4>1, SubSeqProperties
    <3>3. QED
      BY <3>2
  <2>2. /\ <<Hyphen>> \in Seq(Int) /\ <<Space>> \in Seq(Int) /\ <<c[5], c[4]>> \in Seq(Int)
        /\ c[1] \in Int
    BY <1>1 DEF Hyphen, Space
  <2>3. Append(c, c[1]) \in Seq(Int)
    BY <1>2, <2>2, AppendProperties, Zenon
  <2> HIDE DEF Codes
  <2>4. text \in Seq(Int)
    <3>1. CASE text = SubSeq(c, 1, 2) \o <<Hyphen>> \o SubSeq(c, 3, 5) \o <<Space>>
      BY <2>1, <2>2, <3>1, ConcatProperties, Zenon
    <3>2. CASE text = SubSeq(c, 1, 3) \o <<c[5], c[4]>>
      BY <2>1, <2>2, <3>2, ConcatProperties, Zenon
    <3>3. QED
      BY <1>4, <2>1, <2>3, <3>1, <3>2, Zenon
  <2>5. Len(text) \in Nat /\ DOMAIN text = 1..Len(text)
    BY <2>4, LenProperties
  <2>6. QED
    BY <2>5
<1>5. QED
  BY <1>3, <1>4, Zenon DEF Spellings

LEMMA EntryOfEdit ==
  ASSUME NEW text, NEW n \in Nat, DOMAIN text = 1..n, ValidateCodeEntry(text)
  PROVE  \E k \in 0..5 : Normalized(text) \in [1..k -> PAIRING_ALPHABET]
<1> DEFINE c == Normalized(text)
<1>1. /\ Len(c) \in Nat /\ c = [k \in 1..Len(c) |-> c[k]]
      /\ Len(c) <= 5 /\ Range(c) \subseteq PAIRING_ALPHABET
  BY NormalizedIsSequence DEF ValidateCodeEntry, PAIRING_TOKEN_LENGTH
<1> HIDE DEF c
<1>2. \A k \in 1..Len(c) : c[k] \in PAIRING_ALPHABET
  BY <1>1 DEF Range
<1>3. c \in [1..Len(c) -> PAIRING_ALPHABET]
  BY <1>1, <1>2, ZenonT(30)
<1>4. Len(c) \in 0..5
  BY <1>1, SMT
<1>5. \E k \in 0..5 : c \in [1..k -> PAIRING_ALPHABET]
  BY <1>3, <1>4, Zenon
<1>6. QED
  BY <1>5, Zenon DEF c

\* A text that parse_pairing_token takes is a code, whose value it returns, and
\* format_pairing_token gives the code back.
LEMMA ParseThenFormat ==
  ASSUME NEW n \in Nat, NEW text, DOMAIN text = 1..n, ParsePairingToken(text) # -1
  PROVE  /\ ParsePairingToken(text) \in 0..(2 ^ 25 - 1)
         /\ Normalized(text) \in Codes
         /\ FormatPairingToken(ParsePairingToken(text)) = Normalized(text)
<1>1. Normalized(text) \in Codes
  BY ParsedIsCode
<1>2. ParsePairingToken(text) = Value(Normalized(text))
  BY <1>1, ParseIsValue
<1>3. QED
  BY <1>1, <1>2, FormatOfValue, Zenon

LEMMA InitEstablishes == Init => IInv
<1> SUFFICES ASSUME Init  PROVE  IInv
  OBVIOUS
<1>1. token \in Tokens /\ token \in 0..(2 ^ 25 - 1) /\ token \in Nat
  BY TokenIsNumber DEF Init
<1>2. sent \in Controls /\ sent.session_token = Bytes32(token)
  <2>1. sent = Packet(0) /\ 0 \in Nat
    BY DEF Init
  <2>2. QED
    BY <1>1, <2>1, PacketIsControls
<1>3. WireType
  BY <1>1, <1>2 DEF Init, WireType, Absent
<1>4. EntryIsClean
  <2>1. entry \in [1..0 -> PAIRING_ALPHABET] /\ 0 \in 0..5
    BY DEF Init
  <2>2. QED
    BY <2>1 DEF EntryIsClean
<1>5. CodeIsTyped
  <2>1. code = -1 /\ typed = FALSE
    BY DEF Init
  <2>2. \A t \in Nat : -1 # t
    BY SMT
  <2>3. code # token
    BY <1>1, <2>1, <2>2, Zenon
  <2>4. code \in Int
    BY <2>1
  <2>5. QED
    BY <2>1, <2>3, <2>4 DEF CodeIsTyped
<1>6. UnderwayIsSent /\ TakenIsAccepted
  BY DEF Init, UnderwayIsSent, TakenIsAccepted
<1>7. QED
  BY <1>3, <1>4, <1>5, <1>6 DEF IInv

LEMMA EditPreserves == IInv /\ Edit => IInv'
<1> SUFFICES ASSUME IInv, Edit  PROVE  IInv'
  OBVIOUS
<1>1. WireType' /\ UnderwayIsSent' /\ TakenIsAccepted'
  BY DEF IInv, Edit, WireType, UnderwayIsSent, TakenIsAccepted
<1>2. CodeIsTyped'
  BY DEF IInv, Edit, CodeIsTyped
<1>3. EntryIsClean'
  <2>1. PICK text \in Spellings(FormatPairingToken(token)) :
          ValidateCodeEntry(text) /\ entry' = Normalized(text)
    BY Zenon DEF Edit
  <2>2. FormatPairingToken(token) \in Codes
    BY TokenIsNumber, FormatIsDigits DEF IInv, WireType
  <2>3. PICK n \in Nat : DOMAIN text = 1..n
    BY <2>2, SpellingsAreTexts
  <2>4. \E k \in 0..5 : entry' \in [1..k -> PAIRING_ALPHABET]
    BY <2>1, <2>3, EntryOfEdit
  <2>5. QED
    BY <2>4 DEF EntryIsClean
<1>4. QED
  BY <1>1, <1>2, <1>3 DEF IInv

LEMMA AuthorizePreserves == IInv /\ Authorize => IInv'
<1> SUFFICES ASSUME IInv, Authorize  PROVE  IInv'
  OBVIOUS
<1>1. WireType' /\ UnderwayIsSent' /\ TakenIsAccepted'
  BY DEF IInv, Authorize, WireType, UnderwayIsSent, TakenIsAccepted
<1>2. code' \in 0..(2 ^ 25 - 1) /\ FormatPairingToken(code') \in Codes
  <2>1. PICK n \in Nat : DOMAIN entry = 1..n
    BY DEF IInv, EntryIsClean
  <2>2. code' = ParsePairingToken(entry) /\ ParsePairingToken(entry) # -1
    BY DEF Authorize
  <2>3. QED
    BY <2>1, <2>2, ParseThenFormat
<1>3. CodeIsTyped'
  <2>1. code' \in Int
    BY <1>2
  <2>2. QED
    BY <2>1 DEF IInv, Authorize, CodeIsTyped
<1>4. EntryIsClean'
  <2>1. entry' \in [1..5 -> PAIRING_ALPHABET] /\ 5 \in 0..5
    BY <1>2 DEF Authorize, Codes, PAIRING_TOKEN_LENGTH
  <2>2. QED
    BY <2>1 DEF EntryIsClean
<1>5. QED
  BY <1>1, <1>3, <1>4 DEF IInv

LEMMA ClearPreserves == IInv /\ ClearPairing => IInv'
<1> SUFFICES ASSUME IInv, ClearPairing  PROVE  IInv'
  OBVIOUS
<1>1. WireType' /\ UnderwayIsSent' /\ TakenIsAccepted'
  BY DEF IInv, ClearPairing, WireType, UnderwayIsSent, TakenIsAccepted
<1>2. CodeIsTyped'
  <2>1. token' \in Nat /\ code' = -1 /\ typed' = typed
    BY TokenIsNumber DEF IInv, WireType, ClearPairing
  <2>2. QED
    BY <2>1, SMT DEF IInv, CodeIsTyped
<1>3. EntryIsClean'
  <2>1. entry' \in [1..0 -> PAIRING_ALPHABET] /\ 0 \in 0..5
    BY DEF ClearPairing
  <2>2. QED
    BY <2>1 DEF EntryIsClean
<1>4. QED
  BY <1>1, <1>2, <1>3 DEF IInv

LEMMA SendPreserves == IInv /\ Send => IInv'
<1> SUFFICES ASSUME IInv, Send  PROVE  IInv'
  OBVIOUS
<1>1. PICK index \in DemoIndices, link \in {"WIFI", "USB"}, legacy \in BOOLEAN :
        /\ sent' = Packet(index) /\ transport' = link
        /\ wire' = Carried(link, IF legacy THEN EncodeLegacy(sent')
                                           ELSE PspInputEncode(sent'))
  BY Zenon DEF Send
<1>2. sent' \in Controls /\ sent'.session_token = Bytes32(token)
  <2>1. index \in Nat
    BY WireAssumption
  <2>2. token \in 0..(2 ^ 25 - 1)
    BY TokenIsNumber DEF IInv, WireType
  <2>3. QED
    BY <1>1, <2>1, <2>2, PacketIsControls
<1>3. /\ wire' = Carried(transport', PspInputEncode(sent'))
         \/ wire' = Carried(transport', EncodeLegacy(sent'))
      /\ wire' \in Seq(Int)
  <2>1. EncodeLegacy(sent') \in Seq(Int) /\ PspInputEncode(sent') \in Seq(Int)
    BY <1>2, EncodedIs, UnpackLegacy, Zenon
  <2>2. CASE legacy
    BY <1>1, <2>1, <2>2, CarriedIsExact, Zenon
  <2>3. CASE ~legacy
    BY <1>1, <2>1, <2>3, CarriedIsExact, Zenon
  <2>4. QED
    BY <2>2, <2>3, Zenon
<1>4. UnderwayIsSent'
  BY <1>3, Zenon DEF UnderwayIsSent
<1>5. WireType'
  BY <1>1, <1>2, <1>3 DEF IInv, WireType, Send
<1>6. CodeIsTyped' /\ EntryIsClean'
  BY DEF IInv, Send, user, CodeIsTyped, EntryIsClean
<1>7. TakenIsAccepted'
  BY DEF Send, TakenIsAccepted
<1>8. QED
  BY <1>4, <1>5, <1>6, <1>7 DEF IInv

LEMMA LosePreserves == IInv /\ Lose => IInv'
<1> SUFFICES ASSUME IInv, Lose  PROVE  IInv'
  OBVIOUS
<1>1. WireType'
  BY DEF IInv, Lose, WireType, Absent
<1>2. CodeIsTyped' /\ EntryIsClean'
  BY DEF IInv, Lose, user, CodeIsTyped, EntryIsClean
<1>3. UnderwayIsSent' /\ TakenIsAccepted'
  BY DEF Lose, UnderwayIsSent, TakenIsAccepted
<1>4. QED
  BY <1>1, <1>2, <1>3 DEF IInv

LEMMA HearAckPreserves == IInv /\ HearAck => IInv'
<1> SUFFICES ASSUME IInv, HearAck  PROVE  IInv'
  OBVIOUS
<1>1. WireType'
  BY DEF IInv, HearAck, WireType, Absent
<1>2. CodeIsTyped' /\ EntryIsClean'
  BY DEF IInv, HearAck, user, CodeIsTyped, EntryIsClean
<1>3. UnderwayIsSent' /\ TakenIsAccepted'
  BY DEF HearAck, UnderwayIsSent, TakenIsAccepted
<1>4. QED
  BY <1>1, <1>2, <1>3 DEF IInv

LEMMA ReceivePreserves == IInv /\ Receive => IInv'
<1> SUFFICES ASSUME IInv, Receive  PROVE  IInv'
  OBVIOUS
<1>1. WireType' /\ UnderwayIsSent'
  BY DEF IInv, Receive, WireType, UnderwayIsSent
<1>2. CodeIsTyped' /\ EntryIsClean'
  BY DEF IInv, Receive, user, CodeIsTyped, EntryIsClean
<1>3. TakenIsAccepted'
  BY DEF Receive, user, TakenIsAccepted
<1>4. QED
  BY <1>1, <1>2, <1>3 DEF IInv

LEMMA AcknowledgePreserves == IInv /\ Acknowledge => IInv'
<1> SUFFICES ASSUME IInv, Acknowledge  PROVE  IInv'
  OBVIOUS
<1> DEFINE data == Payload(transport, wire)
           echoed == Unpack(data).session_token
           answer == IF transport = "USB" THEN echoed ELSE Bytes32(code)
<1>1. data \in Seq(Int)
  BY PayloadIsBytes, Zenon DEF IInv, WireType
<1>2. echoed \in Seq(Int)
  <2>1. PacketError(data) = "none"
    BY DEF IInv, TakenIsAccepted, Acknowledge
  <2>2. echoed # Absent
    BY DEF Acknowledge
  <2> HIDE DEF data
  <2>3. echoed = Field(data, 20, 4) /\ Field(data, 4, 2) = INPUT_VERSION
    BY <2>2 DEF Unpack
  <2>4. 20 + 4 <= Len(data) /\ 20 \in Nat /\ 4 \in Nat
    <3>1. INPUT_VERSION # LEGACY_INPUT_VERSION
      BY SMT DEF INPUT_VERSION, LEGACY_INPUT_VERSION
    <3>2. Len(data) = 32
      BY <1>1, <2>1, <2>3, <3>1, AcceptedIs, Zenon
    <3>3. QED
      BY <3>2
  <2>5. Field(data, 20, 4) \in Seq(Int)
    BY <1>1, <2>4, FieldIs, Zenon
  <2>6. QED
    BY <2>3, <2>5, Zenon
<1>3. answer \in Seq(Int)
  <2>1. code \in Int
    BY DEF IInv, CodeIsTyped
  <2>2. Bytes32(code) \in Word(4) /\ 4 \in Nat
    BY <2>1, BytesOfNumber
  <2>3. Bytes32(code) \in Seq(Int)
    BY <2>2, WordIsBytes, Zenon
  <2> HIDE DEF echoed
  <2>4. QED
    BY <1>2, <2>3, Zenon
<1>4. wire' = Carried(transport, EncodePairingAck(answer))
  BY Zenon DEF Acknowledge
<1> HIDE DEF answer
<1>5. wire' \in Seq(Int)
  BY <1>3, <1>4, AckIsBytes, CarriedIsExact, Zenon
<1>6. WireType'
  BY <1>5 DEF IInv, Acknowledge, WireType
<1>7. CodeIsTyped' /\ EntryIsClean'
  BY DEF IInv, Acknowledge, user, CodeIsTyped, EntryIsClean
<1>8. UnderwayIsSent' /\ TakenIsAccepted'
  BY DEF Acknowledge, UnderwayIsSent, TakenIsAccepted
<1>9. QED
  BY <1>6, <1>7, <1>8 DEF IInv

LEMMA DamagePreserves == IInv /\ Damage => IInv'
<1> SUFFICES ASSUME IInv, Damage  PROVE  IInv'
  OBVIOUS
<1>1. wire \in Seq(Int) /\ Len(wire) \in Nat
  BY LenProperties DEF IInv, WireType
<1>2. \A b \in ByteValues : b \in Int
  BY WireAssumption
<1>3. wire' \in Seq(Int)
  <2>1. CASE \E i \in DOMAIN wire, b \in ByteValues : wire[i] # b /\ wire' = [wire EXCEPT ![i] = b]
    <3>1. PICK i \in DOMAIN wire, b \in ByteValues : wire' = [wire EXCEPT ![i] = b]
      BY <2>1
    <3>2. i \in 1..Len(wire) /\ b \in Int
      BY <1>1, <1>2, <3>1, LenProperties
    <3>3. QED
      BY <1>1, <3>1, <3>2, ExceptSeq
  <2>2. CASE \E n \in 0..(Len(wire) - 1) : wire' = SubSeq(wire, 1, n)
    <3>1. PICK n \in 0..(Len(wire) - 1) : wire' = SubSeq(wire, 1, n)
      BY <2>2
    <3>2. \A i \in 1..n : wire[i] \in Int
      BY <1>1, ElementOfSeq, SMT
    <3>3. QED
      BY <3>1, <3>2, SubSeqProperties
  <2>3. CASE \E b \in ByteValues : wire' = Append(wire, b)
    BY <1>1, <1>2, <2>3, AppendProperties
  <2>4. QED
    BY <2>1, <2>2, <2>3 DEF Damage
<1>4. damage' \in Nat /\ damage' # 0
  BY DEF IInv, WireType, Damage
<1>5. WireType'
  BY <1>3, <1>4 DEF IInv, Damage, WireType
<1>6. CodeIsTyped' /\ EntryIsClean'
  BY DEF IInv, Damage, user, CodeIsTyped, EntryIsClean
<1>7. UnderwayIsSent' /\ TakenIsAccepted'
  BY <1>4 DEF Damage, UnderwayIsSent, TakenIsAccepted
<1>8. QED
  BY <1>5, <1>6, <1>7 DEF IInv

LEMMA StepPreserves == IInv /\ [Next]_vars => IInv'
<1>1. IInv /\ UNCHANGED vars => IInv'
  <2> SUFFICES ASSUME IInv, UNCHANGED vars  PROVE  IInv'
    OBVIOUS
  <2>1. WireType'
    BY DEF vars, IInv, WireType
  <2>2. EntryIsClean' /\ CodeIsTyped'
    BY DEF vars, IInv, EntryIsClean, CodeIsTyped
  <2>3. UnderwayIsSent'
    BY DEF vars, IInv, UnderwayIsSent
  <2>4. TakenIsAccepted'
    BY DEF vars, IInv, TakenIsAccepted
  <2>5. QED
    BY <2>1, <2>2, <2>3, <2>4 DEF IInv
<1>2. QED
  BY <1>1, EditPreserves, AuthorizePreserves, ClearPreserves, SendPreserves, LosePreserves,
     DamagePreserves, ReceivePreserves, AcknowledgePreserves, HearAckPreserves DEF Next

\* In every exchange, whatever is lost or damaged in it: the entry shows no
\* character that is not of the alphabet, what is underway undamaged is what the
\* PSP sent, and the receiver plays nothing but what decode_packet passed and, on
\* Wi-Fi, what is of the session of its code (protocol.py:121, receiver.py:554).
THEOREM ExchangeInvariant == Spec => []IInv
BY InitEstablishes, StepPreserves, PTL DEF Spec

\* For every token, every damage to a datagram and every damaged answer: what a
\* decoder accepts is, to the last byte, what an encoder makes of it, and the PSP
\* takes no acknowledgement that decode_pairing_ack refuses (protocol.py:121,
\* psp_pairing_ack_matches).
THEOREM AcceptedIsCanonicalHolds == Spec => []AcceptedIsCanonical
<1>1. IInv => AcceptedIsCanonical
  <2> SUFFICES ASSUME IInv  PROVE  AcceptedIsCanonical
    OBVIOUS
  <2> DEFINE data == Payload(transport, wire)
  <2>1. data \in Seq(Int)
    BY PayloadIsBytes, Zenon DEF IInv, WireType
  <2>2. token \in 0..(2 ^ 25 - 1)
    BY TokenIsNumber DEF IInv, WireType
  <2>3. step = "taken" => PacketError(data) = "none"
    BY DEF IInv, TakenIsAccepted
  <2> HIDE DEF data
  <2>4. step = "taken" =>
          LET p == Unpack(data) IN
            IF p.session_token = Absent THEN data = EncodeLegacy(p)
                                        ELSE Encodable(p) /\ data = EncodePacket(p)
    BY <2>1, <2>3, InputIsCanonical, Zenon
  <2>5. PspPairingAckMatches(data, Bytes32(token)) =>
          DecodePairingAckError(data) = "none" /\ data = EncodePairingAck(Bytes32(token))
    BY <2>1, <2>2, AckIsCanonical, Zenon
  <2>6. QED
    BY <2>4, <2>5, Zenon DEF AcceptedIsCanonical, data
<1>2. QED
  BY <1>1, ExchangeInvariant, PTL

\* For each of the 2^25 tokens and whatever was typed before: the entry is taken
\* for the token if and only if it shows that token's code, and each spelling that
\* parse_pairing_token takes passes the entry and is shown as it was meant
\* (protocol.py:97-119, gui.py's _validate_code_entry, format_session_token in C).
THEOREM CodeIsTheTokenHolds == Spec => []CodeIsTheToken
<1>1. IInv => CodeIsTheToken
  <2> SUFFICES ASSUME IInv  PROVE  CodeIsTheToken
    OBVIOUS
  <2> DEFINE shown == FormatPairingToken(token)
  <2>1. token \in 0..(2 ^ 25 - 1) /\ token \in Nat
    BY TokenIsNumber DEF IInv, WireType
  <2>2. shown \in Codes
    BY <2>1, FormatIsDigits
  <2>3. PICK n \in Nat : entry \in [1..n -> PAIRING_ALPHABET]
    BY DEF IInv, EntryIsClean
  <2>4. Normalized(entry) = entry /\ DOMAIN entry = 1..n
    BY <2>3, CleanIsNormalized
  <2>5. token # -1
    BY <2>1, SMT
  <2> HIDE DEF shown
  <2>6. ParsePairingToken(entry) = token => entry = shown
    <3>1. SUFFICES ASSUME ParsePairingToken(entry) = token  PROVE  entry = shown
      OBVIOUS
    <3>2. FormatPairingToken(ParsePairingToken(entry)) = Normalized(entry)
      BY <2>4, <2>5, <3>1, ParseThenFormat
    <3>3. QED
      BY <2>4, <3>1, <3>2, Zenon DEF shown
  <2>7. entry = shown => ParsePairingToken(entry) = token
    <3>1. SUFFICES ASSUME entry = shown  PROVE  ParsePairingToken(entry) = token
      OBVIOUS
    <3>2. Normalized(entry) \in Codes
      BY <2>2, <2>4, <3>1, Zenon
    <3>3. ParsePairingToken(entry) = Value(Normalized(entry))
      BY <3>2, ParseIsValue, Zenon
    <3>4. Value(FormatPairingToken(token)) = token
      BY <2>1, ValueOfFormat, Zenon
    <3>5. QED
      BY <2>4, <3>1, <3>3, <3>4, Zenon DEF shown
  <2>8. ASSUME NEW text \in Spellings(shown), ParsePairingToken(text) # -1
        PROVE  /\ ValidateCodeEntry(text)
               /\ FormatPairingToken(ParsePairingToken(text)) = Normalized(text)
    <3>1. PICK k \in Nat : DOMAIN text = 1..k
      BY <2>2, SpellingsAreTexts, Zenon
    <3>2. /\ Normalized(text) \in Codes
          /\ FormatPairingToken(ParsePairingToken(text)) = Normalized(text)
      BY <2>8, <3>1, ParseThenFormat, Zenon
    <3>3. ValidateCodeEntry(text)
      <4> DEFINE c == Normalized(text)
      <4>1. c \in [1..5 -> PAIRING_ALPHABET]
        BY <3>2 DEF Codes, PAIRING_TOKEN_LENGTH
      <4> HIDE DEF c
      <4>2. Len(c) = 5 /\ Range(c) \subseteq PAIRING_ALPHABET
        BY <4>1 DEF Range
      <4>3. QED
        BY <4>2 DEF ValidateCodeEntry, PAIRING_TOKEN_LENGTH, c
    <3>4. QED
      BY <3>2, <3>3
  <2>9. QED
    BY <2>6, <2>7, <2>8, Zenon DEF CodeIsTheToken, shown
<1>2. QED
  BY <1>1, ExchangeInvariant, PTL

-----------------------------------------------------------------------------
(* What an undamaged packet is decoded to.                                 *)

\* The receiver reads from an undamaged packet what the PSP put into it, and the
\* token of it, or none from version 1.
LEMMA UndamagedIsRead ==
  ASSUME IInv, step \in {"sent", "taken"}, damage = 0
  PROVE  LET u == Unpack(Payload(transport, wire)) IN
         /\ u.session_token = sent.session_token \/ u.session_token = Absent
         /\ u.buttons = sent.buttons
         /\ u.analog_x = sent.analog_x /\ u.analog_y = sent.analog_y
<1>1. sent \in Controls
  BY DEF IInv, WireType
<1>2. \/ wire = Carried(transport, PspInputEncode(sent))
      \/ wire = Carried(transport, EncodeLegacy(sent))
  BY DEF IInv, UnderwayIsSent
<1>3. PspInputEncode(sent) \in Seq(Int) /\ EncodeLegacy(sent) \in Seq(Int)
  BY <1>1, EncodedIs, UnpackLegacy, Zenon
<1>4. \/ Payload(transport, wire) = PspInputEncode(sent)
      \/ Payload(transport, wire) = EncodeLegacy(sent)
  BY <1>2, <1>3, CarriedIsExact, Zenon
<1>5. CASE Payload(transport, wire) = PspInputEncode(sent)
  BY <1>1, <1>5, UnpackEncoded, Zenon
<1>6. CASE Payload(transport, wire) = EncodeLegacy(sent)
  BY <1>1, <1>6, UnpackLegacy, Zenon
<1>7. QED
  BY <1>4, <1>5, <1>6, Zenon

\* An undamaged packet that the receiver takes over Wi-Fi shows that its code is
\* the token.
LEMMA UndamagedIsOfToken ==
  ASSUME IInv, step = "taken", transport = "WIFI", damage = 0
  PROVE  code = token
<1> DEFINE u == Unpack(Payload(transport, wire)).session_token
<1>1. u = Bytes32(code)
  BY DEF IInv, TakenIsAccepted
<1>2. u = sent.session_token \/ u = Absent
  BY UndamagedIsRead, Zenon
<1>3. sent.session_token = Bytes32(token) /\ token \in Int /\ code \in Int
  BY TokenIsNumber DEF IInv, WireType, CodeIsTyped
<1>4. Bytes32(code) # Absent
  <2>1. Bytes32(code) \in Word(4) /\ 4 \in Nat
    BY <1>3, BytesOfNumber
  <2>2. Len(Bytes32(code)) = 4
    BY <2>1, WordIsBytes, Zenon
  <2>3. Len(Absent) = 0 /\ 4 # 0
    BY DEF Absent
  <2>4. QED
    BY <2>2, <2>3, Zenon
<1> HIDE DEF u
<1>5. Bytes32(code) = Bytes32(token)
  BY <1>1, <1>2, <1>3, <1>4, Zenon
<1>6. QED
  BY <1>3, <1>5, BytesAreExact, Zenon

-----------------------------------------------------------------------------
(* The code opens Wi-Fi, and nothing else.                                 *)

\* An acknowledgement over Wi-Fi is of the code that is the token, or the packet
\* that it answers was damaged, and it is not.
AnswerIsOfCode ==
  step = "acked" /\ transport = "WIFI" =>
    code = token \/ (damage >= 1 /\ wire = EncodePairingAck(Bytes32(code)))

WifiInv == OnlyTheCodeOpensWifi /\ AnswerIsOfCode /\ damage <= MaxDamage

LEMMA AcknowledgeKeepsWifi == IInv /\ WifiInv /\ Acknowledge => WifiInv'
<1> SUFFICES ASSUME IInv, WifiInv, Acknowledge  PROVE  WifiInv'
  OBVIOUS
<1>1. OnlyTheCodeOpensWifi' /\ (damage <= MaxDamage)'
  BY DEF WifiInv, OnlyTheCodeOpensWifi, Acknowledge, user
<1>2. AnswerIsOfCode'
  <2>1. SUFFICES ASSUME transport = "WIFI", code # token
                 PROVE  damage >= 1 /\ wire' = EncodePairingAck(Bytes32(code))
    BY DEF AnswerIsOfCode, Acknowledge, user
  <2>2. damage # 0
    BY <2>1, UndamagedIsOfToken DEF Acknowledge
  <2>3. damage \in Nat
    BY DEF IInv, WireType
  <2>4. damage >= 1
    BY <2>2, <2>3, SMT
  <2>5. transport # "USB"
    BY <2>1
  <2>6. wire' = EncodePairingAck(Bytes32(code))
    BY <2>5 DEF Acknowledge, Carried
  <2>7. QED
    BY <2>4, <2>6
<1>3. QED
  BY <1>1, <1>2 DEF WifiInv

LEMMA HearAckKeepsWifi == IInv /\ WifiInv /\ HearAck => WifiInv'
<1> SUFFICES ASSUME IInv, WifiInv, HearAck  PROVE  WifiInv'
  OBVIOUS
<1>1. AnswerIsOfCode'
  BY DEF HearAck, AnswerIsOfCode
<1>2. (damage <= MaxDamage)'
  BY WireAssumption DEF HearAck
<1>3. OnlyTheCodeOpensWifi'
  <2>1. SUFFICES ASSUME "WIFI" \in authorized'  PROVE  typed
    BY DEF OnlyTheCodeOpensWifi, HearAck, user
  <2>2. CASE "WIFI" \in authorized
    BY <2>2 DEF WifiInv, OnlyTheCodeOpensWifi
  <2>3. CASE "WIFI" \notin authorized
    <3>1. transport = "WIFI" /\ step = "acked"
      BY <2>1, <2>3 DEF HearAck
    <3>2. code = token \/ wire = EncodePairingAck(Bytes32(code))
      BY <3>1 DEF WifiInv, AnswerIsOfCode
    <3>3. Bytes32(code) \in Word(4) /\ code \in Int /\ token \in Int
      <4>1. code \in Int /\ token \in Int
        BY TokenIsNumber DEF IInv, WireType, CodeIsTyped
      <4>2. QED
        BY <4>1, BytesOfNumber
    <3>4. PspPairingAckMatches(wire, Bytes32(token))
      <4>1. transport # "USB"
        BY <3>1
      <4>2. QED
        BY <4>1 DEF HearAck, Payload
    <3>5. code = token
      <4>1. CASE wire = EncodePairingAck(Bytes32(code))
        <5>1. Bytes32(code) = Bytes32(token)
          BY <3>3, <3>4, <4>1, AckIsOfToken, Zenon
        <5>2. QED
          BY <3>3, <5>1, BytesAreExact, Zenon
      <4>2. QED
        BY <3>2, <4>1, Zenon
    <3>6. QED
      BY <3>5 DEF IInv, CodeIsTyped
  <2>4. QED
    BY <2>2, <2>3
<1>4. QED
  BY <1>1, <1>2, <1>3 DEF WifiInv

LEMMA DamageKeepsWifi ==
  ASSUME MaxDamage <= 1
  PROVE  IInv /\ WifiInv /\ Damage => WifiInv'
<1> SUFFICES ASSUME IInv, WifiInv, Damage  PROVE  WifiInv'
  OBVIOUS
<1>1. OnlyTheCodeOpensWifi'
  BY DEF WifiInv, OnlyTheCodeOpensWifi, Damage, user
<1>2. (damage <= MaxDamage)' /\ damage = 0
  <2>1. damage \in Nat /\ damage < MaxDamage /\ MaxDamage \in Nat /\ damage' = damage + 1
    BY WireAssumption DEF IInv, WireType, Damage
  <2>2. QED
    BY <2>1, SMT
<1>3. AnswerIsOfCode'
  <2>1. ~(damage >= 1)
    BY <1>2
  <2>2. QED
    BY <2>1 DEF WifiInv, AnswerIsOfCode, Damage, user
<1>4. QED
  BY <1>1, <1>2, <1>3 DEF WifiInv

LEMMA OthersKeepWifi ==
  IInv /\ WifiInv /\ (Edit \/ Authorize \/ ClearPairing \/ Send \/ Lose \/ Receive)
    => WifiInv'
<1> SUFFICES ASSUME IInv, WifiInv,
                    Edit \/ Authorize \/ ClearPairing \/ Send \/ Lose \/ Receive
             PROVE  WifiInv'
  OBVIOUS
<1>1. step' # "acked" /\ (damage' = 0 \/ damage' = damage) /\ authorized' = authorized
  BY DEF Edit, Authorize, ClearPairing, Send, Lose, Receive
<1>2. AnswerIsOfCode'
  BY <1>1 DEF AnswerIsOfCode
<1>3. (damage <= MaxDamage)'
  BY <1>1, WireAssumption DEF WifiInv
<1>4. typed => typed'
  BY DEF Edit, Authorize, ClearPairing, Send, Lose, Receive, user
<1>5. OnlyTheCodeOpensWifi'
  BY <1>1, <1>4 DEF WifiInv, OnlyTheCodeOpensWifi
<1>6. QED
  BY <1>2, <1>3, <1>5 DEF WifiInv

\* For every token: as long as no exchange suffers more than one damaged datagram,
\* the PSP takes an acknowledgement over Wi-Fi only after its own code was typed
\* at that PC (receiver.py:554, psp_pairing_ack_matches).
THEOREM OnlyTheCodeOpensWifiHolds ==
  ASSUME MaxDamage <= 1
  PROVE  Spec => []OnlyTheCodeOpensWifi
<1>1. Init => WifiInv
  BY WireAssumption DEF Init, WifiInv, OnlyTheCodeOpensWifi, AnswerIsOfCode
<1>2. IInv /\ WifiInv /\ [Next]_vars => WifiInv'
  <2>1. WifiInv /\ UNCHANGED vars => WifiInv'
    BY DEF vars, WifiInv, OnlyTheCodeOpensWifi, AnswerIsOfCode
  <2>2. QED
    BY <2>1, OthersKeepWifi, DamageKeepsWifi, AcknowledgeKeepsWifi, HearAckKeepsWifi
    DEF Next
<1>3. WifiInv => OnlyTheCodeOpensWifi
  BY DEF WifiInv
<1>4. QED
  BY <1>1, <1>2, <1>3, ExchangeInvariant, PTL DEF Spec

-----------------------------------------------------------------------------
(* The pad.                                                                *)

\* Where the axes reach the ends of XInput's range, and where they rest.
LEMMA AxesAtTheEnds ==
  /\ HorizontalAxis(0) = -32768 /\ HorizontalAxis(128) = 0 /\ HorizontalAxis(255) = 32767
  /\ VerticalAxis(0) = 32767 /\ VerticalAxis(128) = 0 /\ VerticalAxis(255) = -32768
BY SMT DEF HorizontalAxis, VerticalAxis, Round

LEMMA AxesAreIntegers ==
  ASSUME NEW v \in 0..255
  PROVE  HorizontalAxis(v) \in Int /\ VerticalAxis(v) \in Int
<1>1. CASE v < 128
  BY <1>1, v \in 0..127, LeftHalf, UpperHalf
<1>2. CASE v = 128
  BY <1>2, AxesAtTheEnds
<1>3. CASE v > 128
  BY <1>3, v \in 129..255, RightHalf, LowerHalf
<1>4. QED
  BY <1>1, <1>2, <1>3, SMT

LEMMA AxesFollow ==
  \A v \in 0..255, w \in 0..255 :
    v < w => HorizontalAxis(v) < HorizontalAxis(w) /\ VerticalAxis(w) < VerticalAxis(v)
<1>1. ASSUME NEW v \in 0..255, NEW w \in 0..255, v < w
      PROVE  HorizontalAxis(v) < HorizontalAxis(w)
  BY <1>1, HorizontalAxisFollows, Zenon
<1>2. ASSUME NEW v \in 0..255, NEW w \in 0..255, v < w
      PROVE  VerticalAxis(w) < VerticalAxis(v)
  BY <1>2, VerticalAxisFollows, Zenon
<1>3. QED
  BY <1>1, <1>2

LEMMA AxesOrder ==
  ASSUME NEW v \in 0..255, NEW x \in 0..255
  PROVE  /\ v < x <=> HorizontalAxis(v) < HorizontalAxis(x)
         /\ v < x <=> VerticalAxis(v) > VerticalAxis(x)
         /\ v = x <=> HorizontalAxis(v) = HorizontalAxis(x)
         /\ v = x <=> VerticalAxis(v) = VerticalAxis(x)
<1>1. /\ HorizontalAxis(v) \in Int /\ HorizontalAxis(x) \in Int
      /\ VerticalAxis(v) \in Int /\ VerticalAxis(x) \in Int
  BY AxesAreIntegers
<1>2. v < x => HorizontalAxis(v) < HorizontalAxis(x) /\ VerticalAxis(x) < VerticalAxis(v)
  BY AxesFollow, Zenon
<1>3. x < v => HorizontalAxis(x) < HorizontalAxis(v) /\ VerticalAxis(v) < VerticalAxis(x)
  BY AxesFollow, Zenon
<1>4. v < x \/ x < v \/ v = x
  BY SMT
<1>5. QED
  BY <1>1, <1>2, <1>3, <1>4, SMT

\* No two buttons of the PSP share one of the pad.
LEMMA ButtonsAreDistinct ==
  ASSUME NEW a \in DOMAIN PSP_TO_XINPUT, NEW b \in DOMAIN PSP_TO_XINPUT,
         PSP_TO_XINPUT[a] = PSP_TO_XINPUT[b]
  PROVE  a = b
BY DEF PSP_TO_XINPUT

LEMMA AsManyButtons ==
  ASSUME NEW buttons
  PROVE  LET s == PressedButtons(buttons) IN
         Cardinality({PSP_TO_XINPUT[b] : b \in s}) = Cardinality(s)
<1> DEFINE s == PressedButtons(buttons)
           t == {PSP_TO_XINPUT[b] : b \in s}
           f == [b \in s |-> PSP_TO_XINPUT[b]]
<1>1. s \subseteq DOMAIN PSP_TO_XINPUT
  BY DEF PressedButtons, ButtonBit, PSP_TO_XINPUT
<1>2. IsFiniteSet(s)
  <2> DEFINE all == {"UP", "DOWN", "LEFT", "RIGHT", "CROSS", "CIRCLE", "SQUARE",
                     "TRIANGLE", "L", "R", "START", "SELECT"}
  <2>1. IsFiniteSet(all)
    <3> DEFINE w == <<"UP", "DOWN", "LEFT", "RIGHT", "CROSS", "CIRCLE", "SQUARE",
                      "TRIANGLE", "L", "R", "START", "SELECT">>
    <3>1. w \in Seq(all) /\ \A b \in all : \E n \in 1..Len(w) : w[n] = b
      OBVIOUS
    <3> HIDE DEF w, all
    <3>2. QED
      BY <3>1 DEF IsFiniteSet
  <2>2. s \subseteq all
    BY DEF PressedButtons, ButtonBit
  <2>3. QED
    BY <2>1, <2>2, FS_Subset, Zenon
<1> HIDE DEF s
<1>3. f \in Bijection(s, t)
  <2>1. f \in [s -> t]
    OBVIOUS
  <2>2. \A a, b \in s : f[a] = f[b] => a = b
    BY <1>1, ButtonsAreDistinct
  <2>3. \A c \in t : \E a \in s : f[a] = c
    OBVIOUS
  <2>4. QED
    BY <2>1, <2>2, <2>3 DEF Bijection, Injection, Surjection, IsInjective
<1>4. QED
  BY <1>2, <1>3, FS_Bijection DEF ExistsBijection, s

\* For every position of the stick and every state of the buttons: what the pad
\* shows of an undamaged packet is what the sender holds (_horizontal_axis,
\* _vertical_axis and map_packet_to_xbox360, gamepad.py:84-140).
THEOREM PadFollowsPspHolds == Spec => []PadFollowsPsp
<1>1. IInv => PadFollowsPsp
  <2> SUFFICES ASSUME IInv, step = "taken", damage = 0
               PROVE  LET x == sent.analog_x
                          y == sent.analog_y
                      IN  /\ Cardinality(pad.buttons)
                               = Cardinality(PressedButtons(sent.buttons))
                          /\ \A b \in PressedButtons(sent.buttons) :
                               PSP_TO_XINPUT[b] \in pad.buttons
                          /\ x = 128 <=> pad.left_x = 0
                          /\ y = 128 <=> pad.left_y = 0
                          /\ x = 0 => pad.left_x = -32768
                          /\ x = 255 => pad.left_x = 32767
                          /\ y = 0 => pad.left_y = 32767
                          /\ y = 255 => pad.left_y = -32768
                          /\ \A v \in 0..255 :
                               /\ v < x <=> HorizontalAxis(v) < pad.left_x
                               /\ v < y <=> VerticalAxis(v) > pad.left_y
    BY DEF PadFollowsPsp
  <2> DEFINE x == sent.analog_x
             y == sent.analog_y
             u == Unpack(Payload(transport, wire))
  <2>1. x \in 0..255 /\ y \in 0..255
    BY DEF IInv, WireType, Controls
  <2>2. u.buttons = sent.buttons /\ u.analog_x = x /\ u.analog_y = y
    BY UndamagedIsRead, Zenon
  <2>3. pad = MapPacketToXbox360(u)
    BY DEF IInv, TakenIsAccepted
  <2> HIDE DEF u
  <2>4. /\ pad.buttons = {PSP_TO_XINPUT[b] : b \in PressedButtons(sent.buttons)}
        /\ pad.left_x = HorizontalAxis(x) /\ pad.left_y = VerticalAxis(y)
    BY <2>2, <2>3 DEF MapPacketToXbox360
  <2>5. Cardinality(pad.buttons) = Cardinality(PressedButtons(sent.buttons))
    BY <2>4, AsManyButtons, Zenon
  <2>6. \A b \in PressedButtons(sent.buttons) : PSP_TO_XINPUT[b] \in pad.buttons
    BY <2>4
  <2> HIDE DEF x, y
  <2>7. /\ \A v \in 0..255 : v = x <=> HorizontalAxis(v) = HorizontalAxis(x)
        /\ \A v \in 0..255 : v = y <=> VerticalAxis(v) = VerticalAxis(y)
        /\ \A v \in 0..255 : v < x <=> HorizontalAxis(v) < HorizontalAxis(x)
        /\ \A v \in 0..255 : v < y <=> VerticalAxis(v) > VerticalAxis(y)
    BY <2>1, AxesOrder
  <2>8. (x = 128 <=> pad.left_x = 0) /\ (y = 128 <=> pad.left_y = 0)
    <3>1. 128 \in 0..255
      OBVIOUS
    <3>2. QED
      BY <2>4, <2>7, <3>1, AxesAtTheEnds, SMT
  <2>9. /\ x = 0 => pad.left_x = -32768
        /\ x = 255 => pad.left_x = 32767
        /\ y = 0 => pad.left_y = 32767
        /\ y = 255 => pad.left_y = -32768
    BY <2>4, AxesAtTheEnds, SMT
  <2>10. QED
    BY <2>4, <2>5, <2>6, <2>7, <2>8, <2>9, SMTT(30) DEF x, y
<1>2. QED
  BY <1>1, ExchangeInvariant, PTL
=============================================================================
