------------------------------- MODULE Protocol -------------------------------
(***************************************************************************)
(* What goes over the wire between PSP and PC, and what the PC makes of it *)
(* (pc-server/pc_server/protocol.py, gamepad.py, usb_transport.py and      *)
(* simulator.py, psp-client/src/input_protocol.c).                         *)
(*                                                                         *)
(* A datagram is a sequence of bytes, and the value of a field its bytes   *)
(* in the order of the wire, so that no number outgrows TLC's.  Exceptions *)
(* are values: a decoder returns the packet or the error it raises.        *)
(***************************************************************************)
EXTENDS Integers, SequencesExt

Absent == <<>>  \* None in place of a field's bytes

INPUT_MAGIC         == <<80, 83, 80, 73>>  \* "PSPI"
PAIRING_ACK_MAGIC   == <<80, 83, 80, 65>>  \* "PSPA"
LEGACY_INPUT_VERSION == <<0, 1>>
INPUT_VERSION       == <<0, 2>>
V1_PACKET_SIZE      == 28
PACKET_SIZE         == 32
PAIRING_ACK_VERSION == <<0, 1>>
PAIRING_ACK_SIZE    == 12

Bytes16(n) == <<n \div 256, n % 256>>
Field(data, at, width) == SubSeq(data, at + 1, at + width)

Bytes32(n)  == <<n \div 2 ^ 24, (n \div 2 ^ 16) % 256>> \o Bytes16(n % 2 ^ 16)

\* PAIRING_TOKEN_MAX has 25 bits: of the first byte only the last bit may be set.
TokenInRange(token) == token[1] < 2

-----------------------------------------------------------------------------
(* Input datagrams.                                                        *)

\* unpack() of a datagram whose header and length were found right.  Version 1
\* has the same fields but the token.
Unpack(data) ==
  LET v2 == Field(data, 4, 2) = INPUT_VERSION IN
  [sequence |-> Field(data, 8, 4), buttons |-> Field(data, 12, 4),
   analog_x |-> data[17], analog_y |-> data[18], reserved |-> Field(data, 18, 2),
   session_token |-> IF v2 THEN Field(data, 20, 4) ELSE Absent,
   timestamp_us  |-> Field(data, IF v2 THEN 24 ELSE 20, 8)]

\* Fault: the length in the header is not compared.
PacketErrorTrustsLength(data) ==
  IF Len(data) < 8 THEN "PacketLengthError"
  ELSE LET version  == Field(data, 4, 2)
           expected == IF version = LEGACY_INPUT_VERSION THEN V1_PACKET_SIZE
                                                         ELSE PACKET_SIZE
       IN  IF Field(data, 0, 4) # INPUT_MAGIC THEN "InvalidMagicError"
           ELSE IF version \notin {LEGACY_INPUT_VERSION, INPUT_VERSION}
                THEN "UnsupportedVersionError"
           ELSE IF Len(data) # expected THEN "PacketLengthError"
           ELSE IF version = INPUT_VERSION /\ ~TokenInRange(Field(data, 20, 4))
                THEN "PacketError"
           ELSE IF Field(data, 18, 2) # <<0, 0>> THEN "InvalidReservedFieldError"
           ELSE "none"

\* The error that decode_packet raises.
PacketError(data) ==
  IF Len(data) < 8 THEN "PacketLengthError"
  ELSE LET version  == Field(data, 4, 2)
           expected == IF version = LEGACY_INPUT_VERSION THEN V1_PACKET_SIZE
                                                         ELSE PACKET_SIZE
       IN  IF Field(data, 0, 4) # INPUT_MAGIC THEN "InvalidMagicError"
           ELSE IF version \notin {LEGACY_INPUT_VERSION, INPUT_VERSION}
                THEN "UnsupportedVersionError"
           ELSE IF Field(data, 6, 2) # Bytes16(expected) THEN "InvalidPacketSizeError"
           ELSE IF Len(data) # expected THEN "PacketLengthError"
           ELSE IF version = INPUT_VERSION /\ ~TokenInRange(Field(data, 20, 4))
                THEN "PacketError"
           ELSE IF Field(data, 18, 2) # <<0, 0>> THEN "InvalidReservedFieldError"
           ELSE "none"

\* What encode_packet requires of a packet, and what it makes of it.
Encodable(p) ==
  /\ p.session_token # Absent /\ TokenInRange(p.session_token)
  /\ p.reserved = <<0, 0>>

EncodePacket(p) ==
  INPUT_MAGIC \o INPUT_VERSION \o Bytes16(PACKET_SIZE) \o p.sequence \o p.buttons
    \o <<p.analog_x, p.analog_y>> \o p.reserved \o p.session_token \o p.timestamp_us

\* psp_input_encode writes the same fields one by one.
PspInputEncode(state) ==
  [i \in 1..PACKET_SIZE |->
     CASE i <= 4        -> INPUT_MAGIC[i]
       [] i \in 5..6    -> INPUT_VERSION[i - 4]
       [] i \in 7..8    -> Bytes16(PACKET_SIZE)[i - 6]
       [] i \in 9..12   -> state.sequence[i - 8]
       [] i \in 13..16  -> state.buttons[i - 12]
       [] i = 17        -> state.analog_x
       [] i = 18        -> state.analog_y
       [] i \in 19..20  -> 0
       [] i \in 21..24  -> state.session_token[i - 20]
       [] i \in 25..32  -> state.timestamp_us[i - 24]]

-----------------------------------------------------------------------------
(* Pairing acknowledgements, and the frames of the cable.                  *)

EncodePairingAck(token) ==
  PAIRING_ACK_MAGIC \o PAIRING_ACK_VERSION \o Bytes16(PAIRING_ACK_SIZE) \o token

DecodePairingAckError(data) ==
  IF Len(data) # PAIRING_ACK_SIZE THEN "PacketLengthError"
  ELSE IF Field(data, 0, 4) # PAIRING_ACK_MAGIC THEN "InvalidMagicError"
  ELSE IF Field(data, 4, 2) # PAIRING_ACK_VERSION THEN "UnsupportedVersionError"
  ELSE IF Field(data, 6, 2) # Bytes16(PAIRING_ACK_SIZE) THEN "InvalidPacketSizeError"
  ELSE IF ~TokenInRange(Field(data, 8, 4)) THEN "PacketError"
  ELSE "none"

\* Fault: only the header is looked at.
PspPairingAckMatchesAny(data, token) ==
  /\ Len(data) = PAIRING_ACK_SIZE
  /\ Field(data, 0, 8)
       = PAIRING_ACK_MAGIC \o PAIRING_ACK_VERSION \o Bytes16(PAIRING_ACK_SIZE)

\* psp_pairing_ack_matches, on as many bytes as the PSP received
PspPairingAckMatches(data, token) ==
  /\ Len(data) = PAIRING_ACK_SIZE
  /\ Field(data, 0, 8)
       = PAIRING_ACK_MAGIC \o PAIRING_ACK_VERSION \o Bytes16(PAIRING_ACK_SIZE)
  /\ Field(data, 8, 4) = token

USBHOSTFS_ASYNC_MAGIC   == <<19, 8, 47, 120>>  \* little endian
USBHOSTFS_ASYNC_CHANNEL == <<4, 0, 0, 0>>

EncodeAsyncPayload(data) == USBHOSTFS_ASYNC_MAGIC \o USBHOSTFS_ASYNC_CHANNEL \o data

\* decode_async_payload: the payload, or nothing for another channel or command.
DecodeAsyncPayload(data) ==
  IF Len(data) >= 8 /\ Field(data, 0, 8) = USBHOSTFS_ASYNC_MAGIC \o USBHOSTFS_ASYNC_CHANNEL
  THEN SubSeq(data, 9, Len(data)) ELSE Absent

-----------------------------------------------------------------------------
(* Pairing codes.  A character is its index in the alphabet, of 24 letters *)
(* and 8 digits, or that plus 32 for a small letter; others are negative.  *)

PAIRING_TOKEN_LENGTH == 5
PairingBase == 32  \* len(PAIRING_ALPHABET)

Space  == -1
Hyphen == -2
Other  == -3
PAIRING_ALPHABET == 0..(PairingBase - 1)

Upper(c) == IF c >= PairingBase THEN c - PairingBase ELSE c

\* The k-th of a set of places in a text.
Place(k, kept) == CHOOSE i \in kept : Cardinality({j \in kept : j <= i}) = k

\* strip, upper and replace in parse_pairing_token; _normalize_code_text is the
\* same but for the strip, whose other blanks no code entry lets pass.
Normalized(text) ==
  LET kept == {i \in DOMAIN text : text[i] \notin {Space, Hyphen}}
  IN  [k \in 1..Cardinality(kept) |-> Upper(text[Place(k, kept)])]

\* format_pairing_token, and format_session_token on the PSP
FormatPairingToken(value) ==
  [i \in 1..PAIRING_TOKEN_LENGTH |->
     (value \div PairingBase ^ (PAIRING_TOKEN_LENGTH - i)) % PairingBase]

\* Fault: the characters are read from the end.
ParsePairingTokenBackwards(text) ==
  LET code == Reverse(Normalized(text)) IN
  IF Len(code) = PAIRING_TOKEN_LENGTH /\ Range(code) \subseteq PAIRING_ALPHABET
  THEN FoldLeft(LAMBDA value, digit : value * PairingBase + digit, 0, code)
  ELSE -1

\* parse_pairing_token, -1 standing for the ValueError
ParsePairingToken(text) ==
  LET code == Normalized(text) IN
  IF Len(code) = PAIRING_TOKEN_LENGTH /\ Range(code) \subseteq PAIRING_ALPHABET
  THEN FoldLeft(LAMBDA value, digit : value * PairingBase + digit, 0, code)
  ELSE -1

\* _validate_code_entry: whether the entry field takes the text that is proposed.
ValidateCodeEntry(proposed) ==
  LET code == Normalized(proposed) IN
  Len(code) <= PAIRING_TOKEN_LENGTH /\ Range(code) \subseteq PAIRING_ALPHABET

-----------------------------------------------------------------------------
(* The virtual Xbox 360 controller.                                        *)

\* Python's round() of n / d: to the nearest, and to the even one of two.
Round(n, d) ==
  LET q == n \div d
      r == n % d
  IN  IF 2 * r > d \/ (2 * r = d /\ q % 2 = 1) THEN q + 1 ELSE q

HorizontalAxis(value) ==
  IF value < 128 THEN Round((value - 128) * 32768, 128)
  ELSE IF value > 128 THEN Round((value - 128) * 32767, 127) ELSE 0

\* Fault: the same scale on both sides of the centre.
VerticalAxisOneScale(value) ==
  IF value # 128 THEN -Round((value - 128) * 32768, 127) ELSE 0

\* Up is small on the PSP and positive in XInput.
VerticalAxis(value) ==
  IF value < 128 THEN Round((128 - value) * 32767, 128)
  ELSE IF value > 128 THEN -Round((value - 128) * 32768, 127) ELSE 0

\* Buttons: the bit of each on the wire.
ButtonBit ==
  [UP |-> 0, DOWN |-> 1, LEFT |-> 2, RIGHT |-> 3, CROSS |-> 4, CIRCLE |-> 5,
   SQUARE |-> 6, TRIANGLE |-> 7, L |-> 8, R |-> 9, START |-> 10, SELECT |-> 11]

\* pressed_buttons: the known ones among a field's bits.
PressedButtons(buttons) ==
  {b \in DOMAIN ButtonBit :
     (buttons[4 - ButtonBit[b] \div 8] \div 2 ^ (ButtonBit[b] % 8)) % 2 = 1}

PSP_TO_XINPUT ==
  [UP |-> "DPAD_UP", DOWN |-> "DPAD_DOWN", LEFT |-> "DPAD_LEFT",
   RIGHT |-> "DPAD_RIGHT", CROSS |-> "A", CIRCLE |-> "B", SQUARE |-> "X",
   TRIANGLE |-> "Y", L |-> "LEFT_SHOULDER", R |-> "RIGHT_SHOULDER",
   START |-> "START", SELECT |-> "BACK"]

MapPacketToXbox360(p) ==
  [buttons |-> {PSP_TO_XINPUT[b] : b \in PressedButtons(p.buttons)},
   left_x  |-> HorizontalAxis(p.analog_x),
   left_y  |-> VerticalAxis(p.analog_y)]

-----------------------------------------------------------------------------
(* The simulator's packets, which exercise every control in turn.          *)

BitBytes(bit) == [i \in 1..4 |-> IF i = 4 - bit \div 8 THEN 2 ^ (bit % 8) ELSE 0]

BUTTON_PATTERN ==
  <<<<0, 0, 0, 0>>>>
    \o [i \in 1..10 |-> BitBytes(<<0, 3, 1, 2, 4, 5, 6, 7, 8, 9>>[i])]
    \o <<<<0, 0, 12, 0>>>>

BuildDemoPacket(index, sequence, token, timestamp) ==
  LET x == (index * 5) % 256 IN
  [sequence |-> sequence, buttons |-> BUTTON_PATTERN[((index \div 30) % 12) + 1],
   analog_x |-> x, analog_y |-> 255 - x, reserved |-> <<0, 0>>,
   session_token |-> token, timestamp_us |-> timestamp]
=============================================================================
