-------------------------------- MODULE Wire --------------------------------
(***************************************************************************)
(* One PSP and one PC that exchange datagrams over Wi-Fi or the cable: the *)
(* user types the code that the PSP shows, the PSP sends its controls, the *)
(* PC answers with an acknowledgement.  The datagrams are the bytes of the *)
(* codecs of Protocol; on the way they may be lost, cut, extended or have  *)
(* a byte changed.  Which client owns the pad, and when, is Receiver's.    *)
(***************************************************************************)
EXTENDS Protocol, FiniteSets

CONSTANTS
  Tokens,       \* the session tokens a PSP may have drawn
  DemoIndices,  \* which of the simulator's packets are sent
  ByteValues,   \* what a damaged byte may become
  MaxDamage     \* bound: damaged datagrams in one exchange

ASSUME WireAssumption ==
  /\ \A t \in Tokens : t \in 0..(2 ^ 25 - 1)
  /\ DemoIndices \subseteq Nat /\ ByteValues \subseteq 0..255 /\ MaxDamage \in Nat

VARIABLES
  token,     \* session_token of the PSP
  entry,     \* code_var of the window
  code,      \* _pairing_token of the receiver, -1 for None
  sent,      \* the packet last encoded by the PSP
  transport,
  wire,      \* the datagram on its way, or one the receiver took
  step,      \* "idle", "sent", "taken": by the receiver, "acked"
  damage,
  pad,       \* the controller's state after the packet, or None
  authorized,\* the transports over which the PSP has heard its PC
  typed      \* history: the token's own code was once authorized

vars == <<token, entry, code, sent, transport, wire, step, damage, pad, authorized,
          typed>>
user == <<entry, code, typed>>

None == [buttons |-> {}, left_x |-> 0, left_y |-> 0]

Clock(index)  == <<0, 0>> \o Bytes32(index) \o <<1, 2>>  \* some 64-bit time
Packet(index) == BuildDemoPacket(index, Bytes32(index), Bytes32(token), Clock(index))

\* The layout of version 1: the historical sender, for which no encoder is left.
EncodeLegacy(p) ==
  INPUT_MAGIC \o LEGACY_INPUT_VERSION \o Bytes16(V1_PACKET_SIZE) \o p.sequence
    \o p.buttons \o <<p.analog_x, p.analog_y, 0, 0>> \o p.timestamp_us

Init ==
  /\ token \in Tokens
  /\ entry = <<>> /\ code = -1 /\ typed = FALSE
  /\ sent = Packet(0) /\ transport = "WIFI" /\ wire = Absent /\ step = "idle"
  /\ damage = 0 /\ pad = None /\ authorized = {}

-----------------------------------------------------------------------------
(* The window.                                                             *)

\* What a user makes of a code: as it is shown, in small letters, in groups,
\* with two characters swapped, cut, too long, or with one of no code.
Spellings(shown) ==
  {shown, [i \in 1..5 |-> IF shown[i] < 24 THEN shown[i] + PairingBase ELSE shown[i]],
   SubSeq(shown, 1, 2) \o <<Hyphen>> \o SubSeq(shown, 3, 5) \o <<Space>>,
   SubSeq(shown, 1, 3) \o <<shown[5], shown[4]>>,
   SubSeq(shown, 1, 4), Append(shown, shown[1]), [shown EXCEPT ![3] = Other]}

Edit ==
  /\ step = "idle"
  /\ \E text \in Spellings(FormatPairingToken(token)) :
       ValidateCodeEntry(text) /\ entry' = Normalized(text)
  /\ UNCHANGED <<token, code, typed, sent, transport, wire, step, damage, pad, authorized>>

Authorize ==
  /\ step = "idle"
  /\ ParsePairingToken(entry) # -1
  /\ code' = ParsePairingToken(entry)
  /\ entry' = FormatPairingToken(code')
  /\ typed' = (typed \/ code' = token)
  /\ UNCHANGED <<token, sent, transport, wire, step, damage, pad, authorized>>

ClearPairing ==
  /\ step = "idle"
  /\ code' = -1 /\ entry' = <<>>
  /\ UNCHANGED <<token, typed, sent, transport, wire, step, damage, pad, authorized>>

-----------------------------------------------------------------------------
(* One exchange.                                                           *)

Carried(link, data) == IF link = "USB" THEN EncodeAsyncPayload(data) ELSE data
Payload(link, data) == IF link = "USB" THEN DecodeAsyncPayload(data) ELSE data

Send ==
  /\ step = "idle"
  /\ \E index \in DemoIndices, link \in {"WIFI", "USB"}, legacy \in BOOLEAN :
       /\ sent' = Packet(index) /\ transport' = link
       /\ wire' = Carried(link, IF legacy THEN EncodeLegacy(sent')
                                          ELSE PspInputEncode(sent'))
  /\ step' = "sent" /\ damage' = 0 /\ pad' = None
  /\ UNCHANGED <<token, user, authorized>>

Lose ==
  /\ step # "idle"
  /\ step' = "idle" /\ wire' = Absent /\ damage' = 0 /\ pad' = None
  /\ UNCHANGED <<token, user, sent, transport, authorized>>

Damage ==
  /\ step \in {"sent", "acked"} /\ damage < MaxDamage /\ wire # Absent
  /\ \/ \E i \in DOMAIN wire, b \in ByteValues : wire[i] # b /\ wire' = [wire EXCEPT ![i] = b]
     \/ \E n \in 0..(Len(wire) - 1) : wire' = SubSeq(wire, 1, n)
     \/ \E b \in ByteValues : wire' = Append(wire, b)
  /\ damage' = damage + 1
  /\ UNCHANGED <<token, user, sent, transport, step, pad, authorized>>

\* The receiver takes the datagram: a packet of another session is ignored on
\* Wi-Fi, any is played from the cable.
Receive ==
  /\ step = "sent"
  /\ LET data == Payload(transport, wire) IN
       /\ PacketError(data) = "none"
       /\ transport = "WIFI" => code # -1 /\ Unpack(data).session_token = Bytes32(code)
       /\ pad' = MapPacketToXbox360(Unpack(data))
  /\ step' = "taken"
  /\ UNCHANGED <<token, user, sent, transport, wire, damage, authorized>>

\* Version 1 has no token to echo.
Acknowledge ==
  /\ step = "taken"
  /\ LET echoed == Unpack(Payload(transport, wire)).session_token IN
       /\ echoed # Absent
       /\ wire' = Carried(transport, EncodePairingAck(IF transport = "USB" THEN echoed
                                                                     ELSE Bytes32(code)))
  /\ step' = "acked"
  /\ UNCHANGED <<token, user, sent, transport, damage, pad, authorized>>

HearAck ==
  /\ step = "acked"
  /\ PspPairingAckMatches(Payload(transport, wire), Bytes32(token))
  /\ authorized' = authorized \cup {transport}
  /\ step' = "idle" /\ wire' = Absent /\ damage' = 0 /\ pad' = None
  /\ UNCHANGED <<token, user, sent, transport>>

Next == Edit \/ Authorize \/ ClearPairing \/ Send \/ Lose \/ Damage
          \/ Receive \/ Acknowledge \/ HearAck

Spec == Init /\ [][Next]_vars

-----------------------------------------------------------------------------
(* Properties.                                                             *)

\* A datagram that a decoder accepts, damaged or not, is one that a sender can
\* have encoded: no part of it is ignored, so that what a program of another
\* version adds or leaves out is refused (decode_packet, protocol.py:121); and of
\* acknowledgements the PSP takes none that decode_pairing_ack would refuse.
AcceptedIsCanonical ==
  LET data == Payload(transport, wire) IN
  /\ step = "taken" =>
       LET p == Unpack(data) IN
         IF p.session_token = Absent THEN data = EncodeLegacy(p)
                                     ELSE Encodable(p) /\ data = EncodePacket(p)
  /\ step = "acked" /\ PspPairingAckMatches(data, Bytes32(token)) =>
       DecodePairingAckError(data) = "none" /\ data = EncodePairingAck(Bytes32(token))

\* However the code is spelt, the window takes it for the token of the PSP that
\* shows it if and only if it is that PSP's code (format_session_token in C,
\* _validate_code_entry and parse_pairing_token in Python); and no code that can
\* be authorized is refused by the entry or changed by showing it.
CodeIsTheToken ==
  /\ ParsePairingToken(entry) = token <=> entry = FormatPairingToken(token)
  /\ \A text \in Spellings(FormatPairingToken(token)) :
       LET value == ParsePairingToken(text) IN
         value # -1 =>
           ValidateCodeEntry(text) /\ FormatPairingToken(value) = Normalized(text)

\* One damaged datagram in the exchange does not authorize a PC: over Wi-Fi the
\* PSP takes only an answer of a PC at which its own code was once typed.
OnlyTheCodeOpensWifi == "WIFI" \in authorized => typed

\* The pad shows what the sender holds, when nothing was damaged: the buttons one
\* to one, the centre at rest, the rails of XInput at the ends of the stick, and
\* between them a stick further to the right or further up gives strictly more
\* (_horizontal_axis, _vertical_axis, map_packet_to_xbox360).
PadFollowsPsp ==
  step = "taken" /\ damage = 0 =>
    LET x == sent.analog_x
        y == sent.analog_y
    IN  /\ Cardinality(pad.buttons) = Cardinality(PressedButtons(sent.buttons))
        /\ \A b \in PressedButtons(sent.buttons) : PSP_TO_XINPUT[b] \in pad.buttons
        /\ x = 128 <=> pad.left_x = 0
        /\ y = 128 <=> pad.left_y = 0
        /\ x = 0 => pad.left_x = -32768
        /\ x = 255 => pad.left_x = 32767
        /\ y = 0 => pad.left_y = 32767
        /\ y = 255 => pad.left_y = -32768
        /\ \A v \in 0..255 :
             /\ v < x <=> HorizontalAxis(v) < pad.left_x
             /\ v < y <=> VerticalAxis(v) > pad.left_y
=============================================================================
