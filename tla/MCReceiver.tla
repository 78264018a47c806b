------------------------------ MODULE MCReceiver ------------------------------
(***************************************************************************)
(* Model checking of Receiver.  Tokens are only compared with each other   *)
(* and Wi-Fi addresses only with each other and with the USB address, so   *)
(* permuting either set changes nothing.                                   *)
(***************************************************************************)
EXTENDS Receiver, TLC

CONSTANTS w1, w2, t1, t2, usb

OneAddress  == {w1}
TwoAddresses == {w1, w2}
OneToken    == {t1}
TwoTokens   == {t1, t2}

Symmetry == Permutations(WifiAddresses) \cup Permutations(Tokens)
=============================================================================
