------------------------------- MODULE MCBridge -------------------------------
EXTENDS Bridge

CONSTANTS w1, t1, usb

OneAddress == {w1}
OneToken   == {t1}
=============================================================================
