----------------------------- MODULE MCUSBDevice -----------------------------
(* The threads of USBDevice for TLC. *)
EXTENDS USBDevice

CONSTANTS t1, t2

OneThread  == {t1}
TwoThreads == {t1, t2}
=============================================================================
