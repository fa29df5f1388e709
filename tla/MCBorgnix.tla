------------------------------ MODULE MCBorgnix ------------------------------
(* Instances of Borgnix for TLC: the gate and one or two devices.          *)
EXTENDS Borgnix
=============================================================================
