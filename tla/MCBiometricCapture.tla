-------------------------- MODULE MCBiometricCapture --------------------------
(***************************************************************************)
(* One or two scanners, two fingers.                                       *)
(***************************************************************************)
EXTENDS BiometricCapture, TLC

FiveBuffers == 1 .. 5
SixBuffers == 1 .. 6
Requests == Calls \ {"destroy"}
===============================================================================
