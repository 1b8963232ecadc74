-------------------------- MODULE MCDisplayFirmware --------------------------
(***************************************************************************)
(* Instances of DisplayFirmware for TLC.                                   *)
(***************************************************************************)
EXTENDS DisplayFirmware
==============================================================================
