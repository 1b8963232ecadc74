------------------------- MODULE MCComitupReconnect -------------------------
(***************************************************************************)
(* ComitupReconnect for TLC.                                               *)
(***************************************************************************)
EXTENDS ComitupReconnect
===============================================================================
