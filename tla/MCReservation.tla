---------------------------- MODULE MCReservation ----------------------------
(***************************************************************************)
(* Instances of Reservation for TLC.                                       *)
(***************************************************************************)
EXTENDS Reservation, TLC

\* Processes differ only in name.
Alike == Permutations(Procs)
==============================================================================
