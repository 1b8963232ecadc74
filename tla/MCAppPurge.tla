------------------------------ MODULE MCAppPurge ------------------------------
(***************************************************************************)
(* AppPurge for TLC: in the target x a directory a, in it b and c, and     *)
(* beside it d; y belongs to another purge.                                *)
(***************************************************************************)
EXTENDS AppPurge

NodesMC == {"x", "a", "b", "c", "d", "y"}
ParentMC == [x |-> Roots, a |-> "x", b |-> "a", c |-> "b", d |-> "x", y |-> Roots]
KindsMC == [x |-> {"dir"}, a |-> {"dir"}, b |-> {"dir", "link", "file"},
            c |-> {"file", "link"}, d |-> {"dir", "file"}, y |-> {"dir"}]
LinksMC == [n \in NodesMC |-> IF n \in {"b", "c"} THEN {"d", "y", Foreign} ELSE {}]
===============================================================================
