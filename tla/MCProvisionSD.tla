---------------------------- MODULE MCProvisionSD ----------------------------
(***************************************************************************)
(* ProvisionSD for TLC: two cards of one model, of which one is not safe   *)
(* to offer (it holds a system mount), and a smaller one.                  *)
(***************************************************************************)
EXTENDS ProvisionSD

CONSTANTS a, b, c

MediaMC == {a, b, c}
SafeMC == {a, c}
AlikeMC == {{a, b}, {c}}
SmallMC == {c}
===============================================================================
