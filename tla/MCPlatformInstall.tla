-------------------------- MODULE MCPlatformInstall --------------------------
(***************************************************************************)
(* PlatformInstall for TLC: two bundles and what a developer has checked   *)
(* out.  The second bundle retires a file of the first, makes one of its   *)
(* helpers longer and leaves the other as it is; the checkout drops that   *)
(* one, and changes the first and keeps its size, which in a bundle rsync  *)
(* would not see.                                                          *)
(***************************************************************************)
EXTENDS PlatformInstall

Helper(t, s) == [text |-> t, size |-> s]

OwnsMC == <<{"unit", "rules"}, {"unit"}, {"unit"}>>
RetiredMC == <<{}, {"rules"}, {"rules"}>>
TreeMC == <<[launch |-> Helper("l1", 4), sync |-> Helper("s1", 5)],
            [launch |-> Helper("l2", 6), sync |-> Helper("s1", 5)],
            [launch |-> Helper("l3", 6)]>>
GroupsMC == <<{"video"}, {"video"}, {"video"}>>
UvMC == <<1, 2, 2>>

WithCheckout == <<"bundle", "bundle", "checkout">>
BundlesOnly == <<"bundle", "bundle", "bundle">>
===============================================================================
