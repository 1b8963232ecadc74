---------------------------- MODULE MCImageBuild ----------------------------
(***************************************************************************)
(* ImageBuild for TLC: a chroot whose manifest is OK, one after an upgrade *)
(* that removed a package and a dist and brought in what needs a review,   *)
(* and three in which a run fails.                                         *)
(***************************************************************************)
EXTENDS ImageBuild

Row(binary, source, version, status) ==
  [binary |-> binary, source |-> source, version |-> version, status |-> status]

Good ==
  [rows |-> {Row("bash", "bash", 1, "installed"), Row("bash-doc", "bash", 1, "installed"),
             Row("fw", "firmware", 1, "installed")},
   copyright |-> {"bash", "bash-doc"},
   dists |-> [flask |-> "text", six |-> "header", tool |-> "nometa"],
   notices |-> TRUE, runtimes |-> FALSE, venv |-> TRUE]

Upgraded ==
  [rows |-> {Row("bash", "bash", 2, "installed"), Row("bash-doc", "bash", 1, "config-files"),
             Row("fw", "firmware", 1, "installed")},
   copyright |-> {"bash"}, dists |-> [flask |-> "header", six |-> "none"],
   notices |-> TRUE, runtimes |-> TRUE, venv |-> TRUE]

Unfit ==
  {[Good EXCEPT !.copyright = {"bash-doc"}],
   [Good EXCEPT !.dists = [flask |-> "broken", six |-> "text"]],
   [Good EXCEPT !.venv = FALSE]}

ChrootsMC == {Good, Upgraded} \union Unfit
===============================================================================
