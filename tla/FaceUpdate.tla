------------------------------ MODULE FaceUpdate ------------------------------
(***************************************************************************)
(* What the firmware updater promises, without its steps: a face runs one  *)
(* version or none at all, never passes from one version to another except *)
(* through being down, and is only erased or programmed while it is the    *)
(* recorded face and fewer than three failures are on record.              *)
(***************************************************************************)
EXTENDS Naturals

CONSTANTS Chips, Versions, Legacy, None

VARIABLES
  image,    \* chip -> the version it runs, or "down"
  owner,    \* the recorded face
  strikes   \* failures on record

abstractVars == <<image, owner, strikes>>

Init ==
  /\ image \in [Chips -> Versions \union {Legacy, "down"}]
  /\ owner = None /\ strikes = 0

MayWrite(c) == owner = c /\ strikes < 3

Erase(c) ==
  /\ MayWrite(c) /\ image' = [image EXCEPT ![c] = "down"]
  /\ UNCHANGED <<owner, strikes>>

Program(c, v) ==
  /\ MayWrite(c) /\ image[c] = "down"
  /\ image' = [image EXCEPT ![c] = v]
  /\ UNCHANGED <<owner, strikes>>

\* One more failure, a fresh start, another face: what is on record changes
\* between writes, by at most one failure at a time.
Record ==
  /\ owner' \in Chips \union {None}
  /\ strikes' \in {0, strikes, strikes + 1} /\ strikes' <= 3
  /\ UNCHANGED image

Next == Record \/ \E c \in Chips : Erase(c) \/ \E v \in Versions : Program(c, v)

Spec == Init /\ [][Next]_abstractVars
==============================================================================
