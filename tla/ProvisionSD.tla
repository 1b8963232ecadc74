----------------------------- MODULE ProvisionSD -----------------------------
(***************************************************************************)
(* tools/provision_sd.py: erases the card behind one disk identifier,      *)
(* flashes the image and writes the identity.  macOS gives the identifier  *)
(* to whatever is in the reader next, so the card may be another one after *)
(* every wait.  Statements that do not wait for a person, a long read or   *)
(* a sleep follow each other faster than a card can be changed.            *)
(***************************************************************************)
EXTENDS Naturals

CONSTANTS
  Media,       \* what may be in the reader
  Safe,        \* what is_disk_safe_to_offer() accepts
  Alike,       \* Media, in classes of one MediaName and TotalSize
  Small,       \* what the image does not fit on
  None,
  Torn,        \* what a cut leaves of an identity
  MaxRuns      \* bound on the runs of the tool; a run's number is its device id

ASSUME ConstantsAssumption ==
  /\ Safe \subseteq Media /\ Small \subseteq Media
  /\ UNION Alike = Media /\ \A A, B \in Alike : A # B => A \intersect B = {}
  /\ \A A \in Alike : A \subseteq Small \/ A \intersect Small = {}
  /\ None \notin Media /\ Torn \notin Nat /\ MaxRuns \in Nat \ {0}

VARIABLES
  reader,      \* what is in it
  content,     \* of each card: "blank", "pi" (boots), "partial", "image" (of this run)
  ident,       \* the identity on it: a run's number, 0 for none, Torn
  uuid,        \* what diskutil reports of it: itself, "image" or None
  imageUuid,   \* what it will report of a flashed card
  pc,
  run,
  picked,      \* the card that was listed: candidate, with candidate.size_bytes
  sized,       \* that size is reported
  confirmed,   \* the card behind confirmed_fingerprint, and its uuid then
  target,      \* the card opened for writing
  written,     \* the cards this run wrote to
  cached,      \* the card with an identity that is not yet flushed to it
  record,      \* the identity in --identity-out
  told         \* how the run ended, as the operator was told

vars == <<reader, content, ident, uuid, imageUuid, pc, run, picked, sized, confirmed, target,
          written, cached, record, told>>
cards == <<reader, content, ident, uuid, imageUuid, cached, record>>
found == <<run, picked, sized, confirmed, target, written>>

Goto(step) == pc' = step /\ UNCHANGED told

\* An error message and the end of the run.
Stop(message) == pc' = "done" /\ told' = message

Class(c) == CHOOSE A \in Alike : c \in A

(***************************************************************************)
(* Before anything is written.                                             *)
(***************************************************************************)
\* Arguments, image format, identity, --dry-run, root.
Arguments ==
  /\ pc = "args" /\ (Goto("choose") \/ Stop("nothing"))
  /\ UNCHANGED <<cards, found>>

\* The list, or --device: both offer only what is safe.
Choose ==
  /\ pc = "choose"
  /\ \/ reader \in Safe /\ picked' = reader /\ sized' \in BOOLEAN /\ Goto("confirm")
     \/ UNCHANGED <<picked, sized>> /\ Stop("nothing")
  /\ UNCHANGED <<cards, run, confirmed, target, written>>

\* The identifier is typed; what it stands for now is what is confirmed.
Confirm ==
  /\ pc = "confirm"
  /\ \/ /\ reader # None /\ Goto("fits")
        /\ confirmed' = [card |-> reader, uuid |-> uuid[reader]]
     \/ UNCHANGED confirmed /\ Stop("nothing")
  /\ UNCHANGED <<cards, run, picked, sized, target, written>>

\* An image that is too large is refused if its size is known: that of a raw
\* image is, that of an .xz one if there is an xz to ask.
Fits ==
  /\ pc = "fits"
  /\ Goto("unmount") \/ (sized /\ picked \in Small /\ Stop("nothing"))
  /\ UNCHANGED <<cards, found>>

Unmount ==
  /\ pc = "unmount" /\ ((reader # None /\ Goto("open")) \/ Stop("nothing"))
  /\ UNCHANGED <<cards, found>>

(***************************************************************************)
(* The fingerprint.                                                        *)
(***************************************************************************)
\* A mistake the runs must notice: MediaName is not compared.
MatchesByUuid(c) == uuid[c] = confirmed.uuid

\* fingerprint_matches(): a UUID counts when both sides have one.
Matches(c) ==
  /\ Class(c) = Class(confirmed.card)
  /\ uuid[c] = None \/ confirmed.uuid = None \/ uuid[c] = confirmed.uuid

\* A mistake the runs must notice: the disk is opened unchecked.
OpenUnchecked ==
  /\ pc = "open"
  /\ \/ reader # None /\ target' = reader /\ Goto("flash")
     \/ UNCHANGED target /\ Stop("nothing")
  /\ UNCHANGED <<cards, run, picked, sized, confirmed, written>>

\* The check before the flash, and open(), of which only a refusal is told apart.
Open ==
  /\ pc = "open"
  /\ \/ reader # None /\ Matches(reader) /\ target' = reader /\ Goto("flash")
     \/ UNCHANGED target /\ (Stop("nothing") \/ Stop("invalid"))
  /\ UNCHANGED <<cards, run, picked, sized, confirmed, written>>

(***************************************************************************)
(* The flash.                                                              *)
(***************************************************************************)
\* The first chunk.  A size of 0 lets not even this one through.
FlashBegins ==
  /\ pc = "flash"
  /\ IF sized /\ target # None
     THEN /\ content' = [content EXCEPT ![target] = "partial"]
          /\ ident' = [ident EXCEPT ![target] = 0]
          /\ uuid' = [uuid EXCEPT ![target] = None]
          /\ written' = written \union {target} /\ Goto("stream")
     ELSE Stop("invalid") /\ UNCHANGED <<content, ident, uuid, written>>
  /\ UNCHANGED <<reader, imageUuid, cached, record, run, picked, sized, confirmed, target>>

\* The rest, and fsync(), if the image fits on the card and within the listed size.
FlashEnds ==
  /\ pc = "stream" /\ target # None /\ target \notin Small /\ picked \notin Small
  /\ Goto("settle")
  /\ content' = [content EXCEPT ![target] = "image"]
  /\ uuid' = [uuid EXCEPT ![target] = imageUuid]
  /\ UNCHANGED <<reader, ident, imageUuid, cached, record, found>>

\* A mistake the runs must notice: PermissionError, which is for open(), is
\* what a failed write is reported as.
FlashFailsUntouched ==
  /\ pc = "stream" /\ Stop("nothing")
  /\ UNCHANGED <<cards, found>>

\* The guard of the listed size, a full or vanished card, a bad archive.
FlashFails ==
  /\ pc = "stream" /\ Stop("invalid")
  /\ UNCHANGED <<cards, found>>

(***************************************************************************)
(* The identity.                                                           *)
(***************************************************************************)
\* sync, two seconds, and a new list.
Relist ==
  /\ pc = "settle" /\ ((reader # None /\ Goto("mount")) \/ Stop("unknown"))
  /\ UNCHANGED <<cards, found>>

\* The check after the flash, the boot partition, mount and boot markers.
Mount ==
  /\ pc = "mount"
  /\ \/ reader = None /\ Stop("unknown")
     \/ reader # None /\ ~Matches(reader) /\ Stop("verify by hand")
     \/ reader # None /\ Matches(reader) /\ Stop("not individualized")
     \/ /\ reader # None /\ Matches(reader)
        /\ content[reader] \in {"pi", "image"} /\ Goto("write")
  /\ UNCHANGED <<cards, found>>

\* Not synced, and an OSError is not caught.
WriteIdentity ==
  /\ pc = "write"
  /\ \/ ident' = [ident EXCEPT ![reader] = run] /\ Goto("record")
     \/ ident' = [ident EXCEPT ![reader] = Torn] /\ (Stop("traceback") \/ Stop("aborted"))
  /\ written' = written \union {reader} /\ cached' = reader
  /\ UNCHANGED <<reader, content, uuid, imageUuid, record, run, picked, sized, confirmed, target>>

\* --identity-out, when it is given.
Record ==
  /\ pc = "record"
  /\ \/ record' \in {run, record} /\ Goto("eject")
     \/ record' = Torn /\ Stop("traceback")
  /\ UNCHANGED <<reader, content, ident, uuid, imageUuid, cached, found>>

\* A mistake the runs must notice: an eject that fails is not an error.
EjectCareless ==
  /\ pc = "eject" /\ Stop("complete") /\ cached' \in {None, cached}
  /\ UNCHANGED <<reader, content, ident, uuid, imageUuid, record, found>>

\* The eject writes what is cached.
Eject ==
  /\ pc = "eject"
  /\ \/ cached' = None /\ Stop("complete")
     \/ UNCHANGED cached /\ Stop("eject failed")
  /\ UNCHANGED <<reader, content, ident, uuid, imageUuid, record, found>>

(***************************************************************************)
(* The operator.                                                           *)
(***************************************************************************)
\* Ctrl-C: one message wherever it was.
Interrupt ==
  /\ pc # "done" /\ Stop("aborted")
  /\ UNCHANGED <<cards, found>>

\* A card is taken out or put in while the tool waits.  Its descriptor ends
\* with it, and what was cached for it may be lost.
Swap ==
  /\ pc \in {"choose", "confirm", "fits", "unmount", "open", "flash", "stream", "settle", "done"}
  /\ reader' \in (Media \union {None}) \ {reader}
  /\ target' = IF pc \in {"flash", "stream"} THEN None ELSE target
  /\ cached' = None
  /\ \/ UNCHANGED ident
     \/ cached # None /\ ident' = [ident EXCEPT ![cached] = Torn]
  /\ UNCHANGED <<content, uuid, imageUuid, record, run, picked, sized, confirmed, written>>
  /\ UNCHANGED <<pc, told>>

\* The tool is run again.  What an earlier run flashed is a card like others.
Again ==
  /\ pc = "done" /\ run < MaxRuns
  /\ run' = run + 1 /\ pc' = "args" /\ told' = "running"
  /\ content' = [c \in Media |-> IF content[c] = "image" THEN "pi" ELSE content[c]]
  /\ written' = {} /\ picked' = None /\ sized' = FALSE /\ target' = None
  /\ confirmed' = [card |-> None, uuid |-> None]
  /\ UNCHANGED <<reader, ident, uuid, imageUuid, cached, record>>

Init ==
  /\ reader = None /\ cached = None /\ run = 1 /\ pc = "args" /\ told = "running"
  /\ content \in [Media -> {"blank", "pi"}]
  /\ ident = [c \in Media |-> 0] /\ record = 0
  /\ \E known \in SUBSET Media : uuid = [c \in Media |-> IF c \in known THEN c ELSE None]
  /\ imageUuid \in {"image", None}
  /\ picked = None /\ sized = FALSE /\ target = None /\ written = {}
  /\ confirmed = [card |-> None, uuid |-> None]

Tool ==
  \/ Arguments \/ Choose \/ Confirm \/ Fits \/ Unmount \/ Open
  \/ FlashBegins \/ FlashEnds \/ FlashFails
  \/ Relist \/ Mount \/ WriteIdentity \/ Record \/ Eject

Next == Tool \/ Interrupt \/ Swap \/ Again

Spec == Init /\ [][Next]_vars

-----------------------------------------------------------------------------
(***************************************************************************)
(* Properties.                                                             *)
(***************************************************************************)
\* Type correctness; what was listed or named is a disk that is safe to offer.
TypeOK ==
  /\ reader \in Media \union {None} /\ cached \in Media \union {None}
  /\ content \in [Media -> {"blank", "pi", "partial", "image"}]
  /\ ident \in [Media -> (0..MaxRuns) \union {Torn}]
  /\ uuid \in [Media -> Media \union {"image", None}] /\ imageUuid \in {"image", None}
  /\ pc \in {"args", "choose", "confirm", "fits", "unmount", "open", "flash", "stream",
             "settle", "mount", "write", "record", "eject", "done"}
  /\ run \in 1..MaxRuns /\ picked \in Safe \union {None} /\ sized \in BOOLEAN
  /\ confirmed \in [card : Media \union {None}, uuid : Media \union {"image", None}]
  /\ target \in Media \union {None} /\ written \subseteq Media
  /\ record \in (0..MaxRuns) \union {Torn}

\* Whatever is changed in the reader, and whenever, a run writes only to cards
\* that are the confirmed one, or that diskutil cannot tell from it: one of the
\* two has no DiskUUID.  What is erased is never a card that differs in its
\* name, its size, or a UUID that both report.
OnlyConfirmed ==
  [][\A c \in Media :
       content'[c] = "partial" /\ content[c] # "partial"
       => /\ Class(c) = Class(confirmed.card)
          /\ c = confirmed.card \/ uuid[c] = None \/ confirmed.uuid \in {None, uuid[c]}]_vars

\* The identity goes to the confirmed card or to one alike: the card that was
\* put in after the flash does not get the new device's password.
IdentityBound ==
  \A c \in Media : ident[c] = run => Class(c) = Class(confirmed.card)

\* What the operator is told is so: after "nothing written" and "the card is
\* untouched" no card was written to; after a card was called invalid, unknown,
\* not individualized or to be verified by hand, no card has this run's identity.
ReportTrue ==
  /\ told = "nothing" => written = {}
  /\ told \in {"invalid", "unknown", "not individualized", "verify by hand"}
     => \A c \in Media : ident[c] # run

\* "Provisioning complete" means a card of the confirmed class holds this run's
\* identity, whole, and still does when it has been taken out; that a card was
\* flashed; and that nothing but these two was written to.
CompleteIsComplete ==
  told = "complete" =>
    \E c \in written :
      /\ ident[c] = run /\ content[c] \in {"pi", "image"} /\ Class(c) = Class(target)
      /\ content[target] = "image" /\ written = {c, target}
===============================================================================
