------------------------------- MODULE Identity -------------------------------
(***************************************************************************)
(* How a device gets and keeps its identity: the file provisioning puts on *)
(* the boot partition, firstboot.sh which personalises the device from it, *)
(* identity-relocate which moves it to protected storage, the Portal which *)
(* reads it, apply-pi.sh which delivers another one over SSH, and power    *)
(* cuts.                                                                   *)
(*                                                                         *)
(* Every file system has the state programs see and the set of states a    *)
(* power cut may leave: each state since the last sync of that file        *)
(* system, in order (the root file system is journalled).                  *)
(***************************************************************************)
EXTENDS Naturals

CONSTANTS
  Ids,        \* identities firstboot.sh accepts
  Reapply,    \* may apply-pi.sh run on a device already personalised?
  MaxFaults   \* power cuts, failed steps and deliveries in a behaviour

ASSUME ConstantsAssumption ==
  /\ Ids # {}
  /\ Ids \intersect {"none", "torn", "odd"} = {}
  /\ Reapply \in BOOLEAN
  /\ MaxFaults \in Nat

VARIABLES
  root,       \* the root file system, see Root
  rootCut,    \* the root file systems a power cut may leave
  boot,       \* palmimo-identity.json on the boot partition
  bootCut,    \* the boot files a power cut may leave
  pc,         \* what systemd is at: boot units in order, then "up"
  mem,        \* the identity firstboot.sh or identity-relocate has read
  active,     \* palmimo-firstboot.service is active (RemainAfterExit)
  portal,     \* the identity the running Portal has read
  apply,      \* apply-pi.sh: its step, the identity it delivers, and whether a power
              \* cut has taken the boot partition back since it first ran
  faults

vars == <<root, rootCut, boot, bootCut, pc, mem, active, portal, apply, faults>>
rootfs == <<root, rootCut>>
bootfs == <<boot, bootCut>>

\* "odd": well formed for identity-relocate, refused by the regular
\* expressions of firstboot.sh.  "torn": not JSON.
Accepted(i) == i \in Ids
Readable(i) == i \in Ids \union {"odd"}

Root == [name : Ids \union {"none"},  \* hostname and hosts
         ap : Ids \union {"none"},    \* ap_password in comitup.conf
         marker : BOOLEAN,            \* firstboot-done
         prot : Ids \union {"odd", "none"},  \* /etc/palmimo/identity.json
         env : BOOLEAN]               \* identity.env
BootFile == Ids \union {"odd", "torn", "none"}

Fault == faults < MaxFaults /\ faults' = faults + 1
NoFault == UNCHANGED faults

\* A write that reaches the page cache; one that is synced; one that fails,
\* before or after it became visible.
Write(r) == root' = r /\ rootCut' = rootCut \union {r}
WriteSync(r) == root' = r /\ rootCut' = {r}
WriteFails(r) == Write(r) \/ UNCHANGED rootfs
SetBoot(b) == boot' = b /\ bootCut' = bootCut \union {b}

Step(from, to) == pc = from /\ pc' = to

(***************************************************************************)
(* palmimo-firstboot.service, at boot or started by apply-pi.sh.           *)
(***************************************************************************)
AfterFirstboot == IF apply.step = "starting" THEN "up" ELSE "relocate"
Started == IF apply.step = "starting" THEN [apply EXCEPT !.step = "started"] ELSE apply
StartFailed == IF apply.step = "starting" THEN [apply EXCEPT !.step = "failed"] ELSE apply

\* A mistake the runs must notice: only the boot copy can personalise the device.
FirstbootBootOnly == ~root.marker /\ boot # "none"

FirstbootCondition == ~root.marker /\ (boot # "none" \/ root.prot # "none")

FirstbootSkip ==
  /\ Step("firstboot", AfterFirstboot) /\ (~FirstbootCondition \/ active)
  /\ apply' = Started
  /\ UNCHANGED <<rootfs, bootfs, mem, active, portal, faults>>

\* The boot copy when there is one, however broken it is.
Source == IF boot # "none" THEN boot ELSE root.prot

FirstbootRead ==
  /\ Step("firstboot", "fbName") /\ FirstbootCondition /\ ~active
  /\ Accepted(Source) /\ mem' = Source
  /\ UNCHANGED <<rootfs, bootfs, active, portal, apply, faults>>

\* A mistake the runs must notice: a failing command does not end the script.
FirstbootGoesOn ==
  /\ \/ pc = "firstboot" /\ FirstbootCondition /\ ~active /\ ~Accepted(Source) /\ NoFault
        /\ pc' = AfterFirstboot /\ apply' = StartFailed
     \/ Step("fbName", "fbConf") /\ Fault /\ UNCHANGED apply
     \/ Step("fbConf", "fbMark") /\ Fault /\ UNCHANGED apply
  /\ UNCHANGED <<rootfs, bootfs, mem, active, portal>>

\* A source that is not accepted, or any command that fails (set -e).
FirstbootFails ==
  /\ \/ pc = "firstboot" /\ FirstbootCondition /\ ~active /\ ~Accepted(Source) /\ NoFault
     \/ pc = "firstboot" /\ FirstbootCondition /\ ~active /\ Fault
     \/ pc \in {"fbName", "fbConf", "fbMark"} /\ Fault
  /\ pc' = AfterFirstboot /\ apply' = StartFailed
  /\ UNCHANGED <<rootfs, bootfs, mem, active, portal>>

FirstbootName ==
  /\ Step("fbName", "fbConf") /\ Write([root EXCEPT !.name = mem])
  /\ UNCHANGED <<bootfs, mem, active, portal, apply, faults>>

FirstbootConf ==
  /\ Step("fbConf", "fbMark") /\ Write([root EXCEPT !.ap = mem])
  /\ UNCHANGED <<bootfs, mem, active, portal, apply, faults>>

FirstbootMark ==
  /\ Step("fbMark", AfterFirstboot) /\ Write([root EXCEPT !.marker = TRUE])
  /\ active' = TRUE /\ apply' = Started
  /\ UNCHANGED <<bootfs, mem, portal, faults>>

(***************************************************************************)
(* palmimo-identity-relocate.service, wanted by every start of the Portal, *)
(* which starts after it whether it succeeds or not.                       *)
(***************************************************************************)
RelocateCondition == boot # "none" /\ root.marker

RelocateSkip ==
  /\ Step("relocate", "portal") /\ ~RelocateCondition
  /\ UNCHANGED <<rootfs, bootfs, mem, active, portal, apply, faults>>

\* A boot copy that does not parse gives way to the protected one.
Chosen == IF Readable(boot) THEN boot ELSE root.prot

\* A mistake the runs must notice: the boot copy is taken as it is.
RelocateReadAny ==
  /\ Step("relocate", "rlWrite") /\ RelocateCondition
  /\ mem' = boot
  /\ UNCHANGED <<rootfs, bootfs, active, portal, apply, faults>>

RelocateRead ==
  /\ Step("relocate", "rlWrite") /\ RelocateCondition
  /\ Readable(Chosen) /\ mem' = Chosen
  /\ UNCHANGED <<rootfs, bootfs, active, portal, apply, faults>>

RelocateReadFails ==
  /\ Step("relocate", "portal") /\ RelocateCondition
  /\ (~Readable(Chosen) /\ NoFault) \/ Fault
  /\ UNCHANGED <<rootfs, bootfs, mem, active, portal, apply>>

\* A mistake the runs must notice: the pointer is written first.
RelocatePointsFirst ==
  /\ pc = "rlWrite"
  /\ LET pointed == [root EXCEPT !.env = TRUE]
     IN \/ WriteSync(pointed) /\ pc' = "rlEnv" /\ NoFault
        \/ WriteFails(pointed) /\ pc' = "portal" /\ Fault
  /\ UNCHANGED <<bootfs, mem, active, portal, apply>>

\* A mistake the runs must notice: a failed write of the copy is not noticed.
RelocateWriteUnchecked ==
  /\ pc = "rlWrite" /\ pc' = "rlEnv"
  /\ LET moved == [root EXCEPT !.prot = mem]
     IN (WriteSync(moved) /\ NoFault) \/ (WriteFails(moved) /\ Fault)
  /\ UNCHANGED <<bootfs, mem, active, portal, apply>>

\* Temporaries of earlier runs go first; then the copy, synced with its
\* directory and read back.
RelocateWrite ==
  /\ pc = "rlWrite"
  /\ LET moved == [root EXCEPT !.prot = mem]
     IN \/ WriteSync(moved) /\ pc' = "rlEnv" /\ NoFault
        \/ WriteFails(moved) /\ pc' = "portal" /\ Fault
  /\ UNCHANGED <<bootfs, mem, active, portal, apply>>

RelocateEnv ==
  /\ pc = "rlEnv"
  /\ LET pointed == [root EXCEPT !.env = TRUE]
     IN \/ WriteSync(pointed) /\ pc' = "rlUnlink" /\ NoFault
        \/ WriteFails(pointed) /\ pc' = "portal" /\ Fault
  /\ UNCHANGED <<bootfs, mem, active, portal, apply>>

\* The boot copy goes last, by name, whatever it holds by now.
RelocateUnlink ==
  /\ pc = "rlUnlink"
  /\ \/ SetBoot("none") /\ pc' = "rlSync" /\ NoFault
     \/ UNCHANGED bootfs /\ pc' = "portal" /\ Fault
  /\ UNCHANGED <<rootfs, mem, active, portal, apply>>

RelocateSync ==
  /\ Step("rlSync", "portal")
  /\ (bootCut' = {boot} /\ NoFault) \/ (UNCHANGED bootCut /\ Fault)
  /\ UNCHANGED <<rootfs, boot, mem, active, portal, apply>>

PortalStart ==
  /\ Step("portal", "up")
  /\ portal' = IF root.env THEN root.prot ELSE boot
  /\ UNCHANGED <<rootfs, bootfs, mem, active, apply, faults>>

PortalRestart ==
  /\ Step("up", "relocate") /\ apply.step \notin {"starting", "restarting"}
  /\ UNCHANGED <<rootfs, bootfs, mem, active, portal, apply, faults>>

(***************************************************************************)
(* apply-pi.sh, as far as the identity is concerned: step 6 and, with      *)
(* --identity, step 9.                                                     *)
(***************************************************************************)
Idle == [step |-> "idle", id |-> "none", reverted |-> FALSE]
Ended == {"idle", "ok", "skipped", "failed", "incomplete"}

\* rsync puts the comitup.conf of files/ in place, which has no ap_password.
ApplyFiles(i) ==
  /\ pc = "up" /\ apply.step \in Ended /\ (Reapply \/ ~root.marker)
  /\ Fault /\ Write([root EXCEPT !.ap = "none"])
  /\ apply' = [apply EXCEPT !.step = "files", !.id = i]
  /\ UNCHANGED <<bootfs, pc, mem, active, portal>>

ApplySkip ==
  /\ apply.step = "files" /\ apply.id = "none"
  /\ apply' = [apply EXCEPT !.step = "skipped"]
  /\ UNCHANGED <<rootfs, bootfs, pc, mem, active, portal, faults>>

\* mv from /tmp to the boot partition copies across file systems.
ApplyCopy ==
  /\ apply.step = "files" /\ apply.id # "none"
  /\ SetBoot("torn") /\ apply' = [apply EXCEPT !.step = "copying"]
  /\ UNCHANGED <<rootfs, pc, mem, active, portal, faults>>

\* What is copied to a file that was unlinked meanwhile is lost.
ApplyMove ==
  /\ apply.step = "copying" /\ apply' = [apply EXCEPT !.step = "moved"]
  /\ IF boot = "torn" THEN SetBoot(apply.id) ELSE UNCHANGED bootfs
  /\ UNCHANGED <<rootfs, pc, mem, active, portal, faults>>

ApplyStart ==
  /\ apply.step = "moved" /\ apply' = [apply EXCEPT !.step = "starting"]
  /\ Step("up", "firstboot")
  /\ UNCHANGED <<rootfs, bootfs, mem, active, portal, faults>>

ApplyRestart ==
  /\ apply.step = "started" /\ apply' = [apply EXCEPT !.step = "restarting"]
  /\ Step("up", "relocate")
  /\ UNCHANGED <<rootfs, bootfs, mem, active, portal, faults>>

\* A mistake the runs must notice: the boot copy is not looked for at the end.
ApplyUnchecked ==
  /\ apply.step = "restarting" /\ pc = "up"
  /\ apply' = [apply EXCEPT !.step = "ok"]
  /\ UNCHANGED <<rootfs, bootfs, pc, mem, active, portal, faults>>

ApplyCheck ==
  /\ apply.step = "restarting" /\ pc = "up"
  /\ apply' = [apply EXCEPT !.step = IF boot = "none" THEN "ok" ELSE "incomplete"]
  /\ UNCHANGED <<rootfs, bootfs, pc, mem, active, portal, faults>>

\* The connection breaks between two commands: the script ends, what the last
\* one started goes on.
ApplyBreaks ==
  /\ apply.step \in {"files", "copying", "moved", "started", "restarting"}
  /\ Fault /\ apply' = [apply EXCEPT !.step = "failed"]
  /\ UNCHANGED <<rootfs, bootfs, pc, mem, active, portal>>

(***************************************************************************)
(* Power and the owner.                                                    *)
(***************************************************************************)
PowerOn ==
  /\ Step("off", "firstboot") /\ active' = FALSE
  /\ UNCHANGED <<rootfs, bootfs, mem, portal, apply, faults>>

Lost == IF apply.step \in Ended THEN apply
        ELSE [apply EXCEPT !.step = "failed"]

PowerCut ==
  /\ pc # "off" /\ pc' = "off" /\ Fault
  /\ root' \in rootCut /\ rootCut' = {root'}
  /\ boot' \in bootCut /\ bootCut' = {boot'}
  /\ mem' = "none" /\ portal' = "none" /\ active' = FALSE
  /\ apply' = [Lost EXCEPT !.reverted = @ \/ (boot' # boot /\ apply.step # "idle")]

Reboot ==
  /\ Step("up", "off")
  /\ rootCut' = {root} /\ bootCut' = {boot}
  /\ mem' = "none" /\ portal' = "none" /\ active' = FALSE /\ apply' = Lost
  /\ UNCHANGED <<root, boot, faults>>

\* The Portal's factory reset wipes /var/lib/palmimo and keeps /etc/palmimo;
\* it is written back long before anyone can deliver another identity.
FactoryReset ==
  /\ pc = "up" /\ root.marker /\ Fault
  /\ WriteSync([root EXCEPT !.marker = FALSE])
  /\ UNCHANGED <<bootfs, pc, mem, active, portal, apply>>

(***************************************************************************)
(* The specification.                                                      *)
(***************************************************************************)
\* A card fresh from provisioning, or a DIY card without an identity.
Init ==
  /\ root = [name |-> "none", ap |-> "none", marker |-> FALSE, prot |-> "none", env |-> FALSE]
  /\ rootCut = {root}
  /\ boot \in Ids \union {"none"} /\ bootCut = {boot}
  /\ pc = "off" /\ mem = "none" /\ active = FALSE /\ portal = "none"
  /\ apply = Idle /\ faults = 0

Firstboot ==
  \/ FirstbootSkip \/ FirstbootRead \/ FirstbootFails
  \/ FirstbootName \/ FirstbootConf \/ FirstbootMark
Relocate ==
  \/ RelocateSkip \/ RelocateRead \/ RelocateReadFails
  \/ RelocateWrite \/ RelocateEnv \/ RelocateUnlink \/ RelocateSync
Boot == PowerOn \/ Firstboot \/ Relocate \/ PortalStart
Apply ==
  \/ \E i \in Ids \union {"odd", "none"} : ApplyFiles(i)
  \/ ApplySkip \/ ApplyCopy \/ ApplyBreaks
  \/ ApplyMove \/ ApplyStart \/ ApplyRestart \/ ApplyCheck
Owner == PowerCut \/ Reboot \/ FactoryReset \/ PortalRestart

Next == Boot \/ Apply \/ Owner

Spec == Init /\ [][Next]_vars

\* systemd goes through its units, and the device is switched off and on
\* again now and then.
FairSpec == Spec /\ WF_vars(Boot) /\ SF_vars(Reboot)

(***************************************************************************)
(* Properties.                                                             *)
(***************************************************************************)
Steps == {"off", "firstboot", "fbName", "fbConf", "fbMark", "relocate", "rlWrite",
          "rlEnv", "rlUnlink", "rlSync", "portal", "up"}
ApplySteps == Ended \union {"files", "copying", "moved", "starting", "started", "restarting"}
Delivery == [step : ApplySteps, id : Ids \union {"odd", "none"}, reverted : BOOLEAN]

TypeOK ==
  /\ root \in Root /\ rootCut \subseteq Root
  /\ boot \in BootFile /\ bootCut \subseteq BootFile
  /\ pc \in Steps
  /\ mem \in Ids \union {"odd", "none"}
  /\ active \in BOOLEAN
  /\ portal \in BootFile
  /\ apply \in Delivery
  /\ faults \in 0..MaxFaults

\* A power cut at this moment leaves an identity the Portal and firstboot.sh
\* can still read.
Survives ==
  \A r \in rootCut, b \in bootCut : Readable(b) \/ Readable(r.prot)

\* identity-relocate, wherever it fails or is cut, never takes that away
\* (identity-relocate:91 "Keep the boot copy until both the protected copy
\* and its pointer are durable").
RelocateKeepsIdentity ==
  [][Survives /\ Relocate => Survives']_vars

\* Whatever a cut leaves, a pointer that the Portal would follow leads to a
\* whole protected copy (the order write-identity, verify-identity,
\* write-environment in identity-relocate).
PointerIsWhole ==
  \A r \in rootCut \union {root} : r.env => Readable(r.prot)

\* One value on the sticker (design.md:687-691): a manufactured device that is
\* personalised and has no boot copy left has, as hostname, access point
\* password and Portal login, one and the same identity, whatever was cut,
\* failed or reset on the way.
OneSticker ==
  root.marker /\ boot = "none" /\ root.prot # "none" /\ apply = Idle =>
    /\ root.ap = root.prot /\ root.name = root.prot
    /\ pc = "up" => portal = root.prot

\* When apply-pi.sh reports the identity applied and firstboot completed, the
\* device has its name and its access point's password from it, and the Portal's
\* copy is it (apply-pi.sh:265).
AppliedHolds ==
  [][apply'.step = "ok" /\ apply.step # "ok" =>
       /\ root.name = apply.id /\ root.ap = apply.id
       /\ root.prot = apply.id /\ portal = apply.id]_vars

\* Running apply-pi.sh again is safe (design.md, the failure matrix): when it
\* has ended without an error, a personalised device still has the password
\* of its sticker on its access point.
RerunSafe ==
  apply.step \in {"ok", "skipped"} /\ root.marker /\ boot = "none" /\ Readable(root.prot)
    => root.ap # "none"

\* An identity that firstboot.sh accepts does not stay on the boot partition:
\* once faults stop, it is moved and the device personalised from it, whatever
\* failed, broke off or was reset, unless none was ever given, or what was
\* delivered over SSH is cut short or refused, or was not synced when a power
\* cut came (apply-pi.sh:258, and a warning only in identity-relocate:106).
Secured == boot = "none" /\ root.marker /\ Readable(root.prot) /\ root.env /\ root.ap = root.prot
NothingGiven == boot = "none" /\ root.prot = "none"
DeliveryFailed == boot \in {"odd", "torn"} \/ apply.reverted
EventuallySecured == <>[](Secured \/ NothingGiven \/ DeliveryFailed)
===============================================================================
