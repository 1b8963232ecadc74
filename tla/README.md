# A TLA+ model of palmimo-image

palmimo-image builds the SD card image of a Palmimo device and carries what runs
on the device below its Portal: the updater of the face display's firmware, the
personalisation of the device, the patches to comitup, the platform installer
and the app runner, with the tools that flash the card and build the image. This
directory models the parts of it that keep state across failures, checks them
with TLC and proves some of the results with TLAPS.

    tlc -config DisplaySafety.cfg MCDisplayFirmware.tla     # one run
    tlapm DisplayFirmwareProofs.tla                          # proofs (2-3 minutes)

Line numbers below are of the repository's files; `PROJECT.json` maps every
definition to its lines.

## Inventory

| Component | State | Operations | What is hard | What makes it correct |
|---|---|---|---|---|
| Face display firmware updater (`platform/files/usr/local/libexec/palmimo/palmimo-display-firmware`) | the flash and USB mode of each face, `state.json`, the bundle's declaration and image, the memory of a run | `ensure`, at boot or by hand, with or without `--adopt-bootsel` | cuts inside a write, faces swapped between two looks, retries with a limit, a deadline that can be raised anywhere, two files replaced by an install | a face that can start runs one whole image; only the recorded face is written; failures are not forgotten; the report is true; the update completes in the end |
| Display reservation (same file, 105-150) | `/run/lock/palmimo/display.lock`, flocks | reserve, release | directory and file are created in a race; processes die half way | one holder |
| Device identity (`firstboot.sh`, `identity-relocate`, two units, a Portal drop-in, steps 6 and 9 of `apply-pi.sh`) | the boot copy, the protected copy and its pointer, hostname, access point password, marker | first boot, relocation at each start of the Portal, delivery over SSH, factory reset | two file systems with caches and power cuts; a step that fails in the middle; re-runs; SSH breaks | the identity is never lost; one identity everywhere; success is reported truly; it is personalised in the end |
| comitup patches (`platform/lib/patch_comitup_*.py`) | the patched sources; at run time a one-shot filter flag, the id of the startup hotspot, the avahi group | candidate lookup with scan and rescan, the HOTSPOT callbacks, residual disconnects, `clear_entries` | callbacks in any order and of past states, one deadline over many D-Bus calls, networks that move, edits by the Portal | a scan request is consumed by the callback that made it; no connection or access point is given up for nothing; the device ends up connected or reachable |
| Platform installer (`platform/install.sh`, `manifest_tool.py`, `verify_platform.py`, `tools/build_platform_bundle.py`) | accounts, packages, comitup's files, owned files, uv, bundle cache, `installed.json` | install, verify, record | kills and cuts between any two steps, another bundle next, verify at any time | a run that succeeds converges; the cache comes last and is whole; a later run always succeeds |
| App runner (`app-sync`, `app-launch`, two units) | staging and trash directories | sync, purge, launch | a tree with closed directories and links, whose walk restarts at every error | purge stays below its target, ends, and removes what it can |
| SD provisioning (`tools/provision_sd.py`) | the card in the reader, the confirmed fingerprint, the identity and its record | list, confirm, flash, identify, eject | a card swapped at any wait gets the same name; writes that fail half way | only the confirmed card is erased or gets the identity; the report is true |
| Image build (`tools/make_image.py`) | `.workspace`, pi-gen's container, `deploy/`, `dist/` | build, `--clean` | a killed invocation leaves a build that goes on | the image announced is the one that was asked for |
| OSS compliance collector (`lib/collect_oss_compliance.py`) | sources, licenses and MANIFEST.txt in the image | one run, after earlier ones in the same chroot | stale output, partial downloads, packages that change between runs | MANIFEST.txt is what is on the medium |
| SSH application (`apply-pi.sh`) | with Device identity and Platform installer | step 2 patches comitup, steps 6 and 9 deliver an identity, step 8b runs `install.sh` | re-runs | success is reported truly |
| Small tools, polkit rules, CI | files | conversions | few: stateless | pure decisions |

How they interact: provisioning writes the identity to the boot partition;
`palmimo-firstboot.service` personalises the device from it;
`palmimo-identity-relocate.service`, wanted by the Portal, moves it to
`/etc/palmimo` before the Portal reads it; `palmimo-display-firmware.service`
runs after firstboot and before the Portal. The installer replaces the updater's
declaration and image, while a run may be reading them. The Portal and the apps
take the same display reservation as the updater. The installer patches comitup
and restarts it, `apply-pi.sh` patches it, too, and what the patches then do
inside comitup is a model of its own. `make_image.py` starts pi-gen, in whose
container the collector is a stage. The Portal starts a purge through the unit
of app-sync. The Portal, comitup, NetworkManager, avahi, docker, pi-gen and
`shutil.rmtree` are not in this repository: they are modelled from how this code
uses them, and marked external in `PROJECT.json`.

## Modules

| Module | What it models |
|---|---|
| `DisplayFirmware` | the updater and the faces |
| `FaceUpdate` | what the updater promises, without its steps; `DisplayFirmware` implements it |
| `Reservation` | the reservation |
| `Identity` | firstboot, relocation, delivery over SSH, Portal start |
| `ComitupReconnect` | what the patches do inside comitup |
| `PlatformInstall` | `install.sh` on a device |
| `ProvisionSD` | `provision_sd.py` |
| `OssCompliance` | the collector: one run after another in a chroot |
| `ImageBuild` | `make_image.py`; extends `OssCompliance`, whose runs are a stage of the container |
| `AppPurge` | app-sync's purge |
| `...Proofs` | theorems about the module of that name; `ImageBuildProofs` is also about `OssCompliance` |
| `MC...` | the instances for TLC: sets of nodes, and data that a cfg cannot write down |

### DisplayFirmware

`flash[c]` is the first flash sector of face `c` (`header`) and the rest
(`body`): the three writes of `update()` (475-484) are a blank header, the
body, the header. A header is a version, `"blank"` (the boot ROM stays in
BOOTSEL) or `"torn"` (a cut write: the ROM may do anything, so may the model).
`mode[c]` is what `Hardware.cdc()` and `bootsel_serials()` see: `cdc`,
`bootsel`, `dark` (hangs), `out`, and the two transitions in which it is
invisible. `declared` and `packed` are `firmware.json` and the version whose
digest `face_serial.bin.gz` has. `disk` is `state.json`. `u` is the memory of
the `Updater` object; `u.pc` names the place in `ensure()`/`update()`:

| `u.pc` | lines |
|---|---|
| `idle`, then `probe` | 498-534 (`Refuse`, `Undeclared`, `BadDeclaration`, `Prepare`), 399-421, 427-442 (`Probe*`) |
| `identify`, `match` | 415-423 (`Identify`), 443-444 (`Match`) |
| `gate` | 424-426, 445-458 (`Current`, `Skip`, `Unpack`) |
| `enter`, `wait`, `touch`, `rematch` | 459-474 |
| `blank`, `body`, `header` | 475-484 (`Load`, `LoadMisses`, `StageFails`) |
| `restart`, `verify` | 485-496 |
| `handler`, `restore`, `settle` | 542-550, 381-396 |
| `final` | 554-562 |

Every `save()` may fail before or after its rename (`SaveThen`). `Deadline`
raises `DeadlineError` at any statement of the try, in the handler and while
settling: it stands for the exhausted budget and for SIGTERM. `Kill`,
`PowerCut`, `Handle` (a hand plugs, unplugs, presses RST with or without BOOT),
`Install` and `Forget` are the environment. One run at a time is what
`Reservation` shows.

### Reservation

One action per system call of `reservation()` that another process can observe.
A directory or file is called after the process that made it. `link()` does not
replace; `rename()` of a directory replaces an empty one. `Reboot` empties
`/run/lock`.

### Identity

`root` is what matters of the root file system (name, access point password,
marker, protected copy, pointer); `boot` is the boot copy. `rootCut` and
`bootCut` are the states a power cut may leave, every state since the last sync
of that file system: ext4 is journalled, so a later change is not kept without
an earlier one, and the states are those of a prefix of the changes.
`firstboot.sh` syncs nothing; `atomic_write` syncs file and directory; `sync -f`
syncs the boot partition. The hostname and hosts files are one step (`FirstbootName`);
comitup.conf is replaced by rename (`FirstbootConf`); the marker comes last.
`"odd"` is an identity that `identity-relocate` can parse and
`firstboot.sh` refuses; `"torn"` is a cut copy. `pc` walks through the units as
systemd orders them. `apply` is where `apply-pi.sh` is; `Reapply` says whether
it may run on a device already personalised; `apply.reverted` is a history
field, set when a power cut takes the boot partition back.

### ComitupReconnect

The patches append code to `nm.py`, `states.py` and `mdns.py` of comitup, a GLib
loop: callbacks run one at a time, in any order, each for the `state_id` it was
made for, and ask for a transition that a later callback carries out. `queue`
holds the transitions, `events` the HOTSPOT callbacks that are due; an event
whose `current` is FALSE is of a past id. `pass` is `_palmimo_startup_pass_id =
state_id` and `flag` the one-shot `_palmimo_filter_next_candidates`. A decision
of a HOTSPOT callback has two steps, between which the world and the Portal,
which are other processes, may act: `Reading` reads the priorities (98-114), the
active connection and the hidden profiles (219-231), and `Decide` is the scan
and the end of the callback. A profile that cannot be read has priority 0, one
that the Portal is changing that of before or after, and one whose `hidden`
cannot be read is not exempt from the filter. `Lookup` is
`get_candidate_connections()`: the candidates in the order of what was read, and
after a request those that a scan reports (`Filtered`), with a second scan if
the first leaves nothing and the deadline has time for it (`Retries`), and every
profile if there is no first result. A wrong read or scan, an error or a passed
deadline is a fault. `heard`, `owed` and `stale` are history variables: what
spoke for the networks of a decision, which of them were not tried yet, and of
which it did not read the priority or the Portal changed it since. The rest is
comitup for one radio (`EnterHotspot`, `EnterConnecting`, `EnterConnected`,
`Attempt`) and the world: networks come and go, NetworkManager signals a loss
twice, avahi is restarted with each connection, and the Portal reorders and
forgets networks at any time.

### PlatformInstall

One action per step of `do_install`, in its order: `Accounts`, `AptPackages`,
`Patch`, `RestartComitup`, `OwnedFile`, `EnableUnits`, `TreeFile`, `TreeEnds`
(rsync and its `--delete`), `StateDirs`, `InstallUv`, `Upgrade`, `CacheCopy`,
`CacheAside`, `CacheSwap`, `CleanUp`, `Reload`, then `Record`. The content of an
owned file is the bundle it came from. A file of `usr/lib/palmimo` has a text, a
size and an mtime, because rsync decides by the last two; two bundles may have
the same text, and `Origin` says which trees are bundles (mtime 0) and which a
checkout. A restart of comitup may fail, which ends the run (`RestartComitup`),
and `ApplyPatches` is step 2 of `apply-pi.sh`, which patches and does not
restart; `lost` is a history variable: the files were patched by something that
ended without a restart. `Kill` is SIGKILL or a power cut at any step, with what
that step leaves half done: a torn file, an emptied file of comitup, a partial
`current.tmp`. `Answer` is what `verify` answers to
the Portal, which runs the cached bundle's `install.sh`.

### ProvisionSD

`reader` is what is behind the disk identifier now; macOS gives it to whatever
is put in next, so `Swap` is possible at every wait (a prompt, a long write, a
`sleep`) and the identifier stands for another card after it. `Alike` are the
classes of cards that have one MediaName and size: what diskutil can tell apart
beyond that is a UUID, which a blank card does not have. `Open` and `Mount` are
the two places that compare fingerprints. `cached` is an identity that was
written and not flushed: taking the card out may tear it.

### OssCompliance and ImageBuild

`OssCompliance` is `main()` of the collector: `Wipe`, a `Fetch` for each source
package, `PiLicenses`, `PortalLicenses`, `WriteManifest` (a temporary file and a
rename) and `CopyManifest`. `Downloads` is everything `apt-get source` may do;
`Fetched` is the verification of it. A chroot is chosen anew for every run: its
dpkg rows (with removed packages that left their configuration), copyright
files, Python dists and notices. A dist has license files, header lines alone,
neither, a license file that is not there, or no METADATA. `pi` and `portal` are
the files below `licenses/`: a run adds to them, and only `Wipe` empties them.

`ImageBuild` is `main()` of `make_image.py` around it. A killed tool leaves
`build-docker.sh` (`waiting`, `driver`) and the container, which go on; a
stopped container is removed, a running one refused (`Stray`). An image in
`deploy/` carries the invocation, commit and stage it was built from; a later
one has a later mtime.

### AppPurge

`stack` is the recursion of `shutil.rmtree`, whose calls nest because
`_chmod_and_retry` starts another one at the path that failed. The kernel's
permission checks are `Searchable`, `Writable` and `Opens`; `owner` tells a
directory of the app (any mode) from one of the Portal (group access, and chmod
fails). `Aim` is where chmod and `is_dir()` go for a link. `Above` and `Below` are
the ancestors and descendants of a node, without recursion, so that they can be
reasoned about. The initial states are all trees of the given shape.

## Runs

| Run | Instance | Shows |
|---|---|---|
| `display_safety` | 2 faces, 1 declared version and the legacy one, 3 faults; 986 thousand states | types; `WholeOrUnbootable`, `ReportTrue`, `RecordedOnly`, `RestartsWhole`, `FailuresKept`; every step is one of `FaceUpdate` |
| `display_live` | 1 face, 2 declared versions and the legacy one, 3 faults | `Converges` |
| `reservation_race` | 3 processes, symmetric | types, and that no ended attempt leaves a lock open; `Exclusive`, `OpenIsNamed` |
| `identity` | 2 identities, 4 faults, `Reapply` off | types; `PointerIsWhole`, `OneSticker`, `AppliedHolds`, `RelocateKeepsIdentity`, `EventuallySecured` |
| `identity_reapply` | `Reapply` on, 2 faults | violates `AppliedHolds`, see Findings |
| `identity_rerun` | `Reapply` on, 2 faults | violates `RerunSafe`, see Findings |
| `reconnect` | 2 networks, one hidden, 2 faults; 275 thousand states | types; `TriesBeforeAp`, `TriesInOrder`, `LiveKept`, `ApHeld`, `FallsBack`, `Reconnects` |
| `provision` | 3 cards, two of them alike and one too small, 2 runs; 670 thousand states | `IdentityBound`, `ReportTrue`, `CompleteIsComplete`, `OnlyConfirmed` |
| `install` | two bundles and a checkout, a kill or cut; 390 thousand states | types (the cache is whole); `Converges`, `ComitupFresh`, `CacheComesLast`, `Recovers` |
| `install_same_size` | three bundles, no kill | violates `Converges`, see Findings |
| `image` | 2 commits, 2 invocations, 5 chroots; 842 thousand states | types; `SourcesCorrespond`, `LicensesComplete`, `AnnouncedIsBuilt` |
| `purge` | 4 nodes below the target and one beside it, all kinds, owners and modes, 2 purges; 752 thousand states | types; `Purges`, `Finishes` |

Bounds. `MaxFaults` and `MaxRuns` are the only bounds on length. `MaxFaults`
counts failures of calls, deadlines, cuts, kills, wrong scans, failed reads, hand
movements, installs during an update, edits by the Portal, deliveries and resets
(the steps of `install.sh` that may fail are free); everything else is free and
finite. In `identity`, `apply-pi.sh` may be run as often as there are faults
left.

- Display: three faults let a write be cut, the next run fail in its save, and
  the face be swapped, and three boot failures reach the limit of three, which
  `Skip` needs. Two faces are enough to confuse one for another: all rules
  compare the attached faces with a single recorded one. Two declared versions
  are needed where a new declaration has to reset the count; in `display_safety`
  the legacy version is the second one, as versions matter there only by being
  equal or not.
- Identity: four faults let an identity be cut, reset, delivered and cut again.
- Reconnect: two networks give an order to try them in, with and without one
  that a scan must not filter; two faults let both scans of a decision be wrong,
  or the Portal edit the list while comitup acts on a wrong read. `Budget` is
  only compared: what matters is that both a short and a long first scan exist,
  of which one leaves time for a second.
- Install: a run is killed anywhere, and the one that repairs it may fail at any
  step that can, in any order of bundles. The second bundle retires a file, makes
  a helper longer and leaves the other as it is; the checkout drops that one and
  changes the first without changing its size: updates and downgrades from bundle
  to bundle, where rsync has only the size to go by, and to and from a checkout,
  whose files have times of their own.
  `install_same_size` takes the third for a bundle, too.
- Provision: a swap needs a second card, and a pair that diskutil cannot tell
  apart; a second run meets the card, and its identity, of the first.
- Image: two invocations are one that is killed and one that meets what is left
  of it; `Rerun` and chroots that differ in versions, removed packages and
  copyright files, and in every kind of dist, give the collector stale output of every kind.
- Purge: a directory in a directory in the target, with a link or a file in
  each, is the smallest tree in which a retry is nested in a retry; the second
  purge meets what the first, killed or not, left.

The theorems below do not have these bounds.

Deadlock is checked in every run.

Fairness. `FairSpec` of `DisplayFirmware` has weak fairness of the steps of a
run (the process is scheduled), of a face coming up after a restart, and strong
fairness of a boot run being started (`SF_vars(Prepare(TRUE, FALSE))`): the
device is booted again and again, and `palmimo-display-firmware.service` is
enabled and runs once a boot; strong, because runs by hand in between disable it
time and again. No fairness is assumed of faults or of hands. `FairSpec` of
`Identity` has weak fairness of the boot sequence (systemd goes on) and strong
fairness of `Reboot`: the device is switched off now and then. Reboots are
needed because a factory reset leaves firstboot to the next boot. `FairSpec` of
`ComitupReconnect` has weak fairness of each callback (the loop runs what is
due, timers included), of decisions (their deadline ends them), of attempts to
connect (NetworkManager answers) and of the report of a loss; nothing makes
networks, clients or the Portal move. `FairSpec` of `PlatformInstall` has weak
fairness of the steps of a run and of an update being started again after it
failed, and strong fairness of the steps that may fail succeeding, the restart
of comitup among them: the network and systemd do not fail for ever. Kills are
bounded, and not assumed to happen. `FairSpec` of `AppPurge` has weak fairness
of the walk. `ImageBuild`, `OssCompliance` and `ProvisionSD` are tools that a
person starts, and promise nothing eventually.

`Converges` of the display excuses what the documentation leaves to a person:
nothing valid declared, a `state.json` that does not load, three failures, no
face or two, a face that hangs, and an unrecorded face in BOOTSEL.
`EventuallySecured` excuses a device that never got an identity, a delivery over
SSH that was cut short or is refused, and one that a power cut undid because the
boot partition had not been synced: `apply-pi.sh` never syncs it, and relocation
only warns when it cannot. An earlier boot copy that such a cut brings back is
moved in its turn, and the device keeps the name of the one and the Portal login
of the other; that takes four faults. `Recovers` excuses a file of comitup that
was cut while it was patched, which no later install gets past, and
`ComitupFresh` what patched comitup and ended without restarting it, until a
later restart: a run killed in between, one whose restart failed, and
`apply-pi.sh`, whose step 2 patches (97-101) and which never restarts comitup,
so that the install of its step 8b has nothing to patch and comitup goes on
without the patches until the device restarts. `TriesInOrder` excuses a network
whose priority the decision could not read, or the Portal changed after the
read. `Purges` speaks of trees that are `Easy`. Two others end a purge with an
exception: a directory that an app closed to itself, directly in one of the
Portal's, which palmimo-app may not chmod; and a link in a directory that is not
writable, because chmod and `is_dir()` follow it and rmtree then refuses it. The
second kind is removed when the purge is started once more, as the parent is
writable by then.

## Findings

`identity_reapply` (doc and code disagree). Applying a second identity to a
personalised device replaces the protected identity and the Portal's login, and
leaves the hostname as it was, because
`palmimo-firstboot.service` is skipped (`ConditionPathExists=!...firstboot-done`)
or still active (`RemainAfterExit=yes`), for which `systemctl start` returns
success. The access point has the password of neither identity: step 6 of the
same run has overwritten `comitup.conf`, as in the next finding.
`apply-pi.sh:265` then prints that firstboot completed, and
`doc/design.md:440` says that step 9 runs it.

`identity_rerun` (doc and code disagree). `doc/design.md:406` and `:451` say that
all steps are idempotent and that a re-run from the top is safe. Step 6 of a
re-run puts the repository's `comitup.conf`, which has no password, over the
personalised one, and firstboot does not run again: the access point is left
without the password of the sticker.

`install_same_size` (a bug). `build_platform_bundle.py:58` gives every file of a
bundle the mtime 0, and `install.sh:361` copies `usr/lib/palmimo` with rsync,
which takes a file of the same size and mtime for unchanged. A helper that
changes and keeps its size is not updated; verify reports drift, and installing
again does not help. `install.sh:9-11` promises convergence.

## Theorems

Every safety invariant and every action property that a passing run checks is
proved, for any values of the constants, and so is the refinement of
`FaceUpdate`. The assumptions are those the modules name (`ConstantsAssumption`,
`ProcsAssumption`, `ChrootsAssumption`), which keep special values apart and type
the constants; TLC evaluates them in every run. Three theorems (`AppliedIsTrue`,
`RunsConverge`, `CacheIsLast`) have a hypothesis besides, because the code does not
keep the property without it; it is explained with each.

Each proof has the same shape: an inductive invariant (checked by TLC on the
run's instance before it was proved), a lemma that `Init` gives it, one or more
that each step keeps a part of it, `Invariance`, and the theorems, whose
last step is temporal. The special values differ from every other by assumption,
not by being strings, so that a leaf may need the assumption.

### DisplayFirmwareProofs

- `TypeCorrect` (`TypeOK`). That `fails` stays within 0..3 is the part
  that is not routine: `Handler` adds one only to a boot run that was writing,
  and `Unpack` lets a boot run write only below three.
- `FlashWhole` (`WholeOrUnbootable`), `WritesAreRecorded` (`RecordedOnly`).
- `ReportsAreTrue` (`ReportTrue`), `RestartsAreWhole` (`RestartsWhole`),
  `FailuresAreKept` (`FailuresKept`).
- `UpdaterImplementsFaceUpdate` (`ImplementsFaceUpdate`): every step of the updater
  and its environment is a step of `FaceUpdate` or changes nothing it sees.

The inductive invariant `IInv` adds what the middle of a run needs:
`PortsWhole` (a face with a serial port runs a whole image), `WriteOrder` (from
the write of the body to that of the header, the target's header is blank; when
the header is due, the body is the wanted version) and `RunInv` (the wanted
version is known from `Prepare` on; a boot run that writes has a strike left;
from `gate` on, the target is the face `state.json` names). `WholeOrUnbootable`
alone is not inductive, because a state with `u.pc = "header"` and
another body would break it in one step. Actions that leave `flash`, `mode` and
the run's targets alone are dealt with together.

What is reported and counted needs a second invariant, `ReportInv`, on top of the
first: a version is read only of a whole face and nothing is announced before the
end (`Reporting`), a face that is sent back is whole (`Returning`), the count in
memory is the saved one but for a fresh start and this run's failure
(`Counting`), and a count about to be lowered has a reason (`Forgiven`). The
steps fall into twelve shapes (`Steps`: a run begins, sees, decides, loads,
fails, ...), which the proofs of `FailuresKept` and of the refinement share.

### ReservationProofs

For any set of processes, `TypeCorrect`, `MutualExclusion` (`Exclusive`) and
`NoStaleFile` (`OpenIsNamed`). The invariant says that whoever is past the
creation of the directory finds one, that a process has a file open exactly while
it locks or holds it, that this file is the one `display.lock` names, and that a
holder's flock is on it. It is needed because `Exclusive` alone does not say that
two holders opened the same file.

### IdentityProofs

For any identities and any number of faults: `TypeCorrect`, `PointerLeadsToWhole`
(`PointerIsWhole`), `StickerIsOne` (`OneSticker`), `RelocationKeeps`
(`RelocateKeepsIdentity`), and `AppliedIsTrue`: `AppliedHolds` where
`~Reapply` (the run `identity_reapply` refutes it otherwise).

The invariant speaks of all states that a power cut may leave, not only of the
one programs see (`SeenCovered` says that the latter is one of them). While
`identity-relocate` is between its writes, the copy it has made is the only one a
cut could leave (`RelocateAt`); that is what `atomic_write` and its fsync are
for. `Made` says that a device made by provisioning has one identity in all
places and in all states a cut leaves; `Delivering` says the same of a delivery,
step by step of `apply-pi.sh`.

### ComitupReconnectProofs

For any finite set of networks: `TypeCorrect`, `NetworksComeFirst`
(`TriesBeforeAp`), `HighestComesFirst` (`TriesInOrder`), `LiveStays` (`LiveKept`),
`AccessPointIsHeld` (`ApHeld`).

`Control` says in which state of comitup what may be queued, due or up, in
particular that a decision to connect is never queued beside another transition;
`Trying`, `Asking` and `Owing` follow a list from the decision, through the
queue, to the attempts: it is in the order of the priorities but for networks
that are `stale`, something spoke for each of its networks, and what is owed is
still in it. Without `Owing` the access point could open in a state that owes an
attempt and has lost the list. `Ordered` is a sorted list by `CHOOSE`; that
there is one for every finite set of networks is proved by induction on finite
sets, as the absence of a smallest counterexample, because the induction
theorems of the library cannot be used here.

### ProvisionSDProofs

For any cards, any classes of cards that look alike, any number of runs:

- `TypeCorrect`; the part that is not routine is that what a run picked is one that is
  safe to offer. The types are proved only; no run checks them.
- `IdentityIsBound` (`IdentityBound`), `ErasesOnlyConfirmed` (`OnlyConfirmed`),
  `ReportIsTrue` (`ReportTrue`), `CompleteIsTrue` (`CompleteIsComplete`).

The inductive invariant adds to `TypeOK` and `IdentityBound` that no card carries
this run's identity before it is written, nor any that of a run to come
(`Unwritten`), and that what is opened, and what the identity is about to be
written to, matched the fingerprint (`Matched`). `IdentityBound` alone is not
inductive: a run that begins on a card with its own number, or writes at
`pc = "write"` to another card, would break it. `ReportIsTrue` rests on `Told`,
which says for every message at which steps it is given. `CompleteIsTrue` needs
two more: the card that was opened is the only one written to and is whole from
the end of the flash on, whatever is in the reader by then (`Flashed`), and the
identity is flushed before a run is called complete (`Done`), as a card that is
pulled out before would be torn.

### PlatformInstallProofs

For any bundles, and any number of kills: `TypeCorrect`, `RestartIsEnough`
(`ComitupFresh`), and, under `NoLookalikes` and `SameGroups`, `RunsConverge`
(`Converges`) and `CacheIsLast` (`CacheComesLast`). `NoLookalikes`: a helper
that changes from one bundle to another changes its size or its mtime, too;
helpers that stay as they are may have both (`install_same_size` refutes
`Converges` without it). `SameGroups`: the bundles agree in the groups of
palmimo-app, because `ensure_user` never changes an account that exists.

The invariant says for each step of `do_install` what the steps before it have
established (`SystemDone`, `FilesDone`, `TreeDone`, `CacheDone`), whatever was
there before the run; the patches carry their marks in order, and comitup runs
what is in its files but between a patch and the restart, and after what ended
there (`PatchesInOrder`, `DaemonFresh`). `Converges` alone says nothing before the end of a run.

### ImageBuildProofs

For any commits, invocations and chroots, of `ImageBuild` and with it of
`OssCompliance`: `TypeCorrect`, `SourcesAreWhole` (`SourcesCorrespond`),
`LicensesAreComplete` (`LicensesComplete`), `AnnouncedIsOfThisRun`
(`AnnouncedIsBuilt`).

Of the collector, what the results say of the files is kept by every fetch
(`Tried`, `TriedAll`), though the directory may be full of what an earlier run
left, as soon as it was wiped; the licenses are empty until they are collected
(`LicensesDone`); the manifest is written last (`ManifestIsLast`). Of the
builds, there is nothing of a run before its build starts (`Fresh`), one build
of it at most while the tool waits, and it is what was asked for (`Underway`),
and an image of it when it returns (`Collected`). `AnnouncedIsBuilt` is not
inductive without `Numbered`: an image of a run to come would be taken for the
one that was built.

### AppPurgeProofs

For any tree, with any kinds, links, owners and modes, and any number of purges:
`TypeCorrect`, and `PurgesAreWhole` (`Purges`).

`Walking` says of the recursion of `shutil.rmtree` that it is a path down from the
target, that each node of it is there, and that what is left of a directory is
still in it; that is why nothing beside the target is removed, and why the walk
nests no deeper than the tree. `EasyRun` says of a purge of an `Easy` tree that the
tree stays so, that what was retried can be walked now (so that no path is retried
twice, which would end the purge), and that each directory that was opened can be
read, with all of its entries left or being removed (so that `rmdir` fails for
want of permission only). `RetrySucceeds` is the heart: in such a tree the first
retry always succeeds.

### Only model-checked

Liveness (`Converges` of the display, `EventuallySecured`, `FallsBack`,
`Reconnects`, `Recovers`, `Finishes`): temporal reasoning with fairness and ENABLED
is beyond the prover. `AppliedHolds` with `Reapply`, `RerunSafe`, and
`Converges` of `PlatformInstall` without its hypotheses are false, see Findings.

## Not modelled

- Display: `validate_artifact`, the serial protocol's framing, `port_busy` beyond
  its answer, the bus and address window of picotool, and a picotool that
  outlives a killed updater. The content of the reservation's metadata. The bytes
  of an image: what passed the check of its digest is the declared version. The
  last look of the verification (486-490) is by port name in the code, and at the
  same face in the model.
- `apply-pi.sh`: steps other than 2, 6, 8b and 9 run package managers, git and
  checks. Step 3, which runs `install.sh uv` by itself, and a power cut while
  step 2 writes a file are left out.
- comitup's mode with a second radio, in which the wrappers of `states.py` only
  change the lookup.
- Installer: installs into an image's rootfs, the fake accounts of the tests,
  what apt and uv upgrade, and the content of manifests beyond the files,
  helpers, groups and versions they name.
- Provisioning: diskutil's formats, and what makes a disk safe to offer. When the
  uncompressed size of an `.img.xz` is unknown, `Fits` lets it pass, and the
  image is written up to the end of a card that is too small; `README.md:104`
  says without a condition that it is refused before.
- Compliance: a wipe that fails without a word (`ignore_errors`, 604-606).
  `LicensesComplete` does not say that every dist has a license text: one with
  header lines alone is not listed as lacking it, and one without METADATA is
  passed over. `doc/design.md:675` advises to add a missing source by hand and to
  build again; the wipe then removes it.
- Image build: git, docker and pi-gen, of whose stages only the collector is
  modelled; parsing of METADATA, `.dsc` files and copyright files.
- Purge: `_RETRIED` may hold a path once as `str` and once as `Path`, and the code
  then retries it once more than the model.
- App runner: the sync runs `uv venv`, `uv sync` and `uv cache prune`, and
  `app-launch` becomes `uv run`. What a half-made `.venv` does to the next sync
  is decided by uv.
- Small tools (`make_identity.py`, `check_platform_version.py`,
  `compute_tree_hash.py`), polkit rules and static units, and the CI workflows
  keep no state.

## Plan

1. The composition of `PlatformInstall` with `DisplayFirmware`: both are
   restarted by the same boot, and the first replaces what the second reads.
2. An abstract specification of the device identity (one identity, moved once)
   that `Identity` without `apply-pi.sh` implements, as a theorem.
