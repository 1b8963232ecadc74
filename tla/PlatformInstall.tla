--------------------------- MODULE PlatformInstall ---------------------------
(***************************************************************************)
(* platform/install.sh on a device: install, record and verify, with what  *)
(* a run that was killed leaves for the next one.  A bundle is a number;   *)
(* bundle 0 stands for what was there before.  A power cut keeps the order *)
(* of what was written (the file system's journal).                        *)
(***************************************************************************)
EXTENDS Naturals, FiniteSetsExt

CONSTANTS
  Bundles,
  Owns,        \* manifest owns.files and retired, of each bundle
  Retired,
  Tree,        \* the files of usr/lib/palmimo, of each bundle: text and size
  Origin,      \* what each is: a "bundle" or a "checkout"
  Groups,      \* the groups of palmimo-app
  Uv,          \* the version of uv: a number
  None,
  Torn,        \* what is left of a file or a tree when its writer is killed
  MaxFaults    \* bound on kills and cuts

Paths == UNION {Owns[b] \union Retired[b] : b \in Bundles}
Names == UNION {DOMAIN Tree[b] : b \in Bundles}
Texts == UNION {{Tree[b][n].text : n \in DOMAIN Tree[b]} : b \in Bundles}

ASSUME ConstantsAssumption ==
  /\ Bundles \subseteq Nat \ {0} /\ \A b \in Bundles : Uv[b] \in Nat \ {0}
  /\ \A b \in Bundles : Origin[b] \in {"bundle", "checkout"}
  /\ \A b \in Bundles : Owns[b] \intersect Retired[b] = {} /\ Groups[b] # None
  /\ \A b \in Bundles : \A n \in DOMAIN Tree[b] : Tree[b][n].size \in Nat
  /\ None \notin Nat \union Texts /\ Torn \notin Nat /\ None # Torn /\ MaxFaults \in Nat

VARIABLES
  groups,      \* palmimo-app's, None before it exists
  apt,         \* the bundles whose packages are installed
  applied,     \* the patches in comitup's files
  broken,      \* those of its files that were cut while being written
  daemon,      \* the patches comitup runs with
  lost,        \* its files were patched by what ended without restarting it
  file,        \* of each path: the bundle its content is from, and mode and owner
  tree,        \* of each name in usr/lib/palmimo: text, None if absent, size and mtime
  treeRight,   \* its mode and owner, recursively
  stray,       \* a file of nobody's in it
  dirs,        \* the state directories, with mode and owner
  enabled,     \* the units
  uv, homeUv,  \* their versions, None, Torn
  rooted,      \* the paths of repair_root_owned belong to root
  cache,       \* current, current.tmp, current.old: the bundle whose tree it is
  record,      \* installed.json
  bundle, pc, left, changed,   \* the run of install.sh
  faults

vars == <<groups, apt, applied, broken, daemon, lost, file, tree, treeRight, stray, dirs, enabled,
          uv, homeUv, rooted, cache, record, bundle, pc, left, changed, faults>>
accounts == <<groups, apt>>
comitup == <<applied, broken, daemon, lost>>
files == <<file, tree, treeRight, stray, dirs, enabled, rooted>>
uvs == <<uv, homeUv>>
run == <<bundle, changed, faults>>

\* What a file that was cut may be.
Cut(x) == {x, None, Torn}

Whole(b) == [content |-> b, right |-> TRUE]

\* tar unpacks a bundle with the fixed mtime of build(), 0; a checkout has its own.
Mtime(b) == IF Origin[b] = "bundle" THEN 0 ELSE b

Copy(b) == [n \in DOMAIN Tree[b] |->
              [text |-> Tree[b][n].text, size |-> Tree[b][n].size, mtime |-> Mtime(b)]]

Absent == [text |-> None, size |-> 0, mtime |-> 0]

(***************************************************************************)
(* install: accounts, packages and comitup.                                *)
(***************************************************************************)
Begin(b) ==
  /\ pc \in {"idle", "ok"}
  /\ bundle' = b /\ pc' = "accounts" /\ changed' = FALSE /\ left' = {}
  /\ UNCHANGED <<accounts, comitup, files, uvs, cache, record, faults>>

\* ensure_group, ensure_user, add_user_to_group: an account that exists is left as it is.
Accounts ==
  /\ pc = "accounts" /\ pc' = "apt"
  /\ groups' = IF groups = None THEN Groups[bundle] ELSE groups
  /\ UNCHANGED <<apt, comitup, files, uvs, cache, record, run, left>>

\* set -e: a command that fails ends the run.
End == pc' = "idle" /\ bundle' = None /\ left' = {} /\ changed' = FALSE

Fail == End /\ UNCHANGED <<accounts, comitup, files, uvs, cache, record, faults>>

AptPackages ==
  /\ pc = "apt"
  /\ \/ /\ pc' = "patch" /\ apt' = apt \union {bundle}
        /\ UNCHANGED <<groups, comitup, files, uvs, cache, record, run, left>>
     \/ Fail

Patches == <<"notice", "mdns", "nm", "scan", "states">>
FileOf(p) == IF p \in {"mdns", "states"} THEN p ELSE "nm"

\* nm.py is marked by any notice of Jizai's, the others by their own text.
Marked(p) == IF p = "notice" THEN \E q \in applied : FileOf(q) = "nm" ELSE p \in applied

Unmarked == {i \in DOMAIN Patches : ~Marked(Patches[i])}

\* A mistake the runs must notice: no look at the marks.  A file that was patched
\* has its anchors no more.
PatchAgain ==
  /\ pc = "patch"
  /\ \/ /\ applied = {} /\ pc' = "restart" /\ changed' = TRUE
        /\ applied' = {Patches[i] : i \in DOMAIN Patches}
        /\ UNCHANGED <<accounts, broken, daemon, lost, files, uvs, cache, record, left, bundle,
                       faults>>
     \/ applied # {} /\ Fail

\* The next patch that is not there; a file without its anchors fails.
Patch ==
  /\ pc = "patch"
  /\ \/ /\ Unmarked = {} /\ pc' = "restart" /\ UNCHANGED <<applied, changed>>
        /\ UNCHANGED <<accounts, broken, daemon, lost, files, uvs, cache, record, left, bundle,
                       faults>>
     \/ /\ Unmarked # {} /\ FileOf(Patches[Min(Unmarked)]) \notin broken
        /\ applied' = applied \union {Patches[Min(Unmarked)]}
        /\ changed' = TRUE /\ UNCHANGED pc
        /\ UNCHANGED <<accounts, broken, daemon, lost, files, uvs, cache, record, left, bundle,
                       faults>>
     \/ /\ Unmarked # {} /\ FileOf(Patches[Min(Unmarked)]) \in broken
        /\ End /\ lost' = (lost \/ changed)
        /\ UNCHANGED <<accounts, applied, broken, daemon, files, uvs, cache, record, faults>>

\* A mistake the runs must notice: no restart.
RestartNever ==
  /\ pc = "restart" /\ pc' = "files" /\ left' = Owns[bundle]
  /\ UNCHANGED <<accounts, comitup, files, uvs, cache, record, run>>

\* try-restart, only when this run changed a file.  A restart that fails ends
\* the run: comitup was not stopped, or comes up later.
RestartComitup ==
  /\ pc = "restart"
  /\ \/ /\ pc' = "files" /\ left' = Owns[bundle]
        /\ daemon' = IF changed THEN applied ELSE daemon
        /\ lost' = (lost /\ ~changed)
        /\ UNCHANGED <<accounts, applied, broken, files, uvs, cache, record, run>>
     \/ /\ changed /\ End
        /\ daemon' \in {daemon, applied} /\ lost' = TRUE
        /\ UNCHANGED <<accounts, applied, broken, files, uvs, cache, record, faults>>

\* apply-pi.sh runs the two scripts by themselves before it runs install.sh,
\* and never restarts comitup.
ApplyPatches ==
  /\ pc = "idle" /\ Unmarked # {} /\ FileOf(Patches[Min(Unmarked)]) \notin broken
  /\ applied' = applied \union {Patches[Min(Unmarked)]} /\ lost' = TRUE
  /\ UNCHANGED <<accounts, broken, daemon, files, uvs, cache, record, run, pc, left>>

(***************************************************************************)
(* install: files.                                                         *)
(***************************************************************************)
OwnedFile ==
  /\ pc = "files" /\ left # {}
  /\ \E p \in left : file' = [file EXCEPT ![p] = Whole(bundle)] /\ left' = left \ {p}
  /\ UNCHANGED <<accounts, comitup, tree, treeRight, stray, dirs, enabled, rooted, uvs, cache,
                 record, run, pc>>

EnableUnits ==
  /\ pc = "files" /\ left = {} /\ pc' = "tree" /\ left' = DOMAIN Tree[bundle]
  /\ enabled' = TRUE
  /\ UNCHANGED <<accounts, comitup, file, tree, treeRight, stray, dirs, rooted, uvs, cache,
                 record, run>>

\* rsync -t: a file of the same size and mtime is taken for the same.
QuickCheck(n) ==
  /\ tree[n].text # None
  /\ tree[n].size = Tree[bundle][n].size /\ tree[n].mtime = Mtime(bundle)

TreeFile ==
  /\ pc = "tree" /\ left # {}
  /\ \E n \in left :
       /\ tree' = [tree EXCEPT ![n] = IF QuickCheck(n) THEN @ ELSE Copy(bundle)[n]]
       /\ left' = left \ {n}
  /\ UNCHANGED <<accounts, comitup, file, treeRight, stray, dirs, enabled, rooted, uvs, cache,
                 record, run, pc>>

\* A mistake the runs must notice: rsync without --delete.
TreeKeepsStrays ==
  /\ pc = "tree" /\ left = {} /\ pc' = "dirs" /\ treeRight' = TRUE
  /\ UNCHANGED <<accounts, comitup, file, tree, stray, dirs, enabled, rooted, uvs, cache,
                 record, run, left>>

\* --delete, chown -R, chmod.
TreeEnds ==
  /\ pc = "tree" /\ left = {} /\ pc' = "dirs" /\ treeRight' = TRUE
  /\ tree' = [n \in Names |-> IF n \in DOMAIN Tree[bundle] THEN tree[n] ELSE Absent]
  /\ stray' = FALSE
  /\ UNCHANGED <<accounts, comitup, file, dirs, enabled, rooted, uvs, cache, record, run, left>>

StateDirs ==
  /\ pc = "dirs" /\ pc' = "uv" /\ dirs' = TRUE
  /\ UNCHANGED <<accounts, comitup, file, tree, treeRight, stray, enabled, rooted, uvs, cache,
                 record, run, left>>

\* A mistake the runs must notice: a download that fails does not end the run.
InstallUvGoesOn ==
  /\ pc = "uv" /\ pc' = "upgrade"
  /\ \/ uv' = Uv[bundle] /\ homeUv' = Uv[bundle]
     \/ uv # Uv[bundle] /\ UNCHANGED uvs
  /\ UNCHANGED <<accounts, comitup, files, cache, record, run, left>>

\* The home copy is replaced when it is missing or older; a download may fail.
InstallUv ==
  /\ pc = "uv"
  /\ \/ /\ pc' = "upgrade" /\ uv' = Uv[bundle]
        /\ homeUv' = IF homeUv \in Nat /\ homeUv > Uv[bundle] THEN homeUv ELSE Uv[bundle]
        /\ UNCHANGED <<accounts, comitup, files, cache, record, run, left>>
     \/ uv # Uv[bundle] /\ Fail
     \/ ~(homeUv \in Nat /\ homeUv >= Uv[bundle]) /\ Fail

\* uv's interpreters and apt's minimum versions: nothing else reads them.
Upgrade ==
  /\ pc = "upgrade"
  /\ \/ pc' = "cache" /\ UNCHANGED <<accounts, comitup, files, uvs, cache, record, run, left>>
     \/ Fail

(***************************************************************************)
(* install: the bundle cache, and the rest.                                *)
(***************************************************************************)
\* A mistake the runs must notice: what an earlier run left is copied over.
CacheCopyOver ==
  /\ pc = "cache" /\ pc' = "aside"
  /\ cache' = [cache EXCEPT !.tmp = IF @ = None THEN bundle ELSE Torn]
  /\ UNCHANGED <<accounts, comitup, files, uvs, record, run, left>>

\* rm -rf tmp, mkdir, cp -a, chown.
CacheCopy ==
  /\ pc = "cache" /\ pc' = "aside" /\ cache' = [cache EXCEPT !.tmp = bundle]
  /\ UNCHANGED <<accounts, comitup, files, uvs, record, run, left>>

\* Only a cache that is there is put aside, where an older one was removed.
CacheAside ==
  /\ pc = "aside" /\ pc' = "swap"
  /\ cache' = IF cache.current = None THEN cache
              ELSE [cache EXCEPT !.old = cache.current, !.current = None]
  /\ UNCHANGED <<accounts, comitup, files, uvs, record, run, left>>

CacheSwap ==
  /\ pc = "swap" /\ pc' = "clean"
  /\ cache' = [cache EXCEPT !.current = cache.tmp, !.tmp = None]
  /\ UNCHANGED <<accounts, comitup, files, uvs, record, run, left>>

\* rm -rf old; remove_retired_paths; repair_root_owned_paths.
CleanUp ==
  /\ pc = "clean" /\ pc' = "reload" /\ cache' = [cache EXCEPT !.old = None]
  /\ file' = [p \in Paths |-> IF p \in Retired[bundle] THEN [content |-> None, right |-> TRUE]
                              ELSE file[p]]
  /\ rooted' = TRUE
  /\ UNCHANGED <<accounts, comitup, tree, treeRight, stray, dirs, enabled, uvs, record, run, left>>

\* daemon-reload, tmpfiles, journald.
Reload ==
  /\ pc = "reload"
  /\ \/ pc' = "ok" /\ UNCHANGED <<accounts, comitup, files, uvs, cache, record, run, left>>
     \/ Fail

\* install && record: the file is replaced by rename.
Record ==
  /\ pc = "ok" /\ record' = bundle
  /\ UNCHANGED <<accounts, comitup, files, uvs, cache, run, pc, left>>

(***************************************************************************)
(* verify, against the tree and manifest of bundle b.                      *)
(***************************************************************************)
FilesDiffer(b) == \E p \in Owns[b] : file[p] # Whole(b)

TreeDiffers(b) ==
  \/ stray \/ ~treeRight
  \/ \E n \in Names : tree[n].text # (IF n \in DOMAIN Tree[b] THEN Tree[b][n].text ELSE None)

\* Only that it is there, with its mode and owner.
CacheMissing == cache.current = None

\* Not the version.
UvMissing == uv \in {None, Torn}

AccountsDiffer(b) == groups = None \/ ~(Groups[b] \subseteq groups)

RetiredPresent(b) == \E p \in Retired[b] : file[p].content # None

Clean(b) ==
  /\ ~FilesDiffer(b) /\ ~TreeDiffers(b) /\ dirs /\ ~CacheMissing /\ ~UvMissing
  /\ rooted /\ b \in apt /\ ~AccountsDiffer(b) /\ ~RetiredPresent(b)

\* The Portal runs install.sh of `current`: 0 clean, 1 drift, 2 could not run.
Answer == IF CacheMissing THEN 2 ELSE IF Clean(cache.current) THEN 0 ELSE 1

(***************************************************************************)
(* Kills and power cuts: what was being written is cut.                    *)
(***************************************************************************)
Fault == faults < MaxFaults /\ faults' = faults + 1

Writes(at, x, values) == IF pc = at THEN x' \in values ELSE UNCHANGED x

\* The file that a patch is being written to: open("w") has emptied it.
CutPatch ==
  IF pc = "patch" /\ Unmarked # {}
  THEN LET f == FileOf(Patches[Min(Unmarked)]) IN
       \/ UNCHANGED <<applied, broken>>
       \/ broken' = broken \union {f} /\ applied' = {p \in applied : FileOf(p) # f}
  ELSE UNCHANGED <<applied, broken>>

Kill ==
  /\ Fault /\ pc \notin {"idle", "ok"} /\ End
  /\ CutPatch
  /\ \/ UNCHANGED file
     \/ pc = "files" /\ \E p \in left, c \in {None, Torn} : file' = [file EXCEPT ![p].content = c]
  /\ Writes("tree", stray, {stray, TRUE})
  /\ Writes("uv", uv, Cut(uv)) /\ Writes("uv", homeUv, Cut(homeUv))
  /\ Writes("cache", cache, {[cache EXCEPT !.tmp = t] : t \in Cut(cache.tmp)})
  /\ \/ UNCHANGED daemon /\ lost' = (lost \/ (pc \in {"patch", "restart"} /\ changed))
     \/ daemon' = applied' /\ lost' = FALSE    \* a power cut starts comitup anew
  /\ UNCHANGED <<accounts, tree, treeRight, dirs, enabled, rooted, record>>

\* A device from an old image.
Init ==
  /\ bundle = None /\ pc = "idle" /\ left = {}
  /\ changed = FALSE /\ faults = 0 /\ broken = {} /\ lost = FALSE /\ stray = FALSE
  /\ uv = None /\ \E b \in Bundles : homeUv = Uv[b] /\ \A c \in Bundles : Uv[c] <= Uv[b]
  /\ cache = [current |-> None, tmp |-> None, old |-> None] /\ record = None
  /\ applied = {} /\ daemon = {}
  /\ groups = None /\ apt = {} /\ dirs = FALSE /\ enabled = FALSE /\ treeRight = FALSE
  /\ rooted = FALSE
  /\ file = [p \in Paths |-> [content |-> None, right |-> TRUE]]
  /\ tree = [n \in Names |-> Absent]

Install ==
  \/ Accounts \/ AptPackages \/ Patch \/ RestartComitup
  \/ OwnedFile \/ EnableUnits \/ TreeFile \/ TreeEnds \/ StateDirs
  \/ InstallUv \/ Upgrade
  \/ CacheCopy \/ CacheAside \/ CacheSwap \/ CleanUp \/ Reload

Next ==
  \/ \E b \in Bundles : Begin(b)
  \/ Install \/ Record \/ ApplyPatches \/ Kill

Spec == Init /\ [][Next]_vars

\* A run goes on, an update that failed is tried again, and the network and
\* systemd do not fail for ever.
FairSpec ==
  /\ Spec /\ WF_vars(Install)
  /\ WF_vars(pc = "idle" /\ \E b \in Bundles : Begin(b))
  /\ SF_vars(AptPackages /\ pc' = "patch") /\ SF_vars(RestartComitup /\ pc' = "files")
  /\ SF_vars(InstallUv /\ pc' = "upgrade")
  /\ SF_vars(Upgrade /\ pc' = "cache") /\ SF_vars(Reload /\ pc' = "ok")

-----------------------------------------------------------------------------
(***************************************************************************)
(* Properties.                                                             *)
(***************************************************************************)
SystemType ==
  /\ groups = None \/ \E b \in Bundles : groups = Groups[b]
  /\ apt \subseteq Bundles
  /\ applied \subseteq {"notice", "mdns", "nm", "scan", "states"}
  /\ broken \subseteq {"nm", "mdns", "states"}
  /\ daemon \subseteq {"notice", "mdns", "nm", "scan", "states"}
  /\ lost \in BOOLEAN

FilesType ==
  /\ file \in [Paths -> [content : Bundles \union {None, Torn}, right : BOOLEAN]]
  /\ tree \in [Names -> [text : Texts \union {None}, size : Nat, mtime : Bundles \union {0}]]
  /\ treeRight \in BOOLEAN /\ stray \in BOOLEAN /\ dirs \in BOOLEAN
  /\ enabled \in BOOLEAN /\ rooted \in BOOLEAN

UvType == {uv, homeUv} \subseteq {Uv[b] : b \in Bundles} \union {None, Torn}

CacheType ==
  /\ cache \in [current : Bundles \union {None}, tmp : Bundles \union {None, Torn},
                old : Bundles \union {None}]
  /\ record \in Bundles \union {None}

RunType ==
  /\ bundle \in Bundles \union {None} /\ changed \in BOOLEAN
  /\ left \subseteq Paths \union Names /\ faults \in 0..MaxFaults

\* Type correctness.  `current` is the whole tree of one bundle or it is not
\* there, whenever a run was killed: "swapped in so a concurrent/interrupted
\* verify never sees a half-copied tree" (394).
TypeOK == SystemType /\ FilesType /\ UvType /\ CacheType /\ RunType

\* "install() converges --root to this bundle's desired state regardless of
\* what version (or lack of one) was there before" (install.sh:9-11): whatever killed
\* runs and other bundles left, after a run that succeeded verify finds no
\* drift, and what it does not look at is the bundle's, too.
Converges ==
  pc = "ok" =>
    /\ Answer = 0 /\ cache.current = bundle /\ uv = Uv[bundle] /\ enabled
    /\ applied = {"notice", "mdns", "nm", "scan", "states"}

\* comitup runs with its patches after every run that succeeded, except where
\* something else had put them into its files and not restarted it since: a run
\* that was killed, one whose restart failed, or apply-pi.sh.  The next run finds
\* nothing to patch, and does not restart it.
ComitupFresh == pc = "ok" /\ ~lost => daemon = applied

\* The Portal verifies against `current`: when it becomes another bundle's,
\* that bundle's files, comitup, uv and units are in place already, those that
\* verify does not look at included; and installed.json is changed only to a
\* bundle that verify finds clean then.
CacheComesLast ==
  [][/\ cache'.current \notin {None, cache.current} =>
          LET b == cache'.current IN
          /\ ~FilesDiffer(b) /\ ~TreeDiffers(b) /\ dirs /\ enabled /\ uv = Uv[b] /\ b \in apt
          /\ applied = {"notice", "mdns", "nm", "scan", "states"}
     /\ record' # record => Clean(record')]_vars

\* Whatever a killed run left, a later one succeeds, unless a file of comitup
\* was cut while it was patched: no run of any bundle gets past that one.
Recovers == []<>(pc = "ok") \/ <>[](broken # {})
===============================================================================
