------------------------ MODULE PlatformInstallProofs ------------------------
(***************************************************************************)
(* Theorems about PlatformInstall, for any bundles and any number of kills *)
(* and power cuts.                                                         *)
(***************************************************************************)
EXTENDS PlatformInstall, TLAPS

(***************************************************************************)
(* What the bundles of a device must have in common.                       *)
(***************************************************************************)
\* Helpers of one name that agree in size and time are the same: one that
\* changes from a bundle to another changes its size, unless a checkout, with its
\* own times, is one of the two.  install_same_size refutes Converges without.
NoLookalikes ==
  \A b, c \in Bundles : \A n \in DOMAIN Tree[b] \intersect DOMAIN Tree[c] :
    Tree[b][n].size = Tree[c][n].size /\ Mtime(b) = Mtime(c) => Tree[b][n].text = Tree[c][n].text

\* An account that exists is never changed (install.sh, ensure_user), so verify
\* can find it right for every bundle only if they agree.
SameGroups == \A b, c \in Bundles : Groups[b] = Groups[c]

(***************************************************************************)
(* The inductive invariant.                                                *)
(***************************************************************************)
\* The steps of a run from one on.
FromReload == {"reload", "ok"}
FromClean == {"clean"} \union FromReload
FromCache == {"cache", "aside", "swap"} \union FromClean
FromUpgrade == {"upgrade"} \union FromCache
FromUv == {"uv"} \union FromUpgrade
FromDirs == {"dirs"} \union FromUv
FromTree == {"tree"} \union FromDirs
FromFiles == {"files"} \union FromTree
FromRestart == {"restart"} \union FromFiles
FromPatch == {"patch"} \union FromRestart
FromApt == {"apt"} \union FromPatch

AllPatches == {"notice", "mdns", "nm", "scan", "states"}

\* A run has a bundle, and goes through its files.
Running ==
  /\ pc # "idle" => bundle \in Bundles
  /\ pc = "files" => left \subseteq Owns[bundle]
  /\ pc = "tree" => left \subseteq DOMAIN Tree[bundle]

\* The notice marks nm.py for the patches that come after it; a file that was
\* cut has none of its patches.
PatchesInOrder ==
  /\ (\E p \in applied : FileOf(p) = "nm") => "notice" \in applied
  /\ \A p \in applied : FileOf(p) \notin broken

\* comitup runs what is in its files, but between the patch and the restart,
\* and after what ended there without a restart.
DaemonFresh ==
  broken = {} /\ ~lost /\ ~(pc \in {"patch", "restart"} /\ changed) => daemon = applied

\* A helper that is there has text, size and time of a bundle's.
TimesKnown ==
  \A n \in Names : tree[n].text # None =>
    \E b \in Bundles : n \in DOMAIN Tree[b] /\ tree[n] = Copy(b)[n]

\* What a run has done stays done until it ends.
SystemDone ==
  /\ pc \in FromApt => groups # None
  /\ pc \in FromPatch => bundle \in apt
  /\ pc \in FromRestart => applied = AllPatches
FilesDone ==
  /\ pc = "files" => \A p \in Owns[bundle] \ left : file[p] = Whole(bundle)
  /\ pc \in FromTree => enabled /\ ~FilesDiffer(bundle)
  /\ pc \in FromUv => dirs
  /\ pc \in FromUpgrade => uv = Uv[bundle]
TreeDone ==
  /\ pc = "tree" => \A n \in DOMAIN Tree[bundle] \ left : tree[n].text = Tree[bundle][n].text
  /\ pc \in FromDirs => ~TreeDiffers(bundle)
CacheDone ==
  /\ pc \in {"aside", "swap"} => cache.tmp = bundle
  /\ pc \in FromClean => cache.current = bundle
  /\ pc \in FromReload => rooted /\ ~RetiredPresent(bundle)

IInv ==
  /\ TypeOK /\ Running /\ PatchesInOrder /\ DaemonFresh /\ TimesKnown
  /\ SystemDone /\ FilesDone /\ CacheDone
  /\ NoLookalikes => TreeDone

(***************************************************************************)
(* The operators.                                                          *)
(***************************************************************************)
\* The first patch that is missing is one, and those before it are there.
LEMMA FirstUnmarked ==
  ASSUME Unmarked # {}
  PROVE  Min(Unmarked) \in Unmarked /\ \A i \in Unmarked : Min(Unmarked) <= i
  <1>1. Unmarked \subseteq {1, 2, 3, 4, 5}
    BY DEF Unmarked, Patches
  <1> HIDE DEF Unmarked
  <1>2. \E x \in Unmarked : \A y \in Unmarked : x <= y
    <2>1. CASE 1 \in Unmarked
      BY <1>1, <2>1
    <2>2. CASE 1 \notin Unmarked /\ 2 \in Unmarked
      BY <1>1, <2>2
    <2>3. CASE Unmarked \subseteq {3, 4, 5} /\ 3 \in Unmarked
      BY <2>3
    <2>4. CASE Unmarked \subseteq {4, 5} /\ 4 \in Unmarked
      BY <2>4
    <2>5. CASE Unmarked = {5}
      BY <2>5
    <2> QED
      BY <1>1, <2>1, <2>2, <2>3, <2>4, <2>5
  <1> QED
    BY <1>2 DEF Min

\* The patches, one by one.
LEMMA PatchList ==
  /\ DOMAIN Patches = 1..5
  /\ Patches[1] = "notice" /\ Patches[2] = "mdns" /\ Patches[3] = "nm"
  /\ Patches[4] = "scan" /\ Patches[5] = "states"
  /\ \A p \in AllPatches : FileOf(p) = IF p \in {"mdns", "states"} THEN p ELSE "nm"
  BY DEF Patches, FileOf, AllPatches

\* The steps that change the system's own files.
LEMMA SystemFrame ==
  ASSUME Next
  PROVE  \/ Accounts \/ AptPackages \/ Patch \/ RestartComitup \/ ApplyPatches \/ Kill
         \/ UNCHANGED <<accounts, comitup>>
  BY DEF Next, Install, Fail, End, accounts, comitup, files, uvs, run,
         Begin, Accounts, AptPackages, Patch, RestartComitup, OwnedFile, EnableUnits,
         TreeFile, TreeEnds, StateDirs, InstallUv, Upgrade, CacheCopy, CacheAside,
         CacheSwap, CleanUp, Reload, Record, ApplyPatches, Kill

\* Those that change the bundle's files.
LEMMA FilesFrame ==
  ASSUME Next
  PROVE  \/ OwnedFile \/ EnableUnits \/ TreeFile \/ TreeEnds \/ StateDirs \/ CleanUp \/ Kill
         \/ UNCHANGED files
  BY DEF Next, Install, Fail, End, accounts, comitup, files, uvs, run,
         Begin, Accounts, AptPackages, Patch, RestartComitup, OwnedFile, EnableUnits,
         TreeFile, TreeEnds, StateDirs, InstallUv, Upgrade, CacheCopy, CacheAside,
         CacheSwap, CleanUp, Reload, Record, ApplyPatches, Kill

\* Those that change uv.
LEMMA UvFrame ==
  ASSUME Next
  PROVE  InstallUv \/ Kill \/ UNCHANGED uvs
  BY DEF Next, Install, Fail, End, accounts, comitup, files, uvs, run,
         Begin, Accounts, AptPackages, Patch, RestartComitup, OwnedFile, EnableUnits,
         TreeFile, TreeEnds, StateDirs, InstallUv, Upgrade, CacheCopy, CacheAside,
         CacheSwap, CleanUp, Reload, Record, ApplyPatches, Kill

\* Those that change the cache or the record.
LEMMA CacheFrame ==
  ASSUME Next
  PROVE  \/ CacheCopy \/ CacheAside \/ CacheSwap \/ CleanUp \/ Record \/ Kill
         \/ UNCHANGED <<cache, record>>
  BY DEF Next, Install, Fail, End, accounts, comitup, files, uvs, run,
         Begin, Accounts, AptPackages, Patch, RestartComitup, OwnedFile, EnableUnits,
         TreeFile, TreeEnds, StateDirs, InstallUv, Upgrade, CacheCopy, CacheAside,
         CacheSwap, CleanUp, Reload, Record, ApplyPatches, Kill

(***************************************************************************)
(* Each part of the invariant is kept.                                     *)
(***************************************************************************)
\* A run has a bundle, and its files.
LEMMA RunningStep == ASSUME Running, Next PROVE Running'
  <1> USE DEF Running, run
  <1>1. ASSUME NEW b \in Bundles, Begin(b) PROVE Running'
    BY <1>1 DEF Begin
  <1>2. CASE Accounts
    BY <1>2 DEF Accounts
  <1>3. CASE AptPackages
    BY <1>3 DEF AptPackages, Fail, End
  <1>4. CASE Patch
    BY <1>4 DEF Patch, Fail, End
  <1>5. CASE RestartComitup
    BY <1>5 DEF RestartComitup, End
  <1>6. CASE OwnedFile
    BY <1>6 DEF OwnedFile
  <1>7. CASE EnableUnits
    BY <1>7 DEF EnableUnits
  <1>8. CASE TreeFile
    BY <1>8 DEF TreeFile
  <1>9. CASE TreeEnds
    BY <1>9, ConstantsAssumption DEF TreeEnds
  <1>10. CASE StateDirs
    BY <1>10 DEF StateDirs
  <1>11. CASE InstallUv
    BY <1>11 DEF InstallUv, Fail, End
  <1>12. CASE Upgrade
    BY <1>12 DEF Upgrade, Fail, End
  <1>13. CASE CacheCopy
    BY <1>13 DEF CacheCopy
  <1>14. CASE CacheAside
    BY <1>14 DEF CacheAside
  <1>15. CASE CacheSwap
    BY <1>15 DEF CacheSwap
  <1>16. CASE CleanUp
    BY <1>16 DEF CleanUp
  <1>17. CASE Reload
    BY <1>17 DEF Reload, Fail, End
  <1>18. CASE Record
    BY <1>18 DEF Record
  <1>19. CASE Kill
    BY <1>19 DEF Kill, End
  <1>20. CASE ApplyPatches
    BY <1>20 DEF ApplyPatches
  <1> QED
    BY <1>1, <1>2, <1>3, <1>4, <1>5, <1>6, <1>7, <1>8, <1>9, <1>10, <1>11,
       <1>12, <1>13, <1>14, <1>15, <1>16, <1>17, <1>18, <1>19, <1>20
    DEF Next, Install

\* The types, part by part.
LEMMA SystemTypeStep == ASSUME SystemType, Running, Next PROVE SystemType'
  <1> USE DEF SystemType, accounts, comitup
  <1>1. CASE Accounts
    BY <1>1 DEF Accounts, Running
  <1>2. CASE AptPackages
    BY <1>2 DEF AptPackages, Fail, Running
  <1>3. CASE Patch
    <2>1. CASE UNCHANGED applied
      BY <1>3, <2>1 DEF Patch, Fail
    <2>2. CASE Unmarked # {} /\ applied' = applied \union {Patches[Min(Unmarked)]}
      <3>1. Patches[Min(Unmarked)] \in AllPatches
        BY <2>2, FirstUnmarked, PatchList DEF Unmarked, AllPatches
      <3> QED
        BY <1>3, <2>2, <3>1 DEF AllPatches, Patch, Fail
    <2> QED
      BY <1>3, <2>1, <2>2 DEF Patch, Fail
  <1>4. CASE RestartComitup
    BY <1>4 DEF RestartComitup
  <1>5. CASE Kill
    <2>1. applied' \subseteq applied /\ broken' \subseteq {"nm", "mdns", "states"}
      <3>1. CASE pc = "patch" /\ Unmarked # {}
        <4>1. Patches[Min(Unmarked)] \in AllPatches
          BY <3>1, FirstUnmarked, PatchList DEF Unmarked, AllPatches
        <4> QED
          BY <1>5, <3>1, <4>1 DEF Kill, CutPatch, FileOf, AllPatches
      <3> QED
        BY <1>5, <3>1 DEF Kill, CutPatch
    <2>2. lost' \in BOOLEAN /\ daemon' \in {daemon, applied'} /\ UNCHANGED accounts
      BY <1>5 DEF Kill
    <2> QED
      BY <2>1, <2>2
  <1>6. CASE UNCHANGED <<accounts, comitup>>
    BY <1>6
  <1>7. CASE ApplyPatches
    <2>1. Patches[Min(Unmarked)] \in AllPatches
      BY <1>7, FirstUnmarked, PatchList DEF ApplyPatches, Unmarked, AllPatches
    <2> QED
      BY <1>7, <2>1 DEF AllPatches, ApplyPatches
  <1> QED
    BY <1>1, <1>2, <1>3, <1>4, <1>5, <1>6, <1>7, SystemFrame

\* A helper of a bundle, as rsync sets it.
LEMMA CopyType ==
  ASSUME NEW b \in Bundles, NEW n \in DOMAIN Tree[b]
  PROVE  /\ Copy(b)[n] \in [text : Texts \union {None}, size : Nat, mtime : Bundles \union {0}]
         /\ Copy(b)[n].text = Tree[b][n].text /\ Copy(b)[n].text # None
  <1>1. Tree[b][n].text \in Texts /\ Tree[b][n].size \in Nat /\ None \notin Texts
    BY ConstantsAssumption DEF Texts
  <1> QED
    BY <1>1 DEF Copy, Mtime

\* Every step keeps the types of the files.
LEMMA FilesTypeStep == ASSUME FilesType, RunType, Running, Next PROVE FilesType'
  <1> USE DEF FilesType
  <1>1. CASE OwnedFile
    <2>1. PICK p \in left : file' = [file EXCEPT ![p] = Whole(bundle)]
      BY <1>1 DEF OwnedFile
    <2>2. Whole(bundle) \in [content : Bundles \union {None, Torn}, right : BOOLEAN]
      BY <1>1 DEF OwnedFile, Whole, Running
    <2>3. file' \in [Paths -> [content : Bundles \union {None, Torn}, right : BOOLEAN]]
      BY <2>1, <2>2
    <2>4. UNCHANGED <<tree, treeRight, stray, dirs, enabled, rooted>>
      BY <1>1 DEF OwnedFile
    <2> QED
      BY <2>3, <2>4
  <1>2. CASE EnableUnits
    BY <1>2 DEF EnableUnits
  <1>3. CASE TreeFile
    <2>1. PICK n \in left :
            tree' = [tree EXCEPT ![n] = IF QuickCheck(n) THEN @ ELSE Copy(bundle)[n]]
      BY <1>3 DEF TreeFile
    <2>2. bundle \in Bundles /\ n \in DOMAIN Tree[bundle]
      BY <1>3 DEF TreeFile, Running
    <2>3. Copy(bundle)[n] \in [text : Texts \union {None}, size : Nat,
                               mtime : Bundles \union {0}]
      BY <2>2, CopyType
    <2>4. tree' \in [Names -> [text : Texts \union {None}, size : Nat,
                               mtime : Bundles \union {0}]]
      BY <2>1, <2>3
    <2>5. UNCHANGED <<file, treeRight, stray, dirs, enabled, rooted>>
      BY <1>3 DEF TreeFile
    <2> QED
      BY <2>4, <2>5
  <1>4. CASE TreeEnds
    BY <1>4 DEF TreeEnds, Absent
  <1>5. CASE StateDirs
    BY <1>5 DEF StateDirs
  <1>6. CASE CleanUp
    BY <1>6 DEF CleanUp
  <1>7. CASE Kill
    <2>1. file' \in [Paths -> [content : Bundles \union {None, Torn}, right : BOOLEAN]]
      BY <1>7 DEF Kill
    <2>2. stray' \in BOOLEAN /\ UNCHANGED <<tree, treeRight, dirs, enabled, rooted>>
      BY <1>7 DEF Kill, Writes
    <2> QED
      BY <2>1, <2>2
  <1>8. CASE UNCHANGED files
    BY <1>8 DEF files
  <1> QED
    BY <1>1, <1>2, <1>3, <1>4, <1>5, <1>6, <1>7, <1>8, FilesFrame

\* Every step keeps the types of what is uv's.
LEMMA UvTypeStep == ASSUME UvType, Running, Next PROVE UvType'
  <1> USE DEF UvType, uvs
  <1>1. CASE InstallUv
    BY <1>1 DEF InstallUv, Fail, Running
  <1>2. CASE Kill
    BY <1>2 DEF Kill, Writes, Cut
  <1> QED
    BY <1>1, <1>2, UvFrame

\* Every step keeps the types of the cache.
LEMMA CacheTypeStep ==
  ASSUME CacheType, CacheDone, Running, Next PROVE CacheType'
  <1> USE DEF CacheType, Running
  <1>1. CASE CacheCopy
    BY <1>1 DEF CacheCopy
  <1>2. CASE CacheAside
    BY <1>2 DEF CacheAside
  <1>3. CASE CacheSwap
    BY <1>3 DEF CacheSwap, CacheDone
  <1>4. CASE CleanUp
    BY <1>4 DEF CleanUp
  <1>5. CASE Record
    BY <1>5 DEF Record
  <1>6. CASE Kill
    BY <1>6 DEF Kill, Writes, Cut
  <1> QED
    BY <1>1, <1>2, <1>3, <1>4, <1>5, <1>6, CacheFrame

\* The files of a bundle are among the files.
LEMMA OwnedPaths == ASSUME NEW b \in Bundles PROVE Owns[b] \subseteq Paths
  BY DEF Paths

\* Every step keeps the types of a run.
LEMMA RunTypeStep == ASSUME RunType, Running, Next PROVE RunType'
  <1> USE ConstantsAssumption DEF RunType, Running, run
  <1>1. ASSUME NEW b \in Bundles, Begin(b) PROVE RunType'
    BY <1>1 DEF Begin
  <1>2. CASE Accounts
    BY <1>2 DEF Accounts
  <1>3. CASE AptPackages
    BY <1>3 DEF AptPackages, Fail, End
  <1>4. CASE Patch
    BY <1>4 DEF Patch, Fail, End
  <1>5. CASE RestartComitup
    <2>1. bundle \in Bundles /\ UNCHANGED faults
      BY <1>5 DEF RestartComitup
    <2>2. \/ left' = Owns[bundle] /\ UNCHANGED <<bundle, changed>>
          \/ left' = {} /\ bundle' = None /\ changed' = FALSE
      BY <1>5 DEF RestartComitup, End
    <2> QED
      BY <2>1, <2>2, OwnedPaths
  <1>6. CASE OwnedFile
    BY <1>6 DEF OwnedFile
  <1>7. CASE EnableUnits
    BY <1>7 DEF EnableUnits, Names
  <1>8. CASE TreeFile
    BY <1>8 DEF TreeFile
  <1>9. CASE TreeEnds
    BY <1>9 DEF TreeEnds
  <1>10. CASE StateDirs
    BY <1>10 DEF StateDirs
  <1>11. CASE InstallUv
    BY <1>11 DEF InstallUv, Fail, End
  <1>12. CASE Upgrade
    BY <1>12 DEF Upgrade, Fail, End
  <1>13. CASE CacheCopy
    BY <1>13 DEF CacheCopy
  <1>14. CASE CacheAside
    BY <1>14 DEF CacheAside
  <1>15. CASE CacheSwap
    BY <1>15 DEF CacheSwap
  <1>16. CASE CleanUp
    BY <1>16 DEF CleanUp
  <1>17. CASE Reload
    BY <1>17 DEF Reload, Fail, End
  <1>18. CASE Record
    BY <1>18 DEF Record
  <1>19. CASE Kill
    <2>1. faults' \in 0..MaxFaults
      BY <1>19 DEF Kill, Fault
    <2>2. bundle' = None /\ left' = {} /\ changed' = FALSE
      BY <1>19 DEF Kill, End
    <2> QED
      BY <2>1, <2>2
  <1>20. CASE ApplyPatches
    BY <1>20 DEF ApplyPatches
  <1> QED
    BY <1>1, <1>2, <1>3, <1>4, <1>5, <1>6, <1>7, <1>8, <1>9, <1>10, <1>11,
       <1>12, <1>13, <1>14, <1>15, <1>16, <1>17, <1>18, <1>19, <1>20
    DEF Next, Install

\* Patches are put in in order, and taken out by the file.
LEMMA PatchesStep == ASSUME PatchesInOrder, Next PROVE PatchesInOrder'
  <1> USE DEF PatchesInOrder, comitup
  <1>1. CASE Patch \/ ApplyPatches
    <2> DEFINE k == Min(Unmarked)
    <2>1. CASE UNCHANGED <<applied, broken>>
      BY <2>1
    <2>2. CASE Unmarked # {} /\ FileOf(Patches[k]) \notin broken
               /\ applied' = applied \union {Patches[k]} /\ UNCHANGED broken
      <3>1. k \in 1..5 /\ (1 \in Unmarked => k = 1)
        BY <2>2, FirstUnmarked, PatchList DEF Unmarked
      <3>2. FileOf(Patches[k]) = "nm" => k = 1 \/ "notice" \in applied
        BY <3>1, PatchList DEF Unmarked, Marked
      <3> QED
        BY <2>2, <3>2, PatchList
    <2> QED
      BY <1>1, <2>1, <2>2 DEF Patch, ApplyPatches
  <1>2. CASE Kill
    <2>1. \/ UNCHANGED <<applied, broken>>
          \/ \E f \in {"nm", "mdns", "states"} :
               broken' = broken \union {f} /\ applied' = {p \in applied : FileOf(p) # f}
      <3>1. CASE pc = "patch" /\ Unmarked # {}
        <4>1. Patches[Min(Unmarked)] \in AllPatches
          BY <3>1, FirstUnmarked, PatchList DEF Unmarked, AllPatches
        <4>2. FileOf(Patches[Min(Unmarked)]) \in {"nm", "mdns", "states"}
          BY <4>1 DEF FileOf
        <4> QED
          BY <1>2, <3>1, <4>2 DEF Kill, CutPatch
      <3> QED
        BY <1>2, <3>1 DEF Kill, CutPatch
    <2> QED
      BY <2>1 DEF FileOf
  <1>3. CASE UNCHANGED <<applied, broken>>
    BY <1>3
  <1> QED
    BY <1>1, <1>2, <1>3, SystemFrame DEF Accounts, AptPackages, Fail, RestartComitup

\* comitup is restarted by the run that patched it.
LEMMA DaemonStep ==
  ASSUME PatchesInOrder, DaemonFresh, Next PROVE DaemonFresh'
  <1> USE DEF DaemonFresh, comitup, run
  <1>1. ASSUME NEW b \in Bundles, Begin(b) PROVE DaemonFresh'
    BY <1>1 DEF Begin
  <1>2. CASE Accounts
    BY <1>2 DEF Accounts
  <1>3. CASE AptPackages
    BY <1>3 DEF AptPackages, Fail, End
  <1>4. CASE Patch
    BY <1>4 DEF Patch, Fail, End
  <1>5. CASE RestartComitup
    BY <1>5 DEF RestartComitup, End
  <1>6. CASE OwnedFile
    BY <1>6 DEF OwnedFile
  <1>7. CASE EnableUnits
    BY <1>7 DEF EnableUnits
  <1>8. CASE TreeFile
    BY <1>8 DEF TreeFile
  <1>9. CASE TreeEnds
    BY <1>9, ConstantsAssumption DEF TreeEnds
  <1>10. CASE StateDirs
    BY <1>10 DEF StateDirs
  <1>11. CASE InstallUv
    BY <1>11 DEF InstallUv, Fail, End
  <1>12. CASE Upgrade
    BY <1>12 DEF Upgrade, Fail, End
  <1>13. CASE CacheCopy
    BY <1>13 DEF CacheCopy
  <1>14. CASE CacheAside
    BY <1>14 DEF CacheAside
  <1>15. CASE CacheSwap
    BY <1>15 DEF CacheSwap
  <1>16. CASE CleanUp
    BY <1>16 DEF CleanUp
  <1>17. CASE Reload
    BY <1>17 DEF Reload, Fail, End
  <1>18. CASE Record
    BY <1>18 DEF Record
  <1>19. CASE Kill
    BY <1>19 DEF Kill, End, CutPatch
  <1>20. CASE ApplyPatches
    BY <1>20 DEF ApplyPatches
  <1> QED
    BY <1>1, <1>2, <1>3, <1>4, <1>5, <1>6, <1>7, <1>8, <1>9, <1>10, <1>11,
       <1>12, <1>13, <1>14, <1>15, <1>16, <1>17, <1>18, <1>19, <1>20
    DEF Next, Install

\* rsync sets the time, where it does not find it set.
LEMMA TimesStep ==
  ASSUME FilesType, Running, TimesKnown, Next PROVE TimesKnown'
  <1> USE DEF FilesType, Running, TimesKnown
  <1>1. CASE TreeFile
    BY <1>1 DEF TreeFile
  <1>2. CASE TreeEnds
    BY <1>2 DEF TreeEnds, Absent
  <1>3. CASE UNCHANGED tree
    BY <1>3
  <1> QED
    BY <1>1, <1>2, <1>3, FilesFrame
    DEF files, OwnedFile, EnableUnits, StateDirs, CleanUp, Kill

\* What the run has done to the system stays.
LEMMA SystemDoneStep ==
  ASSUME SystemType, Running, PatchesInOrder, SystemDone, Next PROVE SystemDone'
  <1> USE DEF SystemDone, accounts, comitup, run,
          FromReload, FromClean, FromCache, FromUpgrade, FromUv, FromDirs, FromTree, FromFiles,
          FromRestart, FromPatch, FromApt
  <1>1. ASSUME NEW b \in Bundles, Begin(b) PROVE SystemDone'
    BY <1>1 DEF Begin
  <1>2. CASE Accounts
    BY <1>2, ConstantsAssumption DEF Accounts, Running
  <1>3. CASE AptPackages
    BY <1>3 DEF AptPackages, Fail, End
  <1>4. CASE Patch
    <2>1. ASSUME Unmarked = {} PROVE applied = AllPatches
      <3>1. \A i \in 1..5 : Marked(Patches[i])
        BY <2>1, PatchList DEF Unmarked
      <3> QED
        <4>1. \A p \in AllPatches : p # "notice" => p \in applied
          BY <3>1, PatchList DEF Marked, AllPatches
        <4>2. "notice" \in applied
          BY <3>1, PatchList DEF Marked, PatchesInOrder
        <4> QED
          BY <4>1, <4>2 DEF AllPatches, SystemType
    <2> QED
      BY <1>4, <2>1 DEF Patch, Fail, End
  <1>5. CASE RestartComitup
    BY <1>5 DEF RestartComitup, End
  <1>6. CASE OwnedFile
    BY <1>6 DEF OwnedFile
  <1>7. CASE EnableUnits
    BY <1>7 DEF EnableUnits
  <1>8. CASE TreeFile
    BY <1>8 DEF TreeFile
  <1>9. CASE TreeEnds
    BY <1>9 DEF TreeEnds
  <1>10. CASE StateDirs
    BY <1>10 DEF StateDirs
  <1>11. CASE InstallUv
    BY <1>11 DEF InstallUv, Fail, End
  <1>12. CASE Upgrade
    BY <1>12 DEF Upgrade, Fail, End
  <1>13. CASE CacheCopy
    BY <1>13 DEF CacheCopy
  <1>14. CASE CacheAside
    BY <1>14 DEF CacheAside
  <1>15. CASE CacheSwap
    BY <1>15 DEF CacheSwap
  <1>16. CASE CleanUp
    BY <1>16 DEF CleanUp
  <1>17. CASE Reload
    BY <1>17 DEF Reload, Fail, End
  <1>18. CASE Record
    BY <1>18 DEF Record
  <1>19. CASE Kill
    BY <1>19 DEF Kill, End
  <1>20. CASE ApplyPatches
    BY <1>20 DEF ApplyPatches
  <1> QED
    BY <1>1, <1>2, <1>3, <1>4, <1>5, <1>6, <1>7, <1>8, <1>9, <1>10, <1>11,
       <1>12, <1>13, <1>14, <1>15, <1>16, <1>17, <1>18, <1>19, <1>20
    DEF Next, Install

\* Its files stay.
LEMMA FilesDoneStep ==
  ASSUME FilesType, Running, FilesDone, Next PROVE FilesDone'
  <1> USE DEF FilesDone, FilesDiffer, files, uvs, run,
          FromReload, FromClean, FromCache, FromUpgrade, FromUv, FromDirs, FromTree, FromFiles,
          FromRestart, FromPatch, FromApt
  <1>1. ASSUME NEW b \in Bundles, Begin(b) PROVE FilesDone'
    BY <1>1 DEF Begin
  <1>2. CASE Accounts
    BY <1>2 DEF Accounts
  <1>3. CASE AptPackages
    BY <1>3 DEF AptPackages, Fail, End
  <1>4. CASE Patch
    BY <1>4 DEF Patch, Fail, End
  <1>5. CASE RestartComitup
    BY <1>5 DEF RestartComitup, End
  <1>6. CASE OwnedFile
    <2>1. PICK p \in left :
            file' = [file EXCEPT ![p] = Whole(bundle)] /\ left' = left \ {p}
      BY <1>6 DEF OwnedFile
    <2>2. pc = "files" /\ UNCHANGED <<pc, bundle, enabled, dirs, uv>>
      BY <1>6 DEF OwnedFile
    <2>3. \A q \in Owns[bundle] \ left' : file'[q] = Whole(bundle)
      <3>1. bundle \in Bundles /\ Owns[bundle] \subseteq Paths
        BY <2>2 DEF Running, Paths
      <3> QED
        BY <2>1, <2>2, <3>1 DEF FilesType
    <2> QED
      BY <2>2, <2>3
  <1>7. CASE EnableUnits
    BY <1>7 DEF EnableUnits
  <1>8. CASE TreeFile
    BY <1>8 DEF TreeFile
  <1>9. CASE TreeEnds
    BY <1>9 DEF TreeEnds
  <1>10. CASE StateDirs
    BY <1>10 DEF StateDirs
  <1>11. CASE InstallUv
    BY <1>11 DEF InstallUv, Fail, End
  <1>12. CASE Upgrade
    BY <1>12 DEF Upgrade, Fail, End
  <1>13. CASE CacheCopy
    BY <1>13 DEF CacheCopy
  <1>14. CASE CacheAside
    BY <1>14 DEF CacheAside
  <1>15. CASE CacheSwap
    BY <1>15 DEF CacheSwap
  <1>16. CASE CleanUp
    <2>1. bundle \in Bundles /\ Owns[bundle] \subseteq Paths
      BY <1>16 DEF CleanUp, Running, Paths
    <2>2. \A p \in Owns[bundle] : file'[p] = file[p]
      BY <1>16, <2>1, ConstantsAssumption DEF CleanUp
    <2> QED
      BY <1>16, <2>2 DEF CleanUp
  <1>17. CASE Reload
    BY <1>17 DEF Reload, Fail, End
  <1>18. CASE Record
    BY <1>18 DEF Record
  <1>19. CASE Kill
    BY <1>19 DEF Kill, End
  <1>20. CASE ApplyPatches
    BY <1>20 DEF ApplyPatches
  <1> QED
    BY <1>1, <1>2, <1>3, <1>4, <1>5, <1>6, <1>7, <1>8, <1>9, <1>10, <1>11,
       <1>12, <1>13, <1>14, <1>15, <1>16, <1>17, <1>18, <1>19, <1>20
    DEF Next, Install

\* Its helpers stay.
LEMMA TreeDoneStep ==
  ASSUME FilesType, Running, TimesKnown, TreeDone, NoLookalikes, Next PROVE TreeDone'
  <1> USE DEF TreeDone, TreeDiffers, files, run,
          FromReload, FromClean, FromCache, FromUpgrade, FromUv, FromDirs, FromTree, FromFiles,
          FromRestart, FromPatch, FromApt
  <1>1. ASSUME NEW b \in Bundles, Begin(b) PROVE TreeDone'
    BY <1>1 DEF Begin
  <1>2. CASE Accounts
    BY <1>2 DEF Accounts
  <1>3. CASE AptPackages
    BY <1>3 DEF AptPackages, Fail, End
  <1>4. CASE Patch
    BY <1>4 DEF Patch, Fail, End
  <1>5. CASE RestartComitup
    BY <1>5 DEF RestartComitup, End
  <1>6. CASE OwnedFile
    BY <1>6 DEF OwnedFile
  <1>7. CASE EnableUnits
    BY <1>7 DEF EnableUnits
  <1>8. CASE TreeFile
    <2>1. PICK n \in left :
            /\ tree' = [tree EXCEPT ![n] = IF QuickCheck(n) THEN @ ELSE Copy(bundle)[n]]
            /\ left' = left \ {n}
      BY <1>8 DEF TreeFile
    <2>2. pc = "tree" /\ UNCHANGED <<pc, bundle>>
      BY <1>8 DEF TreeFile
    <2>3. bundle \in Bundles /\ DOMAIN Tree[bundle] \subseteq Names /\ left \subseteq Names
      BY <2>2 DEF Running, Names
    <2>4. tree'[n].text = Tree[bundle][n].text
      <3>1. CASE QuickCheck(n)
        <4>1. PICK b \in Bundles : n \in DOMAIN Tree[b] /\ tree[n] = Copy(b)[n]
          BY <2>1, <2>3, <3>1 DEF QuickCheck, TimesKnown
        <4>2. Tree[b][n].size = Tree[bundle][n].size /\ Mtime(b) = Mtime(bundle)
          BY <3>1, <4>1 DEF QuickCheck, Copy
        <4>3. n \in DOMAIN Tree[bundle]
          BY <2>1, <2>2 DEF Running
        <4>4. tree[n].text = Tree[bundle][n].text
          BY <2>3, <4>1, <4>2, <4>3, CopyType DEF NoLookalikes
        <4> QED
          BY <2>1, <2>3, <3>1, <4>4 DEF FilesType
      <3>2. CASE ~QuickCheck(n)
        BY <2>1, <2>2, <2>3, <3>2, CopyType DEF FilesType, Running
      <3> QED
        BY <3>1, <3>2
    <2>5. \A m \in Names : m # n => tree'[m] = tree[m]
      BY <2>1 DEF FilesType
    <2> QED
      BY <2>1, <2>2, <2>3, <2>4, <2>5
  <1>9. CASE TreeEnds
    <2>1. bundle \in Bundles /\ DOMAIN Tree[bundle] \subseteq Names
      BY <1>9 DEF TreeEnds, Running, Names
    <2>2. \A n \in Names :
            tree'[n].text = IF n \in DOMAIN Tree[bundle] THEN Tree[bundle][n].text ELSE None
      BY <1>9, <2>1 DEF TreeEnds, Absent
    <2> QED
      BY <1>9, <2>2 DEF TreeEnds
  <1>10. CASE StateDirs
    BY <1>10 DEF StateDirs
  <1>11. CASE InstallUv
    BY <1>11 DEF InstallUv, Fail, End
  <1>12. CASE Upgrade
    BY <1>12 DEF Upgrade, Fail, End
  <1>13. CASE CacheCopy
    BY <1>13 DEF CacheCopy
  <1>14. CASE CacheAside
    BY <1>14 DEF CacheAside
  <1>15. CASE CacheSwap
    BY <1>15 DEF CacheSwap
  <1>16. CASE CleanUp
    BY <1>16 DEF CleanUp
  <1>17. CASE Reload
    BY <1>17 DEF Reload, Fail, End
  <1>18. CASE Record
    BY <1>18 DEF Record
  <1>19. CASE Kill
    BY <1>19 DEF Kill, End
  <1>20. CASE ApplyPatches
    BY <1>20 DEF ApplyPatches
  <1> QED
    BY <1>1, <1>2, <1>3, <1>4, <1>5, <1>6, <1>7, <1>8, <1>9, <1>10, <1>11,
       <1>12, <1>13, <1>14, <1>15, <1>16, <1>17, <1>18, <1>19, <1>20
    DEF Next, Install

\* Its cache stays, and what it removed is gone.
LEMMA CacheDoneStep ==
  ASSUME FilesType, CacheType, Running, CacheDone, Next PROVE CacheDone'
  <1> USE DEF CacheDone, RetiredPresent, files, run,
          FromReload, FromClean, FromCache, FromUpgrade, FromUv, FromDirs, FromTree, FromFiles,
          FromRestart, FromPatch, FromApt
  <1>1. ASSUME NEW b \in Bundles, Begin(b) PROVE CacheDone'
    BY <1>1 DEF Begin
  <1>2. CASE Accounts
    BY <1>2 DEF Accounts
  <1>3. CASE AptPackages
    BY <1>3 DEF AptPackages, Fail, End
  <1>4. CASE Patch
    BY <1>4 DEF Patch, Fail, End
  <1>5. CASE RestartComitup
    BY <1>5 DEF RestartComitup, End
  <1>6. CASE OwnedFile
    BY <1>6 DEF OwnedFile
  <1>7. CASE EnableUnits
    BY <1>7 DEF EnableUnits
  <1>8. CASE TreeFile
    BY <1>8 DEF TreeFile
  <1>9. CASE TreeEnds
    BY <1>9 DEF TreeEnds
  <1>10. CASE StateDirs
    BY <1>10 DEF StateDirs
  <1>11. CASE InstallUv
    BY <1>11 DEF InstallUv, Fail, End
  <1>12. CASE Upgrade
    BY <1>12 DEF Upgrade, Fail, End
  <1>13. CASE CacheCopy
    BY <1>13 DEF CacheCopy
  <1>14. CASE CacheAside
    BY <1>14 DEF CacheAside
  <1>15. CASE CacheSwap
    BY <1>15 DEF CacheSwap
  <1>16. CASE CleanUp
    <2>1. bundle \in Bundles /\ Retired[bundle] \subseteq Paths
      BY <1>16 DEF CleanUp, Running, Paths
    <2>2. \A p \in Retired[bundle] : file'[p].content = None
      BY <1>16, <2>1 DEF CleanUp
    <2> QED
      BY <1>16, <2>2 DEF CleanUp
  <1>17. CASE Reload
    BY <1>17 DEF Reload, Fail, End
  <1>18. CASE Record
    BY <1>18 DEF Record
  <1>19. CASE Kill
    BY <1>19 DEF Kill, End
  <1>20. CASE ApplyPatches
    BY <1>20 DEF ApplyPatches
  <1> QED
    BY <1>1, <1>2, <1>3, <1>4, <1>5, <1>6, <1>7, <1>8, <1>9, <1>10, <1>11,
       <1>12, <1>13, <1>14, <1>15, <1>16, <1>17, <1>18, <1>19, <1>20
    DEF Next, Install

(***************************************************************************)
(* The theorems.                                                           *)
(***************************************************************************)
LEMMA Initially == Init => IInv
  <1> SUFFICES ASSUME Init PROVE IInv
    OBVIOUS
  <1> USE DEF Init
  <1>1. SystemType /\ UvType
    BY DEF SystemType, UvType
  <1>2. FilesType
    BY DEF FilesType, Absent
  <1>3. CacheType
    BY DEF CacheType
  <1>4. RunType
    <2>1. faults \in 0..MaxFaults
      BY ConstantsAssumption
    <2> QED
      BY <2>1 DEF RunType
  <1>5. Running /\ PatchesInOrder /\ DaemonFresh
    BY DEF Running, PatchesInOrder, DaemonFresh
  <1>6. TimesKnown
    BY DEF TimesKnown, Absent
  <1>7. SystemDone /\ FilesDone /\ TreeDone /\ CacheDone
    BY DEF SystemDone, FilesDone, TreeDone, CacheDone, FromReload, FromClean, FromCache,
           FromUpgrade, FromUv, FromDirs, FromTree, FromFiles, FromRestart, FromPatch, FromApt
  <1> QED
    BY <1>1, <1>2, <1>3, <1>4, <1>5, <1>6, <1>7 DEF IInv, TypeOK

\* Every step keeps the invariant.
LEMMA Inductive == IInv /\ [Next]_vars => IInv'
  <1> SUFFICES ASSUME IInv, [Next]_vars PROVE IInv'
    OBVIOUS
  <1>1. CASE Next
    <2>1. TypeOK'
      BY <1>1, SystemTypeStep, FilesTypeStep, UvTypeStep, CacheTypeStep, RunTypeStep
      DEF IInv, TypeOK
    <2>2. Running' /\ PatchesInOrder' /\ DaemonFresh' /\ TimesKnown'
      BY <1>1, RunningStep, PatchesStep, DaemonStep, TimesStep DEF IInv, TypeOK
    <2>3. SystemDone' /\ FilesDone' /\ CacheDone'
      BY <1>1, SystemDoneStep, FilesDoneStep, CacheDoneStep DEF IInv, TypeOK
    <2>4. NoLookalikes => TreeDone'
      BY <1>1, TreeDoneStep DEF IInv, TypeOK
    <2>5. NoLookalikes' <=> NoLookalikes
      BY DEF NoLookalikes, Mtime
    <2> QED
      BY <2>1, <2>2, <2>3, <2>4, <2>5 DEF IInv
  <1>2. CASE UNCHANGED vars
    <2> USE <1>2 DEF vars, accounts, comitup, files, uvs, run, IInv
    <2>1. TypeOK'
      BY DEF TypeOK, SystemType, FilesType, UvType, CacheType, RunType
    <2>2. Running' /\ PatchesInOrder' /\ DaemonFresh' /\ TimesKnown'
      BY DEF Running, PatchesInOrder, DaemonFresh, TimesKnown
    <2>3. SystemDone' /\ FilesDone' /\ CacheDone'
      BY DEF SystemDone, FilesDone, CacheDone, FilesDiffer, RetiredPresent
    <2>4. NoLookalikes => TreeDone'
      BY DEF TreeDone, TreeDiffers
    <2> QED
      BY <2>1, <2>2, <2>3, <2>4
  <1> QED
    BY <1>1, <1>2

\* The invariant, always.
LEMMA Invariance == Spec => []IInv
  BY Initially, Inductive, PTL DEF Spec

\* A run that has succeeded leaves what verify compares as its bundle has it.
LEMMA CleanAfter ==
  ASSUME IInv, NoLookalikes, SameGroups, pc = "ok"
  PROVE  Clean(bundle)
  <1> USE DEF IInv, FromReload, FromClean, FromCache, FromUpgrade, FromUv, FromDirs, FromTree,
              FromFiles, FromRestart, FromPatch, FromApt
  <1>1. bundle \in Bundles
    BY DEF Running
  <1>2. ~FilesDiffer(bundle) /\ dirs /\ uv = Uv[bundle]
    BY DEF FilesDone
  <1>3. ~TreeDiffers(bundle)
    BY DEF TreeDone
  <1>4. cache.current = bundle /\ rooted /\ ~RetiredPresent(bundle)
    BY DEF CacheDone
  <1>5. groups # None /\ bundle \in apt
    BY DEF SystemDone
  <1>6. ~CacheMissing /\ ~UvMissing
    BY <1>1, <1>2, <1>4, ConstantsAssumption DEF CacheMissing, UvMissing
  <1>7. ~AccountsDiffer(bundle)
    BY <1>1, <1>5 DEF AccountsDiffer, SameGroups, TypeOK, SystemType
  <1> QED
    BY <1>2, <1>3, <1>4, <1>5, <1>6, <1>7 DEF Clean

\* Every variable keeps its type: whenever a run is killed, `current` is the
\* whole tree of one bundle, or nothing (install.sh:394).
THEOREM TypeCorrect == Spec => []TypeOK
  BY Invariance, PTL DEF IInv

\* After a run that succeeded the device is its bundle's, whatever was there
\* before (install.sh:9-11), if no helper changes without a change of its size or
\* time and no two bundles differ in the groups of palmimo-app.
THEOREM RunsConverge == NoLookalikes /\ SameGroups => (Spec => []Converges)
  <1> SUFFICES ASSUME NoLookalikes, SameGroups PROVE Spec => []Converges
    OBVIOUS
  <1>1. IInv => Converges
    <2> SUFFICES ASSUME IInv, pc = "ok"
                 PROVE  /\ Answer = 0 /\ cache.current = bundle /\ uv = Uv[bundle] /\ enabled
                        /\ applied = AllPatches
      BY DEF Converges, AllPatches
    <2>1. cache.current = bundle /\ uv = Uv[bundle] /\ enabled /\ applied = AllPatches
      BY DEF IInv, CacheDone, FilesDone, SystemDone, FromReload, FromClean, FromCache,
             FromUpgrade, FromUv, FromDirs, FromTree, FromFiles, FromRestart
    <2>2. Clean(bundle)
      BY CleanAfter
    <2> QED
      BY <2>1, <2>2 DEF Answer, Clean
  <1> QED
    BY <1>1, Invariance, PTL

\* comitup runs with its patches after every run that succeeded, where nothing
\* put them into its files and ended without a restart: a killed run, a restart
\* that failed, apply-pi.sh (install.sh, patch_comitup).
THEOREM RestartIsEnough == Spec => []ComitupFresh
  <1>1. IInv => ComitupFresh
    <2> SUFFICES ASSUME IInv, pc = "ok", ~lost PROVE daemon = applied
      BY DEF ComitupFresh
    <2>1. applied = AllPatches
      BY DEF IInv, SystemDone, FromReload, FromClean, FromCache, FromUpgrade, FromUv, FromDirs,
             FromTree, FromFiles, FromRestart
    <2>2. broken = {}
      BY <2>1, PatchList DEF IInv, TypeOK, SystemType, PatchesInOrder, AllPatches
    <2> QED
      BY <2>2 DEF IInv, DaemonFresh
  <1> QED
    BY <1>1, Invariance, PTL

\* `current` becomes a bundle's when everything of it is in place, and
\* installed.json names one that verify finds clean then (install.sh, main).
THEOREM CacheIsLast == NoLookalikes /\ SameGroups => (Spec => CacheComesLast)
  <1> SUFFICES ASSUME NoLookalikes, SameGroups PROVE Spec => CacheComesLast
    OBVIOUS
  <1> DEFINE Swapped == cache'.current \notin {None, cache.current} =>
          LET b == cache'.current IN
          /\ ~FilesDiffer(b) /\ ~TreeDiffers(b) /\ dirs /\ enabled /\ uv = Uv[b] /\ b \in apt
          /\ applied = {"notice", "mdns", "nm", "scan", "states"}
  <1> DEFINE Recorded == record' # record => Clean(record')
  <1>1. IInv /\ [Next]_vars => [Swapped /\ Recorded]_vars
    <2> SUFFICES ASSUME IInv, Next PROVE Swapped /\ Recorded
      BY DEF vars
    <2>1. CASE CacheSwap
      <3>1. UNCHANGED record /\ cache'.current = bundle /\ pc = "swap"
        BY <2>1 DEF CacheSwap, IInv, TypeOK, CacheType, CacheDone
      <3>2. applied = AllPatches /\ bundle \in apt
        BY <3>1 DEF IInv, SystemDone, FromCache, FromUpgrade, FromUv, FromDirs, FromTree,
                    FromFiles, FromRestart, FromPatch
      <3>3. ~FilesDiffer(bundle) /\ dirs /\ enabled /\ uv = Uv[bundle]
        BY <3>1 DEF IInv, FilesDone, FromCache, FromUpgrade, FromUv, FromDirs, FromTree
      <3>4. ~TreeDiffers(bundle)
        BY <3>1 DEF IInv, TreeDone, FromCache, FromUpgrade, FromUv, FromDirs
      <3> QED
        BY <3>1, <3>2, <3>3, <3>4 DEF AllPatches
    <2>2. CASE Record
      BY <2>2, CleanAfter DEF Record
    <2>3. CASE CacheCopy \/ CacheAside \/ CleanUp \/ Kill
      <3>1. cache'.current \in {None, cache.current}
        BY <2>3 DEF CacheCopy, CacheAside, CleanUp, Kill, Writes, IInv, TypeOK, CacheType
      <3> QED
        BY <2>3, <3>1 DEF CacheCopy, CacheAside, CleanUp, Kill
    <2> QED
      BY <2>1, <2>2, <2>3, CacheFrame
  <1> QED
    BY <1>1, Invariance, PTL DEF Spec, CacheComesLast
=============================================================================
