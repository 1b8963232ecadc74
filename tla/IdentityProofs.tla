--------------------------- MODULE IdentityProofs ---------------------------
(***************************************************************************)
(* Theorems about Identity, for any identities and any number of faults.   *)
(***************************************************************************)
EXTENDS Identity, TLAPS

(***************************************************************************)
(* The inductive invariant.                                                *)
(***************************************************************************)
\* What programs see may also be what a power cut leaves.
SeenCovered == root \in rootCut /\ boot \in bootCut

\* What firstboot.sh and identity-relocate have read, and how far they are
\* with it.
FirstbootAt ==
  /\ pc \in {"fbName", "fbConf", "fbMark"} => Accepted(mem)
  /\ pc \in {"fbConf", "fbMark"} => root.name = mem
  /\ pc = "fbMark" => root.ap = mem
RelocateAt ==
  /\ pc \in {"rlWrite", "rlEnv", "rlUnlink"} => Readable(mem)
  /\ pc \in {"rlEnv", "rlUnlink"} => root.prot = mem /\ rootCut = {root}
  /\ pc = "rlUnlink" => root.env

\* A device that got its identity from provisioning, as far as apply-pi.sh has
\* not run: there is one identity i in all of its places, a personalised root
\* file system has it as name and password, and a boot file system without it
\* goes with root file systems that have it protected.
MadeWith(i) ==
  /\ bootCut \subseteq {i, "none"} /\ mem \in {i, "none"}
  /\ \A r \in rootCut :
       /\ r.prot \in {i, "none"}
       /\ r.marker => r.name = i /\ r.ap = i
       /\ "none" \in bootCut => r.prot = i /\ (i = "none" \/ r.env)
  /\ pc = "up" /\ boot = "none" => portal = i
Made == apply = Idle => \E i \in Ids \union {"none"} : MadeWith(i)

\* A delivery to a device that is not personalised, where apply-pi.sh is
\* between its steps: the file it delivers is on the boot partition until
\* relocation has it protected and pointed to, which waits for the marker.
Delivering ==
  /\ apply.step \in {"files", "copying", "moved"} =>
       ~root.marker /\ pc \in {"relocate", "portal", "up"}
  /\ apply.step \in {"copying", "moved", "starting", "started", "restarting"} =>
       Readable(apply.id)
  /\ apply.step = "copying" => boot = "torn"
  /\ apply.step = "moved" => boot = apply.id
  /\ apply.step = "starting" =>
       /\ boot = apply.id /\ ~root.marker
       /\ pc \in {"firstboot", "fbName", "fbConf", "fbMark"}
       /\ pc # "firstboot" => mem = apply.id
  /\ apply.step \in {"started", "restarting"} =>
       /\ pc \in {"relocate", "rlWrite", "rlEnv", "rlUnlink", "rlSync", "portal", "up"}
       /\ pc \in {"rlWrite", "rlEnv", "rlUnlink"} => mem = apply.id
       /\ \/ boot = apply.id
          \/ boot = "none" /\ root.prot = apply.id /\ root.env
       /\ root.marker \/ boot = "none" \/ pc \in {"rlWrite", "rlEnv", "rlUnlink", "rlSync"} =>
            root.name = apply.id /\ root.ap = apply.id
  /\ apply.step = "restarting" /\ pc = "up" /\ boot = "none" => portal = apply.id

IInv ==
  /\ TypeOK /\ SeenCovered /\ FirstbootAt /\ RelocateAt
  /\ PointerIsWhole /\ Made /\ (~Reapply => Delivering)

(***************************************************************************)
(* Each part of it is kept.                                                *)
(***************************************************************************)
\* Changing one field of the root file system keeps its type.
LEMMA RootType ==
  ASSUME NEW r \in Root
  PROVE  /\ \A i \in Ids \union {"none"} :
              [r EXCEPT !.name = i] \in Root /\ [r EXCEPT !.ap = i] \in Root
         /\ \A b \in BOOLEAN : [r EXCEPT !.marker = b] \in Root
         /\ \A i \in Ids \union {"odd"} : [r EXCEPT !.prot = i] \in Root
         /\ [r EXCEPT !.env = TRUE] \in Root
  BY DEF Root

\* So does moving apply-pi.sh on, or starting it again.
LEMMA DeliveryType ==
  ASSUME NEW a \in Delivery
  PROVE  /\ \A s \in ApplySteps :
              /\ [a EXCEPT !.step = s] \in Delivery
              /\ \A i \in Ids \union {"odd", "none"} :
                   [a EXCEPT !.step = s, !.id = i] \in Delivery
         /\ \A b \in BOOLEAN : [a EXCEPT !.reverted = b] \in Delivery
  BY DEF Delivery

\* A fault is counted up to the bound.
LEMMA FaultType ==
  ASSUME faults \in 0..MaxFaults
  PROVE  Fault \/ NoFault => faults' \in 0..MaxFaults
  BY ConstantsAssumption DEF Fault, NoFault

\* What a power cut makes of apply-pi.sh.
LEMMA LostType ==
  ASSUME apply \in Delivery
  PROVE  /\ Lost \in Delivery
         /\ \A b \in BOOLEAN : [Lost EXCEPT !.reverted = Lost.reverted \/ b] \in Delivery
  <1>1. Lost \in Delivery
    BY DeliveryType DEF Lost, ApplySteps, Ended
  <1>2. Lost.reverted \in BOOLEAN
    BY <1>1 DEF Delivery
  <1> QED
    BY <1>1, <1>2, DeliveryType

\* Types are kept.
LEMMA TypeStep == ASSUME TypeOK, FirstbootAt, RelocateAt, Next PROVE TypeOK'
  <1> USE DEF TypeOK, rootfs, bootfs, Step, Accepted, Readable, BootFile, ApplySteps
  <1>1. CASE PowerOn
    BY <1>1 DEF PowerOn, Steps
  <1>2. CASE FirstbootSkip
    BY <1>2, DeliveryType
    DEF FirstbootSkip, AfterFirstboot, Started, Steps
  <1>3. CASE FirstbootRead
    BY <1>3 DEF FirstbootRead, Steps, Source
  <1>4. CASE FirstbootFails
    BY <1>4, FaultType, DeliveryType
    DEF FirstbootFails, AfterFirstboot, StartFailed, Steps, Ended
  <1>5. CASE FirstbootName
    BY <1>5, RootType
    DEF FirstbootName, FirstbootAt, Write, Steps
  <1>6. CASE FirstbootConf
    BY <1>6, RootType
    DEF FirstbootConf, FirstbootAt, Write, Steps
  <1>7. CASE FirstbootMark
    BY <1>7, RootType, DeliveryType
    DEF FirstbootMark, Write, AfterFirstboot, Started, Steps
  <1>8. CASE RelocateSkip
    BY <1>8 DEF RelocateSkip, Steps
  <1>9. CASE RelocateRead
    BY <1>9 DEF RelocateRead, Steps
  <1>10. CASE RelocateReadFails
    BY <1>10, FaultType
    DEF RelocateReadFails, Steps
  <1>11. CASE RelocateWrite
    <2>1. [root EXCEPT !.prot = mem] \in Root
      BY <1>11, RootType DEF RelocateWrite, RelocateAt
    <2> QED
      BY <1>11, <2>1, FaultType DEF RelocateWrite, WriteSync, WriteFails, Write, Steps
  <1>12. CASE RelocateEnv
    BY <1>12, RootType, FaultType
    DEF RelocateEnv, WriteSync, WriteFails, Write, Steps
  <1>13. CASE RelocateUnlink
    BY <1>13, FaultType
    DEF RelocateUnlink, SetBoot, Steps
  <1>14. CASE RelocateSync
    BY <1>14, FaultType
    DEF RelocateSync, Steps
  <1>15. CASE PortalStart
    BY <1>15 DEF PortalStart, Steps, Root
  <1>16. ASSUME NEW i \in Ids \union {"odd", "none"}, ApplyFiles(i) PROVE TypeOK'
    BY <1>16, RootType, DeliveryType, FaultType
    DEF ApplyFiles, Write
  <1>17. CASE ApplySkip
    BY <1>17, DeliveryType
    DEF ApplySkip, Ended
  <1>18. CASE ApplyCopy
    BY <1>18, DeliveryType
    DEF ApplyCopy, SetBoot
  <1>19. CASE ApplyBreaks
    BY <1>19, DeliveryType, FaultType
    DEF ApplyBreaks, Ended
  <1>20. CASE ApplyMove
    <2>1. apply.id \in Ids \union {"odd", "none"}
      BY DEF Delivery
    <2> QED
      BY <1>20, <2>1, DeliveryType DEF ApplyMove, SetBoot
  <1>21. CASE ApplyStart
    BY <1>21, DeliveryType
    DEF ApplyStart, Steps
  <1>22. CASE ApplyRestart
    BY <1>22, DeliveryType
    DEF ApplyRestart, Steps
  <1>23. CASE ApplyCheck
    BY <1>23, DeliveryType
    DEF ApplyCheck, Ended
  <1>24. CASE PowerCut
    BY <1>24, LostType, FaultType
    DEF PowerCut, Steps
  <1>25. CASE Reboot
    BY <1>25, LostType
    DEF Reboot, Steps
  <1>26. CASE FactoryReset
    BY <1>26, RootType, FaultType
    DEF FactoryReset, WriteSync
  <1>27. CASE PortalRestart
    BY <1>27 DEF PortalRestart, Steps
  <1> QED
    BY <1>1, <1>2, <1>3, <1>4, <1>5, <1>6, <1>7, <1>8, <1>9, <1>10, <1>11,
       <1>12, <1>13, <1>14, <1>15, <1>16, <1>17, <1>18, <1>19, <1>20, <1>21,
       <1>22, <1>23, <1>24, <1>25, <1>26, <1>27
    DEF Next, Boot, Firstboot, Relocate, Apply, Owner

\* What programs see stays covered: Write and SetBoot add it, a sync leaves it.
LEMMA SeenStep == ASSUME SeenCovered, Next PROVE SeenCovered'
  <1> USE DEF SeenCovered, rootfs, bootfs
  <1>1. CASE PowerOn
    BY <1>1 DEF PowerOn
  <1>2. CASE FirstbootSkip
    BY <1>2 DEF FirstbootSkip
  <1>3. CASE FirstbootRead
    BY <1>3 DEF FirstbootRead
  <1>4. CASE FirstbootFails
    BY <1>4 DEF FirstbootFails
  <1>5. CASE FirstbootName
    BY <1>5 DEF FirstbootName, Write, WriteSync, WriteFails
  <1>6. CASE FirstbootConf
    BY <1>6 DEF FirstbootConf, Write, WriteSync, WriteFails
  <1>7. CASE FirstbootMark
    BY <1>7 DEF FirstbootMark, Write, WriteSync, WriteFails
  <1>8. CASE RelocateSkip
    BY <1>8 DEF RelocateSkip
  <1>9. CASE RelocateRead
    BY <1>9 DEF RelocateRead
  <1>10. CASE RelocateReadFails
    BY <1>10 DEF RelocateReadFails
  <1>11. CASE RelocateWrite
    BY <1>11 DEF RelocateWrite, Write, WriteSync, WriteFails
  <1>12. CASE RelocateEnv
    BY <1>12 DEF RelocateEnv, Write, WriteSync, WriteFails
  <1>13. CASE RelocateUnlink
    BY <1>13 DEF RelocateUnlink, SetBoot
  <1>14. CASE RelocateSync
    BY <1>14 DEF RelocateSync
  <1>15. CASE PortalStart
    BY <1>15 DEF PortalStart
  <1>16. ASSUME NEW i \in Ids \union {"odd", "none"}, ApplyFiles(i) PROVE SeenCovered'
    BY <1>16 DEF ApplyFiles, Write, WriteSync, WriteFails
  <1>17. CASE ApplySkip
    BY <1>17 DEF ApplySkip
  <1>18. CASE ApplyCopy
    BY <1>18 DEF ApplyCopy, SetBoot
  <1>19. CASE ApplyBreaks
    BY <1>19 DEF ApplyBreaks
  <1>20. CASE ApplyMove
    BY <1>20 DEF ApplyMove, SetBoot
  <1>21. CASE ApplyStart
    BY <1>21 DEF ApplyStart
  <1>22. CASE ApplyRestart
    BY <1>22 DEF ApplyRestart
  <1>23. CASE ApplyCheck
    BY <1>23 DEF ApplyCheck
  <1>24. CASE PowerCut
    BY <1>24 DEF PowerCut
  <1>25. CASE Reboot
    BY <1>25 DEF Reboot
  <1>26. CASE FactoryReset
    BY <1>26 DEF FactoryReset, Write, WriteSync, WriteFails
  <1>27. CASE PortalRestart
    BY <1>27 DEF PortalRestart
  <1> QED
    BY <1>1, <1>2, <1>3, <1>4, <1>5, <1>6, <1>7, <1>8, <1>9, <1>10, <1>11,
       <1>12, <1>13, <1>14, <1>15, <1>16, <1>17, <1>18, <1>19, <1>20, <1>21,
       <1>22, <1>23, <1>24, <1>25, <1>26, <1>27
    DEF Next, Boot, Firstboot, Relocate, Apply, Owner

\* firstboot.sh finds what it has written: nothing else writes to the root file
\* system until it is done.
LEMMA FirstbootStep == ASSUME TypeOK, FirstbootAt, Next PROVE FirstbootAt'
  <1> USE DEF TypeOK, Root, FirstbootAt, rootfs, bootfs, Step
  <1>1. CASE PowerOn
    BY <1>1 DEF PowerOn
  <1>2. CASE FirstbootSkip
    BY <1>2 DEF FirstbootSkip, AfterFirstboot
  <1>3. CASE FirstbootRead
    BY <1>3 DEF FirstbootRead
  <1>4. CASE FirstbootFails
    BY <1>4 DEF FirstbootFails, AfterFirstboot
  <1>5. CASE FirstbootName
    BY <1>5 DEF FirstbootName, Write, WriteSync, WriteFails
  <1>6. CASE FirstbootConf
    BY <1>6 DEF FirstbootConf, Write, WriteSync, WriteFails
  <1>7. CASE FirstbootMark
    BY <1>7 DEF FirstbootMark, Write, WriteSync, WriteFails, AfterFirstboot
  <1>8. CASE RelocateSkip
    BY <1>8 DEF RelocateSkip
  <1>9. CASE RelocateRead
    BY <1>9 DEF RelocateRead
  <1>10. CASE RelocateReadFails
    BY <1>10 DEF RelocateReadFails
  <1>11. CASE RelocateWrite
    BY <1>11 DEF RelocateWrite, Write, WriteSync, WriteFails
  <1>12. CASE RelocateEnv
    BY <1>12 DEF RelocateEnv, Write, WriteSync, WriteFails
  <1>13. CASE RelocateUnlink
    BY <1>13 DEF RelocateUnlink, SetBoot
  <1>14. CASE RelocateSync
    BY <1>14 DEF RelocateSync
  <1>15. CASE PortalStart
    BY <1>15 DEF PortalStart
  <1>16. ASSUME NEW i \in Ids \union {"odd", "none"}, ApplyFiles(i) PROVE FirstbootAt'
    BY <1>16 DEF ApplyFiles, Write, WriteSync, WriteFails
  <1>17. CASE ApplySkip
    BY <1>17 DEF ApplySkip
  <1>18. CASE ApplyCopy
    BY <1>18 DEF ApplyCopy, SetBoot
  <1>19. CASE ApplyBreaks
    BY <1>19 DEF ApplyBreaks
  <1>20. CASE ApplyMove
    BY <1>20 DEF ApplyMove, SetBoot
  <1>21. CASE ApplyStart
    BY <1>21 DEF ApplyStart
  <1>22. CASE ApplyRestart
    BY <1>22 DEF ApplyRestart
  <1>23. CASE ApplyCheck
    BY <1>23 DEF ApplyCheck
  <1>24. CASE PowerCut
    BY <1>24 DEF PowerCut
  <1>25. CASE Reboot
    BY <1>25 DEF Reboot
  <1>26. CASE FactoryReset
    BY <1>26 DEF FactoryReset, Write, WriteSync, WriteFails
  <1>27. CASE PortalRestart
    BY <1>27 DEF PortalRestart
  <1> QED
    BY <1>1, <1>2, <1>3, <1>4, <1>5, <1>6, <1>7, <1>8, <1>9, <1>10, <1>11,
       <1>12, <1>13, <1>14, <1>15, <1>16, <1>17, <1>18, <1>19, <1>20, <1>21,
       <1>22, <1>23, <1>24, <1>25, <1>26, <1>27
    DEF Next, Boot, Firstboot, Relocate, Apply, Owner

\* So does identity-relocate.
LEMMA RelocateStep == ASSUME TypeOK, RelocateAt, Next PROVE RelocateAt'
  <1> USE DEF TypeOK, Root, RelocateAt, rootfs, bootfs, Step
  <1>1. CASE PowerOn
    BY <1>1 DEF PowerOn
  <1>2. CASE FirstbootSkip
    BY <1>2 DEF FirstbootSkip, AfterFirstboot
  <1>3. CASE FirstbootRead
    BY <1>3 DEF FirstbootRead
  <1>4. CASE FirstbootFails
    BY <1>4 DEF FirstbootFails, AfterFirstboot
  <1>5. CASE FirstbootName
    BY <1>5 DEF FirstbootName, Write, WriteSync, WriteFails
  <1>6. CASE FirstbootConf
    BY <1>6 DEF FirstbootConf, Write, WriteSync, WriteFails
  <1>7. CASE FirstbootMark
    BY <1>7 DEF FirstbootMark, Write, WriteSync, WriteFails, AfterFirstboot
  <1>8. CASE RelocateSkip
    BY <1>8 DEF RelocateSkip
  <1>9. CASE RelocateRead
    BY <1>9 DEF RelocateRead
  <1>10. CASE RelocateReadFails
    BY <1>10 DEF RelocateReadFails
  <1>11. CASE RelocateWrite
    BY <1>11 DEF RelocateWrite, Write, WriteSync, WriteFails
  <1>12. CASE RelocateEnv
    BY <1>12 DEF RelocateEnv, Write, WriteSync, WriteFails
  <1>13. CASE RelocateUnlink
    BY <1>13 DEF RelocateUnlink, SetBoot
  <1>14. CASE RelocateSync
    BY <1>14 DEF RelocateSync
  <1>15. CASE PortalStart
    BY <1>15 DEF PortalStart
  <1>16. ASSUME NEW i \in Ids \union {"odd", "none"}, ApplyFiles(i) PROVE RelocateAt'
    BY <1>16 DEF ApplyFiles, Write, WriteSync, WriteFails
  <1>17. CASE ApplySkip
    BY <1>17 DEF ApplySkip
  <1>18. CASE ApplyCopy
    BY <1>18 DEF ApplyCopy, SetBoot
  <1>19. CASE ApplyBreaks
    BY <1>19 DEF ApplyBreaks
  <1>20. CASE ApplyMove
    BY <1>20 DEF ApplyMove, SetBoot
  <1>21. CASE ApplyStart
    BY <1>21 DEF ApplyStart
  <1>22. CASE ApplyRestart
    BY <1>22 DEF ApplyRestart
  <1>23. CASE ApplyCheck
    BY <1>23 DEF ApplyCheck
  <1>24. CASE PowerCut
    BY <1>24 DEF PowerCut
  <1>25. CASE Reboot
    BY <1>25 DEF Reboot
  <1>26. CASE FactoryReset
    BY <1>26 DEF FactoryReset, Write, WriteSync, WriteFails
  <1>27. CASE PortalRestart
    BY <1>27 DEF PortalRestart
  <1> QED
    BY <1>1, <1>2, <1>3, <1>4, <1>5, <1>6, <1>7, <1>8, <1>9, <1>10, <1>11,
       <1>12, <1>13, <1>14, <1>15, <1>16, <1>17, <1>18, <1>19, <1>20, <1>21,
       <1>22, <1>23, <1>24, <1>25, <1>26, <1>27
    DEF Next, Boot, Firstboot, Relocate, Apply, Owner

\* The pointer is written after the copy it points to.
LEMMA PointerStep ==
  ASSUME TypeOK, SeenCovered, RelocateAt, PointerIsWhole, Next PROVE PointerIsWhole'
  <1> USE DEF TypeOK, Root, SeenCovered, RelocateAt, PointerIsWhole, rootfs, bootfs, Step
  <1>1. CASE PowerOn
    BY <1>1 DEF PowerOn
  <1>2. CASE FirstbootSkip
    BY <1>2 DEF FirstbootSkip, AfterFirstboot
  <1>3. CASE FirstbootRead
    BY <1>3 DEF FirstbootRead
  <1>4. CASE FirstbootFails
    BY <1>4 DEF FirstbootFails, AfterFirstboot
  <1>5. CASE FirstbootName
    BY <1>5 DEF FirstbootName, Write, WriteSync, WriteFails
  <1>6. CASE FirstbootConf
    BY <1>6 DEF FirstbootConf, Write, WriteSync, WriteFails
  <1>7. CASE FirstbootMark
    BY <1>7 DEF FirstbootMark, Write, WriteSync, WriteFails, AfterFirstboot
  <1>8. CASE RelocateSkip
    BY <1>8 DEF RelocateSkip
  <1>9. CASE RelocateRead
    BY <1>9 DEF RelocateRead
  <1>10. CASE RelocateReadFails
    BY <1>10 DEF RelocateReadFails
  <1>11. CASE RelocateWrite
    BY <1>11 DEF RelocateWrite, Write, WriteSync, WriteFails
  <1>12. CASE RelocateEnv
    BY <1>12 DEF RelocateEnv, Write, WriteSync, WriteFails
  <1>13. CASE RelocateUnlink
    BY <1>13 DEF RelocateUnlink, SetBoot
  <1>14. CASE RelocateSync
    BY <1>14 DEF RelocateSync
  <1>15. CASE PortalStart
    BY <1>15 DEF PortalStart
  <1>16. ASSUME NEW i \in Ids \union {"odd", "none"}, ApplyFiles(i) PROVE PointerIsWhole'
    BY <1>16 DEF ApplyFiles, Write, WriteSync, WriteFails
  <1>17. CASE ApplySkip
    BY <1>17 DEF ApplySkip
  <1>18. CASE ApplyCopy
    BY <1>18 DEF ApplyCopy, SetBoot
  <1>19. CASE ApplyBreaks
    BY <1>19 DEF ApplyBreaks
  <1>20. CASE ApplyMove
    BY <1>20 DEF ApplyMove, SetBoot
  <1>21. CASE ApplyStart
    BY <1>21 DEF ApplyStart
  <1>22. CASE ApplyRestart
    BY <1>22 DEF ApplyRestart
  <1>23. CASE ApplyCheck
    BY <1>23 DEF ApplyCheck
  <1>24. CASE PowerCut
    BY <1>24 DEF PowerCut
  <1>25. CASE Reboot
    BY <1>25 DEF Reboot
  <1>26. CASE FactoryReset
    BY <1>26 DEF FactoryReset, Write, WriteSync, WriteFails
  <1>27. CASE PortalRestart
    BY <1>27 DEF PortalRestart
  <1> QED
    BY <1>1, <1>2, <1>3, <1>4, <1>5, <1>6, <1>7, <1>8, <1>9, <1>10, <1>11,
       <1>12, <1>13, <1>14, <1>15, <1>16, <1>17, <1>18, <1>19, <1>20, <1>21,
       <1>22, <1>23, <1>24, <1>25, <1>26, <1>27
    DEF Next, Boot, Firstboot, Relocate, Apply, Owner

\* Only ApplyFiles starts apply-pi.sh, and nothing makes it never have run.
LEMMA IdleBefore == ASSUME TypeOK, Next, apply' = Idle PROVE apply = Idle
  <1> USE DEF TypeOK, Delivery, Idle
  <1>1. CASE PowerOn
    BY <1>1 DEF PowerOn
  <1>2. CASE FirstbootSkip
    BY <1>2 DEF FirstbootSkip, Started
  <1>3. CASE FirstbootRead
    BY <1>3 DEF FirstbootRead
  <1>4. CASE FirstbootFails
    BY <1>4 DEF FirstbootFails, StartFailed
  <1>5. CASE FirstbootName
    BY <1>5 DEF FirstbootName
  <1>6. CASE FirstbootConf
    BY <1>6 DEF FirstbootConf
  <1>7. CASE FirstbootMark
    BY <1>7 DEF FirstbootMark, Started
  <1>8. CASE RelocateSkip
    BY <1>8 DEF RelocateSkip
  <1>9. CASE RelocateRead
    BY <1>9 DEF RelocateRead
  <1>10. CASE RelocateReadFails
    BY <1>10 DEF RelocateReadFails
  <1>11. CASE RelocateWrite
    BY <1>11 DEF RelocateWrite
  <1>12. CASE RelocateEnv
    BY <1>12 DEF RelocateEnv
  <1>13. CASE RelocateUnlink
    BY <1>13 DEF RelocateUnlink
  <1>14. CASE RelocateSync
    BY <1>14 DEF RelocateSync
  <1>15. CASE PortalStart
    BY <1>15 DEF PortalStart
  <1>16. ASSUME NEW i \in Ids \union {"odd", "none"}, ApplyFiles(i) PROVE apply = Idle
    <2>1. apply'.step = "files"
      BY <1>16 DEF ApplyFiles
    <2> QED
      BY <2>1
  <1>17. CASE ApplySkip
    BY <1>17 DEF ApplySkip
  <1>18. CASE ApplyCopy
    BY <1>18 DEF ApplyCopy
  <1>19. CASE ApplyBreaks
    BY <1>19 DEF ApplyBreaks
  <1>20. CASE ApplyMove
    BY <1>20 DEF ApplyMove
  <1>21. CASE ApplyStart
    BY <1>21 DEF ApplyStart
  <1>22. CASE ApplyRestart
    BY <1>22 DEF ApplyRestart
  <1>23. CASE ApplyCheck
    BY <1>23 DEF ApplyCheck
  <1>24. CASE PowerCut
    BY <1>24 DEF PowerCut, Lost, Ended
  <1>25. CASE Reboot
    BY <1>25 DEF Reboot, Lost, Ended
  <1>26. CASE FactoryReset
    BY <1>26 DEF FactoryReset
  <1>27. CASE PortalRestart
    BY <1>27 DEF PortalRestart
  <1> QED
    BY <1>1, <1>2, <1>3, <1>4, <1>5, <1>6, <1>7, <1>8, <1>9, <1>10, <1>11,
       <1>12, <1>13, <1>14, <1>15, <1>16, <1>17, <1>18, <1>19, <1>20, <1>21,
       <1>22, <1>23, <1>24, <1>25, <1>26, <1>27
    DEF Next, Boot, Firstboot, Relocate, Apply, Owner

\* While apply-pi.sh has not run, the identity of provisioning is the only one.
LEMMA MadeStep ==
  ASSUME TypeOK, SeenCovered, FirstbootAt, RelocateAt, Made, Next PROVE Made'
  <1> SUFFICES ASSUME apply' = Idle, apply = Idle, NEW i \in Ids \union {"none"}, MadeWith(i)
               PROVE  MadeWith(i)'
    BY IdleBefore DEF Made
  <1> USE ConstantsAssumption
      DEF TypeOK, Root, SeenCovered, FirstbootAt, RelocateAt, MadeWith, rootfs, bootfs, Step,
          Idle, Accepted, Readable
  <1>1. CASE PowerOn
    BY <1>1 DEF PowerOn
  <1>2. CASE FirstbootSkip
    BY <1>2 DEF FirstbootSkip, AfterFirstboot
  <1>3. CASE FirstbootRead
    BY <1>3 DEF FirstbootRead, Source
  <1>4. CASE FirstbootFails
    BY <1>4 DEF FirstbootFails, AfterFirstboot
  <1>5. CASE FirstbootName
    BY <1>5 DEF FirstbootName, Write, WriteSync, WriteFails
  <1>6. CASE FirstbootConf
    BY <1>6 DEF FirstbootConf, Write, WriteSync, WriteFails
  <1>7. CASE FirstbootMark
    BY <1>7 DEF FirstbootMark, Write, WriteSync, WriteFails, AfterFirstboot
  <1>8. CASE RelocateSkip
    BY <1>8 DEF RelocateSkip
  <1>9. CASE RelocateRead
    BY <1>9 DEF RelocateRead, Chosen, RelocateCondition
  <1>10. CASE RelocateReadFails
    BY <1>10 DEF RelocateReadFails
  <1>11. CASE RelocateWrite
    BY <1>11 DEF RelocateWrite, Write, WriteSync, WriteFails
  <1>12. CASE RelocateEnv
    BY <1>12 DEF RelocateEnv, Write, WriteSync, WriteFails
  <1>13. CASE RelocateUnlink
    BY <1>13 DEF RelocateUnlink, SetBoot
  <1>14. CASE RelocateSync
    BY <1>14 DEF RelocateSync
  <1>15. CASE PortalStart
    BY <1>15 DEF PortalStart
  <1>16. ASSUME NEW j \in Ids \union {"odd", "none"}, ApplyFiles(j) PROVE MadeWith(i)'
    <2>1. apply'.step = "files"
      BY <1>16 DEF ApplyFiles, Delivery
    <2> QED
      BY <2>1
  <1>17. CASE ApplySkip
    BY <1>17 DEF ApplySkip
  <1>18. CASE ApplyCopy
    BY <1>18 DEF ApplyCopy, SetBoot
  <1>19. CASE ApplyBreaks
    BY <1>19 DEF ApplyBreaks
  <1>20. CASE ApplyMove
    BY <1>20 DEF ApplyMove, SetBoot
  <1>21. CASE ApplyStart
    BY <1>21 DEF ApplyStart
  <1>22. CASE ApplyRestart
    BY <1>22 DEF ApplyRestart
  <1>23. CASE ApplyCheck
    BY <1>23 DEF ApplyCheck
  <1>24. CASE PowerCut
    BY <1>24 DEF PowerCut
  <1>25. CASE Reboot
    BY <1>25 DEF Reboot
  <1>26. CASE FactoryReset
    BY <1>26 DEF FactoryReset, Write, WriteSync, WriteFails
  <1>27. CASE PortalRestart
    BY <1>27 DEF PortalRestart
  <1> QED
    BY <1>1, <1>2, <1>3, <1>4, <1>5, <1>6, <1>7, <1>8, <1>9, <1>10, <1>11,
       <1>12, <1>13, <1>14, <1>15, <1>16, <1>17, <1>18, <1>19, <1>20, <1>21,
       <1>22, <1>23, <1>24, <1>25, <1>26, <1>27
    DEF Next, Boot, Firstboot, Relocate, Apply, Owner

\* What is delivered stays on the boot partition until it is in place.
LEMMA DeliveringStep ==
  ASSUME TypeOK, SeenCovered, FirstbootAt, RelocateAt, ~Reapply, Delivering, Next
  PROVE  Delivering'
  <1> USE ConstantsAssumption
      DEF TypeOK, Root, Delivery, ApplySteps, Ended, FirstbootAt, RelocateAt, Delivering,
          rootfs, bootfs, Step, Accepted, Readable
  <1>1. CASE PowerOn
    BY <1>1 DEF PowerOn
  <1>2. CASE FirstbootSkip
    BY <1>2 DEF FirstbootSkip, AfterFirstboot, Started
  <1>3. CASE FirstbootRead
    BY <1>3 DEF FirstbootRead, Source
  <1>4. CASE FirstbootFails
    BY <1>4 DEF FirstbootFails, AfterFirstboot, StartFailed
  <1>5. CASE FirstbootName
    BY <1>5 DEF FirstbootName, Write, WriteSync, WriteFails
  <1>6. CASE FirstbootConf
    BY <1>6 DEF FirstbootConf, Write, WriteSync, WriteFails
  <1>7. CASE FirstbootMark
    BY <1>7 DEF FirstbootMark, Write, WriteSync, WriteFails, AfterFirstboot, Started
  <1>8. CASE RelocateSkip
    BY <1>8 DEF RelocateSkip
  <1>9. CASE RelocateRead
    BY <1>9 DEF RelocateRead, Chosen, RelocateCondition
  <1>10. CASE RelocateReadFails
    BY <1>10 DEF RelocateReadFails
  <1>11. CASE RelocateWrite
    BY <1>11 DEF RelocateWrite, Write, WriteSync, WriteFails
  <1>12. CASE RelocateEnv
    BY <1>12 DEF RelocateEnv, Write, WriteSync, WriteFails
  <1>13. CASE RelocateUnlink
    BY <1>13 DEF RelocateUnlink, SetBoot
  <1>14. CASE RelocateSync
    BY <1>14 DEF RelocateSync
  <1>15. CASE PortalStart
    BY <1>15 DEF PortalStart
  <1>16. ASSUME NEW i \in Ids \union {"odd", "none"}, ApplyFiles(i) PROVE Delivering'
    BY <1>16 DEF ApplyFiles, Write, WriteSync, WriteFails
  <1>17. CASE ApplySkip
    BY <1>17 DEF ApplySkip
  <1>18. CASE ApplyCopy
    BY <1>18 DEF ApplyCopy, SetBoot
  <1>19. CASE ApplyBreaks
    BY <1>19 DEF ApplyBreaks
  <1>20. CASE ApplyMove
    BY <1>20 DEF ApplyMove, SetBoot
  <1>21. CASE ApplyStart
    BY <1>21 DEF ApplyStart
  <1>22. CASE ApplyRestart
    BY <1>22 DEF ApplyRestart
  <1>23. CASE ApplyCheck
    BY <1>23 DEF ApplyCheck
  <1>24. CASE PowerCut
    BY <1>24 DEF PowerCut, Lost
  <1>25. CASE Reboot
    BY <1>25 DEF Reboot, Lost
  <1>26. CASE FactoryReset
    BY <1>26 DEF FactoryReset, Write, WriteSync, WriteFails
  <1>27. CASE PortalRestart
    BY <1>27 DEF PortalRestart
  <1> QED
    BY <1>1, <1>2, <1>3, <1>4, <1>5, <1>6, <1>7, <1>8, <1>9, <1>10, <1>11,
       <1>12, <1>13, <1>14, <1>15, <1>16, <1>17, <1>18, <1>19, <1>20, <1>21,
       <1>22, <1>23, <1>24, <1>25, <1>26, <1>27
    DEF Next, Boot, Firstboot, Relocate, Apply, Owner

(***************************************************************************)
(* The invariant.                                                          *)
(***************************************************************************)
\* The invariant holds at the start.
LEMMA Initially == Init => IInv
  <1> SUFFICES ASSUME Init PROVE IInv
    OBVIOUS
  <1> USE DEF Init
  <1>1. TypeOK
    <2>1. Idle \in Delivery
      BY DEF Idle, Delivery, ApplySteps, Ended
    <2>2. 0 \in 0..MaxFaults
      BY ConstantsAssumption
    <2>3. root \in Root
      BY DEF Root
    <2> QED
      BY <2>1, <2>2, <2>3 DEF TypeOK, BootFile, Steps
  <1>2. SeenCovered /\ FirstbootAt /\ RelocateAt /\ PointerIsWhole /\ Delivering
    BY DEF SeenCovered, FirstbootAt, RelocateAt, PointerIsWhole, Delivering, Idle
  <1>3. MadeWith(boot)
    BY DEF MadeWith
  <1> QED
    BY <1>1, <1>2, <1>3 DEF IInv, Made

\* Every step keeps the invariant.
LEMMA Inductive == IInv /\ [Next]_vars => IInv'
  <1> SUFFICES ASSUME IInv, [Next]_vars PROVE IInv'
    OBVIOUS
  <1>1. CASE Next
    BY <1>1, TypeStep, SeenStep, FirstbootStep, RelocateStep, PointerStep, MadeStep,
       DeliveringStep DEF IInv
  <1>2. CASE UNCHANGED vars
    BY <1>2 DEF vars, IInv, TypeOK, SeenCovered, FirstbootAt, RelocateAt, PointerIsWhole,
       Made, MadeWith, Delivering
  <1> QED
    BY <1>1, <1>2

\* It is an invariant of the specification.
LEMMA Invariance == Spec => []IInv
  BY Initially, Inductive, PTL DEF Spec

\* Types are kept: nothing torn is ever read, and what relocation moves to
\* protected storage parses (identity-relocate:read_identity).
THEOREM TypeCorrect == Spec => []TypeOK
  <1>1. IInv => TypeOK
    BY DEF IInv
  <1> QED
    BY <1>1, Invariance, PTL

\* Whatever a power cut leaves, and however many there are, a pointer leads to a
\* whole protected copy (the order of the writes in identity-relocate).
THEOREM PointerLeadsToWhole == Spec => []PointerIsWhole
  <1>1. IInv => PointerIsWhole
    BY DEF IInv
  <1> QED
    BY <1>1, Invariance, PTL

\* A manufactured device has one identity in all of its places, whatever is cut,
\* fails or is reset on the way (design.md:687-691).
THEOREM StickerIsOne == Spec => []OneSticker
  <1>1. IInv => OneSticker
    BY DEF IInv, Made, MadeWith, SeenCovered, OneSticker
  <1> QED
    BY <1>1, Invariance, PTL

\* No step of identity-relocate, a failing one included, takes away the last
\* readable copy of what a power cut would leave (identity-relocate:91).
THEOREM RelocationKeeps == Spec => RelocateKeepsIdentity
  <1>1. IInv /\ [Next]_vars => [Survives /\ Relocate => Survives']_vars
    <2> SUFFICES ASSUME IInv, Survives, Relocate PROVE Survives'
      OBVIOUS
    <2> USE DEF IInv, TypeOK, Root, SeenCovered, RelocateAt, Survives, rootfs, bootfs
    <2>1. CASE RelocateWrite
      BY <2>1 DEF RelocateWrite, Write, WriteSync, WriteFails
    <2>2. CASE RelocateEnv
      BY <2>2 DEF RelocateEnv, Write, WriteSync, WriteFails
    <2>3. CASE RelocateUnlink
      BY <2>3 DEF RelocateUnlink, SetBoot
    <2>4. CASE RelocateSync
      BY <2>4 DEF RelocateSync
    <2>5. CASE RelocateSkip \/ RelocateRead \/ RelocateReadFails
      BY <2>5 DEF RelocateSkip, RelocateRead, RelocateReadFails
    <2> QED
      BY <2>1, <2>2, <2>3, <2>4, <2>5 DEF Relocate
  <1> QED
    BY <1>1, Invariance, PTL DEF Spec, RelocateKeepsIdentity

\* Where apply-pi.sh runs only on devices that are not personalised, it reports
\* success only when name, password, protected copy and Portal have what it delivered
\* (apply-pi.sh:265).  Without that condition the run identity_reapply refutes it.
THEOREM AppliedIsTrue == ~Reapply => (Spec => AppliedHolds)
  <1> SUFFICES ASSUME ~Reapply PROVE Spec => AppliedHolds
    OBVIOUS
  <1>1. IInv /\ [Next]_vars =>
          [apply'.step = "ok" /\ apply.step # "ok" =>
             /\ root.name = apply.id /\ root.ap = apply.id
             /\ root.prot = apply.id /\ portal = apply.id]_vars
    <2> SUFFICES ASSUME IInv, Next, apply'.step = "ok", apply.step # "ok"
                 PROVE  /\ root.name = apply.id /\ root.ap = apply.id
                        /\ root.prot = apply.id /\ portal = apply.id
      OBVIOUS
    <2> USE DEF IInv, TypeOK, Delivery
    <2>1. ApplyCheck
      <3>1. CASE PowerOn
        BY <3>1 DEF PowerOn
      <3>2. CASE FirstbootSkip
        BY <3>2 DEF FirstbootSkip, Started
      <3>3. CASE FirstbootRead
        BY <3>3 DEF FirstbootRead
      <3>4. CASE FirstbootFails
        BY <3>4 DEF FirstbootFails, StartFailed
      <3>5. CASE FirstbootName
        BY <3>5 DEF FirstbootName
      <3>6. CASE FirstbootConf
        BY <3>6 DEF FirstbootConf
      <3>7. CASE FirstbootMark
        BY <3>7 DEF FirstbootMark, Started
      <3>8. CASE RelocateSkip
        BY <3>8 DEF RelocateSkip
      <3>9. CASE RelocateRead
        BY <3>9 DEF RelocateRead
      <3>10. CASE RelocateReadFails
        BY <3>10 DEF RelocateReadFails
      <3>11. CASE RelocateWrite
        BY <3>11 DEF RelocateWrite
      <3>12. CASE RelocateEnv
        BY <3>12 DEF RelocateEnv
      <3>13. CASE RelocateUnlink
        BY <3>13 DEF RelocateUnlink
      <3>14. CASE RelocateSync
        BY <3>14 DEF RelocateSync
      <3>15. CASE PortalStart
        BY <3>15 DEF PortalStart
      <3>16. ASSUME NEW i \in Ids \union {"odd", "none"}, ApplyFiles(i) PROVE FALSE
        BY <3>16 DEF ApplyFiles
      <3>17. CASE ApplySkip
        BY <3>17 DEF ApplySkip
      <3>18. CASE ApplyCopy
        BY <3>18 DEF ApplyCopy
      <3>19. CASE ApplyBreaks
        BY <3>19 DEF ApplyBreaks
      <3>20. CASE ApplyMove
        BY <3>20 DEF ApplyMove
      <3>21. CASE ApplyStart
        BY <3>21 DEF ApplyStart
      <3>22. CASE ApplyRestart
        BY <3>22 DEF ApplyRestart
      <3>23. CASE PowerCut
        BY <3>23 DEF PowerCut, Lost, Ended
      <3>24. CASE Reboot
        BY <3>24 DEF Reboot, Lost, Ended
      <3>25. CASE FactoryReset
        BY <3>25 DEF FactoryReset
      <3>26. CASE PortalRestart
        BY <3>26 DEF PortalRestart
      <3> QED
        BY <3>1, <3>2, <3>3, <3>4, <3>5, <3>6, <3>7, <3>8, <3>9, <3>10, <3>11,
           <3>12, <3>13, <3>14, <3>15, <3>16, <3>17, <3>18, <3>19, <3>20, <3>21,
           <3>22, <3>23, <3>24, <3>25, <3>26
        DEF Next, Boot, Firstboot, Relocate, Apply, Owner
    <2>2. boot = "none" /\ apply.step = "restarting" /\ pc = "up"
      BY <2>1 DEF ApplyCheck
    <2> QED
      BY <2>2, ConstantsAssumption DEF Delivering, Readable
  <1> QED
    BY <1>1, Invariance, PTL DEF Spec, AppliedHolds
=============================================================================
