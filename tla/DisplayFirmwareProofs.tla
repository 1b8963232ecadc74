----------------------- MODULE DisplayFirmwareProofs -----------------------
(***************************************************************************)
(* Theorems about DisplayFirmware, for any set of boards, any versions and *)
(* any number of faults.                                                   *)
(***************************************************************************)
EXTENDS DisplayFirmware, TLAPS

(***************************************************************************)
(* The inductive invariant.                                                *)
(***************************************************************************)
\* Only a face with a whole image answers on a port.
PortsWhole == \A c \in Chips : mode[c] = "cdc" => Whole(c)

\* The declaration a run works from.
WantKnown == u.pc \in TryPoints => u.want \in Versions

\* Where a run is in its writes, and what the flash holds by then.
WriteOrder ==
  \A c \in Chips : u.target = c =>
    /\ u.pc \in {"body", "header"} => flash[c].header = "blank"
    /\ u.pc = "header" => flash[c].body = u.want

\* A boot run that has decided to write had failures left.
StrikesLeft ==
  u.pc \in TryPoints \union {"handler"} /\ u.writing /\ u.boot => u.st.fails < MaxFailures

\* From the gate on, state.json names the target.
Recording == {"gate", "enter", "wait", "touch", "rematch",
              "blank", "body", "header", "restart", "verify"}
Named ==
  /\ u.pc = "match" => u.st.chip = u.target
  /\ u.pc \in Recording => disk = u.st /\ u.st.chip = u.target

\* What the steps of a run keep, all but the order of the writes.
RunInv == WantKnown /\ StrikesLeft /\ Named

IInv ==
  /\ TypeOK /\ WholeOrUnbootable
  /\ PortsWhole /\ WriteOrder /\ RunInv

(***************************************************************************)
(* The memory of the updater.                                              *)
(***************************************************************************)
\* Between runs the memory is typed.
LEMMA IdleType == Idle \in Updater
  BY ConstantsAssumption DEF Idle, Updater, Saved, Fresh, Report, TryPoints, MaxFailures

\* The response of a run is typed as the run was.
LEMMA ResponseType ==
  ASSUME u \in Updater,
         NEW r \in {"failed", "busy", "undeclared", "absent", "current", "skipped", "updated", "none"}
  PROVE  Response(r) \in Updater
  BY IdleType, ZenonT(40) DEF Response, Updater

\* Moving to another step keeps the type.
LEMMA PcType ==
  ASSUME NEW v \in Updater,
         NEW p \in TryPoints \union {"idle", "handler", "restore", "settle", "final"}
  PROVE  [v EXCEPT !.pc = p] \in Updater
  BY DEF Updater

\* So do a failure and a plain move.
LEMMA GotoType ==
  ASSUME u \in Updater
  PROVE  /\ Fail => u' \in Updater
         /\ \A p \in TryPoints \union {"final"} : Goto(p) => u' \in Updater
  BY PcType DEF Fail, Goto

\* Success: no failures are on record any more.
LEMMA ForgivenType ==
  ASSUME NEW v \in Updater, NEW r \in {"current", "updated"}
  PROVE  [v EXCEPT !.pc = "final", !.result = r, !.st.fails = 0] \in Updater
  <1>1. [v.st EXCEPT !.fails = 0] \in Saved
    BY DEF Updater, Saved, MaxFailures
  <1> QED
    BY <1>1 DEF Updater

\* What a save leaves, in memory and in state.json, whether it fails or not.
SaveTyped == u' \in Updater /\ disk' \in Saved \union {Invalid}

\* A save, of a typed memory, leaves both typed.
LEMMA SaveType ==
  ASSUME TypeOK, NEW v \in Updater, SaveThen(v) PROVE SaveTyped
  <1>1. [v EXCEPT !.pc = "handler"] \in Updater
    BY PcType
  <1>2. v.st \in Saved
    BY DEF Updater
  <1> QED
    BY <1>1, <1>2 DEF SaveThen, TypeOK, SaveTyped

\* The save of a CDC face that was identified.
LEMMA IdentifyType ==
  ASSUME IInv, NEW p \in Chips, Identify(p) PROVE SaveTyped
  <1> DEFINE v == [u EXCEPT !.pc = "gate", !.st.chip = u.target,
                      !.before = flash[p].header, !.after = flash[p].header]
  <1>1. flash[p].header \in Report
    BY DEF IInv, TypeOK, Identify, Ports, PortsWhole, Whole, Report
  <1>2. v \in Updater
    BY <1>1, ZenonT(40) DEF IInv, TypeOK, Updater, TryPoints, Saved
  <1> QED
    BY <1>2, SaveType DEF IInv, Identify

\* The save of a BOOTSEL face that was matched.
LEMMA MatchType ==
  ASSUME IInv, Match PROVE SaveTyped
  <1>1. [u EXCEPT !.pc = "gate", !.after = "bootsel"] \in Updater
    BY ZenonT(40) DEF IInv, TypeOK, Updater, TryPoints, Report
  <1> QED
    BY <1>1, SaveType DEF IInv, Match

\* The save at the start of a run.
LEMMA PrepareType ==
  ASSUME IInv, NEW b \in BOOLEAN, NEW ad \in BOOLEAN, Prepare(b, ad) PROVE SaveTyped
  <1> DEFINE f == IF ~b \/ disk.ver # declared THEN 0 ELSE disk.fails
             st == [disk EXCEPT !.ver = declared, !.fails = f]
             v == [Idle EXCEPT !.pc = "probe", !.boot = b, !.adopt = ad,
                               !.st = st, !.want = declared]
  <1>1. disk \in Saved /\ declared \in Versions
    BY DEF IInv, TypeOK, Prepare
  <1>2. f \in 0..MaxFailures
    BY <1>1 DEF Saved, MaxFailures
  <1>3. st \in Saved
    <2> HIDE DEF f
    <2> QED
      BY <1>1, <1>2 DEF Saved
  <1>4. v \in Updater
    <2> HIDE DEF st
    <2> QED
      BY <1>1, <1>3, IdleType, ZenonT(60) DEF Updater, TryPoints
  <1> QED
    BY <1>4, SaveType DEF IInv, Prepare

\* The memory of the updater stays typed: each value a step may give it is.
LEMMA UpdaterType == ASSUME IInv, Next PROVE u' \in Updater
  <1> USE ConstantsAssumption, IdleType DEF IInv, TypeOK, RunInv
  <1>1. CASE ProbeAbsent
    <2>1. [u EXCEPT !.pc = "final", !.result = "absent"] \in Updater
      BY DEF Updater
    <2> QED
      BY <1>1, <2>1, PcType DEF ProbeAbsent, Fail, Finish
  <1>2. ASSUME NEW c \in Chips, ProbeCdc(c) PROVE u' \in Updater
    <2>1. [u EXCEPT !.pc = "final", !.result = "busy"] \in Updater
      BY ZenonT(60) DEF Updater
    <2>2. [u EXCEPT !.pc = "identify", !.cdc = TRUE, !.target = c] \in Updater
      BY ZenonT(60) DEF Updater, TryPoints
    <2> QED
      BY <1>2, <2>1, <2>2 DEF ProbeCdc, Finish
  <1>3. ASSUME NEW c \in Chips, ProbeBootsel(c) PROVE u' \in Updater
    <2> DEFINE seen == [u EXCEPT !.before = "bootsel", !.after = "bootsel"]
    <2>1. seen \in Updater
      BY DEF Updater, Report
    <2> HIDE DEF seen
    <2>2. [seen EXCEPT !.pc = "match", !.target = c, !.st.chip = c] \in Updater
      <3>1. [seen.st EXCEPT !.chip = c] \in Saved
        BY <2>1 DEF Updater, Saved
      <3> QED
        BY <2>1, <3>1, ZenonT(40) DEF Updater, TryPoints
    <2>3. u.st.chip \in Chips \union {None}
      BY DEF Updater, Saved
    <2>4. [seen EXCEPT !.pc = "match", !.target = u.st.chip] \in Updater
      BY <2>1, <2>3, ZenonT(40) DEF Updater, TryPoints
    <2>5. [seen EXCEPT !.pc = "handler"] \in Updater
      BY <2>1, PcType
    <2> QED
      BY <1>3, <2>2, <2>4, <2>5 DEF ProbeBootsel, seen
  <1>4. CASE Current
    BY <1>4, ForgivenType DEF Current
  <1>5. CASE Unpack
    <2>1. CASE Fail
      BY <2>1, PcType DEF Fail
    <2>2. ASSUME NEW p \in {"enter", "rematch"}, NEW c \in {u.target, None}
          PROVE [u EXCEPT !.pc = p, !.writing = TRUE, !.recovery = c] \in Updater
      BY ZenonT(40) DEF Updater, TryPoints
    <2> QED
      BY <1>5, <2>1, <2>2 DEF Unpack
  <1>6. ASSUME NEW part \in Parts, Load(part) PROVE u' \in Updater
    <2>1. [u EXCEPT !.pc = "handler", !.recovery = None] \in Updater
      BY DEF Updater
    <2>2. ASSUME NEW p \in {"body", "header", "restart"}
          PROVE [u EXCEPT !.pc = p, !.recovery = None] \in Updater
      BY ZenonT(40) DEF Updater, TryPoints
    <2>3. After(part) \in {"body", "header", "restart"}
      BY DEF After
    <2> QED
      BY <1>6, <2>1, <2>2, <2>3 DEF Load
  <1>7. CASE Verify
    <2> DEFINE seen == [u EXCEPT !.after = flash[u.target].header]
    <2>1. flash[u.target].header \in Report
      BY <1>7 DEF Verify, OnlyPort, Ports, PortsWhole, Whole, Report
    <2>2. seen \in Updater
      BY <2>1 DEF Updater
    <2>3. [seen EXCEPT !.pc = "final", !.result = "updated", !.st.fails = 0] \in Updater
      BY <2>2, ForgivenType
    <2>4. [seen EXCEPT !.pc = "handler"] \in Updater
      BY <2>2, PcType
    <2> QED
      BY <1>7, <2>3, <2>4 DEF Verify
  <1>8. CASE Handler
    <2>1. (IF u.writing /\ u.boot THEN u.st.fails + 1 ELSE u.st.fails) \in 0..MaxFailures
      BY <1>8 DEF Handler, StrikesLeft, Updater, Saved, MaxFailures
    <2> DEFINE n == IF u.writing /\ u.boot THEN u.st.fails + 1 ELSE u.st.fails
    <2>2. [u.st EXCEPT !.fails = n] \in Saved
      BY <2>1 DEF Updater, Saved
    <2>3. ASSUME NEW p \in {"final", "restore"}, NEW f \in 0..MaxFailures
          PROVE [u EXCEPT !.pc = p, !.result = "failed", !.st.fails = f] \in Updater
      BY ZenonT(40) DEF Updater, Saved
    <2> QED
      BY <1>8, <2>1, <2>3 DEF Handler
  <1>9. CASE Restore
    <2> DEFINE gone == [u EXCEPT !.pc = "final", !.recovery = None]
               there == [gone EXCEPT !.after = "bootsel"]
    <2>1. gone \in Updater
      BY DEF Updater
    <2>2. there \in Updater
      BY ZenonT(40) DEF Updater, Report
    <2>3. [there EXCEPT !.pc = "settle"] \in Updater
      BY <2>2, PcType
    <2> QED
      BY <1>9, <2>1, <2>2, <2>3 DEF Restore
  <1>10. CASE Settle
    <2>1. [u EXCEPT !.pc = "final", !.after = u.before] \in Updater
      BY DEF Updater
    <2> QED
      BY <1>10, <2>1, PcType DEF Settle, Goto
  <1>11. CASE Final
    <2>1. u.result \in {"none", "busy", "failed", "undeclared", "absent", "current",
                      "skipped", "updated"}
      BY DEF Updater
    <2> QED
      BY <1>11, <2>1, ResponseType DEF Final
  <1>12. CASE Deadline
    <2>1. ASSUME NEW over \in BOOLEAN
          PROVE [u EXCEPT !.pc = "handler", !.over = over] \in Updater
      BY DEF Updater
    <2>2. Response("failed") \in Updater
      BY ResponseType
    <2> QED
      BY <1>12, <2>1, <2>2, GotoType DEF Deadline
  <1>13. CASE Refuse
    BY <1>13, PcType DEF Refuse, Updater
  <1>14. CASE Undeclared
    BY <1>14, PcType DEF Undeclared, Updater
  <1>15. CASE BadDeclaration
    BY <1>15, PcType DEF BadDeclaration, Updater
  <1>16. CASE ProbeAmbiguous
    BY <1>16, PcType DEF ProbeAmbiguous, Fail
  <1>17. CASE IdentifyFails
    BY <1>17, PcType DEF IdentifyFails, Fail
  <1>18. CASE MatchFails
    BY <1>18, PcType DEF MatchFails, Fail
  <1>19. CASE Skip
    BY <1>19, PcType DEF Skip, Finish, Updater
  <1>20. CASE EnterBootsel
    BY <1>20, GotoType DEF EnterBootsel, TryPoints
  <1>21. CASE WaitBootsel
    BY <1>21, GotoType DEF WaitBootsel, TryPoints
  <1>22. CASE Touch
    BY <1>22, GotoType DEF Touch, TryPoints
  <1>23. CASE Rematch
    BY <1>23, PcType, ZenonT(40) DEF Rematch, Updater, TryPoints, Report
  <1>24. ASSUME NEW part \in Parts, LoadMisses(part) PROVE u' \in Updater
    BY <1>24, PcType, ZenonT(60) DEF LoadMisses, Updater
  <1>25. ASSUME NEW part \in Parts, StageFails(part) PROVE u' \in Updater
    BY <1>25, PcType DEF StageFails, Fail
  <1>26. CASE Restart
    BY <1>26, GotoType DEF Restart, TryPoints
  <1>27. CASE VerifyFails
    BY <1>27, PcType DEF VerifyFails, Fail
  <1>28. CASE Kill
    BY <1>28, PcType DEF Kill, Cut
  <1>29. CASE PowerCut
    BY <1>29, PcType DEF PowerCut, Cut
  <1>30. CASE Install
    BY <1>30, PcType DEF Install
  <1>31. CASE Forget
    BY <1>31, PcType DEF Forget
  <1>32. ASSUME NEW c \in Chips, Handle(c) PROVE u' \in Updater
    BY <1>32, PcType DEF Handle
  <1>33. ASSUME NEW c \in Chips, Enumerate(c) PROVE u' \in Updater
    BY <1>33, PcType DEF Enumerate
  <1>34. ASSUME NEW p \in Chips, Identify(p) PROVE u' \in Updater
    BY <1>34, IdentifyType DEF SaveTyped
  <1>35. CASE Match
    BY <1>35, MatchType DEF SaveTyped
  <1>36. ASSUME NEW b \in BOOLEAN, NEW ad \in BOOLEAN, Prepare(b, ad) PROVE u' \in Updater
    BY <1>36, PrepareType DEF SaveTyped
  <1> QED
    BY <1>1, <1>2, <1>3, <1>4, <1>5, <1>6, <1>7, <1>8, <1>9, <1>10, <1>11,
       <1>12, <1>13, <1>14, <1>15, <1>16, <1>17, <1>18, <1>19, <1>20,
       <1>21, <1>22, <1>23, <1>24, <1>25, <1>26, <1>27, <1>28, <1>29,
       <1>30, <1>31, <1>32, <1>33, <1>34, <1>35, <1>36
    DEF Next, Run, Start, Environment

\* A run works from a declaration, writes only with failures left, and only to
\* the face it has recorded.
LEMMA RunStep == ASSUME IInv, Next, u' \in Updater PROVE RunInv'
  <1> USE DEF IInv, TypeOK, Updater, RunInv, WantKnown, StrikesLeft, Named, TryPoints, Recording, world
  <1>1. CASE Refuse
    BY <1>1 DEF Refuse, Idle
  <1>2. CASE Undeclared
    BY <1>2 DEF Undeclared, Idle
  <1>3. CASE BadDeclaration
    BY <1>3 DEF BadDeclaration, Idle
  <1>4. CASE ProbeAbsent
    BY <1>4, ZenonT(40) DEF ProbeAbsent, Fail, Finish
  <1>5. CASE ProbeAmbiguous
    BY <1>5 DEF ProbeAmbiguous, Fail
  <1>6. ASSUME NEW c \in Chips, ProbeCdc(c) PROVE RunInv'
    <2>1. CASE Finish("busy")
      BY <2>1 DEF Finish
    <2>2. CASE u' = [u EXCEPT !.pc = "identify", !.cdc = TRUE, !.target = c]
      BY <1>6, <2>2 DEF ProbeCdc
    <2> QED
      BY <1>6, <2>1, <2>2 DEF ProbeCdc
  <1>7. ASSUME NEW c \in Chips, ProbeBootsel(c) PROVE RunInv'
    <2> DEFINE seen == [u EXCEPT !.before = "bootsel", !.after = "bootsel"]
    <2>0. u.pc = "probe"
      BY <1>7 DEF ProbeBootsel
    <2>1. CASE u' = [seen EXCEPT !.pc = "match", !.target = c, !.st.chip = c]
      BY <2>0, <2>1 DEF Saved
    <2>2. CASE u' = [seen EXCEPT !.pc = "match", !.target = u.st.chip]
      BY <2>0, <2>2
    <2>3. CASE u' = [seen EXCEPT !.pc = "handler"]
      BY <2>0, <2>3
    <2> QED
      BY <1>7, <2>1, <2>2, <2>3 DEF ProbeBootsel
  <1>8. ASSUME NEW c \in Chips, Identify(c) PROVE RunInv'
    <2> DEFINE v == [u EXCEPT !.pc = "gate", !.st.chip = u.target,
                        !.before = flash[c].header, !.after = flash[c].header]
    <2>0. u.pc = "identify"
      BY <1>8 DEF Identify
    <2>1. CASE disk' = v.st /\ u' = v
      BY <2>0, <2>1 DEF Saved
    <2>2. CASE u' = [v EXCEPT !.pc = "handler"]
      BY <2>0, <2>2 DEF Saved
    <2> QED
      BY <1>8, <2>1, <2>2 DEF Identify, SaveThen
  <1>9. CASE IdentifyFails
    BY <1>9 DEF IdentifyFails, Fail
  <1>10. CASE Match
    BY <1>10, ZenonT(40) DEF Match, SaveThen
  <1>11. CASE MatchFails
    BY <1>11 DEF MatchFails, Fail
  <1>12. CASE Current
    BY <1>12 DEF Current
  <1>13. CASE Skip
    BY <1>13 DEF Skip, Finish
  <1>14. CASE Unpack
    <2>1. CASE Fail
      BY <1>14, <2>1 DEF Fail, Unpack
    <2>2. ASSUME NEW p \in {"enter", "rematch"}, NEW c \in {u.target, None},
                 u' = [u EXCEPT !.pc = p, !.writing = TRUE, !.recovery = c]
          PROVE RunInv'
      BY <1>14, <2>2 DEF Unpack, Saved, MaxFailures
    <2> QED
      BY <1>14, <2>1, <2>2 DEF Unpack
  <1>15. CASE EnterBootsel
    BY <1>15 DEF EnterBootsel, Goto
  <1>16. CASE WaitBootsel
    BY <1>16 DEF WaitBootsel, Goto
  <1>17. CASE Touch
    BY <1>17 DEF Touch, Goto, Fail
  <1>18. CASE Rematch
    BY <1>18 DEF Rematch
  <1>19. ASSUME NEW part \in Parts, Load(part) PROVE RunInv'
    BY <1>19, ZenonT(40) DEF Load, After, Parts
  <1>20. ASSUME NEW part \in Parts, LoadMisses(part) PROVE RunInv'
    BY <1>20 DEF LoadMisses, Parts
  <1>21. ASSUME NEW part \in Parts, StageFails(part) PROVE RunInv'
    BY <1>21 DEF StageFails, Fail, Parts
  <1>22. CASE Restart
    BY <1>22 DEF Restart, Goto, Fail
  <1>23. CASE Verify
    BY <1>23, ZenonT(40) DEF Verify
  <1>24. CASE VerifyFails
    BY <1>24 DEF VerifyFails, Fail
  <1>25. CASE Handler
    BY <1>25 DEF Handler
  <1>26. CASE Restore
    BY <1>26, ZenonT(40) DEF Restore
  <1>27. CASE Settle
    BY <1>27, ZenonT(40) DEF Settle, Goto
  <1>28. CASE Final
    <2>1. \E r : u' = Response(r)
      BY <1>28 DEF Final
    <2>2. u'.pc = "idle"
      BY <2>1 DEF Response, Idle
    <2> QED
      BY <2>2
  <1>29. CASE Deadline
    BY <1>29, ZenonT(40) DEF Deadline, Response, Idle, Goto
  <1>30. CASE Kill
    BY <1>30 DEF Kill, Cut, Idle
  <1>31. CASE PowerCut
    BY <1>31 DEF PowerCut, Cut, Idle
  <1>32. CASE Install
    BY <1>32 DEF Install
  <1>33. CASE Forget
    BY <1>33 DEF Forget
  <1>34. ASSUME NEW c \in Chips, Handle(c) PROVE RunInv'
    BY <1>34 DEF Handle
  <1>35. ASSUME NEW c \in Chips, Enumerate(c) PROVE RunInv'
    BY <1>35 DEF Enumerate
  <1>36. ASSUME NEW b \in BOOLEAN, NEW ad \in BOOLEAN, Prepare(b, ad) PROVE RunInv'
    <2>1. declared \in Versions
      BY <1>36 DEF Prepare
    <2> DEFINE st == [disk EXCEPT !.ver = declared,
                                  !.fails = IF ~b \/ disk.ver # declared THEN 0 ELSE @]
               v == [Idle EXCEPT !.pc = "probe", !.boot = b, !.adopt = ad,
                                 !.st = st, !.want = declared]
    <2>2. u' \in {v, [v EXCEPT !.pc = "handler"]}
      BY <1>36 DEF Prepare, SaveThen
    <2> HIDE DEF st
    <2>3. CASE u' = v
      <3>1. u'.want = declared /\ u'.writing = FALSE /\ u'.pc = "probe"
        BY <2>3 DEF Idle
      <3> QED
        BY <2>1, <3>1
    <2>4. CASE u' = [v EXCEPT !.pc = "handler"]
      <3>1. u'.writing = FALSE /\ u'.pc = "handler"
        BY <2>4 DEF Idle
      <3> QED
        BY <3>1
    <2> QED
      BY <2>2, <2>3, <2>4
  <1> QED
    BY <1>1, <1>2, <1>3, <1>4, <1>5, <1>6, <1>7, <1>8, <1>9, <1>10, <1>11,
       <1>12, <1>13, <1>14, <1>15, <1>16, <1>17, <1>18, <1>19, <1>20,
       <1>21, <1>22, <1>23, <1>24, <1>25, <1>26, <1>27, <1>28, <1>29,
       <1>30, <1>31, <1>32, <1>33, <1>34, <1>35, <1>36
    DEF Next, Run, Start, Environment

\* The second and the third write follow the one before them, and nothing else
\* does.
InOrder ==
  \/ u'.pc \notin {"body", "header"}
  \/ u' = u /\ flash' = flash
  \/ \E part \in {"blank", "body"} :
       /\ u.pc = part /\ u' = [u EXCEPT !.pc = After(part), !.recovery = None]
       /\ flash' = [flash EXCEPT ![u.target] = Written(part)]

\* Every step keeps the order of the writes.
LEMMA Order == ASSUME IInv, Next PROVE InOrder
  <1> USE DEF IInv, TypeOK, Updater, InOrder, world, installed
  <1>1. CASE Refuse
    BY <1>1 DEF Refuse, Idle
  <1>2. CASE Undeclared
    BY <1>2 DEF Undeclared, Idle
  <1>3. CASE BadDeclaration
    BY <1>3 DEF BadDeclaration, Idle
  <1>4. CASE ProbeAbsent
    BY <1>4 DEF ProbeAbsent, Fail, Finish
  <1>5. CASE ProbeAmbiguous
    BY <1>5 DEF ProbeAmbiguous, Fail
  <1>6. ASSUME NEW c \in Chips, ProbeCdc(c) PROVE InOrder
    BY <1>6 DEF ProbeCdc, Finish
  <1>7. ASSUME NEW c \in Chips, ProbeBootsel(c) PROVE InOrder
    BY <1>7, ZenonT(40) DEF ProbeBootsel
  <1>8. ASSUME NEW c \in Chips, Identify(c) PROVE InOrder
    BY <1>8 DEF Identify, SaveThen
  <1>9. CASE IdentifyFails
    BY <1>9 DEF IdentifyFails, Fail
  <1>10. CASE Match
    BY <1>10 DEF Match, SaveThen
  <1>11. CASE MatchFails
    BY <1>11 DEF MatchFails, Fail
  <1>12. CASE Current
    BY <1>12 DEF Current
  <1>13. CASE Skip
    BY <1>13 DEF Skip, Finish
  <1>14. CASE Unpack
    BY <1>14 DEF Unpack, Fail
  <1>15. CASE EnterBootsel
    BY <1>15 DEF EnterBootsel, Goto
  <1>16. CASE WaitBootsel
    BY <1>16 DEF WaitBootsel, Goto
  <1>17. CASE Touch
    BY <1>17 DEF Touch, Goto, Fail
  <1>18. CASE Rematch
    BY <1>18 DEF Rematch
  <1>19. ASSUME NEW part \in Parts, Load(part) PROVE InOrder
    BY <1>19 DEF Load, After, Parts
  <1>20. ASSUME NEW part \in Parts, LoadMisses(part) PROVE InOrder
    BY <1>20 DEF LoadMisses, Parts
  <1>21. ASSUME NEW part \in Parts, StageFails(part) PROVE InOrder
    BY <1>21 DEF StageFails, Fail, Parts
  <1>22. CASE Restart
    BY <1>22 DEF Restart, Goto, Fail
  <1>23. CASE Verify
    BY <1>23 DEF Verify
  <1>24. CASE VerifyFails
    BY <1>24 DEF VerifyFails, Fail
  <1>25. CASE Handler
    BY <1>25 DEF Handler
  <1>26. CASE Restore
    BY <1>26 DEF Restore
  <1>27. CASE Settle
    BY <1>27 DEF Settle, Goto
  <1>28. CASE Final
    BY <1>28 DEF Final, Response, Idle
  <1>29. CASE Deadline
    BY <1>29 DEF Deadline, Response, Idle, Goto
  <1>30. CASE Kill
    BY <1>30 DEF Kill, Cut, Idle
  <1>31. CASE PowerCut
    BY <1>31 DEF PowerCut, Cut, Idle
  <1>32. CASE Install
    BY <1>32 DEF Install
  <1>33. CASE Forget
    BY <1>33 DEF Forget
  <1>34. ASSUME NEW c \in Chips, Handle(c) PROVE InOrder
    BY <1>34 DEF Handle
  <1>35. ASSUME NEW c \in Chips, Enumerate(c) PROVE InOrder
    BY <1>35 DEF Enumerate
  <1>36. ASSUME NEW b \in BOOLEAN, NEW ad \in BOOLEAN, Prepare(b, ad) PROVE InOrder
    BY <1>36 DEF Prepare, SaveThen, Idle
  <1> QED
    BY <1>1, <1>2, <1>3, <1>4, <1>5, <1>6, <1>7, <1>8, <1>9, <1>10, <1>11,
       <1>12, <1>13, <1>14, <1>15, <1>16, <1>17, <1>18, <1>19, <1>20,
       <1>21, <1>22, <1>23, <1>24, <1>25, <1>26, <1>27, <1>28, <1>29,
       <1>30, <1>31, <1>32, <1>33, <1>34, <1>35, <1>36
    DEF Next, Run, Start, Environment

(***************************************************************************)
(* The flash.                                                              *)
(***************************************************************************)
\* Only a write changes a flash: the target's, in BOOTSEL, whole or torn.
OnlyWrites ==
  \/ UNCHANGED flash
  \/ /\ u.pc \in Parts /\ mode[u.target] = "bootsel"
     /\ \E f \in {Torn(u.pc), Written(u.pc)} : flash' = [flash EXCEPT ![u.target] = f]

\* So it is of every step.
LEMMA Writes == ASSUME TypeOK, Next PROVE OnlyWrites
  <1> USE DEF TypeOK, OnlyWrites, Interrupted, world, installed
  <1>1. ASSUME NEW part \in Parts, Load(part) PROVE OnlyWrites
    BY <1>1 DEF Load
  <1>2. CASE Kill
    BY <1>2 DEF Kill, Cut
  <1>3. CASE PowerCut
    BY <1>3 DEF PowerCut, Cut
  <1>4. CASE Start
    BY <1>4 DEF Start, Prepare
  <1>5. CASE Deadline \/ Install \/ Forget \/ \E c \in Chips : Handle(c) \/ Enumerate(c)
    BY <1>5 DEF Deadline, Install, Forget, Handle, Enumerate
  <1>6. CASE Run /\ ~(\E part \in Parts : Load(part))
    BY <1>6 DEF Run, Refuse, Undeclared, BadDeclaration, ProbeAbsent, ProbeAmbiguous,
       ProbeCdc, ProbeBootsel, Identify, IdentifyFails, Match, MatchFails, Current, Skip,
       Unpack, EnterBootsel, WaitBootsel, Touch, Rematch, LoadMisses, StageFails,
       Restart, Verify, VerifyFails, Handler, Restore, Settle, Final
  <1> QED
    BY <1>1, <1>2, <1>3, <1>4, <1>5, <1>6 DEF Next, Environment

\* A face comes to a port only by starting from a whole image.
OnlyStarts ==
  \A c \in Chips : mode'[c] = "cdc" => mode[c] = "cdc" \/ (Whole(c) /\ flash' = flash)

\* So it does at every step.
LEMMA Starts == ASSUME TypeOK, Next PROVE OnlyStarts
  <1> USE DEF TypeOK, OnlyStarts, SetMode, world, installed
  <1>1. CASE EnterBootsel \/ Touch \/ Restart \/ Restore
    BY <1>1 DEF EnterBootsel, Touch, Restart, Restore, Ports
  <1>2. CASE PowerCut
    BY <1>2 DEF PowerCut
  <1>3. ASSUME NEW c \in Chips, Handle(c) \/ Enumerate(c) PROVE OnlyStarts
    BY <1>3 DEF Handle, Enumerate
  <1>4. CASE Start
    BY <1>4 DEF Start, Prepare
  <1>5. CASE Deadline \/ Kill \/ Install \/ Forget
    BY <1>5 DEF Deadline, Kill, Install, Forget
  <1>6. CASE Run /\ ~(EnterBootsel \/ Touch \/ Restart \/ Restore)
    BY <1>6 DEF Run, Refuse, Undeclared, BadDeclaration, ProbeAbsent, ProbeAmbiguous,
       ProbeCdc, ProbeBootsel, Identify, IdentifyFails, Match, MatchFails, Current, Skip,
       Unpack, WaitBootsel, Rematch, Load, LoadMisses, StageFails,
       Verify, VerifyFails, Handler, Settle, Final
  <1> QED
    BY <1>1, <1>2, <1>3, <1>4, <1>5, <1>6 DEF Next, Environment

(***************************************************************************)
(* Types, but for the updater's memory.                                    *)
(***************************************************************************)
\* The faces stay typed.
LEMMA WorldType ==
  ASSUME IInv, Next PROVE mode' \in [Chips -> Modes] /\ flash' \in [Chips -> Flash]
  <1>1. flash' \in [Chips -> Flash]
    <2>1. CASE UNCHANGED flash
      BY <2>1 DEF IInv, TypeOK
    <2>2. ASSUME u.pc \in Parts, NEW f \in {Torn(u.pc), Written(u.pc)},
                 flash' = [flash EXCEPT ![u.target] = f]
          PROVE flash' \in [Chips -> Flash]
      <3>1. u.want \in Images
        BY <2>2 DEF IInv, RunInv, WantKnown, Parts, TryPoints, Images
      <3> QED
        BY <2>2, <3>1, ZenonT(90) DEF IInv, TypeOK, Torn, Written, Flash
    <2> QED
      BY <2>1, <2>2, Writes DEF OnlyWrites, IInv
  <1>2. mode' \in [Chips -> Modes]
    <2> USE DEF IInv, TypeOK, Modes, SetMode, world, installed
    <2>1. CASE EnterBootsel \/ Touch \/ Restart \/ Restore
      BY <2>1 DEF EnterBootsel, Touch, Restart, Restore
    <2>2. CASE PowerCut
      BY <2>2 DEF PowerCut
    <2>3. ASSUME NEW c \in Chips, Handle(c) \/ Enumerate(c) PROVE mode' \in [Chips -> Modes]
      BY <2>3 DEF Handle, Enumerate
    <2>4. CASE Start
      BY <2>4 DEF Start, Prepare
    <2>5. CASE Deadline \/ Kill \/ Install \/ Forget
      BY <2>5 DEF Deadline, Kill, Install, Forget
    <2>6. CASE Run /\ ~(EnterBootsel \/ Touch \/ Restart \/ Restore)
      BY <2>6 DEF Run, Refuse, Undeclared, BadDeclaration, ProbeAbsent, ProbeAmbiguous,
         ProbeCdc, ProbeBootsel, Identify, IdentifyFails, Match, MatchFails, Current, Skip,
         Unpack, WaitBootsel, Rematch, Load, LoadMisses, StageFails,
         Verify, VerifyFails, Handler, Settle, Final
    <2> QED
      BY <2>1, <2>2, <2>3, <2>4, <2>5, <2>6 DEF Next, Environment
  <1> QED
    BY <1>1, <1>2

\* The installed bundle and state.json stay typed.
LEMMA StoreType ==
  ASSUME IInv, Next, u' \in Updater
  PROVE  /\ declared' \in Versions \union {"undeclared", "malformed"}
         /\ packed' \in Versions
         /\ disk' \in Saved \union {Invalid}
         /\ faults' \in 0..MaxFaults
  <1>1. declared' \in Versions \union {"undeclared", "malformed"} /\ packed' \in Versions
    <2> USE DEF IInv, TypeOK, world, installed
    <2>1. CASE Run
      BY <2>1 DEF Run, Refuse, Undeclared, BadDeclaration, ProbeAbsent, ProbeAmbiguous,
         ProbeCdc, ProbeBootsel, Identify, IdentifyFails, Match, MatchFails, Current, Skip,
         Unpack, EnterBootsel, WaitBootsel, Touch, Rematch, Load, LoadMisses, StageFails,
         Restart, Verify, VerifyFails, Handler, Restore, Settle, Final
    <2>2. CASE Start
      BY <2>2 DEF Start, Prepare
    <2>3. CASE Environment
      BY <2>3 DEF Environment, Deadline, Kill, PowerCut, Cut, Install, Forget, Handle, Enumerate
    <2> QED
      BY <2>1, <2>2, <2>3 DEF Next
  <1>2. faults' \in 0..MaxFaults
    <2> SUFFICES Fault \/ NoFault
      BY ConstantsAssumption DEF IInv, TypeOK, Fault, NoFault
    <2>1. CASE Run
      BY <2>1 DEF Run, Refuse, Undeclared, BadDeclaration, ProbeAbsent, ProbeAmbiguous,
         ProbeCdc, ProbeBootsel, Identify, IdentifyFails, Match, MatchFails, Current, Skip,
         Unpack, EnterBootsel, WaitBootsel, Touch, Rematch, Load, LoadMisses, StageFails,
         Restart, Verify, VerifyFails, Handler, Restore, Settle, Final, SaveThen, WaitFails,
         NoFault
    <2>2. CASE Start
      BY <2>2 DEF Start, Prepare, SaveThen
    <2>3. CASE Environment
      BY <2>3 DEF Environment, Deadline, Kill, PowerCut, Cut, Install, Forget, Handle,
         Enumerate, NoFault
    <2> QED
      BY <2>1, <2>2, <2>3 DEF Next
  <1>3. disk' \in Saved \union {Invalid}
    <2> USE DEF IInv, TypeOK, world, installed
    <2>1. ASSUME NEW p \in Chips, Identify(p) PROVE disk' \in Saved \union {Invalid}
      BY <2>1, IdentifyType DEF SaveTyped
    <2>2. CASE Match
      BY <2>2, MatchType DEF SaveTyped
    <2>3. ASSUME NEW b \in BOOLEAN, NEW ad \in BOOLEAN, Prepare(b, ad)
          PROVE disk' \in Saved \union {Invalid}
      BY <2>3, PrepareType DEF SaveTyped
    <2>4. CASE Final
      BY <2>4 DEF Final, Updater
    <2>5. CASE Environment
      BY <2>5, IdleType DEF Environment, Deadline, Kill, PowerCut, Cut, Install, Forget,
         Handle, Enumerate, Idle, Updater
    <2>6. CASE Run /\ ~(Match \/ Final \/ \E p \in Chips : Identify(p))
      BY <2>6 DEF Run, Refuse, Undeclared, BadDeclaration, ProbeAbsent, ProbeAmbiguous,
         ProbeCdc, ProbeBootsel, IdentifyFails, MatchFails, Current, Skip,
         Unpack, EnterBootsel, WaitBootsel, Touch, Rematch, Load, LoadMisses, StageFails,
         Restart, Verify, VerifyFails, Handler, Restore, Settle
    <2> QED
      BY <2>1, <2>2, <2>3, <2>4, <2>5, <2>6 DEF Next, Start
  <1> QED
    BY <1>1, <1>2, <1>3

(***************************************************************************)
(* The invariant.                                                          *)
(***************************************************************************)
\* The invariant holds at the start.
LEMMA Initially == Init => IInv
  <1> SUFFICES ASSUME Init PROVE IInv
    OBVIOUS
  <1>1. TypeOK
    BY ConstantsAssumption, IdleType DEF Init, TypeOK, Flash, Modes, Idle, Updater
  <1>2. WholeOrUnbootable
    BY ConstantsAssumption DEF Init, WholeOrUnbootable, Images
  <1>3. PortsWhole /\ WriteOrder /\ RunInv
    BY DEF Init, PortsWhole, WriteOrder, RunInv, WantKnown, StrikesLeft, Named, Idle,
       TryPoints, Recording
  <1> QED
    BY <1>1, <1>2, <1>3 DEF IInv

\* Every step keeps the invariant.
LEMMA Inductive == IInv /\ [Next]_vars => IInv'
  <1> SUFFICES ASSUME IInv, [Next]_vars PROVE IInv'
    OBVIOUS
  <1>1. CASE Next
    <2>1. u' \in Updater
      BY <1>1, UpdaterType
    <2>2. TypeOK'
      BY <1>1, <2>1, WorldType, StoreType DEF TypeOK
    <2>3. RunInv'
      BY <1>1, <2>1, RunStep
    <2>4. OnlyWrites /\ OnlyStarts /\ InOrder
      BY <1>1, Writes, Starts, Order DEF IInv
    <2>5. WholeOrUnbootable'
      <3>1. CASE UNCHANGED flash
        BY <3>1 DEF IInv, WholeOrUnbootable
      <3>2. ASSUME u.pc \in Parts, NEW f \in {Torn(u.pc), Written(u.pc)},
                   flash' = [flash EXCEPT ![u.target] = f], NEW c \in Chips
            PROVE /\ flash'[c].header \in Images => flash'[c].body = flash'[c].header
                  /\ flash'[c].body = "torn" => flash'[c].header = "blank"
        <4>1. CASE c # u.target
          BY <3>2, <4>1 DEF IInv, TypeOK, WholeOrUnbootable
        <4>2. CASE c = u.target
          <5> USE <4>2, ConstantsAssumption DEF IInv, TypeOK, Flash, WholeOrUnbootable, WriteOrder, Torn,
                    Written, Images
          <5>1. u.want \in Versions
            BY <3>2 DEF RunInv, WantKnown, Parts, TryPoints
          <5>2. CASE u.pc = "blank"
            BY <3>2, <5>2
          <5>3. CASE u.pc = "body"
            BY <3>2, <5>3
          <5>4. CASE u.pc = "header"
            BY <3>2, <5>1, <5>4
          <5> QED
            BY <3>2, <5>2, <5>3, <5>4 DEF Parts
        <4> QED
          BY <4>1, <4>2
      <3> QED
        BY <2>4, <3>1, <3>2 DEF OnlyWrites, WholeOrUnbootable
    <2>6. PortsWhole'
      <3> SUFFICES ASSUME NEW c \in Chips, mode'[c] = "cdc" PROVE Whole(c)'
        BY DEF PortsWhole
      <3>1. Whole(c)
        BY <2>4 DEF OnlyStarts, IInv, PortsWhole
      <3>2. flash'[c] = flash[c]
        BY <2>4 DEF OnlyStarts, OnlyWrites, IInv, TypeOK
      <3> QED
        BY <3>1, <3>2 DEF Whole
    <2>7. WriteOrder'
      <3> SUFFICES ASSUME NEW c \in Chips, u'.target = c, u'.pc \in {"body", "header"}
                   PROVE  /\ flash'[c].header = "blank"
                          /\ u'.pc = "header" => flash'[c].body = u'.want
        BY DEF WriteOrder
      <3>1. CASE u' = u /\ flash' = flash
        BY <3>1 DEF IInv, WriteOrder
      <3>2. ASSUME NEW part \in {"blank", "body"}, u.pc = part,
                   u' = [u EXCEPT !.pc = After(part), !.recovery = None],
                   flash' = [flash EXCEPT ![u.target] = Written(part)]
            PROVE /\ flash'[c].header = "blank"
                  /\ u'.pc = "header" => flash'[c].body = u'.want
        BY <3>2 DEF After, Written, IInv, TypeOK, Updater, Flash, WriteOrder
      <3> QED
        BY <2>4, <3>1, <3>2 DEF InOrder
    <2> QED
      BY <2>2, <2>3, <2>5, <2>6, <2>7 DEF IInv
  <1>2. CASE UNCHANGED vars
    BY <1>2 DEF vars, IInv, TypeOK, WholeOrUnbootable, PortsWhole, Whole, WriteOrder, RunInv,
       WantKnown, StrikesLeft, Named
  <1> QED
    BY <1>1, <1>2

\* It is an invariant of the specification.
LEMMA Invariance == Spec => []IInv
  BY Initially, Inductive, PTL DEF Spec

\* Types are kept, among them the bound on the failures a boot run can count:
\* a fourth is never written down (update(), the gate of consecutive failures).
THEOREM TypeCorrect == Spec => []TypeOK
  <1>1. IInv => TypeOK
    BY DEF IInv
  <1> QED
    BY <1>1, Invariance, PTL

\* Whatever is cut, killed, pulled out or installed, and for any number of
\* boards and faults, no face can start a body that is not whole (the order of
\* the three writes in update()).
THEOREM FlashWhole == Spec => []WholeOrUnbootable
  <1>1. IInv => WholeOrUnbootable
    BY DEF IInv
  <1> QED
    BY <1>1, Invariance, PTL

\* Every change of a flash is on the face state.json names by then, in BOOTSEL
\* (update() saves the chip before the first write).
THEOREM WritesAreRecorded == Spec => RecordedOnly
  <1>1. IInv /\ [Next]_vars =>
          [\A c \in Chips : flash'[c] # flash[c] =>
             /\ disk # Invalid /\ disk.chip = c
             /\ mode[c] = "bootsel"]_vars
    <2> SUFFICES ASSUME IInv, Next, NEW c \in Chips, flash'[c] # flash[c]
                 PROVE disk # Invalid /\ disk.chip = c /\ mode[c] = "bootsel"
      OBVIOUS
    <2>1. u.pc \in Parts /\ c = u.target /\ mode[c] = "bootsel"
      BY Writes DEF OnlyWrites, IInv, TypeOK
    <2>2. disk = u.st /\ disk.chip = u.target
      BY <2>1 DEF IInv, RunInv, Named, Recording, Parts
    <2>3. disk # Invalid
      BY <2>2, ConstantsAssumption DEF IInv, TypeOK, Updater, Saved, MaxFailures
    <2> QED
      BY <2>1, <2>2, <2>3
  <1> QED
    BY <1>1, Invariance, PTL DEF Spec, RecordedOnly

(***************************************************************************)
(* The steps of a run, field by field.                                     *)
(***************************************************************************)
\* What stays while a run goes on.
Goes ==
  /\ u'.boot = u.boot /\ u'.want = u.want /\ u'.result = u.result /\ u'.writing = u.writing
  /\ u'.st.fails = u.st.fails /\ u'.st.ver = u.st.ver
SameStore == flash' = flash /\ disk' = disk

\* Nothing of the updater.
Stays == u' = u /\ flash' = flash /\ (disk' = disk \/ (u.pc = "idle" /\ disk' = Fresh))

\* The run is over: cut, or with the response that it printed.
Leaves ==
  /\ u'.pc = "idle" /\ ~u'.boot /\ u'.recovery = None
  /\ \/ u'.after = None /\ u'.result # "updated"
     \/ /\ flash' = flash /\ u'.after = u.after /\ u'.target = u.target /\ u'.want = u.want
        /\ u'.result \in {u.result, "failed"}
  /\ disk' = disk \/ (u.pc = "final" /\ flash' = flash /\ disk' = u.st)

\* A run begins, and its state is saved or not, or has no declaration.
Begins ==
  /\ u.pc = "idle" /\ disk # Invalid /\ flash' = flash
  /\ u'.after = None /\ u'.recovery = None /\ ~u'.cdc /\ ~u'.writing /\ u'.result # "updated"
  /\ \/ /\ u'.pc \in {"probe", "handler"} /\ u'.result = "none" /\ u'.st.ver = u'.want
        /\ u'.st.fails \in {0, disk.fails} /\ (~u'.boot => u'.st.fails = 0)
        /\ u'.boot /\ u'.want = disk.ver => u'.st.fails = disk.fails
        /\ disk' = u'.st \/ (disk' = disk /\ u'.pc = "handler")
     \/ u'.pc = "final" /\ u'.st = disk /\ disk' = disk

\* A face is found.
Sees ==
  /\ u.pc = "probe" /\ Goes /\ SameStore /\ u'.recovery = u.recovery /\ u'.target \in Chips
  /\ \/ u'.pc = "identify" /\ Whole(u'.target)
     \/ u'.pc = "match" /\ u'.after = "bootsel" /\ u'.cdc = u.cdc

\* It is recorded.
Gates ==
  /\ u'.pc = "gate" /\ Goes /\ flash' = flash /\ disk' = u'.st
  /\ u'.target = u.target /\ u'.cdc = u.cdc /\ u'.recovery = u.recovery
  /\ \/ u.pc = "identify" /\ \E c \in Chips : Whole(c) /\ flash[c].header = u'.before
     \/ u.pc = "match" /\ u'.after = "bootsel"

\* It is to be written.
Decides ==
  /\ u.pc = "gate" /\ SameStore /\ u'.boot = u.boot /\ u'.want = u.want /\ u'.result = u.result
  /\ u'.st = u.st /\ u'.target = u.target /\ u'.after = u.after /\ u'.writing
  /\ \/ u'.pc = "enter" /\ u.cdc /\ u'.recovery = u.target
     \/ u'.pc = "rematch" /\ u'.recovery = None

\* It is taken to BOOTSEL, and out of it.
Approaches ==
  /\ Goes /\ SameStore /\ u'.target = u.target /\ u'.recovery = u.recovery
  /\ \/ /\ u.pc \in {"enter", "wait", "touch"} /\ u'.pc \in {"wait", "touch", "rematch"}
        /\ u'.after = u.after
     \/ u.pc = "rematch" /\ u'.pc = "blank" /\ u'.after = "bootsel"
     \/ u.pc = "restart" /\ u'.pc = "verify" /\ u'.after = u.after

\* A part is written.
Loads ==
  /\ u.pc \in Parts /\ u'.pc = After(u.pc) /\ Goes /\ u'.target = u.target
  /\ u'.after = u.after /\ u'.recovery = None /\ disk' = disk
  /\ flash' = [flash EXCEPT ![u.target] = Written(u.pc)]

\* An exception.
Fails ==
  /\ u.pc \in TryPoints /\ u'.pc = "handler" /\ Goes /\ u'.target = u.target
  /\ u'.recovery \in {u.recovery, None}
  /\ flash' = flash \/ (u.pc \in Parts /\ u'.recovery = None /\ u'.after = u.after)
  /\ u'.after \in {u.after, "bootsel"} \/ u.pc = "identify" \/ (u.pc = "verify" /\ Whole(u.target))
  /\ disk' = disk \/ (disk' = u'.st /\ flash' = flash)

\* A run returns early, or has succeeded.
Finishes ==
  /\ u.pc \in TryPoints /\ u'.pc = "final" /\ SameStore
  /\ u'.boot = u.boot /\ u'.want = u.want /\ u'.target = u.target
  /\ u'.recovery = u.recovery /\ u'.st.ver = u.st.ver
  /\ \/ u'.result # "updated" /\ u'.st.fails = u.st.fails /\ u'.after = u.after
     \/ /\ u.pc = "gate" /\ u.cdc /\ u.before = u.want
        /\ u'.result # "updated" /\ u'.st.fails = 0 /\ u'.after = u.after
     \/ /\ u.pc = "verify" /\ u'.st.fails = 0
        /\ u.target \in Chips /\ Whole(u.target) /\ flash[u.target].header = u.want

\* A failure is counted.
Counts ==
  /\ u.pc = "handler" /\ u'.pc \in {"final", "restore"} /\ SameStore
  /\ u'.boot = u.boot /\ u'.want = u.want /\ u'.target = u.target /\ u'.after = u.after
  /\ u'.recovery = u.recovery /\ u'.result = "failed"
  /\ u'.st.ver = u.st.ver
  /\ u'.st.fails = u.st.fails \/ (u.writing /\ u'.st.fails = u.st.fails + 1)

\* A face is sent back.
SendsBack ==
  /\ u.pc \in {"restore", "settle"} /\ u'.pc \in {"settle", "final"} /\ Goes /\ SameStore
  /\ u'.target = u.target /\ u'.recovery \in {u.recovery, None}
  /\ u'.after \in {u.after, "bootsel"} \/ Whole(u.target)

Steps ==
  \/ Stays \/ Leaves \/ Begins \/ Sees \/ Gates \/ Decides \/ Approaches \/ Loads \/ Fails
  \/ Finishes \/ Counts \/ SendsBack

\* Every step is one of these.
LEMMA StepShape == ASSUME IInv, Next, u' \in Updater PROVE Steps
  <1> USE ConstantsAssumption
      DEF IInv, TypeOK, Updater, Goes, SameStore, Stays, Leaves, Begins, Sees, Gates, Decides,
          Approaches, Loads, Fails, Finishes, Counts, SendsBack, TryPoints, Parts
  <1>1. ASSUME Refuse PROVE Leaves
    BY <1>1 DEF Refuse, Idle, world
  <1>2. ASSUME Undeclared PROVE Leaves
    BY <1>2 DEF Undeclared, Idle, world
  <1>3. ASSUME BadDeclaration PROVE Begins
    <2>1. u'.pc = "final" /\ u'.st = disk /\ u'.after = None /\ u'.recovery = None /\ ~u'.cdc
          /\ ~u'.writing /\ u'.result = "failed"
      BY <1>3 DEF BadDeclaration, Idle
    <2> QED
      BY <1>3, <2>1 DEF BadDeclaration, world
  <1>4. ASSUME ProbeAbsent PROVE Fails \/ Finishes
    <2>1. CASE Fail
      BY <1>4, <2>1 DEF ProbeAbsent, Fail, world
    <2>2. CASE Finish("absent")
      BY <1>4, <2>2 DEF ProbeAbsent, Finish, world
    <2> QED
      BY <1>4, <2>1, <2>2 DEF ProbeAbsent
  <1>5. ASSUME ProbeAmbiguous PROVE Fails
    BY <1>5 DEF ProbeAmbiguous, Fail, world
  <1>6. ASSUME NEW c \in Chips, ProbeCdc(c) PROVE Sees \/ Finishes
    <2>1. CASE Finish("busy")
      BY <1>6, <2>1 DEF ProbeCdc, Finish, world
    <2>2. CASE u' = [u EXCEPT !.pc = "identify", !.cdc = TRUE, !.target = c]
      <3>1. Whole(c)
        BY <1>6 DEF ProbeCdc, OnlyPort, Ports, PortsWhole
      <3> QED
        BY <1>6, <2>2, <3>1 DEF ProbeCdc, world
    <2> QED
      BY <1>6, <2>1, <2>2 DEF ProbeCdc
  <1>7. ASSUME NEW c \in Chips, ProbeBootsel(c) PROVE Sees \/ Fails
    <2> DEFINE seen == [u EXCEPT !.before = "bootsel", !.after = "bootsel"]
    <2>0. u.pc = "probe" /\ flash' = flash /\ disk' = disk
      BY <1>7 DEF ProbeBootsel, world
    <2>1. CASE u' = [seen EXCEPT !.pc = "match", !.target = c, !.st.chip = c]
      <3>1. u'.st = [u.st EXCEPT !.chip = c]
        BY <2>1
      <3> QED
        BY <2>0, <2>1, <3>1 DEF Saved
    <2>2. CASE u.st.chip # None /\ u' = [seen EXCEPT !.pc = "match", !.target = u.st.chip]
      <3>1. u.st.chip \in Chips
        BY <2>2 DEF Saved
      <3> QED
        BY <2>0, <2>2, <3>1
    <2>3. CASE u' = [seen EXCEPT !.pc = "handler"]
      BY <2>0, <2>3
    <2> QED
      BY <1>7, <2>1, <2>2, <2>3 DEF ProbeBootsel
  <1>8. ASSUME NEW c \in Chips, Identify(c) PROVE Gates \/ Fails
    <2> DEFINE v == [u EXCEPT !.pc = "gate", !.st.chip = u.target,
                        !.before = flash[c].header, !.after = flash[c].header]
    <2>0. u.pc = "identify" /\ flash' = flash /\ Whole(c)
      BY <1>8 DEF Identify, world, Ports, PortsWhole
    <2>1. /\ v.st.fails = u.st.fails /\ v.st.ver = u.st.ver /\ v.target = u.target /\ v.cdc = u.cdc
          /\ v.recovery = u.recovery /\ v.before = flash[c].header /\ v.pc = "gate"
          /\ v.boot = u.boot /\ v.want = u.want /\ v.result = u.result /\ v.writing = u.writing
      BY DEF Saved
    <2>2. CASE disk' = v.st /\ u' = v
      <3> HIDE DEF v
      <3> QED
        BY <2>0, <2>1, <2>2
    <2>3. CASE disk' \in {disk, v.st} /\ u' = [v EXCEPT !.pc = "handler"]
      <3>1. /\ u'.pc = "handler" /\ u'.st = v.st /\ u'.target = v.target /\ u'.boot = v.boot
            /\ u'.want = v.want /\ u'.result = v.result /\ u'.writing = v.writing
            /\ u'.recovery = v.recovery
        BY <2>3
      <3> HIDE DEF v
      <3> QED
        BY <2>0, <2>1, <2>3, <3>1
    <2> QED
      BY <1>8, <2>2, <2>3 DEF Identify, SaveThen
  <1>9. ASSUME IdentifyFails PROVE Fails
    BY <1>9 DEF IdentifyFails, Fail, world
  <1>10. ASSUME Match PROVE Gates \/ Fails
    <2> DEFINE v == [u EXCEPT !.pc = "gate", !.after = "bootsel"]
    <2>0. u.pc = "match" /\ flash' = flash
      BY <1>10 DEF Match, world
    <2>1. CASE disk' = v.st /\ u' = v
      BY <2>0, <2>1
    <2>2. CASE disk' \in {disk, v.st} /\ u' = [v EXCEPT !.pc = "handler"]
      BY <2>0, <2>2
    <2> QED
      BY <1>10, <2>1, <2>2 DEF Match, SaveThen
  <1>11. ASSUME MatchFails PROVE Fails
    BY <1>11 DEF MatchFails, Fail, world
  <1>12. ASSUME Current PROVE Finishes
    <2>1. u'.st = [u.st EXCEPT !.fails = 0]
      BY <1>12 DEF Current
    <2> QED
      BY <1>12, <2>1 DEF Current, world, Saved
  <1>13. ASSUME Skip PROVE Finishes
    BY <1>13, ZenonT(60) DEF Skip, Finish, world
  <1>14. ASSUME Unpack PROVE Decides \/ Fails
    <2>1. CASE Fail
      BY <1>14, <2>1 DEF Fail, Unpack, world
    <2>2. CASE u' = [u EXCEPT !.pc = IF u.cdc THEN "enter" ELSE "rematch",
                              !.writing = TRUE,
                              !.recovery = IF u.cdc THEN u.target ELSE None]
      <3>1. u.pc = "gate" /\ flash' = flash /\ disk' = disk
        BY <1>14 DEF Unpack, world
      <3>2. CASE u.cdc
        BY <2>2, <3>1, <3>2
      <3>3. CASE ~u.cdc
        BY <2>2, <3>1, <3>3
      <3> QED
        BY <3>2, <3>3
    <2> QED
      BY <1>14, <2>1, <2>2 DEF Unpack
  <1>15. ASSUME EnterBootsel PROVE Approaches
    BY <1>15 DEF EnterBootsel, Goto
  <1>16. ASSUME WaitBootsel PROVE Approaches
    BY <1>16 DEF WaitBootsel, Goto, world
  <1>17. ASSUME Touch PROVE Approaches \/ Fails
    BY <1>17 DEF Touch, Goto, Fail
  <1>18. ASSUME Rematch PROVE Approaches
    BY <1>18 DEF Rematch, world
  <1>19. ASSUME NEW part \in Parts, Load(part) PROVE Loads \/ Fails
    <2>0. u.pc = part /\ disk' = disk
      BY <1>19 DEF Load
    <2>1. CASE flash' = [flash EXCEPT ![u.target] = Written(part)]
               /\ u' = [u EXCEPT !.pc = After(part), !.recovery = None]
      BY <2>0, <2>1
    <2>2. CASE u' = [u EXCEPT !.pc = "handler", !.recovery = None]
      BY <2>0, <2>2
    <2> QED
      BY <1>19, <2>1, <2>2 DEF Load
  <1>20. ASSUME NEW part \in Parts, LoadMisses(part) PROVE Fails
    BY <1>20 DEF LoadMisses, world
  <1>21. ASSUME NEW part \in Parts, StageFails(part) PROVE Fails
    BY <1>21 DEF StageFails, Fail, world
  <1>22. ASSUME Restart PROVE Approaches \/ Fails
    BY <1>22 DEF Restart, Goto, Fail
  <1>23. ASSUME Verify PROVE Finishes \/ Fails
    <2> DEFINE seen == [u EXCEPT !.after = flash[u.target].header]
    <2>0. u.pc = "verify" /\ flash' = flash /\ disk' = disk
      BY <1>23 DEF Verify, world
    <2>1. u.target \in Chips /\ Whole(u.target)
      BY <1>23 DEF Verify, OnlyPort, Ports, PortsWhole
    <2>2. CASE u' = [seen EXCEPT !.pc = "handler"]
      BY <2>0, <2>1, <2>2
    <2>3. CASE /\ flash[u.target].header = u.want
               /\ u' = [seen EXCEPT !.pc = "final", !.result = "updated", !.st.fails = 0]
      <3>1. u'.st = [u.st EXCEPT !.fails = 0]
        BY <2>3
      <3>2. /\ u'.pc = "final" /\ u'.boot = u.boot /\ u'.want = u.want /\ u'.target = u.target
            /\ u'.recovery = u.recovery
        BY <2>3
      <3>3. u'.st.ver = u.st.ver /\ u'.st.fails = 0
        BY <3>1 DEF Saved
      <3> QED
        BY <2>0, <2>1, <2>3, <3>2, <3>3
    <2> QED
      BY <1>23, <2>2, <2>3 DEF Verify
  <1>24. ASSUME VerifyFails PROVE Fails
    BY <1>24 DEF VerifyFails, Fail, world
  <1>25. ASSUME Handler PROVE Counts
    <2> DEFINE f == IF u.writing /\ u.boot THEN u.st.fails + 1 ELSE u.st.fails
    <2>1. u'.st = [u.st EXCEPT !.fails = f]
      BY <1>25 DEF Handler
    <2>2. u'.st.fails = f /\ u'.st.ver = u.st.ver
      BY <2>1 DEF Saved
    <2>3. /\ u.pc = "handler" /\ u'.pc \in {"final", "restore"} /\ flash' = flash /\ disk' = disk
          /\ u'.boot = u.boot /\ u'.want = u.want /\ u'.target = u.target /\ u'.after = u.after
          /\ u'.recovery = u.recovery /\ u'.result = "failed"
      BY <1>25 DEF Handler, world
    <2> QED
      BY <2>2, <2>3
  <1>26. ASSUME Restore PROVE SendsBack
    <2>1. u.pc = "restore" /\ flash' = flash /\ disk' = disk
      BY <1>26 DEF Restore
    <2> DEFINE gone == [u EXCEPT !.pc = "final", !.recovery = None]
               there == [gone EXCEPT !.after = "bootsel"]
    <2>2. CASE u' = gone
      BY <2>1, <2>2
    <2>3. CASE u' = there
      BY <2>1, <2>3
    <2>4. CASE u' = [there EXCEPT !.pc = "settle"]
      BY <2>1, <2>4
    <2> QED
      BY <1>26, <2>2, <2>3, <2>4 DEF Restore
  <1>27. ASSUME Settle PROVE SendsBack
    <2>1. u.pc = "settle" /\ flash' = flash /\ disk' = disk
      BY <1>27 DEF Settle, world
    <2>2. CASE OnlyPort(u.target) /\ u' = [u EXCEPT !.pc = "final", !.after = u.before]
      <3>1. Whole(u.target)
        BY <2>2 DEF OnlyPort, Ports, PortsWhole
      <3> QED
        BY <2>1, <2>2, <3>1
    <2>3. CASE Goto("final")
      BY <2>1, <2>3 DEF Goto
    <2> QED
      BY <1>27, <2>2, <2>3 DEF Settle
  <1>28. ASSUME Final PROVE Leaves
    <2>1. PICK r \in {u.result, "failed"} : u' = Response(r)
      BY <1>28 DEF Final
    <2>2. /\ u'.pc = "idle" /\ ~u'.boot /\ u'.recovery = None /\ u'.after = u.after
          /\ u'.target = u.target /\ u'.want = u.want /\ u'.result = r
      BY <2>1 DEF Response, Idle
    <2> QED
      BY <1>28, <2>2 DEF Final, world
  <1>29. ASSUME Deadline PROVE Leaves \/ Fails \/ SendsBack
    <2>1. flash' = flash /\ disk' = disk
      BY <1>29 DEF Deadline, world
    <2>2. ASSUME u.pc \in TryPoints, NEW over \in BOOLEAN,
                 u' = [u EXCEPT !.pc = "handler", !.over = over]
          PROVE  Fails
      BY <2>1, <2>2
    <2>3. CASE u' = Response("failed")
      BY <2>1, <2>3 DEF Response, Idle
    <2>4. CASE u.pc = "settle" /\ Goto("final")
      BY <2>1, <2>4 DEF Goto
    <2> QED
      BY <1>29, <2>2, <2>3, <2>4 DEF Deadline
  <1>30. ASSUME Kill PROVE Leaves
    BY <1>30 DEF Kill, Cut, Idle
  <1>31. ASSUME PowerCut PROVE Leaves
    BY <1>31 DEF PowerCut, Cut, Idle
  <1>32. ASSUME Install PROVE Stays
    BY <1>32 DEF Install
  <1>33. ASSUME Forget PROVE Stays
    BY <1>33 DEF Forget, world
  <1>34. ASSUME NEW c \in Chips, Handle(c) PROVE Stays
    BY <1>34 DEF Handle
  <1>35. ASSUME NEW c \in Chips, Enumerate(c) PROVE Stays
    BY <1>35 DEF Enumerate
  <1>36. ASSUME NEW b \in BOOLEAN, NEW ad \in BOOLEAN, Prepare(b, ad) PROVE Begins
    <2> DEFINE f == IF ~b \/ disk.ver # declared THEN 0 ELSE disk.fails
               st == [disk EXCEPT !.ver = declared, !.fails = f]
               v == [Idle EXCEPT !.pc = "probe", !.boot = b, !.adopt = ad,
                                 !.st = st, !.want = declared]
    <2>1. u.pc = "idle" /\ disk \in Saved /\ disk # Invalid /\ flash' = flash
      BY <1>36 DEF Prepare, world
    <2>2. SaveThen(v)
      BY <1>36 DEF Prepare
    <2>3. st.ver = declared /\ st.fails = f
      <3> HIDE DEF f
      <3> QED
        BY <2>1 DEF Saved
    <2> HIDE DEF st, f
    <2>4. /\ v.st = st /\ v.want = declared /\ v.boot = b /\ v.after = None /\ v.recovery = None
          /\ v.cdc = FALSE /\ v.writing = FALSE /\ v.result = "none" /\ v.pc = "probe"
      BY DEF Idle
    <2>5. CASE disk' = v.st /\ u' = v
      <3> HIDE DEF v
      <3> QED
        BY <2>1, <2>3, <2>4, <2>5 DEF f
    <2>6. CASE disk' \in {disk, v.st} /\ u' = [v EXCEPT !.pc = "handler"]
      <3>1. /\ u'.st = v.st /\ u'.want = v.want /\ u'.boot = v.boot /\ u'.after = v.after
            /\ u'.recovery = v.recovery /\ u'.cdc = v.cdc /\ u'.result = v.result
            /\ u'.writing = v.writing /\ u'.pc = "handler"
        BY <2>6 DEF Idle
      <3> HIDE DEF v
      <3> QED
        BY <2>1, <2>3, <2>4, <2>6, <3>1 DEF f
    <2> QED
      BY <2>2, <2>5, <2>6 DEF SaveThen
  <1> HIDE DEF Stays, Leaves, Begins, Sees, Gates, Decides, Approaches, Loads, Fails,
             Finishes, Counts, SendsBack, IInv, TypeOK, Updater
  <1> QED
    BY <1>1, <1>2, <1>3, <1>4, <1>5, <1>6, <1>7, <1>8, <1>9, <1>10, <1>11,
       <1>12, <1>13, <1>14, <1>15, <1>16, <1>17, <1>18, <1>19, <1>20, <1>21,
       <1>22, <1>23, <1>24, <1>25, <1>26, <1>27, <1>28, <1>29, <1>30, <1>31,
       <1>32, <1>33, <1>34, <1>35, <1>36
    DEF Next, Run, Start, Environment, Steps

(***************************************************************************)
(* What a run reports and counts: a second invariant, which rests on the   *)
(* first.                                                                  *)
(***************************************************************************)
Ending == {"handler", "restore", "settle", "final"}
Approaching == {"enter", "wait", "touch", "rematch"}

\* A version is reported only of a face that was whole when it was read, and
\* is not written any more; nothing is announced before the end.
Reporting ==
  /\ u.pc \in TryPoints => u.result = "none"
  /\ u.pc \in TryPoints \ {"probe"} => u.target \in Chips
  /\ u.pc \in Parts \union {"restart", "verify"} => u.after = "bootsel"
  /\ u.pc \in {"probe", "match"} => ~u.cdc
  /\ u.pc = "identify" \/ (u.pc = "gate" /\ u.cdc) => Whole(u.target)
  /\ u.pc = "gate" /\ u.cdc => \E c \in Chips : Whole(c) /\ flash[c].header = u.before

\* A face is sent to its application only when it is whole: after the last
\* write, or before the first.
Returning ==
  /\ u.pc = "restart" => Whole(u.target)
  /\ u.pc \in {"probe", "identify", "match", "gate"} => u.recovery = None
  /\ u.recovery # None => u.recovery = u.target /\ Whole(u.target)

\* The count in memory is the saved one, but for a fresh start and the failure
\* of this run.
Counting ==
  /\ u.pc = "idle" => ~u.boot
  /\ u.pc \in Approaching \union Parts => u.writing
  /\ u.pc \in TryPoints => u.st.ver = u.want /\ (~u.boot => u.st.fails = 0)
  /\ u.pc \in TryPoints => disk # Invalid /\ disk.fails = u.st.fails /\ disk.ver = u.st.ver
  /\ u.pc = "handler" =>
       disk # Invalid /\ u.st.fails \in {0, disk.fails} /\ (u.writing => u.st.fails = disk.fails)
  /\ u.pc \in Ending => disk # Invalid /\ u.st.fails \in {0, disk.fails, disk.fails + 1}

\* A count that is lowered is of a new declaration, of a run by hand, or of a
\* face that has the declared version.
Forgiven ==
  u.pc \in Ending /\ u.st.fails < disk.fails =>
    \/ u.st.ver # disk.ver \/ ~u.boot
    \/ \E c \in Chips : Whole(c) /\ flash[c].header = disk.ver

ReportInv == ReportTrue /\ Reporting /\ Returning /\ Counting /\ Forgiven

\* Counts are numbers, and a state.json that does not load has none.
LEMMA Counted ==
  ASSUME IInv, u' \in Updater
  PROVE  /\ u.st \in Saved /\ u'.st \in Saved /\ Invalid \notin Saved
         /\ disk # Invalid => disk \in Saved
         /\ \A s \in Saved : s.fails \in 0..3
  BY ConstantsAssumption DEF IInv, TypeOK, Updater, Saved, MaxFailures

\* What is reported of a face is true of it.
LEMMA ReportTrueStep ==
  ASSUME ReportTrue, Reporting, Steps, u' \in Updater
  PROVE  ReportTrue'
  <1> USE ConstantsAssumption
      DEF Goes, SameStore, TryPoints, Parts, Whole, ReportTrue, Reporting, Images
  <1>1. CASE Stays
    BY <1>1 DEF Stays
  <1>2. CASE Leaves
    BY <1>2 DEF Leaves
  <1>3. CASE Begins
    BY <1>3 DEF Begins
  <1>4. CASE Sees
    BY <1>4 DEF Sees
  <1>5. CASE Gates
    BY <1>5 DEF Gates
  <1>6. CASE Decides
    BY <1>6 DEF Decides
  <1>7. CASE Approaches
    BY <1>7 DEF Approaches
  <1>8. CASE Loads
    BY <1>8 DEF Loads
  <1>9. CASE Fails
    BY <1>9 DEF Fails
  <1>10. CASE Finishes
    BY <1>10 DEF Finishes
  <1>11. CASE Counts
    BY <1>11 DEF Counts
  <1>12. CASE SendsBack
    BY <1>12 DEF SendsBack
  <1> QED
    BY <1>1, <1>2, <1>3, <1>4, <1>5, <1>6, <1>7, <1>8, <1>9, <1>10, <1>11, <1>12 DEF Steps

\* Reports are of the step that the run is at.
LEMMA ReportingStep ==
  ASSUME Reporting, Steps, u' \in Updater
  PROVE  Reporting'
  <1> USE ConstantsAssumption
      DEF Goes, SameStore, TryPoints, Parts, Whole, After, Reporting
  <1>1. CASE Stays
    BY <1>1 DEF Stays
  <1>2. CASE Leaves
    BY <1>2 DEF Leaves
  <1>3. CASE Begins
    BY <1>3 DEF Begins
  <1>4. CASE Sees
    BY <1>4 DEF Sees
  <1>5. CASE Gates
    BY <1>5 DEF Gates
  <1>6. CASE Decides
    BY <1>6 DEF Decides
  <1>7. CASE Approaches
    BY <1>7 DEF Approaches
  <1>8. CASE Loads
    BY <1>8 DEF Loads
  <1>9. CASE Fails
    BY <1>9 DEF Fails
  <1>10. CASE Finishes
    BY <1>10 DEF Finishes
  <1>11. CASE Counts
    BY <1>11 DEF Counts
  <1>12. CASE SendsBack
    BY <1>12 DEF SendsBack
  <1> QED
    BY <1>1, <1>2, <1>3, <1>4, <1>5, <1>6, <1>7, <1>8, <1>9, <1>10, <1>11, <1>12 DEF Steps

\* A face is returned only when it is whole.
LEMMA ReturningStep ==
  ASSUME IInv, Reporting, Returning, Steps, u' \in Updater
  PROVE  Returning'
  <1> USE ConstantsAssumption
      DEF Goes, SameStore, TryPoints, Parts, Whole, After, Reporting, Returning
  <1>1. CASE Stays
    BY <1>1 DEF Stays
  <1>2. CASE Leaves
    BY <1>2 DEF Leaves
  <1>3. CASE Begins
    BY <1>3 DEF Begins
  <1>4. CASE Sees
    BY <1>4 DEF Sees
  <1>5. CASE Gates
    BY <1>5 DEF Gates
  <1>6. CASE Decides
    BY <1>6 DEF Decides
  <1>7. CASE Approaches
    BY <1>7 DEF Approaches
  <1>8. CASE Loads
    <2>1. u'.recovery = None /\ u'.target = u.target /\ u'.pc = After(u.pc) /\ u.pc \in Parts
      BY <1>8 DEF Loads
    <2>2. ASSUME u.pc = "header" PROVE Whole(u.target)'
      <3>1. u.target \in Chips /\ flash[u.target].body = u.want /\ u.want \in Images
        BY <2>2 DEF IInv, WriteOrder, RunInv, WantKnown, Images
      <3>2. flash' = [flash EXCEPT ![u.target] = [flash[u.target] EXCEPT !.header = u.want]]
        BY <1>8, <2>2 DEF Loads, Written
      <3>3. flash'[u.target] = [flash[u.target] EXCEPT !.header = u.want]
        BY <3>1, <3>2 DEF IInv, TypeOK
      <3>4. flash'[u.target].header = u.want /\ flash'[u.target].body = u.want
        BY <3>1, <3>3 DEF IInv, TypeOK, Flash
      <3> QED
        BY <2>1, <3>1, <3>4
    <2> QED
      BY <2>1, <2>2
  <1>9. CASE Fails
    BY <1>9 DEF Fails
  <1>10. CASE Finishes
    BY <1>10 DEF Finishes
  <1>11. CASE Counts
    BY <1>11 DEF Counts
  <1>12. CASE SendsBack
    BY <1>12 DEF SendsBack
  <1> QED
    BY <1>1, <1>2, <1>3, <1>4, <1>5, <1>6, <1>7, <1>8, <1>9, <1>10, <1>11, <1>12 DEF Steps

\* Failures are counted one by one.
LEMMA CountingStep ==
  ASSUME IInv, Counting, Steps, u' \in Updater
  PROVE  Counting'
  <1> USE ConstantsAssumption
      DEF Goes, SameStore, TryPoints, Parts, After, Ending, Approaching, Counting
  <1>1. CASE Stays
    BY <1>1 DEF Stays
  <1>2. CASE Leaves
    BY <1>2 DEF Leaves
  <1>3. CASE Begins
    BY <1>3, Counted DEF Begins
  <1>4. CASE Sees
    BY <1>4 DEF Sees
  <1>5. CASE Gates
    BY <1>5, Counted DEF Gates
  <1>6. CASE Decides
    BY <1>6 DEF Decides
  <1>7. CASE Approaches
    BY <1>7 DEF Approaches
  <1>8. CASE Loads
    BY <1>8 DEF Loads
  <1>9. CASE Fails
    BY <1>9, Counted DEF Fails
  <1>10. CASE Finishes
    BY <1>10 DEF Finishes
  <1>11. CASE Counts
    BY <1>11, Counted DEF Counts
  <1>12. CASE SendsBack
    BY <1>12 DEF SendsBack
  <1> QED
    BY <1>1, <1>2, <1>3, <1>4, <1>5, <1>6, <1>7, <1>8, <1>9, <1>10, <1>11, <1>12 DEF Steps

\* They are forgotten only for a reason.
LEMMA ForgivenStep ==
  ASSUME IInv, Reporting, Counting, Forgiven, Steps, u' \in Updater
  PROVE  Forgiven'
  <1> USE ConstantsAssumption
      DEF Goes, SameStore, TryPoints, Parts, Whole, After, Ending, Reporting, Counting, Forgiven
  <1>1. CASE Stays
    BY <1>1 DEF Stays
  <1>2. CASE Leaves
    BY <1>2 DEF Leaves
  <1>3. CASE Begins
    BY <1>3, Counted DEF Begins
  <1>4. CASE Sees
    BY <1>4 DEF Sees
  <1>5. CASE Gates
    BY <1>5 DEF Gates
  <1>6. CASE Decides
    BY <1>6 DEF Decides
  <1>7. CASE Approaches
    BY <1>7 DEF Approaches
  <1>8. CASE Loads
    BY <1>8 DEF Loads
  <1>9. CASE Fails
    BY <1>9, Counted DEF Fails
  <1>10. CASE Finishes
    BY <1>10, Counted DEF Finishes
  <1>11. CASE Counts
    BY <1>11, Counted DEF Counts
  <1>12. CASE SendsBack
    BY <1>12 DEF SendsBack
  <1> QED
    BY <1>1, <1>2, <1>3, <1>4, <1>5, <1>6, <1>7, <1>8, <1>9, <1>10, <1>11, <1>12 DEF Steps

\* The second invariant holds at the start, and every step keeps it.
LEMMA ReportInitially == Init => ReportInv
  <1> SUFFICES ASSUME Init PROVE ReportInv
    OBVIOUS
  <1>1. ReportTrue
    BY ConstantsAssumption DEF Init, Idle, ReportTrue
  <1> QED
    BY <1>1 DEF Init, Idle, ReportInv, Reporting, Returning, Counting, Forgiven, TryPoints,
       Parts, Ending, Approaching

\* Every step keeps what is reported.
LEMMA ReportInductive == IInv /\ ReportInv /\ [Next]_vars => ReportInv'
  <1> SUFFICES ASSUME IInv, ReportInv, [Next]_vars PROVE ReportInv'
    OBVIOUS
  <1>1. CASE Next
    <2>1. Steps /\ u' \in Updater
      BY <1>1, UpdaterType, StepShape
    <2>2. ReportTrue' /\ Reporting' /\ Returning'
      BY <2>1, ReportTrueStep, ReportingStep, ReturningStep DEF ReportInv
    <2>3. Counting' /\ Forgiven'
      BY <2>1, CountingStep, ForgivenStep DEF ReportInv
    <2> QED
      BY <2>2, <2>3 DEF ReportInv
  <1>2. CASE UNCHANGED vars
    BY <1>2 DEF vars, ReportInv, ReportTrue, Reporting, Returning, Counting, Forgiven, Whole
  <1> QED
    BY <1>1, <1>2

\* Both invariants, always.
LEMMA ReportInvariance == Spec => [](IInv /\ ReportInv)
  BY Invariance, ReportInitially, ReportInductive, PTL DEF Spec

\* A response that names a version is about a face that can run it, and
\* "updated" about one that holds the declared version (ensure(), update()).
THEOREM ReportsAreTrue == Spec => []ReportTrue
  <1>1. ReportInv => ReportTrue
    BY DEF ReportInv
  <1> QED
    BY <1>1, ReportInvariance, PTL

\* Where a run that goes on sends a face from BOOTSEL to its application, it is
\* the target at the end of a write, or the face that recovery has noted.
LEMMA SentBack ==
  ASSUME TypeOK, Next, NEW c \in Chips, u.pc \in {"restart", "restore"}, u'.pc # "idle", u' # u,
         mode[c] = "bootsel", mode'[c] = "toApp"
  PROVE  (u.pc = "restart" /\ c = u.target) \/ (u.pc = "restore" /\ c = u.recovery)
  <1> USE DEF TypeOK, SetMode, world, installed
  <1>1. CASE Restart
    BY <1>1 DEF Restart
  <1>2. CASE Restore
    BY <1>2 DEF Restore
  <1>3. CASE Deadline
    BY <1>3 DEF Deadline
  <1>4. CASE Kill \/ PowerCut
    BY <1>4 DEF Kill, PowerCut, Cut, Idle
  <1>5. CASE Install \/ Forget \/ \E d \in Chips : Handle(d) \/ Enumerate(d)
    BY <1>5 DEF Install, Forget, Handle, Enumerate
  <1>6. CASE Start
    BY <1>6 DEF Start, Prepare
  <1>7. CASE Run /\ ~Restart /\ ~Restore
    BY <1>7 DEF Run, Refuse, Undeclared, BadDeclaration, ProbeAbsent, ProbeAmbiguous,
       ProbeCdc, ProbeBootsel, Identify, IdentifyFails, Match, MatchFails, Current, Skip,
       Unpack, EnterBootsel, WaitBootsel, Touch, Rematch, Load, LoadMisses, StageFails,
       Verify, VerifyFails, Handler, Settle, Final, Parts
  <1> QED
    BY <1>1, <1>2, <1>3, <1>4, <1>5, <1>6, <1>7 DEF Next, Environment

\* No run sends a face to an application that is not whole, on the recovery
\* path either (update(), restore_application()).
THEOREM RestartsAreWhole == Spec => RestartsWhole
  <1>1. IInv /\ ReportInv /\ [Next]_vars =>
          [\A c \in Chips :
             /\ u.pc \in {"restart", "restore"} /\ u' # u /\ u'.pc # "idle"
             /\ mode[c] = "bootsel" /\ mode'[c] = "toApp"
             => Whole(c)]_vars
    <2> SUFFICES ASSUME IInv, ReportInv, Next, NEW c \in Chips,
                        u.pc \in {"restart", "restore"}, u' # u, u'.pc # "idle",
                        mode[c] = "bootsel", mode'[c] = "toApp"
                 PROVE  Whole(c)
      OBVIOUS
    <2>1. (u.pc = "restart" /\ c = u.target) \/ (u.pc = "restore" /\ c = u.recovery)
      BY SentBack DEF IInv
    <2> QED
      BY <2>1, ConstantsAssumption DEF ReportInv, Returning
  <1> QED
    BY <1>1, ReportInvariance, PTL DEF Spec, RestartsWhole

\* A boot run lowers the saved count only for a new declaration, or when a face
\* holds the declared version (ensure(), update()).
THEOREM FailuresAreKept == Spec => FailuresKept
  <1>1. IInv /\ ReportInv /\ [Next]_vars =>
          [(disk # Invalid /\ disk' # Invalid /\ disk'.fails < disk.fails) =>
             \/ disk'.ver # disk.ver
             \/ ~(u.boot \/ u'.boot)
             \/ \E c \in Chips : Whole(c) /\ flash[c].header = disk.ver]_vars
    <2> SUFFICES ASSUME IInv, ReportInv, Next, disk # Invalid, disk'.fails < disk.fails,
                        disk'.ver = disk.ver, u.boot \/ u'.boot
                 PROVE  \E c \in Chips : Whole(c) /\ flash[c].header = disk.ver
      OBVIOUS
    <2>1. Steps /\ u' \in Updater
      BY UpdaterType, StepShape
    <2> USE <2>1, Counted DEF ReportInv, Counting, Goes, SameStore
    <2>2. CASE Stays
      BY <2>2 DEF Stays
    <2>3. CASE Leaves
      BY <2>3 DEF Leaves, Forgiven, Ending
    <2>4. CASE Begins
      BY <2>4 DEF Begins
    <2>5. CASE Gates \/ Fails
      BY <2>5 DEF Gates, Fails, TryPoints
    <2>6. CASE Sees \/ Decides \/ Approaches \/ Loads \/ Finishes \/ Counts \/ SendsBack
      BY <2>6 DEF Sees, Decides, Approaches, Loads, Finishes, Counts, SendsBack
    <2> QED
      BY <2>2, <2>3, <2>4, <2>5, <2>6 DEF Steps
  <1> QED
    BY <1>1, ReportInvariance, PTL DEF Spec, FailuresKept

(***************************************************************************)
(* The refinement: what FaceUpdate sees of a state.                        *)
(***************************************************************************)
FaceImages == [c \in Chips |-> Image(c)]
Owner == IF disk # Invalid THEN disk.chip ELSE None
Strikes == IF disk # Invalid THEN disk.fails ELSE 0

\* The device starts as FaceUpdate does.
LEMMA FaceInitially == Init => Face!Init
  <1> SUFFICES ASSUME Init PROVE Face!Init
    OBVIOUS
  <1>1. FaceImages \in [Chips -> Versions \union {Legacy, "down"}]
    <2> SUFFICES ASSUME NEW c \in Chips PROVE Image(c) \in Versions \union {Legacy, "down"}
      BY DEF FaceImages
    <2>1. flash[c] \in {[header |-> v, body |-> v] : v \in Images}
                      \union {[header |-> "blank", body |-> "torn"]}
      BY DEF Init
    <2>2. CASE flash[c] = [header |-> "blank", body |-> "torn"]
      BY <2>2, ConstantsAssumption DEF Image
    <2>3. CASE flash[c] \in {[header |-> v, body |-> v] : v \in Images}
      BY <2>3 DEF Image, Whole, Images
    <2> QED
      BY <2>1, <2>2, <2>3
  <1>2. Owner = None /\ Strikes = 0
    BY DEF Init, Owner, Strikes, Fresh
  <1> QED
    BY <1>1, <1>2 DEF Face!Init, FaceImages, Owner, Strikes

\* What is on record changes by a fresh start, or by one failure.
LEMMA StrikesStep ==
  ASSUME IInv, ReportInv, Steps, u' \in Updater, TypeOK'
  PROVE  Strikes' \in {0, Strikes, Strikes + 1} /\ Strikes' <= 3 /\ Owner' \in Chips \union {None}
  <1>1. Strikes' <= 3 /\ Owner' \in Chips \union {None}
    BY ConstantsAssumption DEF TypeOK, Saved, Strikes, Owner, MaxFailures
  <1>2. disk' = disk => Strikes' = Strikes
    BY DEF Strikes
  <1>3. Strikes' \in {0, Strikes, Strikes + 1}
    <2>1. CASE Stays
      BY <1>2, <2>1 DEF Stays, Fresh, Strikes
    <2>2. CASE Leaves
      <3>1. CASE u.pc = "final" /\ disk' = u.st
        BY <3>1 DEF ReportInv, Counting, Ending, Strikes
      <3> QED
        BY <1>2, <2>2, <3>1 DEF Leaves
    <2>3. CASE Begins
      BY <1>2, <2>3 DEF Begins, Strikes
    <2>4. CASE Gates \/ Fails
      <3>1. CASE u.pc \in TryPoints /\ disk' = u'.st /\ Goes
        <4>1. disk'.fails = disk.fails /\ disk # Invalid
          BY <3>1 DEF Goes, ReportInv, Counting
        <4> QED
          BY <4>1 DEF Strikes
      <3> QED
        BY <1>2, <2>4, <3>1 DEF Gates, Fails, TryPoints
    <2>5. CASE Sees \/ Decides \/ Approaches \/ Loads \/ Finishes \/ Counts \/ SendsBack
      BY <1>2, <2>5 DEF Sees, Decides, Approaches, Loads, Finishes, Counts, SendsBack, SameStore
    <2> QED
      BY <2>1, <2>2, <2>3, <2>4, <2>5 DEF Steps
  <1> QED
    BY <1>1, <1>3

\* A write is one of the recorded face, with failures left: it erases the face,
\* or programs one that is down, or nothing that FaceUpdate sees.
LEMMA WriteStep ==
  ASSUME IInv, ReportInv, u.pc \in Parts, NEW c \in Chips, u.target = c,
         NEW f \in {Torn(u.pc), Written(u.pc)},
         flash' = [flash EXCEPT ![c] = f]
  PROVE  /\ Owner = c /\ Strikes < 3
         /\ \/ FaceImages' = FaceImages
            \/ FaceImages' = [FaceImages EXCEPT ![c] = "down"]
            \/ /\ FaceImages[c] = "down" /\ u.want \in Versions
               /\ FaceImages' = [FaceImages EXCEPT ![c] = u.want]
  <1>1. disk = u.st /\ u.st.chip = c /\ disk # Invalid
    BY DEF IInv, RunInv, Named, Recording, Parts, ReportInv, Counting, TryPoints
  <1>2. u.st.fails < 3
    BY DEF IInv, RunInv, StrikesLeft, MaxFailures, ReportInv, Counting, TryPoints, Parts
  <1>3. u.want \in Versions /\ u.want \in Images
    BY DEF IInv, RunInv, WantKnown, TryPoints, Parts, Images
  <1>4. \A d \in Chips : d # c => Image(d)' = Image(d)
    BY DEF IInv, TypeOK, Image, Whole
  <1>5. flash'[c] = f /\ flash[c] \in Flash
    BY DEF IInv, TypeOK
  <1>6. \/ Image(c)' = Image(c) \/ Image(c)' = "down"
        \/ Image(c) = "down" /\ Image(c)' = u.want
    <2> USE ConstantsAssumption
    <2>1. CASE u.pc = "blank"
      <3>1. f.header \in {"blank", "torn"}
        BY <1>5, <2>1 DEF Torn, Written, Flash
      <3> QED
        BY <1>5, <3>1 DEF Image, Images, Whole
    <2>2. CASE u.pc = "body"
      <3>1. f.header = "blank"
        BY <1>5, <2>2 DEF Torn, Written, Flash, IInv, WriteOrder
      <3> QED
        BY <1>5, <3>1 DEF Image, Images, Whole
    <2>3. CASE u.pc = "header"
      <3>1. flash[c].header = "blank" /\ flash[c].body = u.want
        BY <2>3 DEF IInv, WriteOrder
      <3>2. f.header = "torn" \/ (f.header = u.want /\ f.body = u.want)
        BY <1>5, <2>3, <3>1 DEF Torn, Written, Flash
      <3> QED
        BY <1>3, <1>5, <3>1, <3>2 DEF Image, Whole, Images
    <2> QED
      BY <2>1, <2>2, <2>3 DEF Parts
  <1> HIDE DEF Image
  <1>7. \/ FaceImages' = FaceImages
        \/ FaceImages' = [FaceImages EXCEPT ![c] = "down"]
        \/ FaceImages' = [FaceImages EXCEPT ![c] = u.want] /\ FaceImages[c] = "down"
    BY <1>4, <1>6 DEF FaceImages
  <1> QED
    BY <1>1, <1>2, <1>3, <1>7 DEF Owner, Strikes

\* Every step of the updater is one of FaceUpdate, or none.
LEMMA FaceStep ==
  ASSUME IInv, ReportInv, Next, TypeOK'
  PROVE  Face!Next \/ UNCHANGED <<FaceImages, Owner, Strikes>>
  <1>1. Steps /\ u' \in Updater /\ OnlyWrites
    BY UpdaterType, StepShape, Writes DEF IInv
  <1>2. CASE flash' = flash
    <2>1. FaceImages' = FaceImages
      BY <1>2 DEF FaceImages, Image, Whole
    <2>2. Face!Record
      BY <1>1, <2>1, StrikesStep DEF Face!Record, FaceImages, Owner, Strikes
    <2> QED
      BY <2>2 DEF Face!Next
  <1>3. CASE flash' # flash
    <2>1. PICK f \in {Torn(u.pc), Written(u.pc)} :
            u.pc \in Parts /\ flash' = [flash EXCEPT ![u.target] = f]
      BY <1>1, <1>3 DEF OnlyWrites
    <2>0. u.target \in Chips
      BY <2>1 DEF ReportInv, Reporting, TryPoints, Parts
    <2>2. disk' = disk
      BY <1>1, <1>3 DEF Steps, SameStore, Stays, Leaves, Begins, Sees, Gates, Decides,
         Approaches, Loads, Fails, Finishes, Counts, SendsBack
    <2>3. UNCHANGED <<Owner, Strikes>>
      BY <2>2 DEF Owner, Strikes
    <2>4. u.target \in Chips /\ Owner = u.target /\ Strikes < 3
      BY <2>0, <2>1, WriteStep
    <2>5. CASE FaceImages' = FaceImages
      BY <2>3, <2>5
    <2>6. CASE FaceImages' = [FaceImages EXCEPT ![u.target] = "down"]
      <3>1. Face!Erase(u.target)
        BY <2>3, <2>4, <2>6 DEF Face!Erase, Face!MayWrite, FaceImages, Owner, Strikes
      <3> QED
        BY <2>4, <3>1 DEF Face!Next
    <2>7. CASE /\ FaceImages[u.target] = "down" /\ u.want \in Versions
               /\ FaceImages' = [FaceImages EXCEPT ![u.target] = u.want]
      <3>1. Face!Program(u.target, u.want)
        BY <2>3, <2>4, <2>7 DEF Face!Program, Face!MayWrite, FaceImages, Owner, Strikes
      <3> QED
        BY <2>4, <2>7, <3>1 DEF Face!Next
    <2> QED
      BY <2>0, <2>1, <2>5, <2>6, <2>7, WriteStep
  <1> QED
    BY <1>2, <1>3

\* The updater implements FaceUpdate: a face passes from one version to another
\* only through being down, and is written only while it is the recorded one and
\* fewer than three failures are on record.
THEOREM UpdaterImplementsFaceUpdate == Spec => ImplementsFaceUpdate
  <1>1. IInv /\ ReportInv /\ (IInv /\ ReportInv)' /\ [Next]_vars => [Face!Next]_Face!abstractVars
    <2> SUFFICES ASSUME IInv, ReportInv, IInv', [Next]_vars
                 PROVE  Face!Next \/ UNCHANGED <<FaceImages, Owner, Strikes>>
      BY DEF Face!abstractVars, FaceImages, Owner, Strikes
    <2>1. CASE Next
      BY <2>1, FaceStep DEF IInv
    <2>2. CASE UNCHANGED vars
      BY <2>2 DEF vars, FaceImages, Image, Whole, Owner, Strikes
    <2> QED
      BY <2>1, <2>2
  <1> QED
    BY <1>1, FaceInitially, ReportInvariance, PTL DEF Spec, ImplementsFaceUpdate, Face!Spec
============================================================================
