--------------------------- MODULE DisplayFirmware ---------------------------
(***************************************************************************)
(* The face display firmware updater, `palmimo-display-firmware ensure`:   *)
(* one run at a time (the reservation, see Reservation.tla) against the    *)
(* faces plugged into the Pi, the firmware declaration the platform bundle *)
(* installs, and state.json, the only thing that survives a run.           *)
(*                                                                         *)
(* The flash of a face is its first sector (the header, which the boot ROM *)
(* must find valid to start the image) and the rest (the body).  A run     *)
(* blanks the header, writes the body, and writes the header last.         *)
(***************************************************************************)
EXTENDS Naturals, FiniteSets

CONSTANTS
  Chips,      \* the RP2350 boards that may be plugged in, by chip id
  Versions,   \* firmware versions a bundle may declare
  Legacy,     \* the firmware that predates VERSION: never declared
  None,       \* no chip, no version
  Invalid,    \* a state.json that does not load
  MaxFaults   \* how many failures, cuts and hand movements a behaviour has

Images == Versions \union {Legacy}

ASSUME ConstantsAssumption ==
  /\ None \notin Chips \union Images
  /\ Legacy \notin Versions
  /\ Images \intersect {"blank", "torn", "bootsel", "undeclared", "malformed"} = {}
  /\ Invalid \notin [chip : Chips \union {None}, fails : 0..3, ver : Versions \union {None}]
  /\ MaxFaults \in Nat

VARIABLES
  flash,      \* chip -> [header, body]
  mode,       \* chip -> what the USB bus shows of it
  declared,   \* firmware.json of the installed bundle
  packed,     \* the version inside the installed face_serial.bin.gz
  disk,       \* state.json; absent, it loads as Fresh
  u,          \* the memory of the Updater
  faults      \* faults so far

vars == <<flash, mode, declared, packed, disk, u, faults>>
world == <<flash, mode, declared, packed>>
installed == <<declared, packed>>

MaxFailures == 3

Flash == [header : Images \union {"blank", "torn"}, body : Images \union {"torn"}]
Modes == {"out", "cdc", "bootsel", "dark", "toApp", "toBoot"}
Saved == [chip : Chips \union {None}, fails : 0..MaxFailures, ver : Versions \union {None}]
Fresh == [chip |-> None, fails |-> 0, ver |-> None]
Report == Images \union {"bootsel", None}

Idle == [pc |-> "idle", boot |-> FALSE, adopt |-> FALSE, cdc |-> FALSE,
         st |-> Fresh, want |-> None,
         target |-> None, recovery |-> None, writing |-> FALSE, over |-> FALSE,
         before |-> None, after |-> None, result |-> "none"]

Whole(c) == flash[c].header \in Images /\ flash[c].body = flash[c].header

(***************************************************************************)
(* The faces.  `ports` and `usb` are what devices() returns, less the      *)
(* faces that are between two modes.                                       *)
(***************************************************************************)
Ports == {c \in Chips : mode[c] = "cdc"}
Usb == {c \in Chips : mode[c] = "bootsel"}
Settled == \A c \in Chips : mode[c] \notin {"toApp", "toBoot"}

OnlyPort(c) == Ports = {c} /\ Usb = {}
OnlyUsb(c) == Usb = {c} /\ Ports = {}
SinglePort == \E c \in Chips : OnlyPort(c)
SingleUsb == \E c \in Chips : OnlyUsb(c)

SetMode(c, m) == mode' = [mode EXCEPT ![c] = m]

Fault == faults < MaxFaults /\ faults' = faults + 1
NoFault == UNCHANGED faults

\* A wait for a mode ends in failure when the bus has settled on another
\* one, or when the face is slower than the wait.
WaitFails(goal) == (~goal /\ Settled /\ NoFault) \/ Fault

\* A face that restarts shows the mode its flash allows.  A blank header
\* keeps the boot ROM in BOOTSEL; with a torn one it may also hang.
Enumerate(c) ==
  /\ \/ mode[c] = "toBoot" /\ SetMode(c, "bootsel")
     \/ mode[c] = "toApp" /\ Whole(c) /\ SetMode(c, "cdc")
     \/ mode[c] = "toApp" /\ flash[c].header \in {"blank", "torn"} /\ SetMode(c, "bootsel")
     \/ mode[c] = "toApp" /\ ~Whole(c) /\ flash[c].header # "blank" /\ SetMode(c, "dark")
  /\ UNCHANGED <<flash, declared, packed, disk, u, faults>>

(***************************************************************************)
(* Steps of the updater's own memory.                                      *)
(***************************************************************************)
\* An exception inside the inner try.
Fail == u' = [u EXCEPT !.pc = "handler"]
Goto(p) == u' = [u EXCEPT !.pc = p]
Finish(r) == u' = [u EXCEPT !.pc = "final", !.result = r]

\* What is left of a run that returned: the response it printed.
Response(r) == [Idle EXCEPT !.result = r, !.want = u.want, !.target = u.target,
                            !.before = u.before, !.after = u.after]

\* save(): the new file, and go on as v; or an OSError, before or after the
\* rename, and the inner handler.
SaveThen(v) ==
  \/ disk' = v.st /\ u' = v /\ NoFault
  \/ Fault /\ disk' \in {disk, v.st} /\ u' = [v EXCEPT !.pc = "handler"]

(***************************************************************************)
(* A run, up to the decision to write.                                     *)
(***************************************************************************)
\* The reservation is held elsewhere, or the signal comes before the inner
\* try; a state.json that is not valid has the same effect: nothing is
\* touched and nothing is saved.
Refuse ==
  /\ u.pc = "idle" /\ declared # "undeclared"
  /\ \/ Fault /\ \E r \in {"busy", "failed"} : u' = [Idle EXCEPT !.result = r]
     \/ disk = Invalid /\ u' = [Idle EXCEPT !.result = "failed"] /\ NoFault
  /\ UNCHANGED <<world, disk>>

Undeclared ==
  /\ u.pc = "idle" /\ declared = "undeclared"
  /\ u' = [Idle EXCEPT !.result = "undeclared"]
  /\ UNCHANGED <<world, disk, faults>>

\* A mistake the runs must notice: a boot run starts the count again.
PrepareForgets(boot, adopt) ==
  /\ u.pc = "idle" /\ declared \in Versions /\ disk # Invalid
  /\ LET st == [disk EXCEPT !.ver = declared, !.fails = 0]
     IN SaveThen([Idle EXCEPT !.pc = "probe", !.boot = boot, !.adopt = adopt,
                              !.st = st, !.want = declared])
  /\ UNCHANGED world

\* ensure() up to update(): the count starts again on a manual run and on a
\* new declaration, and is saved before any hardware is looked at.
Prepare(boot, adopt) ==
  /\ u.pc = "idle" /\ declared \in Versions /\ disk # Invalid
  /\ LET fresh == ~boot \/ disk.ver # declared
         st == [disk EXCEPT !.ver = declared, !.fails = IF fresh THEN 0 ELSE @]
     IN SaveThen([Idle EXCEPT !.pc = "probe", !.boot = boot, !.adopt = adopt,
                              !.st = st, !.want = declared])
  /\ UNCHANGED world

\* A firmware.json that declaration() rejects: ConfigurationError.
BadDeclaration ==
  /\ u.pc = "idle" /\ declared = "malformed" /\ disk # Invalid
  /\ u' = [Idle EXCEPT !.pc = "final", !.st = disk, !.result = "failed"]
  /\ UNCHANGED <<world, disk, faults>>

ProbeAbsent ==
  /\ u.pc = "probe" /\ Ports = {} /\ Usb = {}
  /\ ((Settled \/ ~u.boot) /\ NoFault) \/ Fault
  /\ IF u.adopt \/ u.st.chip # None THEN Fail ELSE Finish("absent")
  /\ UNCHANGED <<world, disk>>

ProbeAmbiguous ==
  /\ u.pc = "probe" /\ Ports \union Usb # {}
  /\ (~SinglePort /\ ~SingleUsb) \/ (u.adopt /\ ~SingleUsb)
  /\ Fail
  /\ UNCHANGED <<world, disk, faults>>

\* One CDC face: its port may be open elsewhere; its USB serial is read here,
\* its version by the next step, from whatever then has the port.
ProbeCdc(c) ==
  /\ u.pc = "probe" /\ OnlyPort(c) /\ ~u.adopt
  /\ \/ Fault /\ Finish("busy")
     \/ u' = [u EXCEPT !.pc = "identify", !.cdc = TRUE, !.target = c] /\ NoFault
  /\ UNCHANGED <<world, disk>>

\* A mistake the runs must notice: a face in BOOTSEL must always be adopted by hand.
ProbeBootselRefuses(c) ==
  /\ u.pc = "probe" /\ OnlyUsb(c)
  /\ LET seen == [u EXCEPT !.before = "bootsel", !.after = "bootsel"]
     IN IF u.adopt
        THEN u' = [seen EXCEPT !.pc = "match", !.target = c, !.st.chip = c]
        ELSE u' = [seen EXCEPT !.pc = "handler"]
  /\ UNCHANGED <<world, disk, faults>>

\* One BOOTSEL face: adopted, or expected to be the recorded one.
ProbeBootsel(c) ==
  /\ u.pc = "probe" /\ OnlyUsb(c)
  /\ LET seen == [u EXCEPT !.before = "bootsel", !.after = "bootsel"]
     IN IF u.adopt
        THEN u' = [seen EXCEPT !.pc = "match", !.target = c, !.st.chip = c]
        ELSE IF u.st.chip = None
        THEN u' = [seen EXCEPT !.pc = "handler"]
        ELSE u' = [seen EXCEPT !.pc = "match", !.target = u.st.chip]
  /\ UNCHANGED <<world, disk, faults>>

\* A mistake the runs must notice: the face is recorded only at the end of the run.
IdentifyUnsaved(p) ==
  /\ u.pc = "identify" /\ p \in Ports
  /\ u' = [u EXCEPT !.pc = "gate", !.st.chip = u.target,
                    !.before = flash[p].header, !.after = flash[p].header]
  /\ UNCHANGED <<world, disk, faults>>

\* VERSION answered: the face is recorded, durably, before it is written.
Identify(p) ==
  /\ u.pc = "identify" /\ p \in Ports
  /\ SaveThen([u EXCEPT !.pc = "gate", !.st.chip = u.target,
                        !.before = flash[p].header, !.after = flash[p].header])
  /\ UNCHANGED world

IdentifyFails ==
  /\ u.pc = "identify"
  /\ (Ports = {} /\ NoFault) \/ Fault
  /\ Fail
  /\ UNCHANGED <<world, disk>>

\* match_bootsel() before a BOOTSEL face is recorded.
Match ==
  /\ u.pc = "match" /\ OnlyUsb(u.target)
  /\ SaveThen([u EXCEPT !.pc = "gate", !.after = "bootsel"])
  /\ UNCHANGED world

\* match_bootsel() raises, here or after the reboot to BOOTSEL.
MatchFails ==
  /\ u.pc \in {"match", "rematch"} /\ WaitFails(OnlyUsb(u.target))
  /\ Fail
  /\ UNCHANGED <<world, disk>>

Current ==
  /\ u.pc = "gate" /\ u.cdc /\ u.before = u.want
  /\ u' = [u EXCEPT !.pc = "final", !.result = "current", !.st.fails = 0]
  /\ UNCHANGED <<world, disk, faults>>

Skip ==
  /\ u.pc = "gate" /\ u.before # u.want
  /\ u.boot /\ u.st.fails >= MaxFailures
  /\ Finish("skipped")
  /\ UNCHANGED <<world, disk, faults>>

\* A mistake the runs must notice: writing goes on after three failures.
UnpackAlways ==
  /\ u.pc = "gate" /\ u.before # u.want
  /\ \/ packed # u.want /\ Fail /\ NoFault
     \/ /\ packed = u.want /\ NoFault
        /\ u' = [u EXCEPT !.pc = IF u.cdc THEN "enter" ELSE "rematch",
                          !.writing = TRUE,
                          !.recovery = IF u.cdc THEN u.target ELSE None]
  /\ UNCHANGED <<world, disk>>

\* The image is unpacked and its digest compared with the declaration read
\* by Prepare: an install may have replaced either file since.
Unpack ==
  /\ u.pc = "gate" /\ u.before # u.want
  /\ ~(u.boot /\ u.st.fails >= MaxFailures)
  /\ \/ packed # u.want /\ Fail /\ NoFault
     \/ Fault /\ Fail
     \/ /\ packed = u.want /\ NoFault
        /\ u' = [u EXCEPT !.pc = IF u.cdc THEN "enter" ELSE "rematch",
                          !.writing = TRUE,
                          !.recovery = IF u.cdc THEN u.target ELSE None]
  /\ UNCHANGED <<world, disk>>

(***************************************************************************)
(* A run, from a CDC face to BOOTSEL: picotool, else the 1200 baud touch.  *)
(***************************************************************************)
EnterBootsel ==
  /\ u.pc = "enter"
  /\ \/ /\ mode[u.target] = "cdc" /\ SetMode(u.target, "toBoot")
        /\ (Goto("wait") /\ NoFault) \/ (Goto("touch") /\ Fault)
     \/ /\ (mode[u.target] # "cdc" /\ NoFault) \/ Fault
        /\ Goto("touch") /\ UNCHANGED mode
  /\ UNCHANGED <<flash, installed, disk>>

WaitBootsel ==
  /\ u.pc = "wait"
  /\ \/ SingleUsb /\ Goto("rematch") /\ NoFault
     \/ WaitFails(SingleUsb) /\ Goto("touch")
  /\ UNCHANGED <<world, disk>>

\* The touch goes to the port, whichever face has it; a port that is gone is
\* an OSError nobody catches here.
Touch ==
  /\ u.pc = "touch"
  /\ \/ \E p \in Ports : SetMode(p, "toBoot") /\ Goto("rematch") /\ NoFault
     \/ ((Ports = {} /\ NoFault) \/ Fault) /\ Fail /\ UNCHANGED mode
  /\ UNCHANGED <<flash, installed, disk>>

\* A mistake the runs must notice: the report keeps the version read before.
RematchSilently ==
  /\ u.pc = "rematch" /\ OnlyUsb(u.target)
  /\ Goto("blank")
  /\ UNCHANGED <<world, disk, faults>>

Rematch ==
  /\ u.pc = "rematch" /\ OnlyUsb(u.target)
  /\ u' = [u EXCEPT !.pc = "blank", !.after = "bootsel"]
  /\ UNCHANGED <<world, disk, faults>>

(***************************************************************************)
(* A run, the three writes, each to the target alone and only in BOOTSEL.  *)
(***************************************************************************)
Written(part) ==
  IF part = "body" THEN [flash[u.target] EXCEPT !.body = u.want]
  ELSE IF part = "header" THEN [flash[u.target] EXCEPT !.header = u.want]
  ELSE [flash[u.target] EXCEPT !.header = "blank"]

\* What an interrupted write leaves, when it is neither nothing nor all of it:
\* sectors erased or half programmed.  Erasing a blank sector leaves it blank.
Torn(part) ==
  IF part = "body" THEN [flash[u.target] EXCEPT !.body = "torn"]
  ELSE IF part = "blank" /\ flash[u.target].header = "blank" THEN flash[u.target]
  ELSE [flash[u.target] EXCEPT !.header = "torn"]

\* A mistake the runs must notice: the header is written before the body.
AfterHeaderFirst(part) ==
  IF part = "blank" THEN "header" ELSE IF part = "header" THEN "body" ELSE "restart"

\* The parts are written in this order; the step after each.
Parts == {"blank", "body", "header"}
After(part) ==
  IF part = "blank" THEN "body" ELSE IF part = "body" THEN "header" ELSE "restart"

Interrupted(part) ==
  \E f \in {flash[u.target], Torn(part), Written(part)} :
    flash' = [flash EXCEPT ![u.target] = f]

\* A mistake the runs must notice: recovery still sends a face that is being written back.
LoadKeepsRecovery(part) ==
  /\ u.pc = part /\ mode[u.target] = "bootsel"
  /\ \/ /\ flash' = [flash EXCEPT ![u.target] = Written(part)]
        /\ u' = [u EXCEPT !.pc = After(part)]
        /\ NoFault
     \/ /\ Interrupted(part)
        /\ u' = [u EXCEPT !.pc = "handler"]
        /\ Fault
  /\ UNCHANGED <<mode, installed, disk>>

Load(part) ==
  /\ u.pc = part /\ mode[u.target] = "bootsel"
  /\ \/ /\ flash' = [flash EXCEPT ![u.target] = Written(part)]
        /\ u' = [u EXCEPT !.pc = After(part), !.recovery = None]
        /\ NoFault
     \/ /\ Interrupted(part)
        /\ u' = [u EXCEPT !.pc = "handler", !.recovery = None]
        /\ Fault
  /\ UNCHANGED <<mode, installed, disk>>

\* picotool does not find the target in BOOTSEL.
LoadMisses(part) ==
  /\ u.pc = part /\ mode[u.target] # "bootsel"
  /\ u' = [u EXCEPT !.pc = "handler", !.recovery = None]
  /\ UNCHANGED <<world, disk, faults>>

\* The part cannot be staged in the work directory: before the first part the
\* face is still intact and can be restored.
StageFails(part) ==
  /\ u.pc = part /\ Fault /\ Fail
  /\ UNCHANGED <<world, disk>>

Restart ==
  /\ u.pc = "restart"
  /\ \/ /\ mode[u.target] = "bootsel" /\ SetMode(u.target, "toApp")
        /\ (Goto("verify") /\ NoFault) \/ (Fail /\ Fault)
     \/ /\ (mode[u.target] # "bootsel" /\ NoFault) \/ Fault
        /\ Fail /\ UNCHANGED mode
  /\ UNCHANGED <<flash, installed, disk>>

\* The same face is back and answers VERSION; a face that was awake is sent
\* POWER ON, which may still raise.
Verify ==
  /\ u.pc = "verify" /\ OnlyPort(u.target)
  /\ LET seen == [u EXCEPT !.after = flash[u.target].header]
     IN \/ /\ seen.after = u.want /\ NoFault
           /\ u' = [seen EXCEPT !.pc = "final", !.result = "updated", !.st.fails = 0]
        \/ seen.after # u.want /\ u' = [seen EXCEPT !.pc = "handler"] /\ NoFault
        \/ Fault /\ u' = [seen EXCEPT !.pc = "handler"]
  /\ UNCHANGED <<world, disk>>

VerifyFails ==
  /\ u.pc = "verify" /\ WaitFails(OnlyPort(u.target))
  /\ Fail
  /\ UNCHANGED <<world, disk>>

(***************************************************************************)
(* A run, its end.                                                         *)
(***************************************************************************)
\* A mistake the runs must notice: every failed boot run counts, written or not.
HandlerCountsAll ==
  /\ u.pc = "handler"
  /\ u' = [u EXCEPT !.pc = IF u.recovery = None THEN "final" ELSE "restore",
                    !.result = "failed",
                    !.st.fails = IF u.boot THEN @ + 1 ELSE @]
  /\ UNCHANGED <<world, disk, faults>>

\* A failed boot write is counted; a face taken to BOOTSEL and not written
\* yet is sent back to its application.
Handler ==
  /\ u.pc = "handler"
  /\ u' = [u EXCEPT !.pc = IF u.recovery = None THEN "final" ELSE "restore",
                    !.result = "failed",
                    !.st.fails = IF u.writing /\ u.boot THEN @ + 1 ELSE @]
  /\ UNCHANGED <<world, disk, faults>>

\* restore_application(): its own errors, an exhausted budget among them, are
\* swallowed.
Restore ==
  /\ u.pc = "restore"
  /\ LET gone == [u EXCEPT !.pc = "final", !.recovery = None]
         there == [gone EXCEPT !.after = "bootsel"]
     IN \/ Usb # {u.recovery} /\ u' = gone /\ NoFault /\ UNCHANGED mode
        \/ /\ Usb = {u.recovery} /\ ~u.over
           /\ SetMode(u.recovery, "toApp")
           /\ \/ u' = [there EXCEPT !.pc = "settle"] /\ NoFault
              \/ u' = there /\ Fault
        \/ /\ Usb = {u.recovery} /\ UNCHANGED mode
           /\ u' = there /\ ((u.over /\ NoFault) \/ Fault)
  /\ UNCHANGED <<flash, installed, disk>>

Settle ==
  /\ u.pc = "settle"
  /\ \/ OnlyPort(u.target) /\ NoFault /\ u' = [u EXCEPT !.pc = "final", !.after = u.before]
     \/ WaitFails(OnlyPort(u.target)) /\ Goto("final")
  /\ UNCHANGED <<world, disk>>

\* The last save, with the outcome and the count; when it raises, the run has
\* failed whatever it did.
Final ==
  /\ u.pc = "final"
  /\ \/ disk' = u.st /\ u' = Response(u.result) /\ NoFault
     \/ Fault /\ disk' \in {disk, u.st} /\ u' = Response("failed")
  /\ UNCHANGED world

\* The budget is exhausted, or SIGTERM: DeadlineError out of any statement.
\* In the handler, and in the last save, no one counts or saves any more.
TryPoints == {"probe", "identify", "match", "gate", "enter", "wait", "touch", "rematch",
              "blank", "body", "header", "restart", "verify"}

Deadline ==
  /\ Fault
  /\ \/ u.pc \in TryPoints /\ \E over \in BOOLEAN :
          u' = [u EXCEPT !.pc = "handler", !.over = over]
     \/ u.pc = "handler" /\ u' = Response("failed")
     \/ u.pc = "settle" /\ Goto("final")
  /\ UNCHANGED <<world, disk>>

(***************************************************************************)
(* The environment: power, hands, bundle installs.                         *)
(***************************************************************************)
\* The run ends where it is, in the middle of a write if it is writing.
Cut ==
  /\ Fault /\ u' = Idle
  /\ IF u.pc \in Parts /\ mode[u.target] = "bootsel"
     THEN Interrupted(u.pc) ELSE UNCHANGED flash
  /\ UNCHANGED <<installed, disk>>

\* SIGKILL, or the Pi restarts without cutting the USB power.
Kill == u.pc # "idle" /\ Cut /\ UNCHANGED mode

PowerCut ==
  /\ Cut
  /\ mode' = [c \in Chips |-> IF mode[c] = "out" THEN "out" ELSE "toApp"]

\* A hand plugs a face in, pulls it out, or presses RST, with or without BOOT.
Handle(c) ==
  /\ Fault
  /\ \/ mode[c] = "out" /\ SetMode(c, "toApp")
     \/ mode[c] # "out" /\ \E m \in {"out", "toApp", "toBoot"} : SetMode(c, m)
  /\ UNCHANGED <<flash, installed, disk, u>>

\* A bundle install replaces the declaration and the image one after the
\* other, in no given order, and may stop in between.
Install ==
  /\ Fault
  /\ \/ declared' \in Versions \union {"undeclared", "malformed"} /\ UNCHANGED packed
     \/ packed' \in Versions /\ UNCHANGED declared
  /\ UNCHANGED <<flash, mode, disk, u>>

\* The owner removes state.json, with display users stopped.
Forget ==
  /\ u.pc = "idle" /\ disk # Fresh /\ Fault /\ disk' = Fresh
  /\ UNCHANGED <<world, u>>

(***************************************************************************)
(* The specification.                                                      *)
(***************************************************************************)
Init ==
  /\ flash \in [Chips -> {[header |-> v, body |-> v] : v \in Images}
                         \union {[header |-> "blank", body |-> "torn"]}]
  /\ mode \in [Chips -> {"out", "toApp"}]
  /\ declared \in Versions \union {"undeclared"}
  /\ packed \in Versions
  /\ disk \in {Fresh, Invalid}
  /\ u = Idle /\ faults = 0

Run ==
  \/ Refuse \/ Undeclared \/ BadDeclaration
  \/ ProbeAbsent \/ ProbeAmbiguous
  \/ \E c \in Chips : ProbeCdc(c) \/ ProbeBootsel(c) \/ Identify(c)
  \/ IdentifyFails \/ Match \/ MatchFails
  \/ Current \/ Skip \/ Unpack
  \/ EnterBootsel \/ WaitBootsel \/ Touch \/ Rematch
  \/ \E part \in Parts : Load(part) \/ LoadMisses(part) \/ StageFails(part)
  \/ Restart \/ Verify \/ VerifyFails
  \/ Handler \/ Restore \/ Settle \/ Final

Start == Prepare(TRUE, FALSE) \/ \E adopt \in BOOLEAN : Prepare(FALSE, adopt)

Environment ==
  \/ Deadline \/ Kill \/ PowerCut \/ Install \/ Forget
  \/ \E c \in Chips : Handle(c) \/ Enumerate(c)

Next == Run \/ Start \/ Environment

Spec == Init /\ [][Next]_vars

\* The updater takes its steps, a restarting face comes up, and the Pi keeps
\* being booted: the boot unit runs again whatever is run by hand in between.
FairSpec ==
  /\ Spec /\ WF_vars(Run) /\ SF_vars(Prepare(TRUE, FALSE))
  /\ \A c \in Chips : WF_vars(Enumerate(c))

(***************************************************************************)
(* Properties.                                                             *)
(***************************************************************************)
Updater == [pc : TryPoints \union {"idle", "handler", "restore", "settle", "final"},
            boot : BOOLEAN, adopt : BOOLEAN, cdc : BOOLEAN, st : Saved,
            want : Versions \union {None}, target : Chips \union {None},
            recovery : Chips \union {None}, writing : BOOLEAN, over : BOOLEAN,
            before : Report, after : Report,
            result : {"none", "busy", "failed", "undeclared", "absent", "current",
                      "skipped", "updated"}]

\* Types; that a count fits 0..3 says the fourth failure cannot happen.
TypeOK ==
  /\ flash \in [Chips -> Flash]
  /\ mode \in [Chips -> Modes]
  /\ declared \in Versions \union {"undeclared", "malformed"}
  /\ packed \in Versions
  /\ disk \in Saved \union {Invalid}
  /\ u \in Updater
  /\ faults \in 0..MaxFaults

\* A face that can start runs one whole image: wherever a write is cut, a
\* body that is not whole has a blank header over it (README "retries
\* interrupted face updates"; the order of the writes in update()).
WholeOrUnbootable ==
  \A c \in Chips :
    /\ flash[c].header \in Images => flash[c].body = flash[c].header
    /\ flash[c].body = "torn" => flash[c].header = "blank"

\* Flash changes only on the face that state.json already names, and only
\* in BOOTSEL: a cut can never leave a half written face nobody recorded.
RecordedOnly ==
  [][\A c \in Chips : flash'[c] # flash[c] =>
       /\ disk # Invalid /\ disk.chip = c
       /\ mode[c] = "bootsel"]_vars

\* The updater sends a face from BOOTSEL to its application only when the
\* flash holds a whole image, also on the recovery path.
RestartsWhole ==
  [][\A c \in Chips :
       /\ u.pc \in {"restart", "restore"} /\ u' # u /\ u'.pc # "idle"
       /\ mode[c] = "bootsel" /\ mode'[c] = "toApp"
       => Whole(c)]_vars

\* A response that names a version after the run is about a face that can
\* run, and "updated" about a face whose flash is the declared version.
ReportTrue ==
  /\ u.after \in Images => Whole(u.target)
  /\ u.result = "updated" => Whole(u.target) /\ flash[u.target].header = u.want

\* A boot run lowers the saved count of failures only for a new declaration
\* or when a face really holds the declared version, and forgets none of
\* them otherwise, whatever fails in the run (README "stop writing after
\* three consecutive write failures for the same declared version").
FailuresKept ==
  [][(disk # Invalid /\ disk' # Invalid /\ disk'.fails < disk.fails) =>
       \/ disk'.ver # disk.ver
       \/ ~(u.boot \/ u'.boot)
       \/ \E c \in Chips : Whole(c) /\ flash[c].header = disk.ver]_vars

\* Once faults stop, a single attached face ends up running the declared
\* version, or one of the listed situations keeps the updater from writing.
Attached == {c \in Chips : mode[c] # "out"}
Runs(c) == mode[c] = "cdc" /\ flash[c].header = declared
Recorded(c) == disk # Invalid /\ disk.chip = c
Suspended == disk # Invalid /\ disk.ver = declared /\ disk.fails >= MaxFailures
Excused ==
  \/ declared \notin Versions \/ packed # declared
  \/ disk = Invalid
  \/ Suspended
  \/ Cardinality(Attached) # 1
  \/ \E c \in Attached : mode[c] = "dark" \/ (mode[c] = "bootsel" /\ ~Recorded(c))
Converges == <>[](Excused \/ \E c \in Attached : Runs(c))

(***************************************************************************)
(* What a run promises, without its steps: see FaceUpdate.                 *)
(***************************************************************************)
Image(c) ==
  IF flash[c].header \notin Images THEN "down"
  ELSE IF Whole(c) THEN flash[c].header ELSE "mixed"

Face == INSTANCE FaceUpdate WITH
  image <- [c \in Chips |-> Image(c)],
  owner <- IF disk # Invalid THEN disk.chip ELSE None,
  strikes <- IF disk # Invalid THEN disk.fails ELSE 0

\* Every step of the updater is a step of FaceUpdate or changes nothing there.
ImplementsFaceUpdate == Face!Spec
==============================================================================
