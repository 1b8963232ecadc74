------------------------------ MODULE ImageBuild ------------------------------
(***************************************************************************)
(* tools/make_image.py: one build after another in one workspace, with the *)
(* builds that a killed one leaves running.  In pi-gen's container the     *)
(* collector of OssCompliance is the stage before the image is exported.   *)
(* build-docker.sh and the container are external.                         *)
(***************************************************************************)
EXTENDS OssCompliance

CONSTANTS
  Refs,        \* pi-gen commits
  MaxRuns      \* bound on the invocations; an invocation's number is its run

ASSUME ConstantsAssumption == None \notin Refs /\ "partial" \notin Refs /\ MaxRuns \in Nat

VARIABLES
  tool,        \* where main() is
  n, ref, want,   \* the invocation's number, --pigen-ref, --skip-corresponding-source
  checkout,    \* .workspace/pi-gen: a commit, "partial" or None
  stage,       \* stage-palmimo and config in it are whole
  waiting,     \* build-docker.sh processes that have no container yet
  container,   \* pigen_work
  job,         \* what it builds
  driver,      \* the build-docker.sh that started it is alive
  deploy,      \* images in deploy/; one of a later run has a later mtime
  dist,        \* the image copied last; None: none, or not whole
  told

buildVars == <<tool, n, ref, want, checkout, stage, waiting, container, job, driver, deploy,
               dist, told>>
vars == <<buildVars, ossVars>>
asked == <<n, ref, want>>
work == <<checkout, stage>>
docker == <<waiting, container, job, driver, deploy>>

Goto(step) == tool' = step /\ UNCHANGED told
Error == tool' = "idle" /\ told' = "error"

(***************************************************************************)
(* The steps of main().                                                    *)
(***************************************************************************)
Invoke ==
  /\ tool = "idle" /\ n < MaxRuns /\ n' = n + 1
  /\ ref' \in Refs /\ want' \in BOOLEAN
  /\ tool' = "preflight" /\ told' = "running"
  /\ UNCHANGED <<work, docker, dist, ossVars>>

\* --clean looks at nothing but the directory; a build that goes on loses its checkout.
Clean ==
  /\ tool = "idle" /\ checkout' = None /\ stage' = FALSE /\ deploy' = {}
  /\ UNCHANGED <<asked, waiting, container, job, driver, dist, told, tool, ossVars>>

Preflight ==
  /\ tool = "preflight" /\ (Goto("stray") \/ Error)
  /\ UNCHANGED <<asked, work, docker, dist, ossVars>>

\* decide_container_action: proceed, remove or abort; docker may fail.
Stray ==
  /\ tool = "stray"
  /\ \/ container = "none" /\ Goto("checkout") /\ UNCHANGED container
     \/ container = "stopped" /\ Goto("checkout") /\ container' = "none"
     \/ Error /\ UNCHANGED container
  /\ UNCHANGED <<asked, work, waiting, job, driver, deploy, dist, ossVars>>

\* Clone if there is no directory, fetch a ref that is not there, check it out.
Checkout ==
  /\ tool = "checkout"
  /\ \/ checkout # "partial" /\ Goto("sync") /\ checkout' = ref
     \/ Error /\ UNCHANGED checkout
  /\ UNCHANGED <<asked, stage, docker, dist, ossVars>>

Sync ==
  /\ tool = "sync" /\ Goto("build") /\ stage' = TRUE
  /\ waiting' = waiting \union {[n |-> n, want |-> want]}
  /\ UNCHANGED <<asked, checkout, container, job, driver, deploy, dist, ossVars>>

\* A mistake the runs must notice: the first image by name, not the newest.
NewestByName == CHOOSE i \in deploy : \A j \in deploy : i.n <= j.n

\* max() by mtime.
Newest == CHOOSE i \in deploy : \A j \in deploy : i.n >= j.n

CollectImage ==
  /\ tool = "collect"
  /\ \/ deploy # {} /\ dist' = Newest /\ tool' = "idle"
        /\ told' = IF want THEN "unshippable" ELSE "complete"
     \/ Error /\ UNCHANGED dist
  /\ UNCHANGED <<asked, work, docker, ossVars>>

(***************************************************************************)
(* build-docker.sh and the container.                                      *)
(***************************************************************************)
\* How a build that ended is met by the tool that waits for it.
Returns(run, step) ==
  IF tool = "build" /\ run = n THEN (IF step = "collect" THEN Goto("collect") ELSE Error)
  ELSE UNCHANGED <<tool, told>>

\* It copies the checkout into the container, and gives up if there is one.
Begins(d) ==
  /\ container = "none" /\ checkout \in Refs
  /\ container' = "up" /\ driver' = TRUE
  /\ job' = [n |-> d.n, ref |-> checkout, stage |-> stage]
  /\ waiting' = waiting \ {d}
  /\ chroot' \in Chroots /\ skip' = d.want /\ oss' = "start" /\ results' = <<>>
  /\ sources' = {} /\ manifest' = None /\ bootManifest' = None /\ pi' = {} /\ portal' = {}
  /\ UNCHANGED <<asked, work, deploy, dist, tool, told>>

GivesUp(d) ==
  /\ Returns(d.n, "error") /\ waiting' = waiting \ {d}
  /\ UNCHANGED <<asked, work, container, job, driver, deploy, dist, ossVars>>

Runs == container = "up" /\ CollectStep /\ UNCHANGED buildVars

\* The image is copied to deploy/ and the container is removed.  A build takes
\* longer than any build-docker.sh takes to find out that there is a container.
Exports ==
  /\ container = "up" /\ oss = "ok" /\ waiting = {} /\ Returns(job.n, "collect")
  /\ IF driver
     THEN /\ container' = "none"
          /\ deploy' = deploy \union {[n |-> job.n, ref |-> job.ref, stage |-> job.stage,
                                       source |-> "skipped" \notin manifest.reasons]}
     ELSE container' = "stopped" /\ UNCHANGED deploy
  /\ UNCHANGED <<asked, work, waiting, job, driver, dist, ossVars>>

\* A stage fails, the collector's or another.
BuildFails ==
  /\ container = "up" /\ container' = "stopped" /\ Returns(job.n, "error")
  /\ UNCHANGED <<asked, work, waiting, job, driver, deploy, dist, ossVars>>

\* The stage is run again by hand in a container that was left for inspection.
Rerun ==
  /\ container = "stopped" /\ oss # "start" /\ oss' = "start"
  /\ chroot' \in Chroots /\ container' = "up" /\ driver' = FALSE
  /\ UNCHANGED <<sources, manifest, bootManifest, pi, portal, results, skip>>
  /\ UNCHANGED <<asked, work, waiting, job, deploy, dist, tool, told>>

\* The tool is killed; build-docker.sh and the container may go on.
Kill ==
  /\ tool \notin {"idle"} /\ tool' = "idle" /\ told' = "aborted"
  /\ checkout' \in IF tool = "checkout" THEN {checkout, "partial"} ELSE {checkout}
  /\ stage' \in IF tool = "sync" THEN {stage, FALSE} ELSE {stage}
  /\ waiting' \in {waiting, {d \in waiting : d.n # n}}
  /\ driver' \in {driver, FALSE}
  /\ dist' \in IF tool = "collect" THEN {dist, None} ELSE {dist}
  /\ UNCHANGED <<asked, container, job, deploy, ossVars>>

Init ==
  /\ tool = "idle" /\ n = 0 /\ ref \in Refs /\ want = FALSE /\ told = "aborted"
  /\ checkout = None /\ stage = FALSE /\ waiting = {} /\ container = "none"
  /\ job = None /\ driver = FALSE /\ deploy = {} /\ dist = None
  /\ chroot \in Chroots /\ skip = FALSE /\ oss = "failed" /\ results = <<>>
  /\ sources = {} /\ manifest = None /\ bootManifest = None /\ pi = {} /\ portal = {}

Next ==
  \/ Invoke \/ Clean \/ Preflight \/ Stray \/ Checkout \/ Sync \/ CollectImage
  \/ \E d \in waiting : Begins(d) \/ GivesUp(d)
  \/ Runs \/ Exports \/ BuildFails \/ Rerun \/ Kill

Spec == Init /\ [][Next]_vars

-----------------------------------------------------------------------------
(***************************************************************************)
(* Properties.                                                             *)
(***************************************************************************)
\* Types, the collector's among them.
TypeOK ==
  /\ OssTypeOK
  /\ tool \in {"idle", "preflight", "stray", "checkout", "sync", "build", "collect"}
  /\ n \in 0..MaxRuns /\ ref \in Refs /\ want \in BOOLEAN
  /\ checkout \in Refs \union {"partial", None} /\ stage \in BOOLEAN
  /\ waiting \subseteq [n : 1..MaxRuns, want : BOOLEAN]
  /\ container \in {"none", "up", "stopped"} /\ driver \in BOOLEAN
  /\ \A i \in deploy : i.n \in 1..MaxRuns /\ i.ref \in Refs /\ i.stage \in BOOLEAN
  /\ told \in {"running", "error", "aborted", "complete", "unshippable"}

\* The image that a build announces is the one it built: from the commit and
\* with the whole stage it was asked for, and never what an earlier, a killed
\* or a still running build put into deploy/.  Announced without a warning, it
\* has its corresponding source.
AnnouncedIsBuilt ==
  told \in {"complete", "unshippable"} =>
    /\ dist.n = n /\ dist.ref = ref /\ dist.stage
    /\ told = "complete" => dist.source
===============================================================================
