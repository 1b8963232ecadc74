-------------------------- MODULE ImageBuildProofs --------------------------
(***************************************************************************)
(* Theorems about ImageBuild and OssCompliance, for any chroots, commits   *)
(* and number of builds.                                                   *)
(***************************************************************************)
EXTENDS ImageBuild, TLAPS

(***************************************************************************)
(* The inductive invariant: the collector.                                 *)
(***************************************************************************)
\* The steps of a collection from one on.
FromCopy == {"copy", "ok"}
FromManifest == {"manifest"} \union FromCopy
FromPortal == {"portal"} \union FromManifest
FromLicenses == {"licenses"} \union FromPortal

\* What was tried is what the results say: an excluded pair has no source, one
\* that was fetched has the whole one and nothing else.
Tried ==
  Wiped =>
    /\ \A s \in sources : s[1] \in DOMAIN results /\ s[1][1] \notin Exclude
    /\ \A p \in DOMAIN results :
         /\ results[p] \in {"excluded", "fetched", "failed"}
         /\ results[p] = "excluded" <=> p[1] \in Exclude
         /\ results[p] = "fetched" => <<p, "whole">> \in sources /\ <<p, "bad">> \notin sources

\* Only the packages that are installed are tried, and all of them before the
\* licenses, unless no source is wanted.
TriedAll ==
  /\ oss = "fetch" => ~skip /\ DOMAIN results \subseteq SourcePackages(chroot.rows)
  /\ oss \in FromLicenses /\ skip => DOMAIN results = {}
  /\ oss \in FromLicenses /\ ~skip =>
       /\ DOMAIN results = SourcePackages(chroot.rows)
       /\ \A p \in DOMAIN results : results[p] # "failed"

\* None is there before they are collected, and then those of this run.
LicensesDone ==
  /\ oss \in {"fetch", "licenses"} => pi = {}
  /\ oss \in {"fetch", "licenses", "portal"} => portal = {}
  /\ oss \in FromPortal =>
       /\ pi = InstalledPackages(chroot.rows) \intersect chroot.copyright
       /\ MissingCopyright \subseteq Allow
  /\ oss \in FromManifest => portal = Written /\ Dists("broken") = {}

\* A manifest is written at the end, and says what there is.
ManifestIsLast ==
  /\ manifest # None /\ Wiped => oss \in FromCopy
  /\ oss \in FromCopy =>
       manifest = [status |-> IF Reasons = {} THEN "OK" ELSE "INCOMPLETE", reasons |-> Reasons,
                   rows |-> results, missing |-> MissingCopyright, unlicensed |-> Dists("none")]

OssIInv == OssTypeOK /\ Tried /\ TriedAll /\ LicensesDone /\ ManifestIsLast

(***************************************************************************)
(* The inductive invariant: the builds.                                    *)
(***************************************************************************)
\* What there is of a run: somebody who waits for the container, the container,
\* and an image.
Waits(run) == \E d \in waiting : d.n = run
Builds(run) == container # "none" /\ job.n = run
Built(run) == \E i \in deploy : i.n = run

\* Nothing is of a run that was not invoked, and what is being built has a
\* commit.
Numbered ==
  /\ \A d \in waiting : d.n <= n
  /\ container # "none" =>
       job.n \in 1..MaxRuns /\ job.n <= n /\ job.ref \in Refs /\ job.stage \in BOOLEAN
  /\ \A i \in deploy : i.n <= n

\* Before its build starts there is nothing of the run.
Fresh ==
  tool \in {"preflight", "stray", "checkout", "sync"} =>
    n > 0 /\ ~Waits(n) /\ ~Builds(n) /\ ~Built(n)

\* The checkout is the one that was asked for until the build has ended.
CheckedOut ==
  /\ tool \in {"sync", "build"} => checkout = ref
  /\ tool = "build" => stage

\* While the tool waits, its build waits, or is under way as it was asked for.
Underway ==
  tool = "build" =>
    /\ n > 0 /\ ~Built(n) /\ (Waits(n) => ~Builds(n))
    /\ \A d \in waiting : d.n = n => d.want = want
    /\ Builds(n) =>
         container = "up" /\ driver /\ job.ref = ref /\ job.stage /\ skip = want

\* When it returns, there is an image of the run, and nobody builds another.
Collected ==
  tool = "collect" =>
    /\ waiting = {} /\ container = "none" /\ Built(n)
    /\ \A i \in deploy : i.n = n => i.ref = ref /\ i.stage /\ (want \/ i.source)

\* Nothing is under way when a build has been announced.
Quiet == told \in {"complete", "unshippable"} => tool = "idle"

IInv ==
  /\ TypeOK /\ OssIInv /\ Numbered /\ Fresh /\ CheckedOut /\ Underway /\ Collected
  /\ AnnouncedIsBuilt /\ Quiet

(***************************************************************************)
(* The collector keeps its invariant.                                      *)
(***************************************************************************)
\* The empty sequence of results is of no pair.
LEMMA NoResults == DOMAIN <<>> = {}
  OBVIOUS

\* Every step of the collector keeps its types.
LEMMA OssTypeStep == ASSUME OssTypeOK, CollectStep PROVE OssTypeOK'
  <1> USE NoResults DEF OssTypeOK, Wiped, Collect
  <1>1. CASE Refuse
    BY <1>1 DEF Refuse
  <1>2. CASE Wipe
    BY <1>2 DEF Wipe
  <1>3. CASE Fetch
    <2>1. PICK p \in SourcePackages(chroot.rows) \ DOMAIN results :
            /\ DOMAIN results' = DOMAIN results \union {p}
            /\ \/ UNCHANGED sources
               \/ \E k \in {"whole", "bad"} : sources' = sources \union {<<p, k>>}
      BY <1>3 DEF Fetch
    <2>2. p \in AllPairs
      BY <2>1 DEF AllPairs
    <2>3. sources' \subseteq AllPairs \X {"whole", "bad"}
      BY <2>1, <2>2
    <2>4. UNCHANGED <<chroot, manifest, bootManifest, pi, portal, skip, oss>>
      BY <1>3 DEF Fetch
    <2>5. \A s \in sources' : s[1] \in DOMAIN results'
      BY <1>3, <2>1 DEF Fetch
    <2> QED
      BY <2>1, <2>2, <2>3, <2>4, <2>5
  <1>4. CASE FetchesEnd
    BY <1>4 DEF FetchesEnd
  <1>5. CASE QueryFails
    BY <1>5 DEF QueryFails
  <1>6. CASE PiLicenses
    BY <1>6 DEF PiLicenses
  <1>7. CASE PortalLicenses
    <2>1. Written \subseteq (UNION {DOMAIN c.dists : c \in Chroots}) \X {"text", "header"}
      BY <1>7 DEF Written, Dists
    <2>2. oss' \in {"manifest", "failed"} /\ oss = "portal"
      BY <1>7 DEF PortalLicenses
    <2> QED
      BY <1>7, <2>1, <2>2 DEF PortalLicenses
  <1>8. CASE WriteManifest
    BY <1>8 DEF WriteManifest
  <1>9. CASE CopyManifest
    BY <1>9 DEF CopyManifest
  <1> QED
    BY <1>1, <1>2, <1>3, <1>4, <1>5, <1>6, <1>7, <1>8, <1>9
    DEF CollectStep

\* Every step keeps what the results say of the sources.
LEMMA TriedStep ==
  ASSUME OssTypeOK, Tried, CollectStep PROVE Tried'
  <1> USE NoResults DEF Tried, Wiped, Collect
  <1>1. CASE Refuse
    BY <1>1 DEF Refuse
  <1>2. CASE Wipe
    BY <1>2 DEF Wipe
  <1>3. CASE Fetch
    <2>1. PICK p \in SourcePackages(chroot.rows) \ DOMAIN results :
            \/ /\ p[1] \in Exclude /\ UNCHANGED sources
               /\ results' = [q \in DOMAIN results \union {p} |->
                                IF q = p THEN "excluded" ELSE results[q]]
            \/ /\ p[1] \notin Exclude
               /\ \E d \in Downloads :
                    /\ results' = [q \in DOMAIN results \union {p} |->
                                     IF q # p THEN results[q]
                                     ELSE IF Fetched(d) THEN "fetched" ELSE "failed"]
                    /\ sources' = sources \union
                         {<<p, IF d.dsc /\ d.files = "good" THEN "whole" ELSE "bad">>}
      BY <1>3 DEF Fetch
    <2>2. \A s \in sources : s[1] # p
      BY <1>3, <2>1 DEF Fetch
    <2>3. UNCHANGED oss /\ oss = "fetch"
      BY <1>3 DEF Fetch
    <2>4. CASE p[1] \in Exclude
      BY <2>1, <2>2, <2>3, <2>4
    <2>5. CASE p[1] \notin Exclude
      <3>1. PICK d \in Downloads :
              /\ results' = [q \in DOMAIN results \union {p} |->
                               IF q # p THEN results[q]
                               ELSE IF Fetched(d) THEN "fetched" ELSE "failed"]
              /\ sources' = sources \union
                   {<<p, IF d.dsc /\ d.files = "good" THEN "whole" ELSE "bad">>}
        BY <2>1, <2>5
      <3>2. Fetched(d) => <<p, "whole">> \in sources' /\ <<p, "bad">> \notin sources'
        BY <2>2, <3>1 DEF Fetched
      <3> QED
        BY <2>2, <2>3, <2>5, <3>1, <3>2
    <2> QED
      BY <2>4, <2>5
  <1>4. CASE FetchesEnd
    BY <1>4 DEF FetchesEnd
  <1>5. CASE QueryFails
    BY <1>5 DEF QueryFails
  <1>6. CASE PiLicenses
    BY <1>6 DEF PiLicenses
  <1>7. CASE PortalLicenses
    BY <1>7 DEF PortalLicenses
  <1>8. CASE WriteManifest
    BY <1>8 DEF WriteManifest
  <1>9. CASE CopyManifest
    BY <1>9 DEF CopyManifest
  <1> QED
    BY <1>1, <1>2, <1>3, <1>4, <1>5, <1>6, <1>7, <1>8, <1>9
    DEF CollectStep

\* Every step keeps which packages were tried.
LEMMA TriedAllStep ==
  ASSUME TriedAll, CollectStep PROVE TriedAll'
  <1> USE NoResults DEF TriedAll, Collect, FromCopy, FromManifest, FromPortal, FromLicenses
  <1>1. CASE Refuse
    BY <1>1 DEF Refuse
  <1>2. CASE Wipe
    BY <1>2 DEF Wipe
  <1>3. CASE Fetch
    BY <1>3 DEF Fetch
  <1>4. CASE FetchesEnd
    BY <1>4 DEF FetchesEnd
  <1>5. CASE QueryFails
    BY <1>5 DEF QueryFails
  <1>6. CASE PiLicenses
    BY <1>6 DEF PiLicenses
  <1>7. CASE PortalLicenses
    BY <1>7 DEF PortalLicenses
  <1>8. CASE WriteManifest
    BY <1>8 DEF WriteManifest
  <1>9. CASE CopyManifest
    BY <1>9 DEF CopyManifest
  <1> QED
    BY <1>1, <1>2, <1>3, <1>4, <1>5, <1>6, <1>7, <1>8, <1>9
    DEF CollectStep

\* Every step keeps the licenses that were collected.
LEMMA LicensesStep ==
  ASSUME LicensesDone, CollectStep PROVE LicensesDone'
  <1> USE DEF LicensesDone, MissingCopyright, Dists, Written, Collect, FromCopy, FromManifest, FromPortal, FromLicenses
  <1>1. CASE Refuse
    BY <1>1 DEF Refuse
  <1>2. CASE Wipe
    BY <1>2 DEF Wipe
  <1>3. CASE Fetch
    BY <1>3 DEF Fetch
  <1>4. CASE FetchesEnd
    BY <1>4 DEF FetchesEnd
  <1>5. CASE QueryFails
    BY <1>5 DEF QueryFails
  <1>6. CASE PiLicenses
    BY <1>6 DEF PiLicenses
  <1>7. CASE PortalLicenses
    BY <1>7 DEF PortalLicenses
  <1>8. CASE WriteManifest
    BY <1>8 DEF WriteManifest
  <1>9. CASE CopyManifest
    BY <1>9 DEF CopyManifest
  <1> QED
    BY <1>1, <1>2, <1>3, <1>4, <1>5, <1>6, <1>7, <1>8, <1>9
    DEF CollectStep

\* Every step keeps the manifest that was written.
LEMMA ManifestStep ==
  ASSUME ManifestIsLast, CollectStep PROVE ManifestIsLast'
  <1> USE DEF ManifestIsLast, Wiped, MissingCopyright, Reasons, Dists, Collect, FromCopy, FromManifest, FromPortal, FromLicenses
  <1>1. CASE Refuse
    BY <1>1 DEF Refuse
  <1>2. CASE Wipe
    BY <1>2 DEF Wipe
  <1>3. CASE Fetch
    BY <1>3 DEF Fetch
  <1>4. CASE FetchesEnd
    BY <1>4 DEF FetchesEnd
  <1>5. CASE QueryFails
    BY <1>5 DEF QueryFails
  <1>6. CASE PiLicenses
    BY <1>6 DEF PiLicenses
  <1>7. CASE PortalLicenses
    BY <1>7 DEF PortalLicenses
  <1>8. CASE WriteManifest
    BY <1>8 DEF WriteManifest
  <1>9. CASE CopyManifest
    BY <1>9 DEF CopyManifest
  <1> QED
    BY <1>1, <1>2, <1>3, <1>4, <1>5, <1>6, <1>7, <1>8, <1>9
    DEF CollectStep

\* The collection of another build starts anew; nothing else changes its state.
LEMMA OssStep ==
  ASSUME TypeOK, OssIInv, Next PROVE OssIInv'
  <1>1. CASE CollectStep
    BY <1>1, OssTypeStep, TriedStep, TriedAllStep, LicensesStep, ManifestStep DEF OssIInv
  <1>2. ASSUME NEW d \in waiting, Begins(d) PROVE OssIInv'
    <2>1. /\ oss' = "start" /\ chroot' \in Chroots /\ sources' = {} /\ DOMAIN results' = {}
          /\ pi' = {} /\ portal' = {} /\ skip' = d.want /\ d.want \in BOOLEAN
      BY <1>2, NoResults DEF Begins, TypeOK
    <2> QED
      BY <2>1 DEF OssIInv, OssTypeOK, Tried, TriedAll, LicensesDone, ManifestIsLast, Wiped,
                  FromCopy, FromManifest, FromPortal, FromLicenses
  <1>3. CASE Rerun
    BY <1>3 DEF Rerun, OssIInv, OssTypeOK, Tried, TriedAll, LicensesDone, ManifestIsLast, Wiped,
                FromCopy, FromManifest, FromPortal, FromLicenses
  <1>4. CASE UNCHANGED ossVars
    <2> USE <1>4 DEF ossVars, OssIInv, Wiped
    <2>1. OssTypeOK' /\ Tried'
      BY DEF OssTypeOK, Tried
    <2>2. TriedAll' /\ LicensesDone'
      BY DEF TriedAll, LicensesDone, MissingCopyright, Dists, Written
    <2>3. ManifestIsLast'
      BY DEF ManifestIsLast, MissingCopyright, Reasons, Dists
    <2> QED
      BY <2>1, <2>2, <2>3
  <1> QED
    BY <1>1, <1>2, <1>3, <1>4
    DEF Next, Runs, Invoke, Clean, Preflight, Stray, Checkout, Sync, CollectImage, GivesUp,
        Exports, BuildFails, Kill

(***************************************************************************)
(* The builds keep theirs.                                                 *)
(***************************************************************************)
\* The numbers of runs are numbers.
LEMMA Numbers ==
  ASSUME TypeOK, Numbered
  PROVE  /\ n \in Nat
         /\ \A d \in waiting : d.n \in Nat \ {0} /\ d.n <= n
         /\ container # "none" => job.n \in Nat \ {0} /\ job.n <= n
         /\ \A i \in deploy : i.n \in Nat \ {0} /\ i.n <= n
  BY ConstantsAssumption DEF TypeOK, Numbered

\* A build that is asked for.
LEMMA Sent ==
  ASSUME TypeOK, Numbered, Fresh, Sync
  PROVE  /\ tool = "sync" /\ tool' = "build" /\ stage' = TRUE /\ n \in 1..MaxRuns
         /\ [n |-> n, want |-> want] \in [n : 1..MaxRuns, want : BOOLEAN]
         /\ waiting' = waiting \union {[n |-> n, want |-> want]}
         /\ UNCHANGED <<n, ref, want, checkout, container, job, driver, deploy, dist, told, skip>>
  <1>1. n \in 1..MaxRuns /\ want \in BOOLEAN
    BY ConstantsAssumption DEF TypeOK, Fresh, Sync
  <1> QED
    BY <1>1 DEF Sync, Goto, asked, ossVars

\* A build that has returned.
LEMMA Exported ==
  ASSUME Exports
  PROVE  /\ container = "up" /\ oss = "ok" /\ waiting = {} /\ waiting' = {}
         /\ UNCHANGED <<n, ref, want, checkout, stage, job, driver, dist, told, skip>>
         /\ IF tool = "build" /\ job.n = n THEN tool' = "collect" ELSE UNCHANGED tool
         /\ ~driver => container' = "stopped" /\ UNCHANGED deploy
         /\ driver =>
              /\ container' = "none"
              /\ deploy' = deploy \union {[n |-> job.n, ref |-> job.ref, stage |-> job.stage,
                                           source |-> "skipped" \notin manifest.reasons]}
  BY DEF Exports, Returns, Goto, asked, work, ossVars

\* A collection keeps what it was started with.
LEMMA CollectKeeps == ASSUME CollectStep PROVE UNCHANGED <<chroot, skip>>
  BY DEF CollectStep, Refuse, Wipe, Fetch, FetchesEnd, QueryFails, PiLicenses, PortalLicenses,
         WriteManifest, CopyManifest

\* The types.
LEMMA BuildTypeStep ==
  ASSUME TypeOK, Numbered, Fresh, Underway, OssTypeOK', Next PROVE TypeOK'
  <1> USE ConstantsAssumption DEF TypeOK, Numbered, Fresh, Underway,
      asked, work, docker, buildVars, Goto, Error
  <1>1. CASE Invoke
    <2>1. n' = n + 1 /\ n + 1 \in 1..MaxRuns /\ n \in Nat
      BY <1>1, ConstantsAssumption DEF Invoke, TypeOK
    <2> QED
      BY <1>1, <2>1, Numbers DEF Invoke
  <1>2. CASE Clean
    BY <1>2 DEF Clean
  <1>3. CASE Preflight
    BY <1>3 DEF Preflight
  <1>4. CASE Stray
    BY <1>4 DEF Stray
  <1>5. CASE Checkout
    BY <1>5 DEF Checkout
  <1>6. CASE Sync
    BY <1>6, Sent
  <1>7. CASE CollectImage
    BY <1>7 DEF CollectImage
  <1>8. ASSUME NEW d \in waiting, Begins(d) PROVE TypeOK'
    BY <1>8 DEF Begins
  <1>9. ASSUME NEW d \in waiting, GivesUp(d) PROVE TypeOK'
    BY <1>9 DEF GivesUp, Returns
  <1>10. CASE Runs
    BY <1>10 DEF Runs
  <1>11. CASE Exports
    BY <1>11, Exported, Numbers
  <1>12. CASE BuildFails
    BY <1>12 DEF BuildFails, Returns
  <1>13. CASE Rerun
    BY <1>13 DEF Rerun
  <1>14. CASE Kill
    BY <1>14 DEF Kill
  <1> QED
    BY <1>1, <1>2, <1>3, <1>4, <1>5, <1>6, <1>7, <1>8, <1>9, <1>10, <1>11,
       <1>12, <1>13, <1>14
    DEF Next

\* Only a later run is of a later number.
LEMMA NumberedStep ==
  ASSUME TypeOK, Numbered, Fresh, Underway, Next PROVE Numbered'
  <1> USE DEF TypeOK, Numbered, Fresh, Underway,
      asked, work, docker, buildVars, Goto, Error
  <1>1. CASE Invoke
    <2>1. n' = n + 1 /\ n + 1 \in 1..MaxRuns /\ n \in Nat
      BY <1>1, ConstantsAssumption DEF Invoke, TypeOK
    <2> QED
      BY <1>1, <2>1, Numbers DEF Invoke
  <1>2. CASE Clean
    BY <1>2 DEF Clean
  <1>3. CASE Preflight
    BY <1>3 DEF Preflight
  <1>4. CASE Stray
    BY <1>4 DEF Stray
  <1>5. CASE Checkout
    BY <1>5 DEF Checkout
  <1>6. CASE Sync
    <2> DEFINE d0 == [n |-> n, want |-> want]
    <2>1. d0.n = n
      OBVIOUS
    <2>2. waiting' = waiting \union {d0} /\ UNCHANGED <<n, container, job, deploy>>
      BY <1>6, Sent
    <2> HIDE DEF d0
    <2>3. \A d \in waiting' : d.n <= n
      BY <2>1, <2>2, Numbers
    <2> QED
      BY <2>2, <2>3
  <1>7. CASE CollectImage
    BY <1>7 DEF CollectImage
  <1>8. ASSUME NEW d \in waiting, Begins(d) PROVE Numbered'
    BY <1>8 DEF Begins
  <1>9. ASSUME NEW d \in waiting, GivesUp(d) PROVE Numbered'
    BY <1>9 DEF GivesUp, Returns
  <1>10. CASE Runs
    BY <1>10 DEF Runs
  <1>11. CASE Exports
    BY <1>11, Exported, Numbers
  <1>12. CASE BuildFails
    BY <1>12 DEF BuildFails, Returns
  <1>13. CASE Rerun
    BY <1>13 DEF Rerun
  <1>14. CASE Kill
    BY <1>14 DEF Kill
  <1> QED
    BY <1>1, <1>2, <1>3, <1>4, <1>5, <1>6, <1>7, <1>8, <1>9, <1>10, <1>11,
       <1>12, <1>13, <1>14
    DEF Next

\* A run leaves nothing before its build.
LEMMA FreshStep ==
  ASSUME TypeOK, Numbered, Fresh, Next PROVE Fresh'
  <1> USE DEF TypeOK, Numbered, Fresh, Waits, Builds, Built,
      asked, work, docker, buildVars, Goto, Error
  <1>1. CASE Invoke
    <2>1. n' = n + 1 /\ n + 1 \in 1..MaxRuns /\ n \in Nat
      BY <1>1, ConstantsAssumption DEF Invoke, TypeOK
    <2> QED
      BY <1>1, <2>1, Numbers DEF Invoke
  <1>2. CASE Clean
    BY <1>2 DEF Clean
  <1>3. CASE Preflight
    BY <1>3 DEF Preflight
  <1>4. CASE Stray
    BY <1>4 DEF Stray
  <1>5. CASE Checkout
    BY <1>5 DEF Checkout
  <1>6. CASE Sync
    BY <1>6 DEF Sync
  <1>7. CASE CollectImage
    BY <1>7 DEF CollectImage
  <1>8. ASSUME NEW d \in waiting, Begins(d) PROVE Fresh'
    BY <1>8 DEF Begins
  <1>9. ASSUME NEW d \in waiting, GivesUp(d) PROVE Fresh'
    BY <1>9 DEF GivesUp, Returns
  <1>10. CASE Runs
    BY <1>10 DEF Runs
  <1>11. CASE Exports
    BY <1>11, Exported, Numbers
  <1>12. CASE BuildFails
    BY <1>12 DEF BuildFails, Returns
  <1>13. CASE Rerun
    BY <1>13 DEF Rerun
  <1>14. CASE Kill
    BY <1>14 DEF Kill
  <1> QED
    BY <1>1, <1>2, <1>3, <1>4, <1>5, <1>6, <1>7, <1>8, <1>9, <1>10, <1>11,
       <1>12, <1>13, <1>14
    DEF Next

\* The checkout stays while its build is waited for.
LEMMA CheckedOutStep ==
  ASSUME CheckedOut, Next PROVE CheckedOut'
  <1> USE DEF CheckedOut, asked, work, docker, buildVars, Goto, Error
  <1>1. CASE Invoke
    BY <1>1 DEF Invoke
  <1>2. CASE Clean
    BY <1>2 DEF Clean
  <1>3. CASE Preflight
    BY <1>3 DEF Preflight
  <1>4. CASE Stray
    BY <1>4 DEF Stray
  <1>5. CASE Checkout
    BY <1>5 DEF Checkout
  <1>6. CASE Sync
    BY <1>6 DEF Sync
  <1>7. CASE CollectImage
    BY <1>7 DEF CollectImage
  <1>8. ASSUME NEW d \in waiting, Begins(d) PROVE CheckedOut'
    BY <1>8 DEF Begins
  <1>9. ASSUME NEW d \in waiting, GivesUp(d) PROVE CheckedOut'
    BY <1>9 DEF GivesUp, Returns
  <1>10. CASE Runs
    BY <1>10 DEF Runs
  <1>11. CASE Exports
    BY <1>11 DEF Exports, Returns
  <1>12. CASE BuildFails
    BY <1>12 DEF BuildFails, Returns
  <1>13. CASE Rerun
    BY <1>13 DEF Rerun
  <1>14. CASE Kill
    BY <1>14 DEF Kill
  <1> QED
    BY <1>1, <1>2, <1>3, <1>4, <1>5, <1>6, <1>7, <1>8, <1>9, <1>10, <1>11,
       <1>12, <1>13, <1>14
    DEF Next

\* Only the run's own build is what it waits for.
LEMMA UnderwayStep ==
  ASSUME TypeOK, Numbered, Fresh, CheckedOut, Underway, Next PROVE Underway'
  <1> USE DEF TypeOK, Numbered, Fresh, CheckedOut, Underway, Waits, Builds, Built,
      asked, work, docker, buildVars, Goto, Error
  <1>1. CASE Invoke
    BY <1>1 DEF Invoke
  <1>2. CASE Clean
    BY <1>2 DEF Clean
  <1>3. CASE Preflight
    BY <1>3 DEF Preflight
  <1>4. CASE Stray
    BY <1>4 DEF Stray
  <1>5. CASE Checkout
    BY <1>5 DEF Checkout
  <1>6. CASE Sync
    BY <1>6, Sent
  <1>7. CASE CollectImage
    BY <1>7 DEF CollectImage
  <1>8. ASSUME NEW d \in waiting, Begins(d) PROVE Underway'
    BY <1>8 DEF Begins
  <1>9. ASSUME NEW d \in waiting, GivesUp(d) PROVE Underway'
    <2>1. /\ waiting' \subseteq waiting /\ UNCHANGED <<n, ref, want, checkout, stage, container,
                                                       job, driver, deploy, skip>>
          /\ tool' \in {tool, "idle"}
      BY <1>9 DEF GivesUp, Returns, ossVars
    <2> QED
      BY <2>1
  <1>10. CASE Runs
    BY <1>10, CollectKeeps DEF Runs
  <1>11. CASE Exports
    BY <1>11, Exported, Numbers
  <1>12. CASE BuildFails
    BY <1>12 DEF BuildFails, Returns
  <1>13. CASE Rerun
    BY <1>13 DEF Rerun
  <1>14. CASE Kill
    BY <1>14 DEF Kill
  <1> QED
    BY <1>1, <1>2, <1>3, <1>4, <1>5, <1>6, <1>7, <1>8, <1>9, <1>10, <1>11,
       <1>12, <1>13, <1>14
    DEF Next

\* Its image is of the build that has returned.
LEMMA CollectedStep ==
  ASSUME TypeOK, OssIInv, Numbered, Underway, Collected, Next PROVE Collected'
  <1> USE DEF TypeOK, Numbered, Underway, Collected, Waits, Builds, Built,
      asked, work, docker, buildVars, Goto, Error
  <1>1. CASE Invoke
    BY <1>1 DEF Invoke
  <1>2. CASE Clean
    BY <1>2 DEF Clean
  <1>3. CASE Preflight
    BY <1>3 DEF Preflight
  <1>4. CASE Stray
    BY <1>4 DEF Stray
  <1>5. CASE Checkout
    BY <1>5 DEF Checkout
  <1>6. CASE Sync
    BY <1>6 DEF Sync
  <1>7. CASE CollectImage
    BY <1>7 DEF CollectImage
  <1>8. ASSUME NEW d \in waiting, Begins(d) PROVE Collected'
    BY <1>8 DEF Begins
  <1>9. ASSUME NEW d \in waiting, GivesUp(d) PROVE Collected'
    BY <1>9 DEF GivesUp, Returns
  <1>10. CASE Runs
    BY <1>10 DEF Runs
  <1>11. CASE Exports
    <2>1. CASE tool = "build" /\ job.n = n
      <3>1. driver /\ job.ref = ref /\ job.stage /\ skip = want /\ ~Built(n)
        BY <1>11, <2>1, Exported
      <3>2. want \/ "skipped" \notin manifest.reasons
        <4>1. manifest.reasons = Reasons
          BY <1>11, Exported DEF OssIInv, ManifestIsLast, FromCopy
        <4> QED
          BY <3>1, <4>1 DEF Reasons
      <3> DEFINE i0 == [n |-> job.n, ref |-> job.ref, stage |-> job.stage,
                        source |-> "skipped" \notin manifest.reasons]
      <3>3. waiting' = {} /\ container' = "none" /\ deploy' = deploy \union {i0}
            /\ UNCHANGED <<n, ref, want>>
        BY <1>11, <3>1, Exported
      <3>4. i0.n = n /\ i0.ref = ref /\ i0.stage /\ (want \/ i0.source)
        BY <2>1, <3>1, <3>2
      <3> HIDE DEF i0
      <3> QED
        BY <3>1, <3>3, <3>4
    <2>2. CASE ~(tool = "build" /\ job.n = n)
      BY <1>11, <2>2, Exported
    <2> QED
      BY <2>1, <2>2
  <1>12. CASE BuildFails
    BY <1>12 DEF BuildFails, Returns
  <1>13. CASE Rerun
    BY <1>13 DEF Rerun
  <1>14. CASE Kill
    BY <1>14 DEF Kill
  <1> QED
    BY <1>1, <1>2, <1>3, <1>4, <1>5, <1>6, <1>7, <1>8, <1>9, <1>10, <1>11,
       <1>12, <1>13, <1>14
    DEF Next

\* What is told is of the image that was copied.
LEMMA ToldStep ==
  ASSUME TypeOK, Numbered, Collected, AnnouncedIsBuilt, Quiet, Next PROVE (AnnouncedIsBuilt /\ Quiet)'
  <1> USE DEF TypeOK, AnnouncedIsBuilt, Quiet, asked, work, docker, buildVars, Goto, Error
  <1>1. CASE Invoke
    BY <1>1 DEF Invoke
  <1>2. CASE Clean
    BY <1>2 DEF Clean
  <1>3. CASE Preflight
    BY <1>3 DEF Preflight
  <1>4. CASE Stray
    BY <1>4 DEF Stray
  <1>5. CASE Checkout
    BY <1>5 DEF Checkout
  <1>6. CASE Sync
    BY <1>6 DEF Sync
  <1>7. CASE CollectImage
    <2>1. CASE deploy # {} /\ dist' = Newest /\ tool' = "idle" /\ UNCHANGED <<n, ref, want>>
                 /\ told' = IF want THEN "unshippable" ELSE "complete"
      <3>1. PICK i \in deploy : i.n = n
        BY <1>7 DEF CollectImage, Collected, Built
      <3>2. \A j \in deploy : i.n >= j.n
        BY <3>1, Numbers
      <3>3. Newest \in deploy /\ \A j \in deploy : Newest.n >= j.n
        BY <3>1, <3>2 DEF Newest
      <3>4. Newest.n = n
        BY <3>1, <3>3, Numbers
      <3>5. Newest.ref = ref /\ Newest.stage /\ (want \/ Newest.source)
        BY <1>7, <3>3, <3>4 DEF CollectImage, Collected
      <3> QED
        BY <2>1, <3>4, <3>5
    <2>2. CASE Error
      BY <2>2
    <2> QED
      BY <1>7, <2>1, <2>2 DEF CollectImage
  <1>8. ASSUME NEW d \in waiting, Begins(d) PROVE (AnnouncedIsBuilt /\ Quiet)'
    BY <1>8 DEF Begins
  <1>9. ASSUME NEW d \in waiting, GivesUp(d) PROVE (AnnouncedIsBuilt /\ Quiet)'
    BY <1>9 DEF GivesUp, Returns
  <1>10. CASE Runs
    BY <1>10 DEF Runs
  <1>11. CASE Exports
    BY <1>11 DEF Exports, Returns
  <1>12. CASE BuildFails
    BY <1>12 DEF BuildFails, Returns
  <1>13. CASE Rerun
    BY <1>13 DEF Rerun
  <1>14. CASE Kill
    BY <1>14 DEF Kill
  <1> QED
    BY <1>1, <1>2, <1>3, <1>4, <1>5, <1>6, <1>7, <1>8, <1>9, <1>10, <1>11,
       <1>12, <1>13, <1>14
    DEF Next

(***************************************************************************)
(* The theorems.                                                           *)
(***************************************************************************)
LEMMA Initially == Init => IInv
  <1> SUFFICES ASSUME Init PROVE IInv
    OBVIOUS
  <1> USE NoResults DEF Init
  <1>1. OssIInv
    BY DEF OssIInv, OssTypeOK, Tried, TriedAll, LicensesDone, ManifestIsLast,
           FromCopy, FromManifest, FromPortal, FromLicenses
  <1>2. TypeOK
    <2>1. n \in 0..MaxRuns
      BY ConstantsAssumption
    <2>2. waiting \subseteq [n : 1..MaxRuns, want : BOOLEAN]
      OBVIOUS
    <2> QED
      BY <1>1, <2>1, <2>2 DEF OssIInv, TypeOK
  <1>3. Numbered /\ Fresh /\ CheckedOut /\ Underway /\ Collected
    BY DEF Numbered, Fresh, CheckedOut, Underway, Collected
  <1>4. AnnouncedIsBuilt /\ Quiet
    BY DEF AnnouncedIsBuilt, Quiet
  <1> QED
    BY <1>1, <1>2, <1>3, <1>4 DEF IInv

\* Every step keeps the invariant.
LEMMA Inductive == IInv /\ [Next]_vars => IInv'
  <1> SUFFICES ASSUME IInv, [Next]_vars PROVE IInv'
    OBVIOUS
  <1>1. CASE Next
    <2>1. OssIInv'
      BY <1>1, OssStep DEF IInv
    <2>2. TypeOK'
      BY <1>1, <2>1, BuildTypeStep DEF IInv, OssIInv
    <2>3. Numbered' /\ Fresh' /\ CheckedOut'
      BY <1>1, NumberedStep, FreshStep, CheckedOutStep DEF IInv
    <2>4. Underway' /\ Collected'
      BY <1>1, UnderwayStep, CollectedStep DEF IInv
    <2>5. AnnouncedIsBuilt' /\ Quiet'
      BY <1>1, ToldStep DEF IInv
    <2> QED
      BY <2>1, <2>2, <2>3, <2>4, <2>5 DEF IInv
  <1>2. CASE UNCHANGED vars
    <2> USE <1>2 DEF IInv, vars, buildVars, ossVars
    <2>1. OssTypeOK' /\ Tried'
      BY DEF OssIInv, OssTypeOK, Tried, Wiped
    <2>2. TriedAll' /\ LicensesDone'
      BY DEF OssIInv, TriedAll, LicensesDone, MissingCopyright, Dists, Written
    <2>3. ManifestIsLast'
      BY DEF OssIInv, ManifestIsLast, MissingCopyright, Reasons, Dists, Wiped
    <2>4. TypeOK'
      BY <2>1 DEF TypeOK
    <2>5. Numbered' /\ Fresh' /\ CheckedOut'
      BY DEF Numbered, Fresh, CheckedOut, Waits, Builds, Built
    <2>6. Underway' /\ Collected'
      BY DEF Underway, Collected, Waits, Builds, Built
    <2>7. AnnouncedIsBuilt' /\ Quiet'
      BY DEF AnnouncedIsBuilt, Quiet
    <2> QED
      BY <2>1, <2>2, <2>3, <2>4, <2>5, <2>6, <2>7 DEF OssIInv
  <1> QED
    BY <1>1, <1>2

\* The invariant, always.
LEMMA Invariance == Spec => []IInv
  BY Initially, Inductive, PTL DEF Spec

\* Every variable keeps its type, and sources/debian holds nothing that this
\* run did not try (collect_oss_compliance.py, main).
THEOREM TypeCorrect == Spec => []TypeOK
  BY Invariance, PTL DEF IInv

\* A MANIFEST.txt's rows are what is on the medium: the whole source of every
\* package that is installed and not excluded, and nothing else
\* (collect_oss_compliance.py, main).
THEOREM SourcesAreWhole == Spec => []SourcesCorrespond
  <1>1. IInv => SourcesCorrespond
    <2> SUFFICES ASSUME IInv, manifest # None, Wiped, "skipped" \notin manifest.reasons
                 PROVE  /\ DOMAIN manifest.rows = SourcePackages(chroot.rows)
                        /\ sources = {<<p, "whole">> :
                                       p \in {q \in DOMAIN manifest.rows : q[1] \notin Exclude}}
      BY DEF SourcesCorrespond
    <2>1. manifest.rows = results /\ manifest.reasons = Reasons /\ oss \in FromLicenses
      BY DEF IInv, OssIInv, ManifestIsLast, FromCopy, FromManifest, FromPortal, FromLicenses
    <2>2. /\ DOMAIN results = SourcePackages(chroot.rows)
          /\ \A p \in DOMAIN results : results[p] # "failed"
      BY <2>1 DEF IInv, OssIInv, TriedAll, Reasons
    <2>3. \A p \in DOMAIN results :
            p[1] \notin Exclude => <<p, "whole">> \in sources /\ <<p, "bad">> \notin sources
      BY <2>2 DEF IInv, OssIInv, Tried
    <2>4. \A s \in sources :
            /\ s[1] \in DOMAIN results /\ s[1][1] \notin Exclude
            /\ s = <<s[1], "whole">> \/ s = <<s[1], "bad">>
      BY DEF IInv, OssIInv, Tried, OssTypeOK
    <2> DEFINE Wanted == {q \in DOMAIN results : q[1] \notin Exclude}
    <2>5. sources \subseteq {<<p, "whole">> : p \in Wanted}
      BY <2>3, <2>4
    <2>6. {<<p, "whole">> : p \in Wanted} \subseteq sources
      BY <2>3
    <2> QED
      BY <2>1, <2>2, <2>5, <2>6
  <1> QED
    BY <1>1, Invariance, PTL

\* With MANIFEST.txt the licenses are those of this run's packages and dists and
\* of no earlier one: all of them but those it lists, and a package's copyright is
\* missing only where that is allowed; STATUS is OK only if it lists no dist and
\* nothing else is left for a review (collect_oss_compliance.py, write_manifest).
THEOREM LicensesAreComplete == Spec => []LicensesComplete
  <1>1. IInv => LicensesComplete
    <2> SUFFICES ASSUME IInv, manifest # None, Wiped
                 PROVE  /\ pi = InstalledPackages(chroot.rows) \ manifest.missing
                        /\ manifest.missing \subseteq Allow
                        /\ portal = Written
                        /\ {w[1] : w \in portal} \union manifest.unlicensed
                             = DOMAIN chroot.dists \ Dists("nometa")
                        /\ manifest.status = "OK" =>
                             /\ manifest.unlicensed = {}
                             /\ chroot.notices /\ ~chroot.runtimes /\ ~skip
      BY DEF LicensesComplete
    <2> USE DEF IInv, OssIInv, FromCopy, FromManifest, FromPortal
    <2>1. /\ manifest.missing = MissingCopyright /\ manifest.unlicensed = Dists("none") /\ oss \in FromManifest
          /\ manifest.status = IF Reasons = {} THEN "OK" ELSE "INCOMPLETE"
      BY DEF ManifestIsLast
    <2>2. /\ pi = InstalledPackages(chroot.rows) \intersect chroot.copyright
          /\ MissingCopyright \subseteq Allow /\ portal = Written /\ Dists("broken") = {}
      BY <2>1 DEF LicensesDone
    <2>3. pi = InstalledPackages(chroot.rows) \ manifest.missing
      BY <2>1, <2>2 DEF MissingCopyright
    <2>4. {w[1] : w \in portal} \union manifest.unlicensed
            = DOMAIN chroot.dists \ Dists("nometa")
      <3>1. {w[1] : w \in Written} = Dists("text") \union Dists("header")
        <4> DEFINE S == Dists("text") \union Dists("header")
                   f(d) == <<d, chroot.dists[d]>>
        <4>1. Written = {f(d) : d \in S}
          BY DEF Written
        <4>2. \A d \in S : f(d)[1] = d
          OBVIOUS
        <4> HIDE DEF S, f
        <4>3. {w[1] : w \in Written} = S
          BY <4>1, <4>2
        <4> QED
          BY <4>3 DEF S
      <3> QED
        BY <2>1, <2>2, <3>1, ChrootsAssumption DEF Dists, OssTypeOK
    <2>5. ASSUME Reasons = {}
          PROVE  Dists("none") = {} /\ chroot.notices /\ ~chroot.runtimes /\ ~skip
      BY <2>5 DEF Reasons
    <2> QED
      BY <2>1, <2>2, <2>3, <2>4, <2>5
  <1> QED
    BY <1>1, Invariance, PTL

\* The image that a build announces is of this run, from the commit and with
\* the stage it was asked for, and one announced without a warning has its
\* corresponding source (make_image.py, main).
THEOREM AnnouncedIsOfThisRun == Spec => []AnnouncedIsBuilt
  BY Invariance, PTL DEF IInv
=============================================================================
