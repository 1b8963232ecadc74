---------------------------- MODULE OssCompliance ----------------------------
(***************************************************************************)
(* lib/collect_oss_compliance.py: what one run after another in a chroot   *)
(* collects, and what MANIFEST.txt says of it.  A run may fail or be       *)
(* killed, and the packages may change before the next.                    *)
(***************************************************************************)
EXTENDS Naturals, FiniteSets

CONSTANTS
  Chroots,     \* what a run may find: [rows, copyright, dists, notices, runtimes, venv]
  Exclude,     \* source packages in oss-source-exclude.txt
  Allow,       \* packages in oss-copyright-missing-allow.txt
  None

\* What METADATA of a dist has: license files, all of which are there; only header
\* lines with the license's name; neither; a license file that is not there.  Or
\* there is no METADATA.
ASSUME ChrootsAssumption ==
  \A c \in Chroots : \A d \in DOMAIN c.dists :
    c.dists[d] \in {"text", "header", "none", "broken", "nometa"}

\* dpkg-query rows are [binary, source, version, status]; a package that was
\* removed and left its configuration is a row, too.
SourcePackages(rows) ==
  {<<r.source, r.version>> : r \in {q \in rows : q.status = "installed"}}

InstalledPackages(rows) == {r.binary : r \in {q \in rows : q.status = "installed"}}

AllPairs == UNION {SourcePackages(c.rows) : c \in Chroots}

VARIABLES
  chroot,
  sources,        \* sources/debian: pairs, each "whole" or "bad"
  manifest,       \* sources/MANIFEST.txt
  bootManifest,   \* licenses/MANIFEST.txt
  pi,             \* licenses/pi: packages
  portal,         \* licenses/portal: dists, each with what was written for it
  results,        \* fetch_results of this run: a status for each pair that was tried
  skip,           \* PALMIMO_SKIP_CORRESPONDING_SOURCE
  oss             \* where main() is

ossVars == <<chroot, sources, manifest, bootManifest, pi, portal, results, skip, oss>>

Collect(step) == oss' = step

(***************************************************************************)
(* main().                                                                 *)
(***************************************************************************)
\* One of the two option files is not there.
Refuse ==
  /\ oss = "start" /\ Collect("refused")
  /\ UNCHANGED <<chroot, sources, manifest, bootManifest, pi, portal, results, skip>>

\* A mistake the runs must notice: only the licenses are wiped.
WipeKeepsSources ==
  /\ oss = "start"
  /\ manifest' = None /\ pi' = {} /\ portal' = {} /\ results' = <<>>
  /\ Collect(IF ~chroot.venv THEN "failed" ELSE IF skip THEN "licenses" ELSE "fetch")
  /\ UNCHANGED <<chroot, sources, bootManifest, skip>>

\* A mistake the runs must notice: only the sources are wiped.
WipeKeepsLicenses ==
  /\ oss = "start"
  /\ sources' = {} /\ manifest' = None /\ results' = <<>>
  /\ Collect(IF ~chroot.venv THEN "failed" ELSE IF skip THEN "licenses" ELSE "fetch")
  /\ UNCHANGED <<chroot, bootManifest, pi, portal, skip>>

\* Stale output goes first.  The copy of MANIFEST.txt among the licenses stays.
Wipe ==
  /\ oss = "start"
  /\ sources' = {} /\ manifest' = None /\ pi' = {} /\ portal' = {} /\ results' = <<>>
  /\ Collect(IF ~chroot.venv THEN "failed" ELSE IF skip THEN "licenses" ELSE "fetch")
  /\ UNCHANGED <<chroot, bootManifest, skip>>

\* What apt-get source does: its exit code, and what it leaves of the .dsc and
\* of the files that the .dsc declares.
Downloads == [rc : {0, 1}, dsc : BOOLEAN, files : {"good", "missing", "altered", "undeclared"}]

\* A mistake the runs must notice: the exit code and a .dsc are enough.
FetchedUnverified(d) == d.rc = 0 /\ d.dsc

\* Every file the .dsc declares is there, with its checksum and size.
Fetched(d) == d.rc = 0 /\ d.dsc /\ d.files = "good"

Fetch ==
  /\ oss = "fetch"
  /\ \E p \in SourcePackages(chroot.rows) \ DOMAIN results :
       \/ /\ p[1] \in Exclude
          /\ results' = [q \in DOMAIN results \union {p} |->
                           IF q = p THEN "excluded" ELSE results[q]]
          /\ UNCHANGED sources
       \/ /\ p[1] \notin Exclude
          /\ \E d \in Downloads :
               /\ results' = [q \in DOMAIN results \union {p} |->
                                IF q # p THEN results[q]
                                ELSE IF Fetched(d) THEN "fetched" ELSE "failed"]
               /\ sources' = sources \union
                    {<<p, IF d.dsc /\ d.files = "good" THEN "whole" ELSE "bad">>}
  /\ UNCHANGED <<chroot, manifest, bootManifest, pi, portal, skip, oss>>

\* Every pair is tried before a failure of one ends the run.
FetchesEnd ==
  /\ oss = "fetch" /\ DOMAIN results = SourcePackages(chroot.rows)
  /\ Collect(IF \E p \in DOMAIN results : results[p] = "failed" THEN "failed" ELSE "licenses")
  /\ UNCHANGED <<chroot, sources, manifest, bootManifest, pi, portal, results, skip>>

\* dpkg-query.
QueryFails ==
  /\ oss = "licenses" \/ (oss = "fetch" /\ results = <<>>)
  /\ Collect("failed")
  /\ UNCHANGED <<chroot, sources, manifest, bootManifest, pi, portal, results, skip>>

MissingCopyright == InstalledPackages(chroot.rows) \ chroot.copyright

PiLicenses ==
  /\ oss = "licenses"
  /\ pi' = pi \union (InstalledPackages(chroot.rows) \intersect chroot.copyright)
  /\ Collect(IF MissingCopyright \subseteq Allow THEN "portal" ELSE "failed")
  /\ UNCHANGED <<chroot, sources, manifest, bootManifest, portal, results, skip>>

\* The dists of one kind.
Dists(kind) == {d \in DOMAIN chroot.dists : chroot.dists[d] = kind}

\* What this chroot's dists have to give: a dist with header lines alone gets a
\* file of them and no text.
Written == {<<d, chroot.dists[d]>> : d \in Dists("text") \union Dists("header")}

\* Every dist is looked at before a file that is not there ends the run; one
\* without METADATA is passed over, and not counted.
PortalLicenses ==
  /\ oss = "portal"
  /\ portal' = portal \union Written
  /\ Collect(IF Dists("broken") = {} THEN "manifest" ELSE "failed")
  /\ UNCHANGED <<chroot, sources, manifest, bootManifest, pi, results, skip>>

Reasons ==
  (IF skip THEN {"skipped"} ELSE {})
  \union (IF Dists("none") # {} THEN {"no license text"} ELSE {})
  \union (IF ~chroot.notices THEN {"no frontend licenses"} ELSE {})
  \union (IF chroot.runtimes THEN {"python runtimes"} ELSE {})

\* write_manifest: a temporary file and a rename.
WriteManifest ==
  /\ oss = "manifest" /\ Collect("copy")
  /\ manifest' = [status |-> IF Reasons = {} THEN "OK" ELSE "INCOMPLETE", reasons |-> Reasons,
                  rows |-> results, missing |-> MissingCopyright, unlicensed |-> Dists("none")]
  /\ UNCHANGED <<chroot, sources, bootManifest, pi, portal, results, skip>>

CopyManifest ==
  /\ oss = "copy" /\ Collect("ok") /\ bootManifest' = manifest
  /\ UNCHANGED <<chroot, sources, manifest, pi, portal, results, skip>>

CollectStep ==
  \/ Refuse \/ Wipe \/ Fetch \/ FetchesEnd \/ QueryFails \/ PiLicenses \/ PortalLicenses
  \/ WriteManifest \/ CopyManifest

-----------------------------------------------------------------------------
(***************************************************************************)
(* Properties.                                                             *)
(***************************************************************************)
\* This run has wiped what earlier ones left.
Wiped == oss \notin {"start", "refused"}

\* Types.  sources/debian holds nothing but what this run tried to fetch.
OssTypeOK ==
  /\ chroot \in Chroots
  /\ sources \subseteq (AllPairs \X {"whole", "bad"})
  /\ Wiped => \A s \in sources : s[1] \in DOMAIN results
  /\ pi \subseteq UNION {InstalledPackages(c.rows) : c \in Chroots}
  /\ portal \subseteq (UNION {DOMAIN c.dists : c \in Chroots}) \X {"text", "header"}
  /\ DOMAIN results \subseteq AllPairs /\ skip \in BOOLEAN
  /\ oss \in {"start", "fetch", "licenses", "portal", "manifest", "copy", "ok", "failed",
             "refused"}

\* A MANIFEST.txt means that the run got to its end, and that its rows are
\* what is on the medium: the whole source of every installed package that is
\* not excluded, verified, and nothing else, whatever earlier runs left there
\* and however they ended.  (A run that is refused leaves all of it.)
SourcesCorrespond ==
  manifest # None /\ Wiped /\ "skipped" \notin manifest.reasons =>
    /\ DOMAIN manifest.rows = SourcePackages(chroot.rows)
    /\ sources = {<<p, "whole">> : p \in {q \in DOMAIN manifest.rows : q[1] \notin Exclude}}

\* With MANIFEST.txt the licenses are those of the packages and dists of this
\* run, and nothing that an earlier one left: the copyright of every installed
\* package but those that it lists and that were allowed; for every dist with
\* METADATA the license files or, where it has header lines alone, those, but
\* for the dists that it lists.  STATUS is OK only if it lists none, no Python
\* runtime needs a decision, and the frontend's licenses and the sources are there.
\* (It does not say that every dist has a license text: one with header lines
\* alone is not listed, and one without METADATA is in neither place.)
LicensesComplete ==
  manifest # None /\ Wiped =>
    /\ pi = InstalledPackages(chroot.rows) \ manifest.missing /\ manifest.missing \subseteq Allow
    /\ portal = Written
    /\ {w[1] : w \in portal} \union manifest.unlicensed = DOMAIN chroot.dists \ Dists("nometa")
    /\ manifest.status = "OK" =>
         manifest.unlicensed = {} /\ chroot.notices /\ ~chroot.runtimes /\ ~skip
===============================================================================
