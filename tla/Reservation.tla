----------------------------- MODULE Reservation -----------------------------
(***************************************************************************)
(* The display reservation: an flock on /run/lock/palmimo/display.lock.    *)
(* Whoever wants it first makes the directory and the file when they are   *)
(* missing, each by preparing it under another name and moving it into     *)
(* place, in a race with everyone else; /run/lock is empty after a boot.   *)
(***************************************************************************)
EXTENDS Naturals

CONSTANTS
  Procs,      \* the processes that reserve the display; a file or directory
              \* one of them made is called after it
  None

ASSUME ProcsAssumption == None \notin Procs

VARIABLES
  dir,        \* the directory at /run/lock/palmimo
  name,       \* the file display.lock names in it
  temps,      \* the other files in it: temporaries not yet removed
  owner,      \* file -> the process whose flock is on it
  fd,         \* process -> the file it has open
  pc

vars == <<dir, name, temps, owner, fd, pc>>

Goto(p, step) == pc' = [pc EXCEPT ![p] = step]

\* close(), by the context manager or by the end of the process.
Close(p) ==
  /\ owner' = [f \in Procs |-> IF owner[f] = p THEN None ELSE owner[f]]
  /\ fd' = [fd EXCEPT ![p] = None]

Begin(p) ==
  /\ pc[p] = "idle" /\ Goto(p, IF dir = None THEN "rename" ELSE "look")
  /\ UNCHANGED <<dir, name, temps, owner, fd>>

\* A mistake the runs must notice: the directory is always replaced.
RenameReplaces(p) ==
  /\ pc[p] = "rename" /\ Goto(p, "look")
  /\ dir' = p /\ name' = None /\ temps' = {}
  /\ UNCHANGED <<owner, fd>>

\* rename() replaces a directory only while it is empty; the loser's own is
\* removed.
Rename(p) ==
  /\ pc[p] = "rename" /\ Goto(p, "look")
  /\ dir' = IF dir = None \/ (name = None /\ temps = {}) THEN p ELSE dir
  /\ UNCHANGED <<name, temps, owner, fd>>

Look(p) ==
  /\ pc[p] = "look" /\ Goto(p, IF name = None THEN "make" ELSE "open")
  /\ UNCHANGED <<dir, name, temps, owner, fd>>

Make(p) ==
  /\ pc[p] = "make" /\ Goto(p, "link")
  /\ temps' = temps \union {p}
  /\ UNCHANGED <<dir, name, owner, fd>>

\* A mistake the runs must notice: the file is renamed into place.
LinkReplaces(p) ==
  /\ pc[p] = "link" /\ Goto(p, "unlink")
  /\ name' = p
  /\ UNCHANGED <<dir, temps, owner, fd>>

\* link() never replaces: FileExistsError is suppressed.
Link(p) ==
  /\ pc[p] = "link" /\ Goto(p, "unlink")
  /\ name' = IF name = None THEN p ELSE name
  /\ UNCHANGED <<dir, temps, owner, fd>>

Unlink(p) ==
  /\ pc[p] = "unlink" /\ Goto(p, "open")
  /\ temps' = temps \ {p}
  /\ UNCHANGED <<dir, name, owner, fd>>

Open(p) ==
  /\ pc[p] = "open" /\ name # None
  /\ Goto(p, "lock") /\ fd' = [fd EXCEPT ![p] = name]
  /\ UNCHANGED <<dir, name, temps, owner>>

Lock(p) ==
  /\ pc[p] = "lock" /\ owner[fd[p]] = None
  /\ Goto(p, "held") /\ owner' = [owner EXCEPT ![fd[p]] = p]
  /\ UNCHANGED <<dir, name, temps, fd>>

\* A mistake the runs must notice: BusyError leaves the file open.
BusyLeavesOpen(p) ==
  /\ pc[p] = "lock" /\ owner[fd[p]] # None
  /\ Goto(p, "idle")
  /\ UNCHANGED <<dir, name, temps, owner, fd>>

\* BusyError.
Busy(p) ==
  /\ pc[p] = "lock" /\ owner[fd[p]] # None
  /\ Goto(p, "idle") /\ Close(p)
  /\ UNCHANGED <<dir, name, temps>>

\* The reserved work is done, or has raised.
Release(p) ==
  /\ pc[p] = "held" /\ Goto(p, "idle") /\ Close(p)
  /\ UNCHANGED <<dir, name, temps>>

\* An OSError of any call but the last unlink(); a temporary is removed.
Fail(p) ==
  /\ pc[p] \notin {"idle", "held"} /\ Goto(p, "idle") /\ Close(p)
  /\ temps' = IF pc[p] \in {"link", "unlink"} THEN temps \ {p} ELSE temps
  /\ UNCHANGED <<dir, name>>

\* Killed: a temporary stays.
Kill(p) ==
  /\ pc[p] # "idle" /\ Goto(p, "idle") /\ Close(p)
  /\ UNCHANGED <<dir, name, temps>>

Init ==
  /\ dir = None /\ name = None /\ temps = {}
  /\ owner = [f \in Procs |-> None]
  /\ fd = [p \in Procs |-> None]
  /\ pc = [p \in Procs |-> "idle"]

Reboot ==
  /\ dir' = None /\ name' = None /\ temps' = {}
  /\ owner' = [f \in Procs |-> None]
  /\ fd' = [p \in Procs |-> None]
  /\ pc' = [p \in Procs |-> "idle"]

Step(p) ==
  \/ Begin(p) \/ Rename(p) \/ Look(p) \/ Make(p) \/ Link(p) \/ Unlink(p)
  \/ Open(p) \/ Lock(p) \/ Busy(p) \/ Release(p)
  \/ Fail(p) \/ Kill(p)

Next == Reboot \/ \E p \in Procs : Step(p)

Spec == Init /\ [][Next]_vars

(***************************************************************************)
(* Properties.                                                             *)
(***************************************************************************)
Steps == {"idle", "rename", "look", "make", "link", "unlink", "open", "lock", "held"}

\* Types.  A file is open exactly while its process locks or holds it, and a flock
\* is that of a holder on the file it has open: nothing of an attempt that
\* ended, however it did, is in the way of the next.
TypeOK ==
  /\ dir \in Procs \union {None} /\ name \in Procs \union {None}
  /\ temps \subseteq Procs
  /\ owner \in [Procs -> Procs \union {None}]
  /\ fd \in [Procs -> Procs \union {None}]
  /\ pc \in [Procs -> Steps]
  /\ \A p \in Procs : fd[p] # None <=> pc[p] \in {"lock", "held"}
  /\ \A f \in Procs : owner[f] # None => pc[owner[f]] = "held" /\ fd[owner[f]] = f

\* Two processes never use the display at once, also when they created the
\* directory and the file in a race (README "The tool reserves the display").
Exclusive == \A p, q \in Procs : pc[p] = "held" /\ pc[q] = "held" => p = q

\* A file that is open is the one display.lock names, so that a newcomer
\* meets its lock; the file is never left behind in a replaced directory.
OpenIsNamed == \A p \in Procs : fd[p] # None => fd[p] = name /\ dir # None
==============================================================================
