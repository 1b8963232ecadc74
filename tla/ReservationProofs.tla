-------------------------- MODULE ReservationProofs --------------------------
(***************************************************************************)
(* Mutual exclusion by the display reservation, for any number of          *)
(* processes.                                                              *)
(***************************************************************************)
EXTENDS Reservation, TLAPS

\* Who has come past the directory has one.
Place == \A p \in Procs : pc[p] \notin {"idle", "rename"} => dir # None

\* Whoever reserved the display has the lock on the file it has open.
Holding == \A p \in Procs : pc[p] = "held" => owner[fd[p]] = p

IInv == TypeOK /\ Place /\ OpenIsNamed /\ Holding

\* The invariant holds at the start and after a boot.
LEMMA Initially == Init => IInv
  BY ProcsAssumption DEF Init, IInv, TypeOK, Place, OpenIsNamed, Holding, Steps

\* Every step keeps the types.
LEMMA Types == ASSUME IInv, NEW p \in Procs, Step(p) PROVE TypeOK'
  <1> USE DEF IInv, TypeOK, Goto, Close, Steps
  <1>1. CASE Begin(p)
    BY <1>1 DEF Begin
  <1>2. CASE Rename(p)
    BY <1>2 DEF Rename
  <1>3. CASE Look(p)
    BY <1>3 DEF Look
  <1>4. CASE Make(p)
    BY <1>4 DEF Make
  <1>5. CASE Link(p)
    BY <1>5 DEF Link
  <1>6. CASE Unlink(p)
    BY <1>6 DEF Unlink
  <1>7. CASE Open(p)
    BY <1>7 DEF Open
  <1>8. CASE Lock(p)
    BY <1>8 DEF Lock
  <1>9. CASE Busy(p)
    BY <1>9 DEF Busy
  <1>10. CASE Release(p)
    BY <1>10 DEF Release
  <1>11. CASE Fail(p)
    BY <1>11 DEF Fail
  <1>12. CASE Kill(p)
    BY <1>12 DEF Kill
  <1> QED
    BY <1>1, <1>2, <1>3, <1>4, <1>5, <1>6, <1>7, <1>8, <1>9, <1>10, <1>11, <1>12 DEF Step

\* Every step of a process keeps the rest: only link() names a file, and only
\* while no one has one open.
LEMMA Locks ==
  ASSUME IInv, NEW p \in Procs, Step(p) PROVE (Place /\ OpenIsNamed /\ Holding)'
  <1> USE ProcsAssumption DEF IInv, TypeOK, Goto, Close, Steps, Place, OpenIsNamed, Holding
  <1>1. CASE Begin(p)
    BY <1>1 DEF Begin
  <1>2. CASE Rename(p)
    BY <1>2 DEF Rename
  <1>3. CASE Look(p)
    BY <1>3 DEF Look
  <1>4. CASE Make(p)
    BY <1>4 DEF Make
  <1>5. CASE Link(p)
    BY <1>5 DEF Link
  <1>6. CASE Unlink(p)
    BY <1>6 DEF Unlink
  <1>7. CASE Open(p)
    BY <1>7 DEF Open
  <1>8. CASE Lock(p)
    BY <1>8 DEF Lock
  <1>9. CASE Busy(p)
    BY <1>9 DEF Busy
  <1>10. CASE Release(p)
    BY <1>10 DEF Release
  <1>11. CASE Fail(p)
    BY <1>11 DEF Fail
  <1>12. CASE Kill(p)
    BY <1>12 DEF Kill
  <1> QED
    BY <1>1, <1>2, <1>3, <1>4, <1>5, <1>6, <1>7, <1>8, <1>9, <1>10, <1>11, <1>12 DEF Step

\* The invariant is inductive.
LEMMA Inductive == IInv /\ [Next]_vars => IInv'
  <1> SUFFICES ASSUME IInv, [Next]_vars PROVE IInv'
    OBVIOUS
  <1>1. ASSUME NEW p \in Procs, Step(p) PROVE IInv'
    BY <1>1, Types, Locks DEF IInv
  <1>2. CASE Reboot
    BY <1>2, ProcsAssumption DEF Reboot, IInv, TypeOK, Place, OpenIsNamed, Holding, Steps
  <1>3. CASE UNCHANGED vars
    BY <1>3 DEF vars, IInv, TypeOK, Place, OpenIsNamed, Holding
  <1> QED
    BY <1>1, <1>2, <1>3 DEF Next

\* The display is reserved by one process at a time, however the creation of
\* the directory and the lock file interleaves, for any number of processes
\* (reservation(): a hard link into place, then flock).
THEOREM MutualExclusion == Spec => []Exclusive
  <1>1. IInv => Exclusive
    <2> SUFFICES ASSUME IInv, NEW p \in Procs, NEW q \in Procs,
                        pc[p] = "held", pc[q] = "held"
                 PROVE  p = q
      BY DEF Exclusive
    <2>1. fd[p] = name /\ fd[q] = name
      BY DEF IInv, TypeOK, OpenIsNamed
    <2>2. owner[name] = p /\ owner[name] = q
      BY <2>1 DEF IInv, Holding
    <2> QED
      BY <2>2
  <1> QED
    BY <1>1, Initially, Inductive, PTL DEF Spec

\* Every variable keeps its type, for any number of processes.
THEOREM TypeCorrect == Spec => []TypeOK
  <1>1. IInv => TypeOK
    BY DEF IInv
  <1> QED
    BY <1>1, Initially, Inductive, PTL DEF Spec

\* Every open lock file is the one a newcomer will open.
THEOREM NoStaleFile == Spec => []OpenIsNamed
  <1>1. IInv => OpenIsNamed
    BY DEF IInv
  <1> QED
    BY <1>1, Initially, Inductive, PTL DEF Spec
==============================================================================
