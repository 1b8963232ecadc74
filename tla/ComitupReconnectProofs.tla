------------------------ MODULE ComitupReconnectProofs ------------------------
(***************************************************************************)
(* What ComitupReconnect keeps, for every set of networks: the types, the  *)
(* order of the attempts, the live connection and the access point.        *)
(***************************************************************************)
EXTENDS ComitupReconnect, TLAPS, FiniteSetTheorems, SequenceTheorems,
        WellFoundedInduction

(***************************************************************************)
(* Sorting.  A set of networks that could not be put in order would have   *)
(* a smallest subset that cannot; it is not empty, and has a last network. *)
(***************************************************************************)
\* A family of sets of networks that is not empty has a smallest one.
LEMMA Smallest ==
  ASSUME NEW F, F \subseteq SUBSET Networks, F # {}
  PROVE  \E S \in F : \A T \in F : T \subseteq S => T = S
  <1>1. FiniteSubsetsOf(Networks) = SUBSET Networks
    BY ConstantsAssumption, FS_FiniteSubsetsOfFinite
  <1>2. IsWellFoundedOn(StrictSubsetOrdering(Networks), SUBSET Networks)
    BY <1>1, FS_StrictSubsetOrderingWellFounded
  <1>3. PICK S \in F : \A T \in F : <<T, S>> \notin StrictSubsetOrdering(Networks)
    BY <1>2, WFMin
  <1>4. ASSUME NEW T \in F, T \subseteq S, T # S PROVE FALSE
    <2>1. <<T, S>> \in (SUBSET Networks) \X (SUBSET Networks)
      BY <1>4
    <2>2. <<T, S>> \in StrictSubsetOrdering(Networks)
      BY <1>4, <2>1 DEF StrictSubsetOrdering
    <2> QED
      BY <1>3, <2>2
  <1> QED
    BY <1>3, <1>4

\* One network comes last.
LEMMA LastOne ==
  ASSUME NEW read \in [Networks -> {0, 1}], NEW S \in SUBSET Networks, S # {}
  PROVE  \E m \in S : \A n \in S \ {m} : Before(read, n, m)
  <1> DEFINE F == {T \in SUBSET Networks : T # {} /\ ~ \E m \in T : \A n \in T \ {m} : Before(read, n, m)}
  <1> SUFFICES F = {}
    OBVIOUS
  <1> SUFFICES ASSUME F # {} PROVE FALSE
    OBVIOUS
  <1>1. PICK T \in F : \A R \in F : R \subseteq T => R = T
    <2>1. F \subseteq SUBSET Networks
      OBVIOUS
    <2> HIDE DEF F
    <2> QED
      BY <2>1, Smallest
  <1>2. PICK x \in T : TRUE
    OBVIOUS
  <1>3. CASE T \ {x} = {}
    BY <1>2, <1>3
  <1>4. CASE T \ {x} # {}
    <2>1. T \ {x} \notin F
      BY <1>1, <1>2
    <2>2. PICK m \in T \ {x} : \A n \in (T \ {x}) \ {m} : Before(read, n, m)
      BY <1>4, <2>1
    <2>3. T \subseteq Nat /\ T \subseteq Networks
      BY ConstantsAssumption
    <2>4. Before(read, x, m) \/ Before(read, m, x)
      BY <1>2, <2>2, <2>3 DEF Before
    <2>5. CASE Before(read, x, m)
      BY <2>2, <2>5
    <2>6. CASE Before(read, m, x)
      <3>1. \A n \in T \ {x} : Before(read, n, x)
        BY <1>2, <2>2, <2>3, <2>6 DEF Before
      <3> QED
        BY <1>2, <3>1
    <2> QED
      BY <2>4, <2>5, <2>6
  <1> QED
    BY <1>3, <1>4

\* Every set of networks has an order.
LEMMA SortedExists ==
  ASSUME NEW read \in [Networks -> {0, 1}], NEW S \in SUBSET Networks
  PROVE  \E s \in [1..Cardinality(S) -> Networks] : Sorts(s, S, read)
  <1> DEFINE F == {T \in SUBSET Networks :
                     ~ \E s \in [1..Cardinality(T) -> Networks] : Sorts(s, T, read)}
  <1> SUFFICES F = {}
    OBVIOUS
  <1> SUFFICES ASSUME F # {} PROVE FALSE
    OBVIOUS
  <1>1. PICK T \in F : \A R \in F : R \subseteq T => R = T
    <2>1. F \subseteq SUBSET Networks
      OBVIOUS
    <2> HIDE DEF F
    <2> QED
      BY <2>1, Smallest
  <1>2. IsFiniteSet(T)
    BY ConstantsAssumption, FS_Subset
  <1>3. CASE T = {}
    <2> DEFINE s == [i \in 1..0 |-> 0]
    <2>1. Cardinality(T) = 0
      BY <1>3, FS_EmptySet
    <2>2. s \in [1..0 -> Networks] /\ Sorts(s, T, read)
      BY <1>3 DEF Sorts, ToSet
    <2> QED
      BY <2>1, <2>2
  <1>4. CASE T # {}
    <2>1. PICK m \in T : \A n \in T \ {m} : Before(read, n, m)
      BY <1>4, LastOne
    <2> DEFINE R == T \ {m}
               k == Cardinality(R)
    <2>2. /\ IsFiniteSet(R) /\ k \in Nat /\ Cardinality(T) = k + 1
      <3>1. IsFiniteSet(R) /\ k = Cardinality(T) - 1
        BY <1>2, <2>1, FS_RemoveElement
      <3>2. Cardinality(T) \in Nat /\ k \in Nat
        BY <1>2, <3>1, FS_CardinalityType
      <3> QED
        BY <3>1, <3>2
    <2>3. R \notin F
      BY <1>1, <2>1
    <2>4. PICK s \in [1..k -> Networks] : Sorts(s, R, read)
      BY <2>3
    <2>11. k \in Nat
      BY <2>2
    <2> HIDE DEF k
    <2> DEFINE t == [i \in 1..(k + 1) |-> IF i <= k THEN s[i] ELSE m]
    <2>5. t \in [1..(k + 1) -> Networks]
      <3>1. \A i \in 1..(k + 1) : i <= k => i \in 1..k
        BY <2>11
      <3> QED
        BY <2>1, <3>1
    <2>6. \A i \in 1..k : t[i] = s[i] /\ s[i] \in R
      <3>1. \A i \in 1..k : i \in 1..(k + 1) /\ i <= k
        BY <2>11
      <3>2. \A i \in 1..k : s[i] \in ToSet(s)
        BY DEF ToSet
      <3> QED
        BY <2>4, <3>1, <3>2 DEF Sorts
    <2>7. t[k + 1] = m
      BY <2>2
    <2>8. ToSet(t) = T
      <3>1. \A n \in R : \E i \in 1..k : s[i] = n
        BY <2>4 DEF Sorts, ToSet
      <3>2. DOMAIN t = 1..(k + 1) /\ 1..(k + 1) = 1..k \union {k + 1}
        BY <2>2
      <3> HIDE DEF t, k
      <3> QED
        BY <2>1, <2>6, <2>7, <3>1, <3>2 DEF ToSet
    <2>9. \A i, j \in 1..(k + 1) : i < j => Before(read, t[i], t[j])
      <3> SUFFICES ASSUME NEW i \in 1..(k + 1), NEW j \in 1..(k + 1), i < j
                   PROVE  Before(read, t[i], t[j])
        OBVIOUS
      <3>1. i \in 1..k /\ (j \in 1..k \/ j = k + 1)
        BY <2>11
      <3>2. CASE j \in 1..k
        BY <2>4, <2>6, <3>1, <3>2 DEF Sorts
      <3>3. CASE j = k + 1
        BY <2>1, <2>6, <2>7, <3>1, <3>3
      <3> QED
        BY <3>1, <3>2, <3>3
    <2>10. Sorts(t, T, read)
      <3>1. DOMAIN t = 1..(k + 1)
        OBVIOUS
      <3> HIDE DEF t, k
      <3> QED
        BY <2>8, <2>9, <3>1 DEF Sorts
    <2> QED
      BY <2>2, <2>5, <2>10
  <1> QED
    BY <1>3, <1>4

\* What Ordered returns.
LEMMA Ordering ==
  ASSUME NEW read \in [Networks -> {0, 1}], NEW S \in SUBSET Networks
  PROVE  Ordered(S, read) \in Lists /\ Sorts(Ordered(S, read), S, read)
  <1>1. PICK s \in [1..Cardinality(S) -> Networks] : Sorts(s, S, read)
    BY SortedExists
  <1>2. Cardinality(S) \in 0..Cardinality(Networks)
    <2>1. IsFiniteSet(S) /\ Cardinality(S) <= Cardinality(Networks)
      BY ConstantsAssumption, FS_Subset
    <2>2. Cardinality(S) \in Nat /\ Cardinality(Networks) \in Nat
      BY ConstantsAssumption, <2>1, FS_CardinalityType
    <2> QED
      BY <2>1, <2>2
  <1>3. s \in Lists
    BY <1>2 DEF Lists
  <1> QED
    BY <1>1, <1>3 DEF Ordered

(***************************************************************************)
(* The candidates of a decision.                                           *)
(***************************************************************************)
\* What a decision works on.
Readable(d) ==
  d.read \in [Networks -> {0, 1}] /\ d.candidates \subseteq Networks /\ d.passing \subseteq Networks

\* What it returns: in the order of the priorities it read, and no network that
\* nothing spoke for.
Sound(d, x) ==
  /\ x.list \in Lists
  /\ \A i, j \in DOMAIN x.list : i < j => d.read[x.list[i]] >= d.read[x.list[j]]
  /\ ToSet(x.list) \subseteq x.heard /\ x.heard \subseteq Networks /\ x.slip \in BOOLEAN

\* What a decision keeps of its candidates is such a list.
LEMMA Kept ==
  ASSUME NEW d, Readable(d), NEW names \in SUBSET Networks, NEW slip \in BOOLEAN
  PROVE  /\ Sound(d, Decision(d, names, slip))
         /\ ToSet(Decision(d, names, slip).list) = d.candidates \intersect names
  <1> DEFINE list == Keep(d, names)
  <1>1. list \in Lists /\ Sorts(list, d.candidates \intersect names, d.read)
    BY Ordering DEF Keep, Readable
  <1>2. \A i \in DOMAIN list : list[i] \in Networks
    BY <1>1 DEF Sorts, ToSet
  <1>3. \A a, b \in Networks : Before(d.read, a, b) => d.read[a] >= d.read[b]
    BY DEF Before, Readable
  <1>4. Decision(d, names, slip) = [list |-> list, heard |-> names, slip |-> slip]
    BY DEF Decision
  <1> HIDE DEF list
  <1>5. \A i, j \in DOMAIN list : i < j => d.read[list[i]] >= d.read[list[j]]
    BY <1>1, <1>2, <1>3 DEF Sorts
  <1>6. ToSet(list) = d.candidates \intersect names
    BY <1>1 DEF Sorts
  <1> QED
    BY <1>1, <1>4, <1>5, <1>6 DEF Sound

\* The scans and the filter.
LEMMA FilteredIsSound ==
  ASSUME NEW d, Readable(d), NEW x \in Filtered(d)
  PROVE  Sound(d, x)
  <1>1. \A seen \in Reports : seen \union d.passing \in SUBSET Networks /\ Errs(seen) \in BOOLEAN
    <2>1. \A seen \in Reports : seen \union d.passing \in SUBSET Networks
      BY DEF Reports, Readable
    <2>2. \A seen : Errs(seen) \in BOOLEAN
      BY DEF Errs
    <2> QED
      BY <2>1, <2>2
  <1>2. \E names \in SUBSET Networks, slip \in BOOLEAN : x = Decision(d, names, slip)
    <2> DEFINE First(seen) == Decision(d, seen \union d.passing, Errs(seen))
               Result(seen) ==
                 {First(seen)} \union
                   (IF Keep(d, seen \union d.passing) = <<>> /\ \E s \in 1..Budget : Retries(s)
                    THEN SecondScan(d, seen) ELSE {})
    <2>1. Filtered(d) = {Decision(d, Networks, TRUE)} \union UNION {Result(seen) : seen \in Reports}
      BY DEF Filtered
    <2>2. CASE x = Decision(d, Networks, TRUE)
      BY <2>2
    <2>3. ASSUME NEW seen \in Reports, x \in Result(seen)
          PROVE  \E names \in SUBSET Networks, slip \in BOOLEAN : x = Decision(d, names, slip)
      <3>1. CASE x = First(seen)
        BY <1>1, <3>1
      <3>2. CASE x \in SecondScan(d, seen)
        BY <1>1, <3>2 DEF SecondScan
      <3> QED
        BY <2>3, <3>1, <3>2
    <2> HIDE DEF Result
    <2> QED
      BY <2>1, <2>2, <2>3
  <1> QED
    BY <1>2, Kept

\* What a lookup returns; one that was not requested, every candidate.
LEMMA LookupIsSound ==
  ASSUME NEW d, Readable(d), NEW requested \in BOOLEAN, NEW x \in Lookup(requested, d)
  PROVE  Sound(d, x) /\ (~requested => ToSet(x.list) = d.candidates)
  <1>1. CASE x \in Filtered(d) /\ requested
    BY <1>1, FilteredIsSound
  <1>2. CASE x = Decision(d, Networks, FALSE)
    <2>1. d.candidates \intersect Networks = d.candidates
      BY DEF Readable
    <2> QED
      BY <1>2, <2>1, Kept
  <1> QED
    BY <1>1, <1>2 DEF Lookup

\* The decision under way can be worked on.
LEMMA ReadableTyped ==
  ASSUME TypeOK, NEW d \in deciding
  PROVE  Readable(d) /\ d \in Decisions
  BY DEF TypeOK, Decisions, Priorities, Readable

\* What EnterConnecting looks up can be, too.
LEMMA ReadableNow ==
  ASSUME TypeOK, NEW passing \in SUBSET Exempt
  PROVE  Readable([read |-> prio, candidates |-> saved, passing |-> passing])
  BY ConstantsAssumption DEF TypeOK, Priorities, Exempt, Readable

\* What is read before the scan, and that it can be worked on.
LEMMA ReadingTyped ==
  ASSUME TypeOK, NEW fn \in {"pass", "timeout"}, Reading(fn)
  PROVE  /\ deciding' \subseteq Decisions /\ stale' \subseteq Networks
         /\ \A d \in deciding' : d.fn = fn /\ \A n \in Networks \ stale' : d.read[n] = prio[n]
         /\ faults' \in 0..MaxFaults
  <1>1. PICK read \in Priorities, passing \in SUBSET Exempt :
          /\ deciding' = {[fn |-> fn, read |-> read, candidates |-> saved, passing |-> passing]}
          /\ stale' = {n \in Networks : read[n] # prio[n]}
          /\ IF read = prio /\ passing = Exempt THEN NoFault ELSE Fault
    BY DEF Reading
  <1>2. passing \subseteq Networks
    BY ConstantsAssumption DEF Exempt
  <1>3. deciding' \subseteq Decisions
    BY <1>1, <1>2 DEF Decisions, TypeOK
  <1>4. faults' \in 0..MaxFaults
    BY <1>1, ConstantsAssumption DEF Fault, NoFault, TypeOK
  <1> QED
    BY <1>1, <1>3, <1>4

(***************************************************************************)
(* The types.                                                              *)
(***************************************************************************)
EventTypes == [fn : {"pass", "fail", "timeout"}, current : BOOLEAN]

\* Callbacks of a state that was left are not current any more.
LEMMA OldEventsAreOld ==
  ASSUME events \subseteq EventTypes
  PROVE  OldEvents \subseteq EventTypes /\ \A fn \in {"pass", "fail", "timeout"} : Event(fn) \notin OldEvents
  BY DEF OldEvents, Event, EventTypes

\* What the state machine fires.
LEMMA EventTyped == \A fn \in {"pass", "fail", "timeout"} : Event(fn) \in EventTypes
  BY DEF Event, EventTypes

\* The lists of networks.
LEMMA ListType ==
  /\ <<>> \in Lists
  /\ \A list \in Lists : /\ list \in Seq(Networks) /\ Len(list) \in 0..Cardinality(Networks)
                         /\ ToSet(list) \subseteq Networks
                         /\ list # <<>> => Tail(list) \in Lists /\ Head(list) \in Networks
  <1>1. Cardinality(Networks) \in Nat
    BY ConstantsAssumption, FS_CardinalityType
  <1>2. \A list : list \in Lists <=> list \in Seq(Networks) /\ Len(list) \in 0..Cardinality(Networks)
    BY <1>1 DEF Lists
  <1>3. <<>> \in Lists
    <2>1. <<>> \in Seq(Networks) /\ Len(<<>>) = 0
      OBVIOUS
    <2>2. 0 \in 0..Cardinality(Networks)
      BY <1>1
    <2> HIDE <1>1
    <2> QED
      BY <1>2, <2>1, <2>2
  <1>4. ASSUME NEW list \in Lists
        PROVE  /\ list \in Seq(Networks) /\ Len(list) \in 0..Cardinality(Networks)
               /\ ToSet(list) \subseteq Networks
               /\ list # <<>> => Tail(list) \in Lists /\ Head(list) \in Networks
    <2>1. list \in Seq(Networks) /\ Len(list) \in 0..Cardinality(Networks)
      BY <1>2, <1>4
    <2>2. ToSet(list) \subseteq Networks
      BY <2>1 DEF ToSet
    <2>3. ASSUME list # <<>> PROVE Tail(list) \in Lists /\ Head(list) \in Networks
      <3>1. Tail(list) \in Seq(Networks) /\ Len(Tail(list)) = Len(list) - 1 /\ Len(list) # 0
            /\ Head(list) \in Networks
        BY <2>1, <2>3
      <3>2. Len(Tail(list)) \in 0..Cardinality(Networks)
        BY <1>1, <2>1, <3>1
      <3> QED
        BY <1>2, <3>1, <3>2
    <2> QED
      BY <2>1, <2>2, <2>3
  <1> QED
    BY <1>3, <1>4

\* Asking for a transition, and the first of several that were asked for.
LEMMA AskType ==
  ASSUME queue \in Seq(Transitions), NEW st \in {"HOTSPOT", "CONNECTING", "CONNECTED"},
         NEW list \in Lists
  PROVE  /\ Append(queue, [state |-> st, list |-> list]) \in Seq(Transitions)
         /\ queue # <<>> => /\ Tail(queue) \in Seq(Transitions) /\ Head(queue).list \in Lists
                            /\ Tail(queue) \o <<[state |-> st, list |-> list]>> \in Seq(Transitions)
  <1>1. [state |-> st, list |-> list] \in Transitions
    BY DEF Transitions
  <1>2. ASSUME queue # <<>>
        PROVE  /\ Tail(queue) \in Seq(Transitions) /\ Head(queue).list \in Lists
               /\ Tail(queue) \o <<[state |-> st, list |-> list]>> \in Seq(Transitions)
    <2>1. Tail(queue) \in Seq(Transitions) /\ Head(queue) \in Transitions
      BY <1>2
    <2>2. <<[state |-> st, list |-> list]>> \in Seq(Transitions)
      BY <1>1
    <2> QED
      BY <2>1, <2>2, ConcatProperties DEF Transitions
  <1> QED
    BY <1>1, <1>2

\* Every step keeps the types.
LEMMA TypeStep ==
  ASSUME TypeOK, Next
  PROVE  TypeOK'
  <1> USE ListType, EventTyped DEF TypeOK, EventTypes, memory, Idle
  <1>0. prio \in [Networks -> {0, 1}] /\ saved \subseteq Networks /\ flag \in BOOLEAN
        /\ startup \in BOOLEAN
    BY DEF Priorities
  <1>15. (Fault \/ NoFault) => faults' \in 0..MaxFaults
    BY ConstantsAssumption DEF Fault, NoFault
  <1>1. CASE Past
    BY <1>1, <1>15 DEF Past, world
  <1>2. CASE HotspotPass
    <2>1. /\ deciding' \subseteq Decisions /\ stale' \subseteq Networks /\ faults' \in 0..MaxFaults
      BY <1>2, <1>15, ReadingTyped DEF HotspotPass
    <2>2. state' = "HOTSPOT" /\ state = "HOTSPOT"
      BY <1>2 DEF HotspotPass
    <2>3. pass' \in BOOLEAN /\ flag' \in BOOLEAN /\ events' \subseteq EventTypes
      BY <1>2 DEF HotspotPass
    <2> QED
      BY <1>2, <2>1, <2>2, <2>3 DEF HotspotPass, world
  <1>3. CASE HotspotTimeout
    <2>1. /\ deciding' \subseteq Decisions /\ stale' \subseteq Networks /\ faults' \in 0..MaxFaults
      BY <1>3, <1>15, ReadingTyped DEF HotspotTimeout
    <2>2. state' = "HOTSPOT" /\ state = "HOTSPOT"
      BY <1>3 DEF HotspotTimeout
    <2> QED
      BY <1>3, <2>1, <2>2 DEF HotspotTimeout, world
  <1>16. CASE Decide
    <2>0. PICK d \in deciding : \E x \in Lookup(TRUE, d) :
            /\ IF x.slip THEN Fault ELSE NoFault
            /\ IF d.fn = "pass" \/ x.list # <<>>
               THEN heard' = x.heard /\ Ask("CONNECTING", x.list) ELSE UNCHANGED <<heard, queue>>
            /\ IF d.fn = "pass" THEN owed' = ToSet(x.list) /\ startup' = FALSE
                               ELSE UNCHANGED <<owed, startup>>
      BY <1>16 DEF Decide
    <2>1. PICK x \in Lookup(TRUE, d) :
            /\ IF x.slip THEN Fault ELSE NoFault
            /\ IF d.fn = "pass" \/ x.list # <<>>
               THEN heard' = x.heard /\ Ask("CONNECTING", x.list) ELSE UNCHANGED <<heard, queue>>
            /\ IF d.fn = "pass" THEN owed' = ToSet(x.list) /\ startup' = FALSE
                               ELSE UNCHANGED <<owed, startup>>
      BY <2>0
    <2>2. Sound(d, x)
      BY <2>1, LookupIsSound, ReadableTyped
    <2>3. queue' \in Seq(Transitions) /\ owed' \subseteq Networks /\ heard' \subseteq Networks
          /\ startup' \in BOOLEAN
      BY <2>1, <2>2, AskType DEF Sound, Ask
    <2>4. faults' \in 0..MaxFaults
      BY <1>15, <2>1, <2>2 DEF Sound
    <2> QED
      BY <1>16, <2>3, <2>4 DEF Decide, world, Idle
  <1>4. CASE HotspotFail
    BY <1>4, AskType DEF HotspotFail, world, Ask
  <1>5. CASE EnterHotspot
    <2>1. faults' \in 0..MaxFaults /\ group' \in {"none", "live", "stale"}
      BY <1>5, <1>15 DEF EnterHotspot, ClearEntries
    <2>2. queue' \in Seq(Transitions) /\ state' = "HOTSPOT" /\ pass' = FALSE
      BY <1>5, AskType DEF EnterHotspot, Take
    <2>3. events' \subseteq EventTypes /\ ap' \in BOOLEAN /\ active' \in Networks \union {None}
      BY <1>5, OldEventsAreOld DEF EnterHotspot
    <2> QED
      BY <1>5, <2>1, <2>2, <2>3 DEF EnterHotspot, world
  <1>6. CASE EnterConnecting
    <2>1. /\ \/ /\ queue' = Tail(queue) \o <<[state |-> "CONNECTED", list |-> <<>>]>>
                /\ trying' = <<>> /\ owed' = {} /\ UNCHANGED active
             \/ /\ active' = None /\ trying' = Head(queue).list /\ UNCHANGED owed
                /\ queue' = IF Head(queue).list # <<>> THEN Tail(queue)
                            ELSE Tail(queue) \o <<[state |-> "HOTSPOT", list |-> <<>>]>>
          /\ faults' \in 0..MaxFaults
      <3>1. PICK passing \in SUBSET Exempt :
              \E x \in Lookup(flag, [read |-> prio, candidates |-> saved, passing |-> passing]) :
                /\ IF x.slip THEN Fault ELSE NoFault
                /\ IF active \in ToSet(x.list)
                   THEN /\ queue' = Tail(queue) \o <<[state |-> "CONNECTED", list |-> <<>>]>>
                        /\ trying' = <<>> /\ owed' = {} /\ UNCHANGED active
                   ELSE /\ active' = None /\ trying' = Head(queue).list /\ UNCHANGED owed
                        /\ queue' = IF Head(queue).list # <<>> THEN Tail(queue)
                                    ELSE Tail(queue) \o <<[state |-> "HOTSPOT", list |-> <<>>]>>
        BY <1>6 DEF EnterConnecting
      <3>2. \A x \in Lookup(flag, [read |-> prio, candidates |-> saved, passing |-> passing]) :
              x.slip \in BOOLEAN
        BY <1>0, LookupIsSound, ReadableNow DEF Sound
      <3> QED
        BY <1>15, <3>1, <3>2
    <2>3. queue # <<>> /\ state' = "CONNECTING" /\ pass' = FALSE /\ deciding = {}
      BY <1>6 DEF EnterConnecting, Take
    <2>4. queue' \in Seq(Transitions) /\ trying' \in Lists /\ owed' \subseteq Networks
          /\ active' \in Networks \union {None}
      BY <2>1, <2>3, AskType
    <2>5. faults' \in 0..MaxFaults
      BY <2>1
    <2> QED
      BY <1>6, <2>3, <2>4, <2>5, OldEventsAreOld DEF EnterConnecting
  <1>7. CASE EnterConnected
    BY <1>7, AskType, OldEventsAreOld, ZenonT(60) DEF EnterConnected, Take, world
  <1>8. CASE Attempt
    <2>1. queue' \in Seq(Transitions) /\ trying' \in Lists /\ active' \in Networks \union {None}
      BY <1>8, AskType DEF Attempt, Ask
    <2>2. owed' \subseteq Networks /\ faults' \in 0..MaxFaults
      BY <1>8, <1>15 DEF Attempt
    <2> QED
      BY <1>8, <2>1, <2>2 DEF Attempt, world
  <1>9. CASE Lost
    BY <1>9, AskType DEF Lost, Ask, world
  <1>10. CASE Lose \/ Signal
    BY <1>10 DEF Lose, Signal, world
  <1>11. CASE ApFails
    BY <1>11, <1>15 DEF ApFails
  <1>12. CASE Autoconnect \/ Move \/ Clients
    BY <1>12 DEF Autoconnect, Move, Clients, world
  <1>13. CASE Portal
    BY <1>13, <1>15 DEF Portal
  <1>14. CASE Restart
    <2>1. queue' \in Seq(Transitions)
      BY <1>14 DEF Restart, Fresh, Transitions
    <2> QED
      BY <1>14, <1>15, <2>1 DEF Restart, Fresh
  <1> QED
    BY <1>1, <1>2, <1>3, <1>4, <1>5, <1>6, <1>7, <1>8, <1>9, <1>10, <1>11, <1>12, <1>13, <1>14,
       <1>16 DEF Next, Comitup

(***************************************************************************)
(* The states: what may be asked for, what is due, what is up.             *)
(***************************************************************************)
OnlyHotspot == \A k \in DOMAIN queue : queue[k].state = "HOTSPOT"
Asked(st) == Len(queue) = 1 /\ queue[1].state = st

\* A failure of the access point may ask for HOTSPOT more than once, but nothing
\* is asked for beside a decision to connect, and nothing while it is taken.  The
\* startup hotspot waits for its pass alone; only there, and after its pass, may
\* a network still be connected.
InHotspot == state = "HOTSPOT" =>
  /\ \/ OnlyHotspot
     \/ Asked("CONNECTING") /\ ~startup /\ (pass \/ (~residual /\ Event("fail") \notin events))
  /\ startup => /\ ~ap /\ Len(queue) <= 1 /\ Event("timeout") \notin events
                /\ Event("pass") \in events => queue = <<>>
                /\ pass => ~Idle
  /\ pass => ~ap /\ Event("timeout") \notin events /\ (Asked("CONNECTING") \/ ~Idle)
  /\ \A d \in deciding :
       /\ queue = <<>>
       /\ d.fn = "pass" => startup /\ pass
       /\ d.fn = "timeout" => ~startup /\ ~pass /\ ~residual /\ Event("fail") \notin events
  /\ ~startup /\ ~pass => active = None

\* While networks are tried nothing is asked for and none is connected; then one
\* transition is.
InConnecting == state = "CONNECTING" =>
  /\ ~startup /\ ~ap /\ ~pass
  /\ trying = <<>> => Asked("HOTSPOT") \/ Asked("CONNECTED")
  /\ trying # <<>> => queue = <<>> /\ active = None
  /\ Asked("HOTSPOT") => active = None

InConnected == state = "CONNECTED" =>
  startup /\ ~ap /\ ~pass /\ OnlyHotspot /\ Len(queue) <= 1

Elsewhere ==
  /\ state # "HOTSPOT" => Event("fail") \notin events
  /\ state # "CONNECTING" => trying = <<>>
  /\ ~flag

Control == InHotspot /\ InConnecting /\ InConnected /\ Elsewhere

\* Asking when nothing is asked for, and taking the only transition.
LEMMA OneTransition ==
  ASSUME queue \in Seq(Transitions), NEW r \in Transitions
  PROVE  /\ queue = <<>> => Len(Append(queue, r)) = 1 /\ Append(queue, r)[1] = r
         /\ Len(queue) = 1 => /\ queue # <<>> /\ Tail(queue) = <<>> /\ Head(queue) = queue[1]
                              /\ Tail(queue) \o <<r>> = <<r>>
  <1>1. ASSUME queue = <<>> PROVE Len(Append(queue, r)) = 1 /\ Append(queue, r)[1] = r
    BY <1>1
  <1>2. ASSUME Len(queue) = 1
        PROVE  /\ queue # <<>> /\ Tail(queue) = <<>> /\ Head(queue) = queue[1]
               /\ Tail(queue) \o <<r>> = <<r>>
    <2>0. queue # <<>>
      BY <1>2, EmptySeq
    <2>1. queue # <<>> /\ Head(queue) = queue[1]
      BY <2>0, HeadTailProperties
    <2>2. Tail(queue) \in Seq(Transitions) /\ Len(Tail(queue)) = 0
      BY <1>2, <2>1
    <2>3. Tail(queue) = <<>>
      BY <2>2, EmptySeq
    <2>4. <<r>> \in Seq(Transitions)
      OBVIOUS
    <2> QED
      BY <2>1, <2>3, <2>4, ConcatEmptySeq
  <1> QED
    BY <1>1, <1>2

\* Transitions that are all to HOTSPOT.
LEMMA HotspotOnly ==
  ASSUME queue \in Seq(Transitions), OnlyHotspot
  PROVE  /\ queue # <<>> => /\ Head(queue).state = "HOTSPOT"
                            /\ \A k \in DOMAIN Tail(queue) : Tail(queue)[k].state = "HOTSPOT"
                            /\ Len(queue) <= 1 => Tail(queue) = <<>>
         /\ \A list \in Lists :
              LET longer == Append(queue, [state |-> "HOTSPOT", list |-> list])
              IN \A k \in DOMAIN longer : longer[k].state = "HOTSPOT"
  <1>1. ASSUME queue # <<>>
        PROVE  /\ Head(queue).state = "HOTSPOT"
               /\ \A k \in DOMAIN Tail(queue) : Tail(queue)[k].state = "HOTSPOT"
               /\ Len(queue) <= 1 => Tail(queue) = <<>>
    <2>1. Len(queue) \in Nat \ {0} /\ Head(queue) = queue[1]
      BY <1>1
    <2>2. /\ Tail(queue) \in Seq(Transitions) /\ Len(Tail(queue)) = Len(queue) - 1
          /\ \A k \in 1..(Len(queue) - 1) : Tail(queue)[k] = queue[k + 1]
      BY <1>1, <2>1
    <2>3. Len(queue) <= 1 => Tail(queue) = <<>>
      BY <2>1, <2>2, EmptySeq
    <2> QED
      BY <2>1, <2>2, <2>3 DEF OnlyHotspot
  <1>2. ASSUME NEW list \in Lists
        PROVE  LET longer == Append(queue, [state |-> "HOTSPOT", list |-> list])
               IN \A k \in DOMAIN longer : longer[k].state = "HOTSPOT"
    BY <1>2 DEF OnlyHotspot, Transitions
  <1> QED
    BY <1>1, <1>2

\* Every step keeps them.
LEMMA ControlStep ==
  ASSUME TypeOK, Control, Next, TypeOK'
  PROVE  Control'
  <1> USE DEF Idle
  <1>1. queue \in Seq(Transitions) /\ events \subseteq EventTypes
        /\ state \in {"HOTSPOT", "CONNECTING", "CONNECTED"} /\ startup \in BOOLEAN /\ ap \in BOOLEAN
        /\ pass \in BOOLEAN /\ residual \in BOOLEAN /\ active \in Networks \union {None}
        /\ trying \in Lists /\ Len(queue) \in Nat
    BY DEF TypeOK, EventTypes
  <1>2. state # "HOTSPOT" => Event("pass") \notin events /\ Event("timeout") \notin events
    BY DEF TypeOK
  <1>3. /\ Event("pass") # Event("timeout") /\ Event("pass") # Event("fail")
        /\ Event("fail") # Event("timeout") /\ \A fn : Event(fn).fn = fn /\ Event(fn).current
    BY DEF Event
  <1>4. \A list \in Lists, st \in {"HOTSPOT", "CONNECTING", "CONNECTED"} :
          queue = <<>> /\ queue' = Append(queue, [state |-> st, list |-> list]) =>
            Len(queue') = 1 /\ queue'[1].state = st /\ DOMAIN queue' = {1} /\ queue'[1].list = list
    <2> SUFFICES ASSUME NEW list \in Lists, NEW st \in {"HOTSPOT", "CONNECTING", "CONNECTED"},
                        queue = <<>>, queue' = Append(queue, [state |-> st, list |-> list])
                 PROVE  Len(queue') = 1 /\ queue'[1].state = st /\ DOMAIN queue' = {1}
                        /\ queue'[1].list = list
      OBVIOUS
    <2>1. [state |-> st, list |-> list] \in Transitions
      BY DEF Transitions
    <2>2. Len(queue') = 1 /\ queue'[1] = [state |-> st, list |-> list] /\ queue' \in Seq(Transitions)
      BY <1>1, <2>1, OneTransition DEF TypeOK
    <2> QED
      BY <2>2, LenProperties
  <1>5. queue = <<>> => Len(queue) = 0 /\ DOMAIN queue = {}
    OBVIOUS
  <1>6. \A list \in Lists : Len(queue) = 1 =>
          \A st \in {"HOTSPOT", "CONNECTING", "CONNECTED"} :
            queue' = Tail(queue) \o <<[state |-> st, list |-> list]>> =>
              Len(queue') = 1 /\ queue'[1].state = st
    BY <1>1, OneTransition DEF Transitions
  <1>11. CASE Past
    BY <1>1, <1>3, <1>11 DEF Past, memory, world, Control, InHotspot, InConnecting, InConnected, Elsewhere,
       OnlyHotspot, Asked
  <1>12. CASE HotspotPass
    <2>1. state = "HOTSPOT" /\ state' = "HOTSPOT" /\ ~flag' /\ startup' = startup /\ trying' = <<>>
          /\ ap' = ap /\ active' = active /\ residual' = residual /\ queue' = queue /\ Idle
          /\ events' = events \ {Event("pass")} /\ pass' = (pass \/ startup)
          /\ Event("pass") \in events
      BY <1>2, <1>12 DEF HotspotPass, world, Control, Elsewhere
    <2>2. CASE startup
      <3>1. Reading("pass")
        BY <1>12, <2>2 DEF HotspotPass
      <3>2. deciding' # {} /\ \A d \in deciding' : d.fn = "pass"
        BY <3>1 DEF Reading
      <3>3. queue = <<>> /\ ~ap /\ Event("timeout") \notin events
        BY <2>1, <2>2 DEF Control, InHotspot
      <3> QED
        BY <1>1, <1>5, <2>1, <2>2, <3>2, <3>3 DEF Control, InHotspot, InConnecting, InConnected,
           Elsewhere, Asked, OnlyHotspot, Idle
    <2>3. CASE ~startup
      <3>1. deciding' = deciding
        BY <1>12, <2>3 DEF HotspotPass
      <3> QED
        BY <1>1, <1>3, <2>1, <2>3, <3>1 DEF Control, InHotspot, InConnecting, InConnected, Elsewhere,
           OnlyHotspot, Asked, Idle
    <2> QED
      BY <1>1, <2>2, <2>3
  <1>13. CASE HotspotTimeout
    <2>1. state = "HOTSPOT" /\ UNCHANGED <<state, startup, queue, trying, events, pass, ap, active,
                                            residual>>
          /\ flag' = FALSE /\ TimerDue /\ Event("timeout") \in events /\ Idle
      BY <1>2, <1>13 DEF HotspotTimeout, world
    <2>2. queue = <<>> /\ ~residual /\ Event("fail") \notin events /\ ~startup /\ ~pass
          /\ active = None
      <3>1. queue = <<>> /\ ~residual /\ Event("fail") \notin events
        BY <1>3, <2>1 DEF TimerDue
      <3>2. ~Asked("CONNECTING")
        BY <3>1, <1>5 DEF Asked
      <3> QED
        BY <2>1, <3>1, <3>2 DEF Control, InHotspot
    <2>3. \A d \in deciding' : d.fn = "timeout"
      BY <1>13, <2>1 DEF HotspotTimeout, Reading, Idle
    <2> QED
      BY <1>1, <2>1, <2>2, <2>3 DEF Control, InHotspot, InConnecting, InConnected, Elsewhere,
         OnlyHotspot, Asked, Idle
  <1>27. CASE Decide
    <2>1. PICK d \in deciding : \E x \in Lookup(TRUE, d) :
            /\ IF d.fn = "pass" \/ x.list # <<>>
               THEN heard' = x.heard /\ Ask("CONNECTING", x.list) ELSE UNCHANGED <<heard, queue>>
            /\ IF d.fn = "pass" THEN owed' = ToSet(x.list) /\ startup' = FALSE
                               ELSE UNCHANGED <<owed, startup>>
      BY <1>27 DEF Decide
    <2>2. PICK x \in Lookup(TRUE, d) :
            /\ IF d.fn = "pass" \/ x.list # <<>>
               THEN heard' = x.heard /\ Ask("CONNECTING", x.list) ELSE UNCHANGED <<heard, queue>>
            /\ IF d.fn = "pass" THEN owed' = ToSet(x.list) /\ startup' = FALSE
                               ELSE UNCHANGED <<owed, startup>>
      BY <2>1
    <2>3. x.list \in Lists /\ d.fn \in {"pass", "timeout"}
      BY <2>2, LookupIsSound, ReadableTyped DEF Sound, Decisions
    <2>4. state = "HOTSPOT" /\ UNCHANGED <<state, trying, events, pass, ap, active, residual>>
          /\ flag' = FALSE /\ deciding' = {} /\ queue = <<>>
      <3>1. state = "HOTSPOT"
        BY <2>1 DEF TypeOK, Idle
      <3> QED
        BY <1>27, <2>1, <3>1 DEF Decide, Control, InHotspot
    <2>5. CASE Ask("CONNECTING", x.list)
      <3>1. Len(queue') = 1 /\ queue'[1].state = "CONNECTING"
        BY <1>4, <2>3, <2>4, <2>5 DEF Ask
      <3>2. startup' = FALSE
        BY <2>1, <2>2, <2>3, <2>4 DEF Control, InHotspot
      <3>3. pass \/ (~residual /\ Event("fail") \notin events)
        BY <2>1, <2>3, <2>4 DEF Control, InHotspot
      <3> QED
        BY <2>1, <2>3, <2>4, <3>1, <3>2, <3>3 DEF Control, InHotspot, InConnecting, InConnected,
           Elsewhere, Asked, Idle
    <2>6. CASE ~Ask("CONNECTING", x.list)
      <3>1. queue' = queue /\ startup' = startup /\ d.fn = "timeout"
        BY <2>2, <2>3, <2>6
      <3> QED
        BY <1>1, <1>5, <2>1, <2>4, <3>1 DEF Control, InHotspot, InConnecting, InConnected, Elsewhere,
           OnlyHotspot, Asked, Idle
    <2> QED
      BY <2>5, <2>6
  <1>14. CASE HotspotFail
    <2>1. state = "HOTSPOT" /\ UNCHANGED <<state, startup, trying, pass, ap, active, residual, flag>>
          /\ events' = events \ {Event("fail")} /\ Event("fail") \in events
          /\ deciding = {} /\ deciding' = {}
      BY <1>14 DEF HotspotFail, world, memory, Control, Elsewhere
    <2>2. CASE queue' = queue
      BY <1>1, <1>3, <2>1, <2>2 DEF Control, InHotspot, InConnecting, InConnected, Elsewhere,
         OnlyHotspot, Asked
    <2>3. CASE queue' # queue
      <3>1. Ask("HOTSPOT", <<>>) /\ ~startup /\ ~pass
        BY <1>14, <2>3 DEF HotspotFail, Residual
      <3>2. OnlyHotspot
        BY <2>1, <3>1 DEF Control, InHotspot
      <3>3. OnlyHotspot'
        BY <1>1, <3>1, <3>2, HotspotOnly, ListType DEF Ask, OnlyHotspot
      <3> QED
        BY <2>1, <3>1, <3>3 DEF Control, InHotspot, InConnecting, InConnected, Elsewhere
    <2> QED
      BY <2>2, <2>3
  <1>15. CASE EnterHotspot
    <2>1. /\ state' = "HOTSPOT" /\ pass' = FALSE /\ queue' = Tail(queue) /\ trying' = <<>>
          /\ startup' = startup /\ flag' = flag /\ residual' = residual /\ ap' = ~startup
          /\ active' = (IF ap' THEN None ELSE active)
          /\ events' = OldEvents \union
               (IF ap' THEN {Event("pass"), Event("timeout")} ELSE {Event("pass")})
          /\ queue # <<>> /\ Head(queue).state = "HOTSPOT" /\ deciding' = {}
      BY <1>15 DEF EnterHotspot, memory, Take
    <2>2. Event("fail") \notin events' /\ (startup => Event("timeout") \notin events')
      BY <1>1, <1>3, <2>1, OldEventsAreOld
    <2>3. ~Asked("CONNECTING") /\ ~Asked("CONNECTED")
      BY <1>1, <2>1 DEF Asked
    <2>4. OnlyHotspot \/ Asked("HOTSPOT")
      BY <1>1, <1>5, <2>1, <2>3 DEF Control, InHotspot, InConnecting, InConnected
    <2>5. OnlyHotspot
      BY <1>1, <2>4, LenProperties DEF OnlyHotspot, Asked
    <2>6. OnlyHotspot' /\ (Len(queue) <= 1 => queue' = <<>>)
      BY <1>1, <2>1, <2>5, HotspotOnly DEF OnlyHotspot
    <2>7. startup => queue' = <<>> /\ Len(queue') = 0
      BY <1>1, <2>1, <2>6 DEF Control, InHotspot, InConnecting, InConnected
    <2>8. Len(queue') <= 1 \/ ~startup
      BY <2>7
    <2>9. InHotspot'
      BY <1>1, <2>1, <2>2, <2>6, <2>7, <2>8 DEF InHotspot
    <2> QED
      BY <2>1, <2>9 DEF Control, InHotspot, InConnecting, InConnected, Elsewhere
  <1>16. CASE EnterConnecting
    <2>1. /\ state' = "CONNECTING" /\ pass' = FALSE /\ startup' = startup /\ flag' = FALSE
          /\ ap' = FALSE /\ events' = OldEvents /\ queue # <<>> /\ Head(queue).state = "CONNECTING"
      BY <1>16 DEF EnterConnecting, Take
    <2>2. Event("fail") \notin events'
      BY <1>1, <2>1, OldEventsAreOld
    <2>3. ~OnlyHotspot /\ ~Asked("HOTSPOT") /\ ~Asked("CONNECTED")
      BY <1>1, <2>1, HotspotOnly DEF Asked
    <2>4. state = "HOTSPOT" /\ Asked("CONNECTING") /\ ~startup
      BY <1>1, <1>5, <2>1, <2>3 DEF Control, InHotspot, InConnecting, InConnected
    <2>5. Len(queue) = 1 /\ Head(queue).list \in Lists
      BY <1>1, <2>1, <2>4, AskType, ListType DEF Asked
    <2>6. Tail(queue) = <<>>
      <3>1. [state |-> "HOTSPOT", list |-> <<>>] \in Transitions
        BY ListType DEF Transitions
      <3> QED
        BY <1>1, <2>5, <3>1, OneTransition
    <2>7. \/ Len(queue') = 1 /\ queue'[1].state = "CONNECTED" /\ trying' = <<>>
          \/ active' = None /\ trying' # <<>> /\ queue' = <<>>
          \/ active' = None /\ trying' = <<>> /\ Len(queue') = 1 /\ queue'[1].state = "HOTSPOT"
      BY <1>6, <1>16, <2>5, <2>6, ListType DEF EnterConnecting
    <2> QED
      BY <1>5, <2>1, <2>2, <2>4, <2>7, EmptySeq DEF Control, InHotspot, InConnecting, InConnected,
         Elsewhere, Asked
  <1>17. CASE EnterConnected
    <2>1. /\ state' = "CONNECTED" /\ pass' = FALSE /\ queue' = Tail(queue) /\ startup' = TRUE
          /\ events' = OldEvents /\ ap' = ap /\ trying' = trying /\ flag' = flag
          /\ queue # <<>> /\ Head(queue).state = "CONNECTED"
      BY <1>17 DEF EnterConnected, Take
    <2>2. Event("fail") \notin events'
      BY <1>1, <2>1, OldEventsAreOld
    <2>3. ~OnlyHotspot /\ ~Asked("HOTSPOT") /\ ~Asked("CONNECTING")
      BY <1>1, <2>1, HotspotOnly DEF Asked
    <2>4. state = "CONNECTING" /\ Asked("CONNECTED") /\ ~ap /\ trying = <<>>
      BY <1>1, <1>5, <2>1, <2>3 DEF Control, InHotspot, InConnecting, InConnected
    <2>5. queue' = <<>>
      BY <1>1, <2>1, <2>4, OneTransition, ListType DEF Asked, Transitions
    <2>6. Len(queue') = 0 /\ DOMAIN queue' = {}
      BY <2>5
    <2> QED
      BY <2>1, <2>2, <2>4, <2>6 DEF Control, InHotspot, InConnecting, InConnected,
         Elsewhere, OnlyHotspot
  <1>18. CASE Attempt
    <2>1. state = "CONNECTING" /\ trying # <<>> /\ queue = <<>> /\ active = None
      BY <1>18 DEF Attempt, Control, InConnecting
    <2>2. UNCHANGED <<state, startup, events, pass, flag, ap>>
      BY <1>18 DEF Attempt
    <2>3. \/ trying' = <<>> /\ Len(queue') = 1 /\ queue'[1].state = "CONNECTED"
          \/ trying' # <<>> /\ queue' = <<>> /\ active' = None
          \/ trying' = <<>> /\ Len(queue') = 1 /\ queue'[1].state = "HOTSPOT" /\ active' = None
      BY <1>4, <1>18, <2>1, ListType DEF Attempt, Ask
    <2> QED
      BY <1>5, <2>1, <2>2, <2>3, EmptySeq DEF Control, InHotspot, InConnecting, InConnected,
         Elsewhere, Asked
  <1>19. CASE Lost
    <2>1. state = "CONNECTED" /\ queue = <<>> /\ Ask("HOTSPOT", <<>>)
          /\ UNCHANGED <<state, startup, trying, events, pass, flag, ap>>
      BY <1>19 DEF Lost, memory
    <2>2. Len(queue') = 1 /\ OnlyHotspot'
      BY <1>4, <2>1, ListType DEF Ask, OnlyHotspot
    <2> QED
      BY <2>1, <2>2 DEF Control, InHotspot, InConnecting, InConnected, Elsewhere
  <1>20. CASE Lose
    BY <1>20 DEF Lose, memory, Control, InHotspot, InConnecting, InConnected, Elsewhere, OnlyHotspot, Asked
  <1>21. CASE Signal
    BY <1>3, <1>21 DEF Signal, memory, Control, InHotspot, InConnecting, InConnected, Elsewhere, OnlyHotspot,
       Asked
  <1>22. CASE ApFails
    BY <1>3, <1>5, <1>22 DEF ApFails, memory, Control, InHotspot, InConnecting, InConnected, Elsewhere,
       OnlyHotspot, Asked
  <1>23. CASE Autoconnect
    BY <1>23 DEF Autoconnect, memory, Control, InHotspot, InConnecting, InConnected, Elsewhere, OnlyHotspot,
       Asked
  <1>24. CASE Move \/ Clients
    BY <1>24 DEF Move, memory, Clients, Control, InHotspot, InConnecting, InConnected, Elsewhere,
       OnlyHotspot, Asked
  <1>25. CASE Portal
    BY <1>25 DEF Portal, Control, InHotspot, InConnecting, InConnected, Elsewhere,
       OnlyHotspot, Asked
  <1>26. CASE Restart
    <2>1. Len(queue') = 1 /\ OnlyHotspot'
      BY <1>26 DEF Restart, Fresh, OnlyHotspot
    <2> QED
      BY <1>26, <2>1 DEF Restart, Fresh, Control, InHotspot, InConnecting, InConnected, Elsewhere
  <1> QED
    BY <1>11, <1>12, <1>13, <1>14, <1>15, <1>16, <1>17, <1>18, <1>19, <1>20, <1>21, <1>22, <1>23,
       <1>24, <1>25, <1>26, <1>27 DEF Next, Comitup

(***************************************************************************)
(* What is tried, and what is owed.                                        *)
(***************************************************************************)
\* What the decision under way read is so, but for the stale.
Known == \A d \in deciding : \A n \in Networks \ stale : d.read[n] = prio[n]

\* No network comes before one of a higher priority, but for the stale.
InPriority(s) ==
  \A i, j \in DOMAIN s : i < j /\ {s[i], s[j]} \intersect stale = {} => prio[s[i]] >= prio[s[j]]

\* What is tried is tried in this order.
Trying == InPriority(trying)

\* A list that is asked for is in order, and something spoke for its networks.
Asking ==
  Asked("CONNECTING") => InPriority(queue[1].list) /\ ToSet(queue[1].list) \subseteq heard

\* What is owed after a startup decision is asked for, or about to be tried.
Owing == owed # {} =>
  /\ ~startup /\ ~ap
  /\ \/ state = "HOTSPOT" /\ pass /\ owed \subseteq ToSet(queue[1].list)
     \/ /\ state = "CONNECTING"
        /\ trying = <<>> => Asked("CONNECTED")
        /\ trying # <<>> => owed \subseteq ToSet(trying)

IInv == TypeOK /\ Control /\ Known /\ Trying /\ Asking /\ Owing

\* Only HOTSPOT is asked for when it is taken, and then nothing is owed.
LEMMA HotspotTaken ==
  ASSUME TypeOK, Control, Owing, Take("HOTSPOT")
  PROVE  OnlyHotspot /\ owed = {} /\ (~startup => active = None)
         /\ \A k \in DOMAIN Tail(queue) : Tail(queue)[k].state = "HOTSPOT"
  <1>1. queue \in Seq(Transitions) /\ queue # <<>> /\ Head(queue).state = "HOTSPOT"
        /\ Head(queue) = queue[1] /\ state \in {"HOTSPOT", "CONNECTING", "CONNECTED"}
        /\ pass \in BOOLEAN /\ Len(queue) \in Nat /\ Idle
    BY DEF TypeOK, Take
  <1>2. ~Asked("CONNECTING") /\ ~Asked("CONNECTED")
    BY <1>1 DEF Asked
  <1>3. OnlyHotspot
    <2>1. OnlyHotspot \/ Asked("HOTSPOT")
      BY <1>1, <1>2 DEF Control, InHotspot, InConnecting, InConnected
    <2> QED
      BY <1>1, <2>1, LenProperties DEF OnlyHotspot, Asked
  <1>4. owed = {}
    BY <1>1, <1>2 DEF Owing, Control, InHotspot, InConnecting
  <1>5. ~startup => active = None
    BY <1>1, <1>2 DEF Control, InHotspot, InConnecting, InConnected
  <1> QED
    BY <1>1, <1>3, <1>4, <1>5, HotspotOnly

\* CONNECTING is taken from HOTSPOT, where it is all that is asked for.
LEMMA ConnectingTaken ==
  ASSUME TypeOK, Control, Take("CONNECTING")
  PROVE  /\ state = "HOTSPOT" /\ Asked("CONNECTING") /\ Head(queue) = queue[1]
         /\ Head(queue).list \in Lists /\ ~startup
  <1>1. queue \in Seq(Transitions) /\ queue # <<>> /\ Head(queue).state = "CONNECTING"
        /\ Head(queue) = queue[1] /\ state \in {"HOTSPOT", "CONNECTING", "CONNECTED"}
        /\ Len(queue) \in Nat /\ Head(queue).list \in Lists
    <2>1. queue \in Seq(Transitions) /\ queue # <<>> /\ Head(queue).state = "CONNECTING"
          /\ state \in {"HOTSPOT", "CONNECTING", "CONNECTED"}
      BY DEF TypeOK, Take
    <2>2. Head(queue) = queue[1] /\ Len(queue) \in Nat /\ Head(queue) \in Transitions
      BY <2>1
    <2> QED
      BY <2>1, <2>2 DEF Transitions
  <1>2. ~OnlyHotspot /\ ~Asked("HOTSPOT") /\ ~Asked("CONNECTED")
    BY <1>1, HotspotOnly DEF Asked
  <1> QED
    BY <1>1, <1>2 DEF Control, InHotspot, InConnecting, InConnected

\* Nothing is owed while a decision is under way.
LEMMA NothingOwed ==
  ASSUME TypeOK, Control, Owing, NEW d \in deciding
  PROVE  owed = {} /\ queue = <<>> /\ state = "HOTSPOT" /\ d.fn \in {"pass", "timeout"}
         /\ (d.fn = "pass" => startup /\ ~ap)
  <1>1. state = "HOTSPOT"
    BY DEF TypeOK, Idle
  <1>2. d.fn \in {"pass", "timeout"}
    BY ReadableTyped DEF Decisions
  <1>3. /\ queue = <<>>
        /\ d.fn = "pass" => startup /\ pass
        /\ d.fn = "timeout" => ~startup /\ ~pass
        /\ startup => ~ap
    BY <1>1 DEF Control, InHotspot
  <1> QED
    BY <1>1, <1>2, <1>3 DEF Owing

\* What a decision returns is in order, by the priorities that are not stale.
LEMMA Decided ==
  ASSUME TypeOK, Known, NEW d \in deciding, NEW x \in Lookup(TRUE, d),
         stale' = stale, prio' = prio
  PROVE  x.list \in Lists /\ InPriority(x.list) /\ InPriority(x.list)' /\ ToSet(x.list) \subseteq x.heard
  <1>1. Sound(d, x)
    BY LookupIsSound, ReadableTyped
  <1>2. \A i \in DOMAIN x.list : x.list[i] \in Networks
    BY <1>1 DEF Sound, ToSet
  <1>3. InPriority(x.list)
    BY <1>1, <1>2 DEF Sound, InPriority, Known
  <1> QED
    BY <1>1, <1>3 DEF Sound, InPriority

\* A change of priorities makes those stale that it changes.
LEMMA OrderKept ==
  ASSUME NEW s \in Lists, InPriority(s), prio \in Priorities, prio' \in Priorities,
         stale \subseteq stale', \A n \in Networks \ stale' : prio'[n] = prio[n]
  PROVE  InPriority(s)'
  <1>1. \A i \in DOMAIN s : s[i] \in Networks
    BY DEF Lists
  <1> QED
    BY <1>1 DEF InPriority

\* What the Portal does to the priorities.
LEMMA PortalStales ==
  ASSUME TypeOK, TypeOK', Portal
  PROVE  /\ prio \in Priorities /\ prio' \in Priorities /\ stale \subseteq stale'
         /\ \A n \in Networks \ stale' : prio'[n] = prio[n]
  BY DEF Portal, TypeOK

\* Every step keeps what a decision knows.
LEMMA KnownStep ==
  ASSUME IInv, Next, TypeOK'
  PROVE  Known'
  <1> USE DEF IInv
  <1>1. CASE HotspotPass \/ HotspotTimeout
    <2>1. prio' = prio
      BY <1>1 DEF HotspotPass, HotspotTimeout, world
    <2>2. CASE UNCHANGED <<deciding, stale>>
      BY <2>1, <2>2 DEF Known
    <2>3. CASE \E fn \in {"pass", "timeout"} : Reading(fn)
      BY <2>1, <2>3, ReadingTyped DEF Known
    <2> QED
      BY <1>1, <2>2, <2>3 DEF HotspotPass, HotspotTimeout
  <1>2. CASE Portal
    <2>1. deciding' = deciding
      BY <1>2 DEF Portal
    <2> QED
      BY <1>2, <2>1, PortalStales DEF Known
  <1>3. CASE Past \/ Decide \/ HotspotFail \/ EnterHotspot \/ EnterConnecting \/ EnterConnected
             \/ Attempt \/ Lost
    BY <1>3 DEF Past, Decide, HotspotFail, EnterHotspot, EnterConnecting, EnterConnected, Attempt,
       Lost, world, memory, Known
  <1>4. CASE Lose \/ Signal \/ ApFails \/ Autoconnect \/ Move \/ Clients \/ Restart
    BY <1>4 DEF Lose, Signal, ApFails, Autoconnect, Move, Clients, Restart, Fresh, world, memory, Known
  <1> QED
    BY <1>1, <1>2, <1>3, <1>4 DEF Next, Comitup

\* Every step keeps the order in which the networks are tried.
LEMMA TryingStep ==
  ASSUME IInv, Next, TypeOK'
  PROVE  Trying'
  <1> USE DEF IInv
  <1>1. InPriority(<<>>)
    BY DEF InPriority
  <1>2. CASE EnterConnecting
    <2>1. InPriority(Head(queue).list)
      BY <1>2, ConnectingTaken DEF EnterConnecting, Asking
    <2>2. prio' = prio /\ stale' = stale /\ (trying' = <<>> \/ trying' = Head(queue).list)
      BY <1>2 DEF EnterConnecting
    <2> QED
      BY <1>1, <2>1, <2>2 DEF Trying, InPriority
  <1>3. CASE Attempt
    <2>1. prio' = prio /\ stale' = stale /\ trying # <<>> /\ (trying' = <<>> \/ trying' = Tail(trying))
      BY <1>3 DEF Attempt, world
    <2>2. trying \in Seq(Networks)
      BY ListType DEF TypeOK
    <2>3. DOMAIN Tail(trying) = 1..(Len(trying) - 1) /\ DOMAIN trying = 1..Len(trying)
          /\ \A i \in 1..(Len(trying) - 1) : Tail(trying)[i] = trying[i + 1]
          /\ Len(trying) \in Nat
      BY <2>1, <2>2
    <2>4. InPriority(Tail(trying))
      BY <2>3 DEF Trying, InPriority
    <2> QED
      BY <1>1, <2>1, <2>4 DEF Trying, InPriority
  <1>4. CASE Portal
    <2>1. trying' = trying /\ trying \in Lists
      BY <1>4 DEF Portal, TypeOK
    <2>2. PICK s \in Lists : s = trying
      BY <2>1
    <2>4. InPriority(s)
      BY <2>2 DEF Trying
    <2>3. InPriority(s)'
      BY <1>4, <2>4, OrderKept, PortalStales
    <2> QED
      BY <2>1, <2>2, <2>3 DEF Trying, InPriority
  <1>5. CASE Past \/ Decide \/ HotspotFail \/ EnterHotspot \/ EnterConnected \/ Lost
    BY <1>1, <1>5 DEF Past, Decide, HotspotFail, EnterHotspot, EnterConnected, Lost, world, memory,
       Trying, InPriority
  <1>7. CASE HotspotPass \/ HotspotTimeout
    <2>1. state = "HOTSPOT"
      BY <1>7 DEF HotspotPass, HotspotTimeout, TypeOK
    <2>2. trying' = <<>>
      BY <1>7, <2>1 DEF HotspotPass, HotspotTimeout, Control, Elsewhere
    <2> QED
      BY <2>2 DEF Trying, InPriority
  <1>6. CASE Lose \/ Signal \/ ApFails \/ Autoconnect \/ Move \/ Clients \/ Restart
    BY <1>1, <1>6 DEF Lose, Signal, ApFails, Autoconnect, Move, Clients, Restart, Fresh, world,
       memory, Trying, InPriority, Control, Elsewhere
  <1> QED
    BY <1>2, <1>3, <1>4, <1>5, <1>6, <1>7 DEF Next, Comitup

\* Every step keeps what is asked of NetworkManager.
LEMMA AskingStep ==
  ASSUME IInv, Next, TypeOK', Control'
  PROVE  Asking'
  <1> USE DEF IInv
  <1>1. CASE HotspotPass
    <2>1. CASE startup
      <3>1. queue' = <<>>
        BY <1>1, <2>1 DEF HotspotPass, Control, InHotspot, TypeOK
      <3> QED
        BY <3>1 DEF Asking, Asked
    <2>2. CASE ~startup
      BY <1>1, <2>2 DEF HotspotPass, world, Asking, InPriority, Asked
    <2> QED
      BY <2>1, <2>2
  <1>2. CASE HotspotTimeout
    <2>1. queue' = <<>>
      BY <1>2 DEF HotspotTimeout, TimerDue
    <2> QED
      BY <2>1 DEF Asking, Asked
  <1>9. CASE Decide
    <2>1. PICK d \in deciding : \E x \in Lookup(TRUE, d) :
            IF d.fn = "pass" \/ x.list # <<>>
            THEN heard' = x.heard /\ Ask("CONNECTING", x.list) ELSE UNCHANGED <<heard, queue>>
      BY <1>9 DEF Decide
    <2>2. PICK x \in Lookup(TRUE, d) :
            IF d.fn = "pass" \/ x.list # <<>>
            THEN heard' = x.heard /\ Ask("CONNECTING", x.list) ELSE UNCHANGED <<heard, queue>>
      BY <2>1
    <2>3. queue = <<>> /\ prio' = prio /\ stale' = stale
      BY <1>9, <2>1, NothingOwed DEF Decide, world
    <2>4. x.list \in Lists /\ InPriority(x.list)' /\ ToSet(x.list) \subseteq x.heard
      BY <2>1, <2>2, <2>3, Decided
    <2>5. CASE heard' = x.heard /\ Ask("CONNECTING", x.list)
      <3>1. [state |-> "CONNECTING", list |-> x.list] \in Transitions
        BY <2>4 DEF Transitions
      <3>2. queue'[1] = [state |-> "CONNECTING", list |-> x.list]
        BY <2>3, <2>5, <3>1, OneTransition DEF Ask, TypeOK
      <3>3. queue'[1].list = x.list
        BY <3>2
      <3> QED
        BY <2>4, <2>5, <3>3 DEF Asking, InPriority
    <2>6. CASE queue' = queue
      BY <2>3, <2>6 DEF Asking, Asked
    <2> QED
      BY <2>2, <2>5, <2>6
  <1>3. CASE HotspotFail
    <2>1. CASE queue' = queue
      BY <1>3, <2>1 DEF HotspotFail, world, memory, Asking, InPriority, Asked
    <2>2. CASE queue' # queue
      <3>1. Ask("HOTSPOT", <<>>) /\ ~startup /\ ~pass /\ Event("fail") \in events
        BY <1>3, <2>2 DEF HotspotFail, Residual
      <3>2. OnlyHotspot
        BY <3>1 DEF Control, InHotspot, Elsewhere
      <3>3. OnlyHotspot'
        BY <3>1, <3>2, HotspotOnly, ListType DEF Ask, OnlyHotspot, TypeOK
      <3> QED
        BY <3>3, LenProperties DEF TypeOK, OnlyHotspot, Asked, Asking
    <2> QED
      BY <2>1, <2>2
  <1>4. CASE EnterHotspot
    <2>1. OnlyHotspot'
      BY <1>4, HotspotTaken DEF EnterHotspot, OnlyHotspot
    <2> QED
      BY <2>1, LenProperties DEF TypeOK, OnlyHotspot, Asked, Asking
  <1>5. CASE EnterConnecting \/ EnterConnected \/ Attempt \/ Lost
    <2>1. state' \in {"CONNECTING", "CONNECTED"}
      BY <1>5 DEF EnterConnecting, EnterConnected, Attempt, Lost, Take
    <2>2. ~Asked("CONNECTING")'
      BY <2>1, LenProperties, EmptySeq DEF Control, InConnecting, InConnected, OnlyHotspot, Asked,
         TypeOK
    <2> QED
      BY <2>2 DEF Asking
  <1>6. CASE Portal
    <2>1. queue' = queue /\ heard' = heard
      BY <1>6 DEF Portal
    <2>2. ASSUME Asked("CONNECTING") PROVE queue[1].list \in Lists
      <3>2. queue \in Seq(Transitions) /\ Len(queue) = 1
        BY <2>2 DEF TypeOK, Asked
      <3>1. queue[1] \in Transitions
        BY <3>2
      <3> QED
        BY <3>1 DEF Transitions
    <2>3. ASSUME Asked("CONNECTING") PROVE InPriority(queue[1].list)'
      <3> DEFINE s == queue[1].list
      <3>1. InPriority(s) /\ s \in Lists
        BY <2>2, <2>3 DEF Asking
      <3>2. s' = s
        BY <2>1
      <3> HIDE DEF s
      <3>3. PICK r \in Lists : r = s
        BY <3>1
      <3>4. InPriority(r)'
        BY <1>6, <3>1, <3>3, OrderKept, PortalStales
      <3>5. InPriority(s)'
        BY <3>2, <3>3, <3>4 DEF InPriority
      <3> QED
        BY <3>5 DEF s
    <2> QED
      BY <2>1, <2>3 DEF Asking, Asked
  <1>7. CASE Restart
    BY <1>7 DEF Restart, Fresh, Asking, Asked
  <1>8. CASE Past \/ Lose \/ Signal \/ ApFails \/ Autoconnect \/ Move \/ Clients
    BY <1>8 DEF Past, Lose, Signal, ApFails, Autoconnect, Move, Clients, world,
       memory, Asking, InPriority, Asked
  <1> QED
    BY <1>1, <1>2, <1>3, <1>4, <1>5, <1>6, <1>7, <1>8, <1>9 DEF Next, Comitup

\* Every step keeps what a queued transition owes.
LEMMA OwingStep ==
  ASSUME IInv, Next, TypeOK', Control'
  PROVE  Owing'
  <1> USE DEF IInv
  <1>1. CASE HotspotPass
    <2>1. UNCHANGED <<owed, startup, ap, state, queue>> /\ state = "HOTSPOT"
      BY <1>1 DEF HotspotPass, TypeOK
    <2>2. pass => pass'
      BY <1>1, Zenon DEF HotspotPass
    <2> QED
      BY <2>1, <2>2 DEF Owing
  <1>2. CASE HotspotTimeout
    BY <1>2 DEF HotspotTimeout, TypeOK, Owing
  <1>12. CASE Decide
    <2>1. PICK d \in deciding : \E x \in Lookup(TRUE, d) :
            /\ IF d.fn = "pass" \/ x.list # <<>>
               THEN heard' = x.heard /\ Ask("CONNECTING", x.list) ELSE UNCHANGED <<heard, queue>>
            /\ IF d.fn = "pass" THEN owed' = ToSet(x.list) /\ startup' = FALSE
                               ELSE UNCHANGED <<owed, startup>>
      BY <1>12 DEF Decide
    <2>2. /\ owed = {} /\ queue = <<>> /\ state = "HOTSPOT" /\ (d.fn = "pass" => startup /\ ~ap)
          /\ (d.fn = "pass" => pass)
      BY <2>1, NothingOwed DEF Control, InHotspot
    <2>3. CASE d.fn = "pass"
      <3>1. PICK x \in Lookup(TRUE, d) :
              Ask("CONNECTING", x.list) /\ owed' = ToSet(x.list) /\ startup' = FALSE
        BY <2>1, <2>3
      <3>2. [state |-> "CONNECTING", list |-> x.list] \in Transitions
        BY LookupIsSound, ReadableTyped DEF Sound, Transitions
      <3>3. queue'[1] = [state |-> "CONNECTING", list |-> x.list]
        BY <2>2, <3>1, <3>2, OneTransition DEF Ask, TypeOK
      <3>4. owed' = ToSet(queue'[1].list)
        BY <3>1, <3>3
      <3> QED
        BY <1>12, <2>2, <2>3, <3>1, <3>4 DEF Decide, Owing
    <2>4. CASE d.fn # "pass"
      BY <2>1, <2>2, <2>4 DEF Owing
    <2> QED
      BY <2>3, <2>4
  <1>3. CASE HotspotFail
    <2>1. state = "HOTSPOT"
      BY <1>3 DEF HotspotFail, Control, Elsewhere
    <2> QED
      BY <1>3, <2>1 DEF HotspotFail, memory, Residual, Owing
  <1>4. CASE EnterHotspot
    BY <1>4, HotspotTaken DEF EnterHotspot, memory, Owing
  <1>5. CASE EnterConnecting
    <2>1. state = "HOTSPOT" /\ Head(queue) = queue[1] /\ ~startup
      BY <1>5, ConnectingTaken DEF EnterConnecting
    <2>2. state' = "CONNECTING" /\ startup' = startup /\ ap' = FALSE
          /\ (owed' = {} \/ (owed' = owed /\ trying' = Head(queue).list))
      BY <1>5 DEF EnterConnecting, Take
    <2>3. ToSet(<<>>) = {}
      BY DEF ToSet
    <2> QED
      BY <2>1, <2>2, <2>3 DEF Owing
  <1>6. CASE EnterConnected
    BY <1>6 DEF EnterConnected, Owing
  <1>7. CASE Attempt
    <2>1. /\ state = "CONNECTING" /\ trying # <<>> /\ owed' = owed \ {Head(trying)}
          /\ UNCHANGED <<state, startup, ap>> /\ queue = <<>>
      BY <1>7 DEF Attempt, Control, InConnecting
    <2>2. owed' \subseteq ToSet(Tail(trying))
      <3>1. trying \in Seq(Networks)
        BY ListType DEF TypeOK
      <3>2. DOMAIN Tail(trying) = 1..(Len(trying) - 1) /\ DOMAIN trying = 1..Len(trying)
            /\ \A i \in 1..(Len(trying) - 1) : Tail(trying)[i] = trying[i + 1]
            /\ Len(trying) \in Nat /\ Head(trying) = trying[1]
        BY <2>1, <3>1
      <3>3. \A i \in DOMAIN trying : i = 1 \/ (i - 1 \in 1..(Len(trying) - 1) /\ (i - 1) + 1 = i)
        BY <3>2
      <3>4. \A n \in ToSet(trying) \ {Head(trying)} : n \in ToSet(Tail(trying))
        BY <3>2, <3>3 DEF ToSet
      <3> QED
        BY <2>1, <3>4 DEF Owing
    <2>3. CASE trying' = Tail(trying)
      <3>1. ToSet(<<>>) = {}
        BY DEF ToSet
      <3> QED
        BY <2>1, <2>2, <2>3, <3>1 DEF Owing
    <2>4. CASE trying' = <<>> /\ Ask("CONNECTED", <<>>)
      <3>1. [state |-> "CONNECTED", list |-> <<>>] \in Transitions
        BY ListType DEF Transitions
      <3>2. Asked("CONNECTED")'
        BY <2>1, <2>4, <3>1, OneTransition DEF Ask, Asked, TypeOK
      <3> QED
        BY <2>1, <2>4, <3>2 DEF Owing
    <2> QED
      BY <1>7, <2>3, <2>4 DEF Attempt
  <1>8. CASE Lost
    BY <1>8 DEF Lost, memory, Owing
  <1>9. CASE Portal
    BY <1>9 DEF Portal, Owing, Asked
  <1>10. CASE Restart
    BY <1>10 DEF Restart, Fresh, Owing
  <1>11. CASE Past \/ Lose \/ Signal \/ ApFails \/ Autoconnect \/ Move \/ Clients
    BY <1>11 DEF Past, Lose, Signal, ApFails, Autoconnect, Move, Clients, world, memory, Owing, Asked
  <1> QED
    BY <1>1, <1>2, <1>3, <1>4, <1>5, <1>6, <1>7, <1>8, <1>9, <1>10, <1>11, <1>12 DEF Next, Comitup

\* The invariant holds at the start, and every step keeps it.
LEMMA Initially == Init => IInv
  <1> SUFFICES ASSUME Init PROVE IInv
    OBVIOUS
  <1>1. [state |-> "HOTSPOT", list |-> <<>>] \in Transitions
    BY ListType DEF Transitions
  <1>2. TypeOK
    <2>1. queue \in Seq(Transitions)
      BY <1>1 DEF Init
    <2>2. trying \in Lists /\ faults \in 0..MaxFaults
      BY ListType, ConstantsAssumption DEF Init
    <2> QED
      BY <2>1, <2>2 DEF Init, TypeOK, Idle
  <1>3. Len(queue) = 1 /\ OnlyHotspot /\ ~Asked("CONNECTING")
    BY DEF Init, OnlyHotspot, Asked
  <1>4. Control
    BY <1>3 DEF Init, Control, InHotspot, InConnecting, InConnected, Elsewhere, Idle
  <1> QED
    BY <1>2, <1>3, <1>4 DEF Init, IInv, Known, Trying, Asking, Owing, InPriority

\* Every step keeps the invariant.
LEMMA Inductive == IInv /\ [Next]_vars => IInv'
  <1> SUFFICES ASSUME IInv, [Next]_vars PROVE IInv'
    OBVIOUS
  <1>1. CASE Next
    <2>1. TypeOK'
      BY <1>1, TypeStep DEF IInv
    <2>2. Control'
      BY <1>1, <2>1, ControlStep DEF IInv
    <2> QED
      BY <1>1, <2>1, <2>2, KnownStep, TryingStep, AskingStep, OwingStep DEF IInv
  <1>2. CASE UNCHANGED vars
    <2>1. TypeOK'
      BY <1>2 DEF vars, world, memory, IInv, TypeOK, Idle
    <2> QED
      BY <1>2, <2>1 DEF vars, world, memory, IInv, Control, InHotspot, InConnecting, InConnected,
         Elsewhere, Idle, OnlyHotspot, Asked, Known, Trying, Asking, Owing, InPriority
  <1> QED
    BY <1>1, <1>2

\* The invariant, always.
LEMMA Invariance == Spec => []IInv
  BY Initially, Inductive, PTL DEF Spec

(***************************************************************************)
(* The theorems.                                                           *)
(***************************************************************************)
\* Every reachable state is typed, and its callbacks are of their state.
THEOREM TypeCorrect == Spec => []TypeOK
  BY Invariance, PTL DEF IInv

\* No access point before every network of the startup decision was tried
\* (states.py appendix).
THEOREM NetworksComeFirst == Spec => []TriesBeforeAp
  <1>1. IInv => TriesBeforeAp
    BY DEF IInv, Owing, TriesBeforeAp
  <1> QED
    BY <1>1, Invariance, PTL

\* No network is tried before one of higher priority, whatever profiles could not
\* be read and whenever the Portal changes priorities, but for those themselves
\* (nm.py appendix).
THEOREM HighestComesFirst == Spec => []TriesInOrder
  <1>1. IInv => TriesInOrder
    BY DEF IInv, Trying, InPriority, TriesInOrder
  <1> QED
    BY <1>1, Invariance, PTL

\* A live connection to a saved network in range is never given up
\* (connecting_start and the candidates it is given).
THEOREM LiveStays == Spec => LiveKept
  <1>1. IInv /\ [Next]_vars => [(active \in saved' \intersect range) => active' = active]_vars
    <2> SUFFICES ASSUME IInv, Next, active \in saved', active \in range PROVE active' = active
      OBVIOUS
    <2>1. active # None
      BY ConstantsAssumption DEF IInv, TypeOK
    <2>2. CASE EnterHotspot
      BY <2>1, <2>2, HotspotTaken DEF EnterHotspot, IInv
    <2>3. CASE EnterConnecting
      <3>1. PICK passing \in SUBSET Exempt :
              \E x \in Lookup(flag, [read |-> prio, candidates |-> saved, passing |-> passing]) :
                active \in ToSet(x.list) => UNCHANGED active
        BY <2>3 DEF EnterConnecting
      <3>2. saved' = saved /\ flag = FALSE
        BY <2>3 DEF EnterConnecting, IInv, TypeOK, Control, Elsewhere
      <3>3. \A x \in Lookup(FALSE, [read |-> prio, candidates |-> saved, passing |-> passing]) :
              ToSet(x.list) = saved
        <4> DEFINE now == [read |-> prio, candidates |-> saved, passing |-> passing]
        <4>1. Readable(now) /\ now.candidates = saved
          BY ReadableNow DEF IInv
        <4> HIDE DEF now
        <4>2. \A x \in Lookup(FALSE, now) : ToSet(x.list) = saved
          BY <4>1, LookupIsSound
        <4> QED
          BY <4>2 DEF now
      <3> QED
        BY <3>1, <3>2, <3>3
    <2>4. CASE Attempt
      BY <2>1, <2>4 DEF Attempt, IInv, Control, InConnecting
    <2>5. CASE Lose \/ Autoconnect \/ Portal
      BY <2>1, <2>5 DEF Lose, Autoconnect, Portal
    <2>6. CASE Past \/ HotspotPass \/ HotspotTimeout \/ Decide \/ HotspotFail \/ EnterConnected
               \/ Lost
      BY <2>6 DEF Past, HotspotPass, HotspotTimeout, Decide, HotspotFail, EnterConnected, Lost
    <2>7. CASE Signal \/ ApFails \/ Move \/ Clients \/ Restart
      BY <2>7 DEF Signal, ApFails, Move, Clients, Restart
    <2> QED
      BY <2>2, <2>3, <2>4, <2>5, <2>6, <2>7 DEF Next, Comitup
  <1> QED
    BY <1>1, Invariance, PTL DEF Spec, LiveKept

\* A running access point is given up only for networks that something spoke for
\* (nm.py appendix: the second scan).
THEOREM AccessPointIsHeld == Spec => ApHeld
  <1>1. IInv /\ [Next]_vars => [EnterConnecting /\ ap => ToSet(trying') \subseteq heard]_vars
    <2> SUFFICES ASSUME IInv, EnterConnecting PROVE ToSet(trying') \subseteq heard
      OBVIOUS
    <2>1. ToSet(Head(queue).list) \subseteq heard
      BY ConnectingTaken DEF EnterConnecting, IInv, Asking
    <2>2. trying' = <<>> \/ trying' = Head(queue).list
      BY DEF EnterConnecting
    <2> QED
      BY <2>1, <2>2 DEF ToSet
  <1> QED
    BY <1>1, Invariance, PTL DEF Spec, ApHeld
===============================================================================
