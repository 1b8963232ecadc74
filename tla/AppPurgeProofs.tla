--------------------------- MODULE AppPurgeProofs ---------------------------
(***************************************************************************)
(* What AppPurge keeps, for every tree: the types, with the walk always on *)
(* a path down from the target, and what a purge removes.                  *)
(***************************************************************************)
EXTENDS AppPurge, TLAPS, SequenceTheorems

\* What rmtree has open.
Frames == [path : Nodes, at : {"open", "entries"}, left : SUBSET Nodes]

(***************************************************************************)
(* The last frame of a walk.                                               *)
(***************************************************************************)
LEMMA FrontOf ==
  ASSUME NEW S, NEW s \in Seq(S), s # <<>>
  PROVE  /\ Len(s) \in Nat \ {0} /\ Last(s) = s[Len(s)] /\ Last(s) \in S
         /\ Front(s) \in Seq(S) /\ Len(Front(s)) = Len(s) - 1
         /\ \A i \in 1..(Len(s) - 1) : Front(s)[i] = s[i]
  <1>1. Len(s) \in Nat \ {0}
    BY EmptySeq
  <1>2. Last(s) = s[Len(s)] /\ Last(s) \in S
    BY <1>1, ElementOfSeq DEF Last
  <1>3. Front(s) \in Seq(S) /\ Len(Front(s)) = Len(s) - 1
        /\ \A i \in 1..(Len(s) - 1) : Front(s)[i] = s[i]
    <2>1. \A i \in 1..(Len(s) - 1) : s[i] \in S
      BY <1>1, ElementOfSeq
    <2>2. SubSeq(s, 1, Len(s) - 1) = [i \in 1..(Len(s) - 1) |-> s[i]]
      BY <1>1
    <2>3. Front(s) = [i \in 1..(Len(s) - 1) |-> s[i]]
      BY <2>2 DEF Front
    <2>4. Front(s) \in Seq(S) /\ Len(Front(s)) = Len(s) - 1
      BY <1>1, <2>1, <2>3, IsASeq
    <2> QED
      BY <2>3, <2>4
  <1> QED
    BY <1>1, <1>2, <1>3

\* A frame is pushed.
LEMMA Appended ==
  ASSUME NEW S, NEW s \in Seq(S), NEW f \in S
  PROVE  /\ Append(s, f) \in Seq(S) /\ Append(s, f) # <<>> /\ Len(Append(s, f)) = Len(s) + 1
         /\ Append(s, f)[Len(s) + 1] = f /\ \A i \in 1..Len(s) : Append(s, f)[i] = s[i]
         /\ Len(s) \in Nat
  BY AppendProperties, LenProperties

\* The last frame is replaced.
LEMMA Replaced ==
  ASSUME NEW S, NEW s \in Seq(S), s # <<>>, NEW f \in S
  PROVE  /\ Append(Front(s), f) \in Seq(S) /\ Append(Front(s), f) # <<>>
         /\ Len(Append(Front(s), f)) = Len(s) /\ Len(s) \in Nat \ {0}
         /\ Append(Front(s), f)[Len(s)] = f
         /\ \A i \in 1..(Len(s) - 1) : Append(Front(s), f)[i] = s[i]
  <1>1. Front(s) \in Seq(S) /\ Len(Front(s)) = Len(s) - 1 /\ Len(s) \in Nat \ {0}
    BY FrontOf
  <1> DEFINE r == Front(s)
  <1>2. /\ Append(r, f) \in Seq(S) /\ Append(r, f) # <<>> /\ Len(Append(r, f)) = Len(r) + 1
        /\ Append(r, f)[Len(r) + 1] = f /\ \A i \in 1..Len(r) : Append(r, f)[i] = r[i]
    BY <1>1, Appended
  <1>3. Len(r) + 1 = Len(s) /\ 1..Len(r) = 1..(Len(s) - 1)
    BY <1>1
  <1>4. \A i \in 1..(Len(s) - 1) : r[i] = s[i]
    BY FrontOf
  <1> HIDE DEF r
  <1>5. Append(r, f)[Len(s)] = f /\ Len(Append(r, f)) = Len(s)
        /\ \A i \in 1..(Len(s) - 1) : Append(r, f)[i] = s[i]
    BY <1>2, <1>3, <1>4
  <1> QED
    BY <1>1, <1>2, <1>5 DEF r

(***************************************************************************)
(* The directories over a node.                                            *)
(***************************************************************************)
LEMMA AboveParent ==
  ASSUME NEW n \in Nodes
  PROVE  /\ Above[n] \subseteq Nodes
         /\ Parent[n] = Roots => Above[n] = {}
         /\ Parent[n] \in Nodes => Above[n] = {Parent[n]} \union Above[Parent[n]]
  <1> USE ConstantsAssumption
  <1>1. Above[n] \subseteq Nodes
    BY DEF Above
  <1>2. ASSUME Parent[n] = Roots PROVE Above[n] = {}
    <2>1. Closed({}) /\ {} \in SUBSET Nodes
      BY DEF Closed
    <2> QED
      BY <1>2, <2>1 DEF Above
  <1>3. ASSUME NEW p \in Nodes, p = Parent[n]
        PROVE  Above[n] = {p} \union Above[p]
    <2>1. ASSUME NEW a \in Above[n] PROVE a \in {p} \union Above[p]
      <3> DEFINE S == {p} \union Above[p]
      <3>1. Above[p] \subseteq Nodes
        BY DEF Above
      <3>2. ASSUME NEW x \in Above[p] PROVE Parent[x] \in Above[p] \union {Roots}
        <4> SUFFICES ASSUME Parent[x] # Roots,
                            NEW T \in SUBSET Nodes, Closed(T), Parent[p] \in T \union {Roots}
                     PROVE  Parent[x] \in T
          BY <3>1, <3>2 DEF Above
        <4>1. x \in T
          BY <3>1, <3>2 DEF Above
        <4> QED
          BY <4>1 DEF Closed
      <3>3. Parent[p] \in Above[p] \union {Roots}
        <4> SUFFICES ASSUME Parent[p] # Roots,
                            NEW T \in SUBSET Nodes, Closed(T), Parent[p] \in T \union {Roots}
                     PROVE  Parent[p] \in T
          BY DEF Above
        <4> QED
          OBVIOUS
      <3>4. Closed(S) /\ S \in SUBSET Nodes
        BY <3>1, <3>2, <3>3 DEF Closed
      <3>5. p \in S
        OBVIOUS
      <3> HIDE DEF S
      <3>6. a \in S
        BY <1>3, <2>1, <3>4, <3>5 DEF Above
      <3> QED
        BY <3>6 DEF S
    <2>2. ASSUME NEW a \in {p} \union Above[p] PROVE a \in Above[n]
      <3> SUFFICES ASSUME NEW T \in SUBSET Nodes, Closed(T), p \in T \union {Roots}
                   PROVE  a \in T
        BY <1>3, <2>2 DEF Above
      <3>1. p \in T /\ Parent[p] \in T \union {Roots}
        BY DEF Closed
      <3> QED
        BY <2>2, <3>1 DEF Above
    <2> QED
      BY <2>1, <2>2
  <1> QED
    BY <1>1, <1>2, <1>3

(***************************************************************************)
(* A walk s through the nodes tr.                                          *)
(***************************************************************************)
\* It begins at the target.
Starts(s) == s # <<>> => s[1].path = Target

\* Its nodes and what is left of them are there.
Inside(s, tr) == \A i \in 1..Len(s) :
  s[i].path \in tr /\ \A x \in s[i].left : x \in tr /\ Parent[x] = s[i].path

\* It goes down a step at a time, and what it goes to is no longer left.
Down(s) == \A i \in 1..Len(s) : i > 1 =>
  /\ Parent[s[i].path] = s[i - 1].path
  /\ s[i].path \notin s[i - 1].left /\ s[i - 1].at = "entries"

\* It meets no node twice, and what is over a node are the nodes before it.
Apart(s) == \A i, j \in 1..Len(s) : s[i].path = s[j].path => i = j
Over(s) == \A i \in 1..Len(s) : Above[s[i].path] = {s[j].path : j \in 1..(i - 1)}

\* All of it.
Walking(s, tr) ==
  s \in Seq(Frames) /\ Starts(s) /\ Inside(s, tr) /\ Down(s) /\ Apart(s) /\ Over(s)

\* Walks that agree have the same paths.
LEMMA SamePaths ==
  ASSUME NEW r, NEW s, NEW m, \A j \in 1..m : r[j] = s[j]
  PROVE  {r[j].path : j \in 1..m} = {s[j].path : j \in 1..m}
  OBVIOUS

\* The types of a frame.
LEMMA FrameTypes ==
  ASSUME NEW s \in Seq(Frames), NEW i \in 1..Len(s)
  PROVE  s[i] \in Frames /\ s[i].path \in Nodes /\ s[i].left \subseteq Nodes
  <1>1. s[i] \in Frames
    BY ElementOfSeq
  <1> QED
    BY <1>1 DEF Frames

\* The last node is left, or removed.
LEMMA PopWalk ==
  ASSUME NEW s, NEW tr, Walking(s, tr), s # <<>>
  PROVE  Walking(Front(s), tr) /\ Walking(Front(s), tr \ {Last(s).path})
  <1> DEFINE k == Len(s) - 1
             r == Front(s)
  <1>1. s \in Seq(Frames)
    BY DEF Walking
  <1>2. /\ Len(s) \in Nat \ {0} /\ Last(s) = s[Len(s)]
        /\ r \in Seq(Frames) /\ Len(r) = k /\ \A i \in 1..k : r[i] = s[i]
    BY <1>1, FrontOf
  <1>3. r # <<>> => 1 \in 1..k
    BY <1>2, EmptySeq
  <1>4. ASSUME NEW i \in 1..k
        PROVE  /\ i \in 1..Len(s) /\ i # Len(s) /\ i + 1 \in 1..Len(s) /\ r[i] = s[i]
               /\ i > 1 => i - 1 \in 1..k /\ r[i - 1] = s[i - 1]
               /\ \A j \in 1..(i - 1) : j \in 1..k /\ r[j] = s[j]
    BY <1>2
  <1>5. \A i \in 1..k : s[i].path # s[Len(s)].path /\ s[Len(s)].path \notin s[i].left
    <2> SUFFICES ASSUME NEW i \in 1..k
                 PROVE  s[i].path # s[Len(s)].path /\ s[Len(s)].path \notin s[i].left
      OBVIOUS
    <2>1. i \in 1..Len(s) /\ Len(s) \in 1..Len(s) /\ i # Len(s) /\ Len(s) > 1
          /\ Len(s) - 1 \in 1..Len(s)
      BY <1>2
    <2>2. s[i].path # s[Len(s)].path
      BY <2>1 DEF Walking, Apart
    <2>3. ASSUME s[Len(s)].path \in s[i].left PROVE FALSE
      <3>1. Parent[s[Len(s)].path] = s[i].path
        BY <2>1, <2>3 DEF Walking, Inside
      <3>2. Parent[s[Len(s)].path] = s[Len(s) - 1].path /\ s[Len(s)].path \notin s[Len(s) - 1].left
        BY <2>1 DEF Walking, Down
      <3>3. i = Len(s) - 1
        BY <2>1, <3>1, <3>2 DEF Walking, Apart
      <3> QED
        BY <2>3, <3>2, <3>3
    <2> QED
      BY <2>2, <2>3
  <1>6. ASSUME NEW T \in {tr, tr \ {Last(s).path}} PROVE Walking(r, T)
    <2>1. r # <<>> => r[1].path = Target
      BY <1>3, <1>4, <1>2, EmptySeq DEF Walking, Starts
    <2>2. ASSUME NEW i \in 1..k
          PROVE  r[i].path \in T /\ \A x \in r[i].left : x \in T /\ Parent[x] = r[i].path
      <3>1. r[i] = s[i] /\ i \in 1..Len(s) /\ s[i].path # Last(s).path /\ Last(s).path \notin s[i].left
        BY <1>2, <1>4, <1>5
      <3>2. s[i].path \in tr /\ \A x \in s[i].left : x \in tr /\ Parent[x] = s[i].path
        BY <3>1 DEF Walking, Inside
      <3> HIDE DEF r, k
      <3> QED
        BY <3>1, <3>2
    <2>3. ASSUME NEW i \in 1..k, i > 1
          PROVE  /\ Parent[r[i].path] = r[i - 1].path
                 /\ r[i].path \notin r[i - 1].left /\ r[i - 1].at = "entries"
      BY <1>4, <2>3 DEF Walking, Down
    <2>4. ASSUME NEW i \in 1..k, NEW j \in 1..k, r[i].path = r[j].path PROVE i = j
      <3>1. r[i] = s[i] /\ r[j] = s[j] /\ i \in 1..Len(s) /\ j \in 1..Len(s)
        BY <1>4
      <3> HIDE DEF r, k
      <3> QED
        BY <2>4, <3>1 DEF Walking, Apart
    <2>5. ASSUME NEW i \in 1..k PROVE Above[r[i].path] = {r[j].path : j \in 1..(i - 1)}
      <3>1. Above[s[i].path] = {s[j].path : j \in 1..(i - 1)}
        BY <1>4 DEF Walking, Over
      <3>2. r[i] = s[i] /\ \A j \in 1..(i - 1) : r[j] = s[j]
        BY <1>4
      <3> HIDE DEF r
      <3>3. {r[j].path : j \in 1..(i - 1)} = {s[j].path : j \in 1..(i - 1)}
        BY <3>2, SamePaths
      <3> QED
        BY <3>1, <3>2, <3>3
    <2> HIDE DEF r, k
    <2> QED
      BY <1>2, <2>1, <2>2, <2>3, <2>4, <2>5 DEF Walking, Starts, Inside, Down, Apart, Over
  <1> QED
    BY <1>6

\* The last frame is replaced by one of the same node.
LEMMA ReplaceWalk ==
  ASSUME NEW s, NEW tr, Walking(s, tr), s # <<>>,
         NEW f \in Frames, f.path = Last(s).path,
         NEW T \in SUBSET tr, tr \ T \subseteq Last(s).left \ f.left,
         \A x \in f.left : x \in T /\ Parent[x] = f.path
  PROVE  Walking(Append(Front(s), f), T)
  <1> DEFINE k == Len(s)
             r == Append(Front(s), f)
  <1>1. s \in Seq(Frames)
    BY DEF Walking
  <1>2. /\ k \in Nat \ {0} /\ Last(s) = s[k]
        /\ r \in Seq(Frames) /\ r # <<>> /\ Len(r) = k /\ r[k] = f /\ \A i \in 1..(k - 1) : r[i] = s[i]
    <2>1. k \in Nat \ {0} /\ Last(s) = s[k]
      BY <1>1, FrontOf
    <2>2. /\ r \in Seq(Frames) /\ r # <<>> /\ Len(r) = k /\ r[k] = f
          /\ \A i \in 1..(k - 1) : r[i] = s[i]
      BY <1>1, Replaced
    <2> QED
      BY <2>1, <2>2
  <1> HIDE DEF r
  <1>3. ASSUME NEW i \in 1..k
        PROVE  /\ r[i].path = s[i].path /\ (i # k => r[i] = s[i] /\ i \in 1..(k - 1))
               /\ i > 1 => i - 1 \in 1..k /\ i - 1 # k /\ r[i - 1] = s[i - 1]
               /\ \A j \in 1..(i - 1) : j \in 1..k /\ r[j] = s[j]
    BY <1>2
  <1>4. 1 \in 1..k /\ k \in 1..k
    BY <1>2
  <1>5. \A i \in 1..k : s[i].path \in T
    <2> SUFFICES ASSUME NEW i \in 1..k, s[i].path \in s[k].left PROVE FALSE
      BY <1>2 DEF Walking, Inside
    <2>1. Parent[s[i].path] = s[k].path
      BY <1>4 DEF Walking, Inside
    <2>2. i = 1 => Parent[s[i].path] = Roots
      BY ConstantsAssumption, <1>2, <1>1, EmptySeq DEF Walking, Starts
    <2>3. s[k].path \in Nodes
      BY <1>1, <1>4, FrameTypes
    <2>4. i > 1 /\ Parent[s[i].path] = s[i - 1].path /\ i - 1 \in 1..k /\ i - 1 # k
      BY <1>3, <2>1, <2>2, <2>3, ConstantsAssumption DEF Walking, Down
    <2> QED
      BY <1>4, <2>1, <2>4 DEF Walking, Apart
  <1>6. \A i \in 1..(k - 1) : \A x \in s[i].left : x \in T
    <2> SUFFICES ASSUME NEW i \in 1..(k - 1), NEW x \in s[i].left, x \in s[k].left PROVE FALSE
      BY <1>2, <1>3 DEF Walking, Inside
    <2>1. i \in 1..k /\ i # k
      BY <1>2
    <2>2. Parent[x] = s[i].path /\ Parent[x] = s[k].path
      BY <1>4, <2>1 DEF Walking, Inside
    <2> QED
      BY <1>4, <2>1, <2>2 DEF Walking, Apart
  <1>7. ASSUME NEW i \in 1..k
        PROVE  r[i].path \in T /\ \A x \in r[i].left : x \in T /\ Parent[x] = r[i].path
    <2>1. CASE i = k
      BY <1>2, <1>5, <2>1
    <2>2. CASE i # k
      <3>1. r[i] = s[i] /\ i \in 1..(k - 1)
        BY <1>3, <2>2
      <3> QED
        BY <1>5, <1>6, <3>1 DEF Walking, Inside
    <2> QED
      BY <2>1, <2>2
  <1>8. ASSUME NEW i \in 1..k, i > 1
        PROVE  /\ Parent[r[i].path] = r[i - 1].path
               /\ r[i].path \notin r[i - 1].left /\ r[i - 1].at = "entries"
    BY <1>3, <1>8 DEF Walking, Down
  <1>9. ASSUME NEW i \in 1..k, NEW j \in 1..k, r[i].path = r[j].path PROVE i = j
    BY <1>3, <1>9 DEF Walking, Apart
  <1>10. ASSUME NEW i \in 1..k PROVE Above[r[i].path] = {r[j].path : j \in 1..(i - 1)}
    <2>1. Above[s[i].path] = {s[j].path : j \in 1..(i - 1)}
      BY DEF Walking, Over
    <2>2. r[i].path = s[i].path /\ \A j \in 1..(i - 1) : r[j] = s[j]
      BY <1>3
    <2>3. {r[j].path : j \in 1..(i - 1)} = {s[j].path : j \in 1..(i - 1)}
      BY <2>2, SamePaths
    <2> QED
      BY <2>1, <2>2, <2>3
  <1>11. r[1].path = Target
    BY <1>3, <1>4 DEF Walking, Starts
  <1> HIDE DEF k
  <1>12. Walking(r, T)
    BY <1>2, <1>7, <1>8, <1>9, <1>10, <1>11 DEF Walking, Starts, Inside, Down, Apart, Over
  <1> QED
    BY <1>12 DEF r

\* A node is walked to: the target, or an entry that was taken out of its directory.
LEMMA PushWalk ==
  ASSUME NEW s, NEW tr, Walking(s, tr), NEW n \in Nodes, n \in tr,
         IF s = <<>> THEN n = Target
         ELSE Parent[n] = Last(s).path /\ n \notin Last(s).left /\ Last(s).at = "entries"
  PROVE  Walking(Append(s, Frame(n)), tr)
  <1> DEFINE k == Len(s)
             r == Append(s, Frame(n))
  <1>1. s \in Seq(Frames) /\ Frame(n) \in Frames /\ Frame(n).path = n /\ Frame(n).left = {}
    BY DEF Walking, Frame, Frames
  <1>2. /\ k \in Nat /\ r \in Seq(Frames) /\ r # <<>> /\ Len(r) = k + 1 /\ r[k + 1] = Frame(n)
        /\ \A i \in 1..k : r[i] = s[i]
    BY <1>1, Appended
  <1>3. IF s = <<>> THEN k = 0 ELSE k > 0 /\ Last(s) = s[k]
    <2>1. CASE s = <<>>
      BY <2>1, EmptySeq
    <2>2. CASE s # <<>>
      <3>1. Len(s) \in Nat \ {0} /\ Last(s) = s[Len(s)]
        BY <1>1, <2>2, FrontOf
      <3> QED
        BY <2>2, <3>1
    <2> QED
      BY <2>1, <2>2
  <1> HIDE DEF r, k
  <1>4. ASSUME NEW i \in 1..(k + 1)
        PROVE  /\ i # k + 1 => i \in 1..k /\ r[i] = s[i]
               /\ i > 1 => i - 1 \in 1..k /\ r[i - 1] = s[i - 1]
               /\ \A j \in 1..(i - 1) : j \in 1..k /\ r[j] = s[j]
    BY <1>2
  <1>5. \A i \in 1..k : s[i].path # n
    <2> SUFFICES ASSUME NEW i \in 1..k, s[i].path = n PROVE FALSE
      OBVIOUS
    <2>1. k > 0 /\ k \in 1..k /\ s # <<>> /\ k = Len(s)
      BY <1>2, <1>3 DEF k
    <2>2. Parent[n] = s[k].path /\ s[k].path \in Nodes
      <3>1. k \in 1..Len(s)
        BY <2>1
      <3>2. s[k].path \in Nodes
        BY <1>1, <3>1, FrameTypes
      <3> QED
        BY <1>3, <2>1, <3>2
    <2>3. i = 1 => Parent[n] = Roots
      BY ConstantsAssumption, <2>1 DEF Walking, Starts
    <2>4. i > 1 /\ Parent[n] = s[i - 1].path /\ i - 1 \in 1..k /\ i - 1 # k
      BY <1>2, <2>1, <2>2, <2>3, ConstantsAssumption DEF Walking, Down
    <2> QED
      BY <2>1, <2>2, <2>4 DEF Walking, Apart
  <1>6. ASSUME NEW i \in 1..(k + 1)
        PROVE  r[i].path \in tr /\ \A x \in r[i].left : x \in tr /\ Parent[x] = r[i].path
    BY <1>1, <1>2, <1>4 DEF Walking, Inside, k
  <1>7. ASSUME NEW i \in 1..(k + 1), i > 1
        PROVE  /\ Parent[r[i].path] = r[i - 1].path
               /\ r[i].path \notin r[i - 1].left /\ r[i - 1].at = "entries"
    <2>1. CASE i = k + 1
      BY <1>1, <1>2, <1>3, <1>4, <1>7, <2>1
    <2>2. CASE i # k + 1
      BY <1>4, <1>7, <2>2 DEF Walking, Down, k
    <2> QED
      BY <2>1, <2>2
  <1>8. ASSUME NEW i \in 1..(k + 1), NEW j \in 1..(k + 1), r[i].path = r[j].path PROVE i = j
    <2>1. CASE i # k + 1 /\ j # k + 1
      BY <1>4, <1>8, <2>1 DEF Walking, Apart, k
    <2>2. ASSUME NEW l \in 1..k PROVE r[l].path # r[k + 1].path
      BY <1>1, <1>2, <1>5
    <2>3. CASE i = k + 1 /\ j # k + 1
      BY <1>4, <1>8, <2>2, <2>3
    <2>4. CASE j = k + 1 /\ i # k + 1
      BY <1>4, <1>8, <2>2, <2>4
    <2> QED
      BY <2>1, <2>3, <2>4
  <1>9. ASSUME NEW i \in 1..(k + 1) PROVE Above[r[i].path] = {r[j].path : j \in 1..(i - 1)}
    <2>1. CASE i # k + 1
      <3>1. Above[s[i].path] = {s[j].path : j \in 1..(i - 1)}
        BY <1>4, <2>1 DEF Walking, Over, k
      <3>2. r[i] = s[i] /\ \A j \in 1..(i - 1) : r[j] = s[j]
        BY <1>4, <2>1
      <3>3. {r[j].path : j \in 1..(i - 1)} = {s[j].path : j \in 1..(i - 1)}
        BY <3>2, SamePaths
      <3> QED
        BY <3>1, <3>2, <3>3
    <2>2. CASE i = k + 1 /\ s = <<>>
      <3>1. Above[n] = {}
        BY <2>2, AboveParent, ConstantsAssumption
      <3> QED
        BY <1>1, <1>2, <1>3, <2>2, <3>1
    <2>3. CASE i = k + 1 /\ s # <<>>
      <3>1. k \in 1..k /\ Parent[n] = s[k].path /\ s[k].path \in Nodes
        <4>1. k \in 1..k /\ k \in 1..Len(s)
          BY <1>2, <1>3, <2>3 DEF k
        <4>2. s[k].path \in Nodes
          BY <1>1, <4>1, FrameTypes
        <4> QED
          BY <1>3, <2>3, <4>1, <4>2
      <3>2. Above[n] = {s[k].path} \union Above[s[k].path]
        BY <3>1, AboveParent
      <3>3. Above[s[k].path] = {s[j].path : j \in 1..(k - 1)}
        BY <3>1 DEF Walking, Over, k
      <3>4. Above[n] = {s[j].path : j \in 1..k}
        BY <1>2, <3>1, <3>2, <3>3
      <3>5. \A j \in 1..k : r[j] = s[j]
        BY <1>2
      <3>6. i - 1 = k
        BY <1>2, <2>3
      <3>7. {s[j].path : j \in 1..k} = {r[j].path : j \in 1..k}
        BY <3>5
      <3> QED
        BY <1>1, <1>2, <2>3, <3>4, <3>6, <3>7
    <2> QED
      BY <2>1, <2>2, <2>3
  <1>10. r[1].path = Target
    BY <1>1, <1>2, <1>3 DEF Walking, Starts, k
  <1>11. Walking(r, tr)
    BY <1>2, <1>6, <1>7, <1>8, <1>9, <1>10 DEF Walking, Starts, Inside, Down, Apart, Over
  <1> QED
    BY <1>11 DEF r

(***************************************************************************)
(* A walk s through an Easy tree.                                          *)
(***************************************************************************)
\* A directory that was opened can be searched.
Opened(s, md) == \A i \in 1..Len(s) : s[i].at = "entries" =>
  md[s[i].path] # 0 /\ (i > 1 => md[s[i - 1].path] \in {7, 5})

\* What is in a directory that was opened is left or being removed.
Counted(s, tr) == \A i \in 1..Len(s) : s[i].at = "entries" =>
  \A x \in tr : Parent[x] = s[i].path => x \in s[i].left \/ (i < Len(s) /\ x = s[i + 1].path)

\* It removes all it meets: directories that it can read.
Cleared(s, tr, md) ==
  /\ \A i \in 1..Len(s) : kind[s[i].path] = "dir"
  /\ Opened(s, md) /\ Counted(s, tr)

\* The last node is removed.
LEMMA PopCleared ==
  ASSUME NEW s \in Seq(Frames), NEW tr, NEW md, Cleared(s, tr, md), s # <<>>
  PROVE  Cleared(Front(s), tr \ {Last(s).path}, md)
  <1> DEFINE k == Len(s) - 1
             r == Front(s)
  <1>1. Len(s) \in Nat \ {0} /\ Last(s) = s[Len(s)] /\ Len(r) = k /\ \A i \in 1..k : r[i] = s[i]
    BY FrontOf
  <1>2. ASSUME NEW i \in 1..k
        PROVE  /\ i \in 1..Len(s) /\ i < Len(s) /\ r[i] = s[i]
               /\ i > 1 => r[i - 1] = s[i - 1]
               /\ i < k => r[i + 1] = s[i + 1]
               /\ i = k => s[i + 1] = Last(s)
               /\ i < k \/ i = k
    BY <1>1
  <1>3. \A i \in 1..k : kind[r[i].path] = "dir"
    BY <1>2 DEF Cleared
  <1>4. ASSUME NEW i \in 1..k, r[i].at = "entries"
        PROVE  md[r[i].path] # 0 /\ (i > 1 => md[r[i - 1].path] \in {7, 5})
    BY <1>2, <1>4 DEF Cleared, Opened
  <1>5. ASSUME NEW i \in 1..k, r[i].at = "entries", NEW x \in tr, x # Last(s).path,
               Parent[x] = r[i].path
        PROVE  x \in r[i].left \/ (i < k /\ x = r[i + 1].path)
    BY <1>2, <1>5 DEF Cleared, Counted
  <1> HIDE DEF r, k
  <1>6. Cleared(r, tr \ {Last(s).path}, md)
    BY <1>1, <1>3, <1>4, <1>5 DEF Cleared, Opened, Counted
  <1> QED
    BY <1>6 DEF r

\* The last frame is replaced by one of the same node, opened or to be opened.
LEMMA ReplaceCleared ==
  ASSUME NEW s \in Seq(Frames), NEW tr, NEW md, Cleared(s, tr, md), s # <<>>,
         NEW f \in Frames, f.path = Last(s).path, NEW T \in SUBSET tr,
         f.at = "entries" =>
           /\ md[f.path] # 0 /\ (Len(s) > 1 => md[s[Len(s) - 1].path] \in {7, 5})
           /\ \A x \in T : Parent[x] = f.path => x \in f.left
  PROVE  Cleared(Append(Front(s), f), T, md)
  <1> DEFINE k == Len(s)
             r == Append(Front(s), f)
  <1>1. k \in Nat \ {0} /\ Last(s) = s[k]
    BY FrontOf
  <1>2. Len(r) = k /\ r[k] = f /\ \A i \in 1..(k - 1) : r[i] = s[i]
    BY Replaced
  <1> HIDE DEF r
  <1>3. ASSUME NEW i \in 1..k
        PROVE  /\ r[i].path = s[i].path /\ (i # k => r[i] = s[i] /\ i < k)
               /\ i > 1 => r[i - 1].path = s[i - 1].path
               /\ i < k => r[i + 1].path = s[i + 1].path
    <2>1. i # k => r[i] = s[i] /\ i < k
      BY <1>1, <1>2
    <2>2. i = k => r[i].path = s[i].path
      BY <1>1, <1>2
    <2>3. i > 1 => r[i - 1].path = s[i - 1].path
      BY <1>1, <1>2
    <2>4. ASSUME i < k PROVE r[i + 1].path = s[i + 1].path
      <3>1. i + 1 = k \/ i + 1 \in 1..(k - 1)
        BY <1>1, <2>4
      <3> QED
        BY <1>1, <1>2, <3>1
    <2> QED
      BY <2>1, <2>2, <2>3, <2>4
  <1>4. \A i \in 1..k : kind[r[i].path] = "dir"
    BY <1>3 DEF Cleared
  <1>5. ASSUME NEW i \in 1..k, r[i].at = "entries"
        PROVE  md[r[i].path] # 0 /\ (i > 1 => md[r[i - 1].path] \in {7, 5})
    <2>1. CASE i = k
      BY <1>1, <1>2, <1>3, <1>5, <2>1
    <2>2. CASE i # k
      <3>1. Opened(s, md)
        BY DEF Cleared
      <3>2. md[s[i].path] # 0 /\ (i > 1 => md[s[i - 1].path] \in {7, 5})
        BY <1>3, <1>5, <2>2, <3>1 DEF Opened
      <3> QED
        BY <1>3, <3>2
    <2> QED
      BY <2>1, <2>2
  <1>6. ASSUME NEW i \in 1..k, r[i].at = "entries", NEW x \in T, Parent[x] = r[i].path
        PROVE  x \in r[i].left \/ (i < k /\ x = r[i + 1].path)
    <2>1. CASE i = k
      BY <1>2, <1>6, <2>1
    <2>2. CASE i # k
      BY <1>3, <1>6, <2>2 DEF Cleared, Counted
    <2> QED
      BY <2>1, <2>2
  <1> HIDE DEF k
  <1>7. Cleared(r, T, md)
    BY <1>2, <1>4, <1>5, <1>6 DEF Cleared, Opened, Counted
  <1> QED
    BY <1>7 DEF r

\* An entry that is a directory is taken out of its directory and walked to.
LEMMA DescendCleared ==
  ASSUME NEW s \in Seq(Frames), NEW tr, NEW md, Cleared(s, tr, md), s # <<>>,
         Last(s).at = "entries", NEW n \in Nodes, kind[n] = "dir",
         NEW f \in Frames, f.path = Last(s).path, f.at = "entries", f.left = Last(s).left \ {n}
  PROVE  Cleared(Append(Append(Front(s), f), Frame(n)), tr, md)
  <1> DEFINE k == Len(s)
             q == Append(Front(s), f)
             r == Append(q, Frame(n))
  <1>1. k \in Nat \ {0} /\ Last(s) = s[k]
    BY FrontOf
  <1>2. q \in Seq(Frames) /\ Len(q) = k /\ q[k] = f /\ \A i \in 1..(k - 1) : q[i] = s[i]
    BY Replaced
  <1>3. Frame(n) \in Frames /\ Frame(n).path = n /\ Frame(n).at = "open"
    BY DEF Frame, Frames
  <1> HIDE DEF q
  <1>4. Len(r) = k + 1 /\ r[k + 1] = Frame(n) /\ \A i \in 1..k : r[i] = q[i]
    BY <1>2, <1>3, Appended
  <1> HIDE DEF r
  <1>5. ASSUME NEW i \in 1..k
        PROVE  /\ r[i].path = s[i].path /\ r[i].at = s[i].at
               /\ i # k => r[i] = s[i] /\ i < k
               /\ i = k => r[i] = f
               /\ i > 1 => r[i - 1].path = s[i - 1].path
               /\ i < k => r[i + 1].path = s[i + 1].path
    <2>1. i # k => r[i] = s[i] /\ i < k
      BY <1>1, <1>2, <1>4
    <2>2. i = k => r[i] = f /\ r[i].path = s[i].path /\ r[i].at = s[i].at
      BY <1>1, <1>2, <1>4
    <2>3. i > 1 => r[i - 1] = s[i - 1]
      BY <1>1, <1>2, <1>4
    <2>4. ASSUME i < k PROVE r[i + 1].path = s[i + 1].path
      <3>1. i + 1 = k \/ i + 1 \in 1..(k - 1)
        BY <1>1, <2>4
      <3>2. r[i + 1] = q[i + 1]
        BY <1>1, <1>4, <2>4
      <3> QED
        BY <1>1, <1>2, <3>1, <3>2
    <2> QED
      BY <2>1, <2>2, <2>3, <2>4
  <1>6. \A i \in 1..(k + 1) : i \in 1..k \/ i = k + 1
    BY <1>1
  <1>7. \A i \in 1..(k + 1) : kind[r[i].path] = "dir"
    BY <1>3, <1>4, <1>5, <1>6 DEF Cleared
  <1>8. ASSUME NEW i \in 1..(k + 1), r[i].at = "entries"
        PROVE  i \in 1..k /\ s[i].at = "entries"
    BY <1>3, <1>4, <1>5, <1>6, <1>8
  <1>9. ASSUME NEW i \in 1..(k + 1), r[i].at = "entries"
        PROVE  md[r[i].path] # 0 /\ (i > 1 => md[r[i - 1].path] \in {7, 5})
    BY <1>5, <1>8, <1>9 DEF Cleared, Opened
  <1>10. ASSUME NEW i \in 1..(k + 1), r[i].at = "entries", NEW x \in tr, Parent[x] = r[i].path
        PROVE  x \in r[i].left \/ (i < k + 1 /\ x = r[i + 1].path)
    <2>1. i \in 1..k /\ (x \in s[i].left \/ (i < k /\ x = s[i + 1].path))
      BY <1>5, <1>8, <1>10 DEF Cleared, Counted
    <2>2. CASE i = k
      BY <1>1, <1>3, <1>4, <1>5, <2>1, <2>2
    <2>3. CASE i # k
      BY <1>1, <1>5, <2>1, <2>3
    <2> QED
      BY <2>2, <2>3
  <1> HIDE DEF k
  <1>11. Cleared(r, tr, md)
    BY <1>4, <1>7, <1>9, <1>10 DEF Cleared, Opened, Counted
  <1> QED
    BY <1>11 DEF r, q

\* A chmod only opens.
LEMMA ChmodCleared ==
  ASSUME NEW s, NEW tr, NEW md, NEW m, Cleared(s, tr, md),
         \A i \in 1..Len(s) : m[s[i].path] \in {md[s[i].path], 7}, Len(s) \in Nat
  PROVE  Cleared(s, tr, m)
  <1>1. \A i \in 1..Len(s) : i > 1 => i - 1 \in 1..Len(s)
    OBVIOUS
  <1> QED
    <2>1. Opened(s, md) /\ Counted(s, tr)
      BY DEF Cleared
    <2>2. Opened(s, m)
      BY <1>1, <2>1 DEF Opened
    <2> QED
      BY <2>1, <2>2 DEF Cleared

(***************************************************************************)
(* The invariant.                                                          *)
(***************************************************************************)
Types ==
  /\ tree \subseteq Nodes /\ retried \subseteq Nodes /\ mode \in [Nodes -> {7, 6, 5, 0}]
  /\ runs \in 0..MaxRuns /\ tool \in {"idle", "purge"} /\ easy \in BOOLEAN
  /\ answer \in {"none", "refused", "raised", "killed", "left", "removed"}
  /\ kind \in [Nodes -> {"dir", "file", "link"}] /\ to \in [Nodes -> Nodes \union {Foreign}]
  /\ owner \in [Nodes -> {"app", "portal"}] /\ \A n \in Nodes : kind[n] \in Kinds[n]

\* Only directories of the app are locked, and below one all is the app's.
Owned ==
  /\ \A n \in Nodes : mode[n] # 7 => kind[n] = "dir" /\ owner[n] = "app"
  /\ \A n \in Nodes : Owner(Parent[n]) = "app" => owner[n] = "app"

\* What is not below the target is still there.
Untouched == \A n \in Nodes : n # Target /\ n \notin Below(Target) /\ Placed(n) => n \in tree

\* What was retried and is still there can be walked now.
Retried ==
  \A n \in retried \intersect tree :
    Parent[n] \in Nodes /\ kind[n] = "dir" /\ mode[n] = 7 /\ mode[Parent[n]] = 7

\* A purge of an Easy tree: the tree stays Easy, and the walk ends with it.
EasyRun == easy /\ tool = "purge" =>
  Easy /\ (Target \in tree => stack # <<>>) /\ Retried /\ Cleared(stack, tree, mode)

\* The first half of Purges.
Answered == answer \in {"raised", "left"} => ~easy

\* The inductive invariant.
IInv ==
  /\ Types /\ Owned /\ Untouched /\ EasyRun /\ Answered
  /\ Walking(stack, tree) /\ (tool = "idle" => stack = <<>>)

(***************************************************************************)
(* What _chmod_and_retry does.                                             *)
(***************************************************************************)
\* It opens and it removes.
Opening == mode' \in [Nodes -> {7, 6, 5, 0}] /\ \A x \in Nodes : mode'[x] \in {mode[x], 7}

\* Whatever it meets, it raises, walks the node again, passes it or removes it.
LEMMA RetryShape ==
  ASSUME Types, NEW n \in tree, NEW rest, ChmodAndRetry(n, rest)
  PROVE  /\ UNCHANGED lasting /\ retried' = retried \union {n} /\ Opening
         /\ \/ tool' = "idle" /\ answer' = "raised" /\ stack' = <<>> /\ tree' = tree
            \/ /\ UNCHANGED <<tool, answer>>
               /\ \/ stack' \in {rest, Append(rest, Frame(n))} /\ tree' = tree
                  \/ stack' = rest /\ tree' = tree \ {n}
  <1> DEFINE m == ParentOpened(n)
  <1>1. m \in [Nodes -> {7, 6, 5, 0}] /\ \A x \in Nodes : m[x] \in {mode[x], 7}
    BY DEF Types, ParentOpened
  <1>2. UNCHANGED lasting /\ retried' = retried \union {n}
    BY DEF ChmodAndRetry
  <1>3. CASE Raise /\ mode' \in {m, mode}
    BY <1>1, <1>2, <1>3 DEF Raise, Ends, Opening, Types
  <1>4. CASE Again(n, m, rest) /\ MayChmod(n, m)
    <2>1. Aim(n) \in Nodes
      BY <1>4 DEF MayChmod
    <2>2. [m EXCEPT ![Aim(n)] = 7] \in [Nodes -> {7, 6, 5, 0}]
          /\ \A x \in Nodes : [m EXCEPT ![Aim(n)] = 7][x] \in {mode[x], 7}
      BY <1>1, <2>1
    <2> HIDE DEF m
    <2>3. mode' = m \/ mode' = [m EXCEPT ![Aim(n)] = 7]
      BY <1>4 DEF Again
    <2>4. Opening
      BY <1>1, <2>2, <2>3 DEF Opening
    <2> QED
      BY <1>2, <1>4, <2>4 DEF Again, GoOn, Raise, Ends
  <1> QED
    BY <1>3, <1>4 DEF ChmodAndRetry

\* In a directory of the app whose path can be searched, the first retry of what
\* is no link succeeds.
LEMMA RetrySucceeds ==
  ASSUME Types, NEW n \in tree, NEW rest, ChmodAndRetry(n, rest), n \notin retried,
         kind[n] # "link", Parent[n] \in Nodes, owner[Parent[n]] = "app", owner[n] = "app",
         \A a \in Above[n] \intersect tree : a = Parent[n] \/ mode[a] \in {7, 5}
  PROVE  /\ UNCHANGED <<tool, answer>> /\ mode'[Parent[n]] = 7
         /\ \/ kind[n] = "dir" /\ mode'[n] = 7 /\ stack' = Append(rest, Frame(n)) /\ tree' = tree
            \/ kind[n] # "dir" /\ stack' = rest /\ tree' = tree \ {n}
  <1> DEFINE m == ParentOpened(n)
  <1>1. Owner(Parent[n]) = "app" /\ Parent[n] # Roots
    BY ConstantsAssumption DEF Owner
  <1>2. m = [mode EXCEPT ![Parent[n]] = 7] /\ m[Parent[n]] = 7 /\ DOMAIN m = Nodes
        /\ \A x \in Nodes : m[x] \in {mode[x], 7}
    BY <1>1 DEF ParentOpened, Types
  <1> HIDE DEF m
  <1>3. Aim(n) = n /\ n \in Nodes
    BY DEF Aim, Types
  <1>4. Above[n] \subseteq Nodes
    BY <1>3, AboveParent
  <1>5. MayChmod(n, m)
    BY <1>2, <1>3, <1>4 DEF MayChmod, Searchable
  <1>6. Again(n, m, rest)
    BY <1>1, <1>5 DEF ChmodAndRetry, m
  <1>7. CASE kind[n] = "dir"
    <2>1. mode' = [m EXCEPT ![n] = 7] /\ GoOn(Append(rest, Frame(n))) /\ tree' = tree
      BY <1>3, <1>6, <1>7 DEF Again
    <2> QED
      BY <1>2, <1>3, <1>7, <2>1 DEF GoOn
  <1>8. CASE kind[n] # "dir"
    <2>1. mode' = m /\ Writable(Parent[n], m)
      BY <1>2, <1>3, <1>6, <1>8 DEF Again, Writable
    <2>2. tree' = tree \ {n} /\ GoOn(rest)
      BY <1>3, <1>6, <1>8, <2>1 DEF Again
    <2> QED
      BY <1>2, <1>8, <2>1, <2>2 DEF GoOn
  <1> QED
    BY <1>7, <1>8

(***************************************************************************)
(* What a step of the walk has to show.                                    *)
(***************************************************************************)
\* A tree that is opened and emptied stays Easy.
LEMMA EasyKept ==
  ASSUME Types, Easy, tree' \subseteq tree, Opening, UNCHANGED <<kind, owner>>
  PROVE  Easy'
  <1>1. \A n \in tree' : n \in Nodes /\ Entries(n)' \subseteq Entries(n)
    BY DEF Types, Entries
  <1>2. \A n \in tree' : mode'[n] # 7 => mode[n] = mode'[n]
    BY <1>1 DEF Opening
  <1>3. \A n : Owner(n)' = Owner(n)
    BY DEF Owner
  <1> QED
    BY <1>1, <1>2, <1>3 DEF Easy

\* What a removal has to leave.
LEMMA UntouchedKept ==
  ASSUME Untouched, NEW n \in Nodes, n = Target \/ Target \in Above[n],
         tree' \in {tree, tree \ {n}}, kind' = kind
  PROVE  Untouched'
  BY DEF Untouched, Below, Placed

\* A node of the walk, and its directory.
LEMMA OnTheWalk ==
  ASSUME Types, Walking(stack, tree), stack # <<>>
  PROVE  /\ Top \in Frames /\ Top = stack[Len(stack)] /\ Len(stack) \in Nat \ {0}
         /\ Top.path \in tree /\ Top.path \in Nodes
         /\ Top.path = Target \/ Target \in Above[Top.path]
         /\ Len(stack) = 1 => Top.path = Target /\ Parent[Top.path] = Roots
         /\ Len(stack) > 1 => Parent[Top.path] = stack[Len(stack) - 1].path
                              /\ Parent[Top.path] \in Nodes
                              /\ stack[Len(stack) - 1].at = "entries"
         /\ \A x \in Top.left : x \in tree /\ x \in Nodes /\ Parent[x] = Top.path
  <1> DEFINE k == Len(stack)
  <1>1. stack \in Seq(Frames) /\ k \in Nat \ {0} /\ Top = stack[k] /\ Top \in Frames
    BY FrontOf DEF Walking, Top
  <1>2. k \in 1..k /\ 1 \in 1..k /\ (k > 1 => k - 1 \in 1..k /\ 1 \in 1..(k - 1))
    BY <1>1
  <1>3. Top.path \in tree /\ \A x \in Top.left : x \in tree /\ Parent[x] = Top.path
    BY <1>1, <1>2 DEF Walking, Inside
  <1>4. stack[1].path = Target
    BY DEF Walking, Starts
  <1>5. k = 1 => Top.path = Target /\ Parent[Top.path] = Roots
    BY <1>1, <1>4, ConstantsAssumption
  <1>6. ASSUME k > 1
        PROVE  /\ Parent[Top.path] = stack[k - 1].path /\ Parent[Top.path] \in Nodes
               /\ stack[k - 1].at = "entries" /\ Target \in Above[Top.path]
    <2>1. Parent[Top.path] = stack[k - 1].path /\ stack[k - 1].at = "entries"
      BY <1>1, <1>2, <1>6 DEF Walking, Down
    <2>2. stack[k - 1].path \in Nodes
      BY <1>1, <1>2, <1>6, FrameTypes
    <2>3. Above[Top.path] = {stack[j].path : j \in 1..(k - 1)}
      BY <1>1, <1>2 DEF Walking, Over
    <2> QED
      BY <1>2, <1>4, <1>6, <2>1, <2>2, <2>3
  <1>7. Top.path \in Nodes /\ \A x \in Top.left : x \in Nodes
    BY <1>3 DEF Types
  <1> HIDE DEF k
  <1>8. k = 1 \/ k > 1
    BY <1>1
  <1>9. Top.path = Target \/ Target \in Above[Top.path]
    BY <1>5, <1>6, <1>8
  <1> QED
    BY <1>1, <1>3, <1>5, <1>6, <1>7, <1>9 DEF k

\* In an Easy tree the directories over the one that is walked, but its own, can
\* be searched.
LEMMA SearchableAbove ==
  ASSUME Types, Walking(stack, tree), stack # <<>>, Cleared(stack, tree, mode)
  PROVE  /\ \A a \in Above[Top.path] : a = Parent[Top.path] \/ mode[a] \in {7, 5}
         /\ Top.at = "entries" => \A a \in Above[Top.path] : mode[a] \in {7, 5}
         /\ kind[Top.path] = "dir"
  <1> DEFINE k == Len(stack)
  <1>1. stack \in Seq(Frames) /\ k \in Nat \ {0} /\ Top = stack[k] /\ k \in 1..k
    BY OnTheWalk DEF Walking
  <1>2. kind[Top.path] = "dir"
    BY <1>1 DEF Cleared
  <1>3. Above[Top.path] = {stack[j].path : j \in 1..(k - 1)}
    BY <1>1 DEF Walking, Over
  <1>4. ASSUME NEW j \in 1..(k - 1), j < k - 1 PROVE mode[stack[j].path] \in {7, 5}
    <2>1. j + 1 \in 1..k /\ j + 2 \in 1..k /\ (j + 1) - 1 = j /\ (j + 2) - 1 = j + 1
          /\ j + 1 > 1 /\ j + 2 > 1
      BY <1>1, <1>4
    <2>2. stack[j + 1].at = "entries"
      BY <2>1 DEF Walking, Down
    <2> QED
      BY <2>1, <2>2 DEF Cleared, Opened
  <1>5. k > 1 => Parent[Top.path] = stack[k - 1].path
    BY OnTheWalk
  <1>6. Top.at = "entries" /\ k > 1 => mode[stack[k - 1].path] \in {7, 5}
    BY <1>1 DEF Cleared, Opened
  <1>7. ASSUME NEW a \in Above[Top.path]
        PROVE  /\ a = Parent[Top.path] \/ mode[a] \in {7, 5}
               /\ Top.at = "entries" => mode[a] \in {7, 5}
    <2>1. PICK j \in 1..(k - 1) : a = stack[j].path
      BY <1>3, <1>7
    <2>2. k > 1 /\ (j < k - 1 \/ j = k - 1)
      BY <1>1
    <2> QED
      BY <1>4, <1>5, <1>6, <2>1, <2>2
  <1> QED
    BY <1>2, <1>7

\* What holds of a quiet step too.
LEMMA NothingChmodded ==
  ASSUME Types, mode' = mode
  PROVE  Opening
  BY DEF Types, Opening

\* A step of the walk: it removes n or nothing, and goes on or raises; in an
\* Easy tree it goes on.
LEMMA WalkKept ==
  ASSUME IInv, tool = "purge", UNCHANGED lasting, Opening,
         NEW n \in Nodes, n = Target \/ Target \in Above[n], tree' \in {tree, tree \ {n}},
         NEW d \in SUBSET Nodes, retried' = d, Walking(stack', tree'),
         \/ UNCHANGED <<tool, answer>>
         \/ ~easy /\ tool' = "idle" /\ answer' = "raised" /\ stack' = <<>>,
         easy => /\ Target \in tree' => stack' # <<>>
                 /\ Cleared(stack', tree', mode')
                 /\ Retried'
  PROVE  IInv'
  <1>1. Types /\ Owned /\ Untouched /\ EasyRun /\ Answered
    BY DEF IInv
  <1>2. UNCHANGED <<kind, to, owner, runs, easy>>
    BY DEF lasting
  <1>3. Types'
    BY <1>1, <1>2 DEF Types, Opening
  <1>4. Owned'
    <2>1. \A x : Owner(x)' = Owner(x)
      BY <1>2 DEF Owner
    <2> QED
      BY <1>1, <1>2, <2>1 DEF Owned, Opening
  <1>5. Untouched'
    BY <1>1, <1>2, UntouchedKept
  <1>6. EasyRun'
    <2> SUFFICES ASSUME easy PROVE (Easy /\ Retried /\ Cleared(stack, tree, mode))'
                                   /\ (Target \in tree' => stack' # <<>>)
      BY <1>2 DEF EasyRun
    <2>1. Easy
      BY <1>1 DEF EasyRun
    <2>2. Easy'
      BY <1>1, <1>2, <2>1, EasyKept
    <2>3. Cleared(stack, tree, mode)'
      BY <1>2 DEF Cleared
    <2> QED
      BY <2>2, <2>3
  <1>7. Answered'
    BY <1>1, <1>2 DEF Answered
  <1>8. (tool = "idle" => stack = <<>>)'
    OBVIOUS
  <1> QED
    BY <1>3, <1>4, <1>5, <1>6, <1>7, <1>8 DEF IInv

\* Where the last frame of an Easy tree is, its directory can be made the app's to write.
LEMMA ClosedIsOwned ==
  ASSUME IInv, easy, At("open") \/ At("entries"),
         \/ Top.at = "open" /\ ~Opens(Top.path)
         \/ Top.at = "entries" /\ ~Writable(Parent[Top.path], mode)
  PROVE  /\ Top.path \notin retried /\ Parent[Top.path] \in Nodes
         /\ owner[Parent[Top.path]] = "app" /\ owner[Top.path] = "app"
  <1> DEFINE p == Top.path
  <1>1. Types /\ Owned /\ Easy /\ Retried /\ Cleared(stack, tree, mode)
        /\ Walking(stack, tree) /\ stack # <<>>
    BY DEF IInv, EasyRun, At
  <1>2. p \in tree /\ p \in Nodes /\ (p = Target \/ Target \in Above[p])
    BY <1>1, OnTheWalk
  <1>3. kind[p] = "dir"
    BY <1>1, SearchableAbove
  <1> HIDE DEF p
  <1>4. p \notin retried
    BY <1>1, <1>2, <1>3, ConstantsAssumption DEF Retried, Opens, Writable, p
  <1>5. Owner(Parent[p]) = "app"
    <2>1. CASE mode[p] = 0
      BY <1>1, <1>2, <1>3, <2>1 DEF Easy, Below
    <2>2. CASE mode[p] # 0
      <3>1. Parent[p] \in Nodes /\ mode[Parent[p]] # 7
        BY <1>2, <1>3, <2>2, ConstantsAssumption DEF Opens, Writable, p
      <3> QED
        BY <1>1, <3>1, ConstantsAssumption DEF Owned, Owner
    <2> QED
      BY <2>1, <2>2
  <1>6. Parent[p] \in Nodes /\ owner[Parent[p]] = "app"
    BY <1>2, <1>5, ConstantsAssumption DEF Owner
  <1>7. owner[p] = "app"
    BY <1>1, <1>2, <1>5 DEF Owned
  <1> QED
    BY <1>4, <1>6, <1>7 DEF p

\* The open or the rmdir of the last frame fails.
LEMMA RetryTop ==
  ASSUME IInv, At("open") \/ At("entries"), ChmodAndRetry(Top.path, Front(stack)),
         easy => \/ Top.at = "open" /\ ~Opens(Top.path)
                 \/ Top.at = "entries" /\ ~Writable(Parent[Top.path], mode)
  PROVE  IInv'
  <1> DEFINE p == Top.path
             s == Append(Front(stack), Frame(p))
  <1>1. Types /\ Owned /\ EasyRun /\ Walking(stack, tree) /\ stack # <<>> /\ tool = "purge"
    BY DEF IInv, At
  <1>2. /\ p \in tree /\ p \in Nodes /\ stack \in Seq(Frames) /\ Len(stack) \in Nat
        /\ p = Target \/ Target \in Above[p]
    BY <1>1, OnTheWalk DEF Walking
  <1>3. p = Target \/ Target \in Above[p]
    BY <1>2
  <1>4. Frame(p) \in Frames /\ Frame(p).path = Last(stack).path /\ Frame(p).left = {}
        /\ Frame(p).at = "open"
    BY <1>2 DEF Frame, Frames, Top
  <1> HIDE DEF p
  <1>5. Walking(s, tree) /\ s # <<>>
    <2>1. Walking(s, tree)
      BY <1>1, <1>4, ReplaceWalk
    <2> QED
      BY <1>1, <1>2, <1>4, <2>1, Replaced
  <1>6. Walking(Front(stack), tree) /\ Walking(Front(stack), tree \ {p}) /\ Walking(<<>>, tree)
    <2>1. Walking(Front(stack), tree) /\ Walking(Front(stack), tree \ {p})
      BY <1>1, PopWalk DEF p, Top
    <2>2. Walking(<<>>, tree)
      BY DEF Walking, Starts, Inside, Down, Apart, Over
    <2> QED
      BY <2>1, <2>2
  <1>7. /\ UNCHANGED lasting /\ retried' = retried \union {p} /\ Opening
        /\ \/ tool' = "idle" /\ answer' = "raised" /\ stack' = <<>> /\ tree' = tree
           \/ /\ UNCHANGED <<tool, answer>>
              /\ \/ stack' \in {Front(stack), s} /\ tree' = tree
                 \/ stack' = Front(stack) /\ tree' = tree \ {p}
    BY <1>1, <1>2, RetryShape DEF p
  <1>8. ASSUME easy
        PROVE  /\ UNCHANGED <<tool, answer>> /\ stack' = s /\ tree' = tree
               /\ Cleared(s, tree, mode') /\ Retried'
    <2>1. /\ p \notin retried /\ Parent[p] \in Nodes /\ owner[Parent[p]] = "app" /\ owner[p] = "app"
      BY <1>8, ClosedIsOwned DEF p
    <2>2. Cleared(stack, tree, mode) /\ Retried
      BY <1>1, <1>8 DEF EasyRun
    <2>3. kind[p] = "dir" /\ \A a \in Above[p] : a = Parent[p] \/ mode[a] \in {7, 5}
      BY <1>1, <2>2, SearchableAbove DEF p
    <2>4. /\ UNCHANGED <<tool, answer>> /\ mode'[Parent[p]] = 7 /\ mode'[p] = 7
          /\ stack' = s /\ tree' = tree
      <3>1. kind[p] # "link" /\ ChmodAndRetry(p, Front(stack))
        BY <2>3 DEF p
      <3> QED
        BY <1>1, <1>2, <2>1, <2>3, <3>1, RetrySucceeds
    <2>5. Cleared(s, tree, mode)
      <3>1. tree \in SUBSET tree
        OBVIOUS
      <3> QED
        BY <1>1, <1>2, <1>4, <2>2, <3>1, ReplaceCleared
    <2>6. s \in Seq(Frames) /\ Len(s) \in Nat
      BY <1>2, <1>5, LenProperties DEF Walking
    <2>7. \A i \in 1..Len(s) : mode'[s[i].path] \in {mode[s[i].path], 7}
      BY <1>7, <2>6, FrameTypes DEF Opening
    <2>8. Cleared(s, tree, mode')
      BY <2>5, <2>6, <2>7, ChmodCleared
    <2>9. Retried'
      <3>1. \A x \in Nodes : mode'[x] \in {mode[x], 7}
        BY <1>7 DEF Opening
      <3>2. kind' = kind
        BY <1>7 DEF lasting
      <3> QED
        BY <1>1, <1>7, <2>1, <2>2, <2>3, <2>4, <3>1, <3>2 DEF Retried, Types
    <2> QED
      BY <2>4, <2>8, <2>9
  <1>9. retried \union {p} \in SUBSET Nodes
    BY <1>1, <1>2 DEF Types
  <1>10. Walking(stack', tree')
    BY <1>5, <1>6, <1>7
  <1> HIDE DEF s
  <1>11. /\ \/ UNCHANGED <<tool, answer>>
            \/ ~easy /\ tool' = "idle" /\ answer' = "raised" /\ stack' = <<>>
         /\ tree' \in {tree, tree \ {p}}
    BY <1>7, <1>8
  <1>12. easy => (Target \in tree' => stack' # <<>>) /\ Cleared(stack', tree', mode') /\ Retried'
    BY <1>5, <1>8
  <1> QED
    BY <1>1, <1>2, <1>3, <1>7, <1>9, <1>10, <1>11, <1>12, WalkKept

(***************************************************************************)
(* The steps.                                                              *)
(***************************************************************************)
\* A quiet step goes on as it was.
LEMMA QuietKept ==
  ASSUME IInv, tool = "purge", Quiet, NEW n \in Nodes, n = Target \/ Target \in Above[n],
         tree' \in {tree, tree \ {n}}, Walking(stack', tree'),
         easy => (Target \in tree' => stack' # <<>>) /\ Cleared(stack', tree', mode)
  PROVE  IInv'
  <1>1. Types /\ EasyRun /\ UNCHANGED lasting /\ mode' = mode /\ retried' = retried
        /\ UNCHANGED <<tool, answer>>
    BY DEF IInv, Quiet
  <1>2. Opening /\ retried \in SUBSET Nodes
    BY <1>1, NothingChmodded DEF Types
  <1>3. easy => Retried'
    BY <1>1 DEF EasyRun, Retried, lasting
  <1> QED
    BY <1>1, <1>2, <1>3, WalkKept

\* A directory is opened, or _chmod_and_retry is asked to.
LEMMA OpenStep ==
  ASSUME IInv, Open
  PROVE  IInv'
  <1> DEFINE p == Top.path
             f == [path |-> p, at |-> "entries", left |-> Entries(p)]
             s == Append(Front(stack), f)
  <1>1. Types /\ EasyRun /\ Walking(stack, tree) /\ stack # <<>> /\ tool = "purge"
        /\ At("open") /\ Top.at = "open"
    BY DEF IInv, Open, At
  <1>2. /\ p \in tree /\ p \in Nodes /\ stack \in Seq(Frames) /\ Len(stack) \in Nat \ {0}
        /\ p = Target \/ Target \in Above[p]
        /\ Len(stack) > 1 => Parent[p] = stack[Len(stack) - 1].path /\ Parent[p] \in Nodes
    BY <1>1, OnTheWalk DEF Walking
  <1>3. p = Target \/ Target \in Above[p]
    BY <1>2
  <1>4. CASE ~Opens(p)
    <2>1. ChmodAndRetry(Top.path, Front(stack))
      BY <1>4 DEF Open
    <2> QED
      BY <1>1, <1>4, <2>1, RetryTop
  <1>5. CASE Opens(p)
    <2>1. f \in Frames /\ f.path = Last(stack).path /\ f.at = "entries" /\ f.left = Entries(p)
      BY <1>1, <1>2 DEF Frames, Entries, Types, Top
    <2>2. stack' = s /\ Quiet /\ tree' = tree
      BY <1>5 DEF Open
    <2>3. \A x \in f.left : x \in tree /\ Parent[x] = f.path
      BY <2>1 DEF Entries, Top
    <2>4. \A x \in tree : Parent[x] = f.path => x \in f.left
      BY <2>1 DEF Entries, Top
    <2>5. mode[f.path] # 0 /\ (Len(stack) > 1 => mode[stack[Len(stack) - 1].path] \in {7, 5})
      BY <1>2, <1>5, ConstantsAssumption DEF Opens
    <2> HIDE DEF f
    <2>6. Walking(s, tree)
      <3>1. tree \in SUBSET tree /\ tree \ tree \subseteq Last(stack).left \ f.left
        OBVIOUS
      <3> QED
        BY <1>1, <2>1, <2>3, <3>1, ReplaceWalk
    <2>7. s # <<>>
      BY <1>1, <1>2, <2>1, Replaced
    <2>8. easy => Cleared(s, tree, mode)
      <3>1. tree \in SUBSET tree
        OBVIOUS
      <3>2. easy => Cleared(stack, tree, mode)
        BY <1>1 DEF EasyRun
      <3> QED
        BY <1>1, <1>2, <2>1, <2>4, <2>5, <3>1, <3>2, ReplaceCleared
    <2>9. Walking(stack', tree') /\ (easy => stack' # <<>> /\ Cleared(stack', tree', mode))
      BY <2>2, <2>6, <2>7, <2>8
    <2> HIDE DEF s, p
    <2> QED
      BY <1>1, <1>2, <1>3, <2>2, <2>9, QuietKept
  <1> QED
    BY <1>4, <1>5

\* An emptied directory is removed, or _chmod_and_retry is asked to.
LEMMA RmdirStep ==
  ASSUME IInv, Rmdir
  PROVE  IInv'
  <1> DEFINE p == Top.path
             k == Len(stack)
  <1>1. Types /\ EasyRun /\ Walking(stack, tree) /\ stack # <<>> /\ tool = "purge"
        /\ At("entries") /\ Top.at = "entries" /\ Top.left = {}
    BY DEF IInv, Rmdir, At
  <1>2. /\ p \in tree /\ p \in Nodes /\ stack \in Seq(Frames) /\ k \in Nat \ {0}
        /\ p = Target \/ Target \in Above[p]
        /\ k = 1 => p = Target
        /\ Top = stack[k]
    BY <1>1, OnTheWalk DEF Walking
  <1>3. p = Target \/ Target \in Above[p]
    BY <1>2
  <1>4. easy => Cleared(stack, tree, mode)
    BY <1>1 DEF EasyRun
  <1>5. CASE Entries(p) = {} /\ Writable(Parent[p], mode)
    <2>1. stack' = Front(stack) /\ tree' = tree \ {p} /\ Quiet
      BY <1>5 DEF Rmdir
    <2>2. Walking(Front(stack), tree \ {p})
      BY <1>1, PopWalk DEF Top
    <2>3. easy => Cleared(Front(stack), tree \ {p}, mode)
      BY <1>1, <1>2, <1>4, PopCleared DEF Top
    <2>4. Target \in tree' => stack' # <<>>
      <3> SUFFICES ASSUME stack' = <<>> PROVE p = Target
        BY <2>1
      <3>1. Len(Front(stack)) = k - 1
        BY <1>1, <1>2, FrontOf
      <3>2. k = 1
        BY <1>2, <2>1, <3>1, EmptySeq
      <3> QED
        BY <1>2, <3>2
    <2> HIDE DEF p
    <2> QED
      BY <1>1, <1>2, <1>3, <2>1, <2>2, <2>3, <2>4, QuietKept
  <1>6. CASE ~(Entries(p) = {} /\ Writable(Parent[p], mode))
    <2>1. ChmodAndRetry(Top.path, Front(stack))
      BY <1>6 DEF Rmdir
    <2>2. ASSUME easy PROVE ~Writable(Parent[p], mode)
      <3>1. Counted(stack, tree) /\ k \in 1..k
        BY <1>2, <1>4, <2>2 DEF Cleared
      <3>2. \A x \in tree : Parent[x] # p
        BY <1>1, <1>2, <3>1 DEF Counted
      <3> HIDE DEF p
      <3>3. Entries(p) = {}
        BY <3>2 DEF Entries
      <3> QED
        BY <1>6, <3>3
    <2> QED
      BY <1>1, <2>1, <2>2, RetryTop
  <1> QED
    BY <1>5, <1>6

\* An entry is taken out of its directory.
LEMMA Taken ==
  ASSUME IInv, At("entries"), NEW e \in Top.left,
         NEW f \in Frames, f.path = Top.path, f.at = "entries", f.left = Top.left \ {e},
         NEW rest, rest = Append(Front(stack), f)
  PROVE  /\ e \in tree /\ e \in Nodes /\ Parent[e] = Top.path /\ Top.path \in Nodes
         /\ Target \in Above[e]
         /\ Walking(rest, tree) /\ Walking(rest, tree \ {e})
         /\ Walking(Append(rest, Frame(e)), tree)
         /\ rest # <<>> /\ Append(rest, Frame(e)) # <<>>
         /\ rest \in Seq(Frames) /\ Len(rest) \in Nat
         /\ easy => Cleared(rest, tree \ {e}, mode)
         /\ easy /\ kind[e] = "dir" => Cleared(Append(rest, Frame(e)), tree, mode)
  <1> DEFINE p == Top.path
             k == Len(stack)
  <1>1. Types /\ EasyRun /\ Walking(stack, tree) /\ stack # <<>> /\ tool = "purge"
        /\ Top.at = "entries"
    BY DEF IInv, At
  <1>2. /\ p \in Nodes /\ stack \in Seq(Frames) /\ k \in Nat \ {0} /\ Top = stack[k]
        /\ Top \in Frames /\ Top = Last(stack)
        /\ \A x \in Top.left : x \in tree /\ x \in Nodes /\ Parent[x] = p
        /\ p = Target \/ Target \in Above[p]
    BY <1>1, OnTheWalk DEF Walking, Top
  <1>3. f.path = p
    OBVIOUS
  <1>4. e \in tree /\ e \in Nodes /\ Parent[e] = p /\ Target \in Above[e]
    <2>1. e \in tree /\ e \in Nodes /\ Parent[e] = p
      BY <1>2
    <2>2. Above[e] = {p} \union Above[p]
      BY <1>2, <2>1, AboveParent
    <2> HIDE DEF p
    <2> QED
      BY <1>2, <2>1, <2>2
  <1>5. ASSUME NEW T \in {tree, tree \ {e}} PROVE Walking(rest, T)
    <2>1. T \in SUBSET tree /\ tree \ T \subseteq Last(stack).left \ f.left
      BY <1>2, <1>3
    <2>2. \A x \in f.left : x \in T /\ Parent[x] = f.path
      BY <1>2, <1>3
    <2>3. f.path = Last(stack).path
      BY <1>2, <1>3
    <2>4. Walking(Append(Front(stack), f), T)
      BY <1>1, <1>3, <2>1, <2>2, <2>3, ReplaceWalk
    <2> QED
      BY <2>4
  <1>6. rest # <<>> /\ rest \in Seq(Frames) /\ Len(rest) = k /\ Last(rest) = f
    <2>1. rest # <<>> /\ rest \in Seq(Frames) /\ Len(rest) = k /\ rest[k] = f
      BY <1>1, <1>2, <1>3, Replaced
    <2>2. Last(rest) = rest[Len(rest)]
      BY <2>1, FrontOf
    <2> QED
      BY <2>1, <2>2
  <1>7. Walking(Append(rest, Frame(e)), tree)
    <2>1. Walking(rest, tree)
      BY <1>5
    <2>2. Parent[e] = Last(rest).path /\ e \notin Last(rest).left /\ Last(rest).at = "entries"
      BY <1>3, <1>4, <1>6
    <2> QED
      BY <1>4, <1>6, <2>1, <2>2, PushWalk
  <1>8. Append(rest, Frame(e)) # <<>>
    <2>1. Frame(e) \in Frames
      BY <1>4 DEF Frame, Frames
    <2> QED
      BY <1>6, <2>1, Appended
  <1>9. ASSUME easy PROVE Cleared(rest, tree \ {e}, mode)
    <2>1. Cleared(stack, tree, mode) /\ k \in 1..k /\ stack[k].at = "entries"
      BY <1>1, <1>2, <1>9 DEF EasyRun
    <2>2. mode[p] # 0 /\ (k > 1 => mode[stack[k - 1].path] \in {7, 5})
      BY <1>2, <2>1 DEF Cleared, Opened
    <2>3. \A x \in tree : Parent[x] = p => x \in Top.left
      <3>1. Counted(stack, tree)
        BY <2>1 DEF Cleared
      <3>2. ~(k < Len(stack))
        BY <1>2
      <3> HIDE DEF p, k
      <3>3. \A x \in tree : Parent[x] = stack[k].path => x \in stack[k].left
        BY <2>1, <3>1, <3>2 DEF Counted, k
      <3> QED
        BY <1>2, <3>3 DEF p
    <2>4. tree \ {e} \in SUBSET tree /\ \A x \in tree \ {e} : Parent[x] = f.path => x \in f.left
      BY <1>3, <2>3
    <2>5. f.path = Last(stack).path
      BY <1>2, <1>3
    <2> QED
      BY <1>1, <1>2, <1>3, <2>1, <2>2, <2>4, <2>5, ReplaceCleared
  <1>10. ASSUME easy, kind[e] = "dir" PROVE Cleared(Append(rest, Frame(e)), tree, mode)
    <2>1. Cleared(stack, tree, mode)
      BY <1>1, <1>10 DEF EasyRun
    <2>2. f.path = Last(stack).path /\ f.left = Last(stack).left \ {e} /\ Last(stack).at = "entries"
      BY <1>1, <1>2, <1>3
    <2> QED
      BY <1>1, <1>2, <1>3, <1>4, <1>10, <2>1, <2>2, DescendCleared
  <1> QED
    BY <1>2, <1>4, <1>5, <1>6, <1>7, <1>8, <1>9, <1>10

\* An entry that cannot be unlinked, as its directory is not writable.
LEMMA RetryEntry ==
  ASSUME IInv, At("entries"), NEW e \in Top.left, kind[e] # "dir", ~Writable(Top.path, mode),
         NEW f \in Frames, f.path = Top.path, f.at = "entries", f.left = Top.left \ {e},
         NEW rest, rest = Append(Front(stack), f), ChmodAndRetry(e, rest)
  PROVE  IInv'
  <1> DEFINE p == Top.path
  <1>1. Types /\ Owned /\ EasyRun /\ Walking(stack, tree) /\ stack # <<>> /\ tool = "purge"
        /\ Top.at = "entries"
    BY DEF IInv, At
  <1>2. /\ e \in tree /\ e \in Nodes /\ Parent[e] = p /\ p \in Nodes
        /\ Target \in Above[e]
        /\ Walking(rest, tree) /\ Walking(rest, tree \ {e})
        /\ Walking(Append(rest, Frame(e)), tree)
        /\ rest # <<>> /\ rest \in Seq(Frames) /\ Len(rest) \in Nat
        /\ easy => Cleared(rest, tree \ {e}, mode)
    BY Taken
  <1>3. mode[p] # 7 /\ kind[p] = "dir" /\ owner[p] = "app" /\ owner[e] = "app"
    <2>1. mode[p] # 7
      BY <1>2 DEF Writable
    <2>2. kind[p] = "dir" /\ owner[p] = "app"
      BY <1>1, <1>2, <2>1 DEF Owned
    <2>3. Owner(Parent[e]) = "app"
      BY <1>2, <2>2, ConstantsAssumption DEF Owner
    <2> QED
      BY <1>1, <1>2, <2>1, <2>2, <2>3 DEF Owned
  <1>4. /\ UNCHANGED lasting /\ retried' = retried \union {e} /\ Opening
        /\ \/ tool' = "idle" /\ answer' = "raised" /\ stack' = <<>> /\ tree' = tree
           \/ /\ UNCHANGED <<tool, answer>>
              /\ \/ stack' \in {rest, Append(rest, Frame(e))} /\ tree' = tree
                 \/ stack' = rest /\ tree' = tree \ {e}
    BY <1>1, <1>2, RetryShape
  <1>5. Walking(<<>>, tree)
    BY DEF Walking, Starts, Inside, Down, Apart, Over
  <1>6. Walking(stack', tree')
    BY <1>2, <1>4, <1>5
  <1>7. ASSUME easy
        PROVE  /\ UNCHANGED <<tool, answer>> /\ stack' = rest /\ tree' = tree \ {e}
               /\ Cleared(rest, tree \ {e}, mode') /\ Retried'
    <2>1. Easy /\ Retried /\ Cleared(stack, tree, mode)
      BY <1>1, <1>7 DEF EasyRun
    <2>2. p \in tree /\ (p = Target \/ Target \in Above[p])
      BY <1>1, OnTheWalk
    <2>3. \A a \in Above[p] : mode[a] \in {7, 5}
      BY <1>1, <2>1, SearchableAbove
    <2>4. kind[e] # "link"
      <3>1. e \in Entries(p) /\ p \in Below(Target) \union {Target}
        BY <1>2, <2>2 DEF Entries, Below
      <3> HIDE DEF p
      <3> QED
        BY <1>3, <2>1, <2>2, <3>1 DEF Easy
    <2>5. e \notin retried
      BY <1>2, <2>1 DEF Retried
    <2>6. \A a \in Above[e] \intersect tree : a = Parent[e] \/ mode[a] \in {7, 5}
      <3>1. Above[e] = {p} \union Above[p]
        BY <1>2, AboveParent
      <3> HIDE DEF p
      <3> QED
        BY <1>2, <2>3, <3>1
    <2>7. Parent[e] \in Nodes /\ owner[Parent[e]] = "app"
      BY <1>2, <1>3
    <2>8. UNCHANGED <<tool, answer>> /\ stack' = rest /\ tree' = tree \ {e}
      BY <1>1, <1>2, <1>3, <2>4, <2>5, <2>6, <2>7, RetrySucceeds
    <2>9. \A i \in 1..Len(rest) : mode'[rest[i].path] \in {mode[rest[i].path], 7}
      BY <1>2, <1>4, FrameTypes DEF Opening
    <2>10. Cleared(rest, tree \ {e}, mode')
      BY <1>2, <1>7, <2>9, ChmodCleared
    <2>11. Retried'
      <3>1. (\A x \in Nodes : mode'[x] \in {mode[x], 7}) /\ kind' = kind
        BY <1>4 DEF Opening, lasting
      <3> QED
        BY <1>1, <1>4, <2>1, <2>8, <3>1 DEF Retried, Types
    <2> QED
      BY <2>8, <2>10, <2>11
  <1>8. retried \union {e} \in SUBSET Nodes
    BY <1>1, <1>2 DEF Types
  <1>9. /\ \/ UNCHANGED <<tool, answer>>
           \/ ~easy /\ tool' = "idle" /\ answer' = "raised" /\ stack' = <<>>
        /\ tree' \in {tree, tree \ {e}} /\ Target \in Above[e]
    BY <1>2, <1>4, <1>7
  <1>10. easy => (Target \in tree' => stack' # <<>>) /\ Cleared(stack', tree', mode') /\ Retried'
    BY <1>2, <1>7
  <1> QED
    BY <1>1, <1>2, <1>4, <1>6, <1>8, <1>9, <1>10, WalkKept

\* An entry is walked to or unlinked, or _chmod_and_retry is asked to.
LEMMA EntryStep ==
  ASSUME IInv, Entry
  PROVE  IInv'
  <1>1. At("entries") /\ tool = "purge" /\ Top \in Frames /\ Top.at = "entries"
    BY OnTheWalk DEF IInv, Entry, At
  <1>2. PICK e \in Top.left :
          LET rest == Append(Front(stack), [Top EXCEPT !.left = @ \ {e}]) IN
          \/ kind[e] = "dir" /\ stack' = Append(rest, Frame(e)) /\ Quiet /\ UNCHANGED tree
          \/ /\ kind[e] # "dir" /\ Writable(Top.path, mode)
             /\ stack' = rest /\ tree' = tree \ {e} /\ Quiet
          \/ kind[e] # "dir" /\ ~Writable(Top.path, mode) /\ ChmodAndRetry(e, rest)
    BY DEF Entry
  <1> DEFINE f == [Top EXCEPT !.left = @ \ {e}]
             rest == Append(Front(stack), f)
  <1>3. f \in Frames /\ f.path = Top.path /\ f.at = "entries" /\ f.left = Top.left \ {e}
    BY <1>1 DEF Frames
  <1>4. \/ kind[e] = "dir" /\ stack' = Append(rest, Frame(e)) /\ Quiet /\ tree' = tree
        \/ stack' = rest /\ tree' = tree \ {e} /\ Quiet
        \/ kind[e] # "dir" /\ ~Writable(Top.path, mode) /\ ChmodAndRetry(e, rest)
    BY <1>2
  <1> HIDE DEF f
  <1>5. /\ e \in tree /\ e \in Nodes /\ Target \in Above[e]
        /\ Walking(rest, tree \ {e}) /\ Walking(Append(rest, Frame(e)), tree)
        /\ rest # <<>> /\ Append(rest, Frame(e)) # <<>>
        /\ easy => Cleared(rest, tree \ {e}, mode)
        /\ easy /\ kind[e] = "dir" => Cleared(Append(rest, Frame(e)), tree, mode)
    BY <1>1, <1>3, Taken
  <1>6. CASE kind[e] = "dir" /\ stack' = Append(rest, Frame(e)) /\ Quiet /\ tree' = tree
    BY <1>1, <1>5, <1>6, QuietKept
  <1>7. CASE stack' = rest /\ tree' = tree \ {e} /\ Quiet
    BY <1>1, <1>5, <1>7, QuietKept
  <1>8. CASE kind[e] # "dir" /\ ~Writable(Top.path, mode) /\ ChmodAndRetry(e, rest)
    BY <1>1, <1>3, <1>8, RetryEntry
  <1> QED
    BY <1>4, <1>6, <1>7, <1>8

\* A purge starts with a walk of its target.
LEMMA PurgeStep ==
  ASSUME IInv, Purge
  PROVE  IInv'
  <1>1. Types /\ Owned /\ Untouched /\ Answered
    BY DEF IInv
  <1>2. Types'
    <2>1. Easy \in BOOLEAN
      BY DEF Easy
    <2>2. runs' \in 0..MaxRuns
      BY <1>1, ConstantsAssumption DEF Types, Purge
    <2> QED
      BY <1>1, <2>1, <2>2 DEF Types, Purge
  <1>3. Owned' /\ Untouched'
    BY <1>1 DEF Owned, Untouched, Purge, Owner, Below, Placed
  <1>4. Frame(Target) \in Frames /\ Frame(Target).path = Target /\ Frame(Target).at = "open"
    BY ConstantsAssumption DEF Frame, Frames
  <1>5. Walking(<<>>, tree)
    BY DEF Walking, Starts, Inside, Down, Apart, Over
  <1>6. Walking(stack', tree')
    <2>1. Target \in tree => Walking(Append(<<>>, Frame(Target)), tree)
      BY <1>5, PushWalk, ConstantsAssumption
    <2>2. Append(<<>>, Frame(Target)) = <<Frame(Target)>>
      OBVIOUS
    <2> QED
      BY <1>5, <2>1, <2>2 DEF Purge
  <1>7. EasyRun'
    <2> SUFFICES ASSUME Easy
                 PROVE  Easy' /\ (Target \in tree' => stack' # <<>>) /\ Retried'
                        /\ Cleared(stack, tree, mode)'
      BY DEF EasyRun, Purge
    <2>1. Easy'
      BY DEF Easy, Purge, Entries, Owner, Below
    <2>2. Target \in tree' => stack' # <<>>
      BY DEF Purge
    <2>3. Retried'
      BY DEF Retried, Purge
    <2>4. Target \in tree => kind[Target] = "dir"
      BY <1>1, ConstantsAssumption DEF Types
    <2>5. Cleared(stack, tree, mode)'
      BY <1>4, <2>4 DEF Cleared, Opened, Counted, Purge
    <2> QED
      BY <2>1, <2>2, <2>3, <2>5
  <1>8. Answered' /\ (tool = "idle" => stack = <<>>)'
    BY DEF Answered, Purge
  <1> QED
    BY <1>2, <1>3, <1>6, <1>7, <1>8 DEF IInv

\* The steps that remove nothing.
LEMMA OtherStep ==
  ASSUME IInv, Refuse \/ Return \/ Kill \/ UNCHANGED vars
  PROVE  IInv'
  <1>1. Types /\ Owned /\ Untouched /\ EasyRun /\ Answered /\ Walking(stack, tree)
        /\ (tool = "idle" => stack = <<>>)
    BY DEF IInv
  <1>2. /\ UNCHANGED <<tree, lasting, mode, retried>>
        /\ answer' \in {answer, "refused", "killed", "left", "removed"}
        /\ \/ tool' = tool /\ stack' = stack
           \/ tool' = "idle" /\ stack' = <<>>
    BY DEF Refuse, Return, Kill, Ends, vars, lasting
  <1>3. UNCHANGED <<kind, to, owner, runs, easy>>
    BY <1>2 DEF lasting
  <1>4. Types'
    BY <1>1, <1>2, <1>3 DEF Types
  <1>5. Owned' /\ Untouched'
    BY <1>1, <1>2, <1>3 DEF Owned, Untouched, Owner, Placed
  <1>6. Walking(stack', tree')
    <2>1. Walking(<<>>, tree)
      BY DEF Walking, Starts, Inside, Down, Apart, Over
    <2> QED
      BY <1>1, <1>2, <2>1
  <1>7. EasyRun'
    <2> SUFFICES ASSUME easy', tool' = "purge"
                 PROVE  (Easy /\ (Target \in tree => stack # <<>>) /\ Retried)'
                        /\ Cleared(stack, tree, mode)'
      BY DEF EasyRun
    <2>1. stack' = stack /\ easy /\ tool = "purge"
      BY <1>2, <1>3
    <2>2. Easy /\ (Target \in tree => stack # <<>>) /\ Retried /\ Cleared(stack, tree, mode)
      BY <1>1, <2>1 DEF EasyRun
    <2>3. Easy'
      BY <1>2, <1>3, <2>2 DEF Easy, Entries, Owner
    <2>4. Retried'
      BY <1>2, <1>3, <2>2 DEF Retried
    <2>5. Cleared(stack, tree, mode)'
      BY <1>2, <1>3, <2>1, <2>2 DEF Cleared
    <2> QED
      BY <1>2, <2>1, <2>2, <2>3, <2>4, <2>5
  <1>8. Answered'
    <2> SUFFICES ASSUME answer' = "left", answer # "left" PROVE ~easy
      BY <1>1, <1>2, <1>3 DEF Answered
    <2>1. tool = "purge" /\ stack = <<>> /\ Target \in tree
      BY DEF Refuse, Return, Kill, Ends, vars
    <2> QED
      BY <1>1, <2>1 DEF EasyRun
  <1>9. (tool = "idle" => stack = <<>>)'
    BY <1>1, <1>2
  <1> QED
    BY <1>4, <1>5, <1>6, <1>7, <1>8, <1>9 DEF IInv

\* At the start nothing walks, and a node is there when all over it are directories.
LEMMA Initially ==
  ASSUME Init
  PROVE  IInv
  <1>1. Types
    <2>1. tree \subseteq Nodes /\ retried \subseteq Nodes /\ runs \in 0..MaxRuns
      BY ConstantsAssumption DEF Init
    <2> QED
      BY <2>1 DEF Init, Types
  <1>2. Owned /\ Untouched /\ EasyRun /\ Answered
    BY DEF Init, Owned, Untouched, EasyRun, Answered, Placed
  <1>3. Walking(stack, tree)
    BY DEF Init, Walking, Starts, Inside, Down, Apart, Over
  <1> QED
    BY <1>1, <1>2, <1>3 DEF IInv, Init

\* Every step keeps the invariant.
LEMMA Inductive ==
  ASSUME IInv, [Next]_vars
  PROVE  IInv'
  BY PurgeStep, OpenStep, EntryStep, RmdirStep, OtherStep DEF Next, Walk

\* The invariant, always.
THEOREM Invariance == Spec => []IInv
  <1>1. Init => IInv
    BY Initially
  <1>2. IInv /\ [Next]_vars => IInv'
    BY Inductive
  <1> QED
    BY <1>1, <1>2, PTL DEF Spec

\* The types, in every run; a walk is a path down the tree, of nodes that are
\* there, so that it nests no deeper than the tree however often it starts anew.
THEOREM TypeCorrect == Spec => []TypeOK
  <1>1. IInv => TypeOK
    <2> SUFFICES ASSUME IInv PROVE TypeOK
      OBVIOUS
    <2>1. Types /\ Walking(stack, tree)
      BY DEF IInv
    <2>2. stack \in Seq(Frames)
      BY <2>1 DEF Walking
    <2>3. ASSUME NEW i \in DOMAIN stack
          PROVE  /\ stack[i].path \in tree /\ stack[i].at \in {"open", "entries"}
                 /\ i > 1 => Parent[stack[i].path] = stack[i - 1].path
      <3>1. i \in 1..Len(stack)
        BY <2>2, <2>3, LenProperties
      <3>2. stack[i].path \in tree
        BY <2>1, <3>1 DEF Walking, Inside
      <3>3. stack[i].at \in {"open", "entries"}
        BY <2>2, <3>1, FrameTypes DEF Frames
      <3>4. i > 1 => Parent[stack[i].path] = stack[i - 1].path
        BY <2>1, <3>1 DEF Walking, Down
      <3> QED
        BY <3>2, <3>3, <3>4
    <2> QED
      BY <2>1, <2>3 DEF Types, TypeOK
  <1> QED
    BY <1>1, Invariance, PTL

\* Whatever was locked or left half removed, a purge that is not killed removes
\* an Easy tree; and no purge removes anything but the target and what is below
\* it, wherever links lead.
THEOREM PurgesAreWhole == Spec => []Purges
  <1>1. IInv => Purges
    BY DEF IInv, Answered, Untouched, Purges
  <1> QED
    BY <1>1, Invariance, PTL
===============================================================================
