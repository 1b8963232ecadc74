------------------------------- MODULE AppPurge -------------------------------
(***************************************************************************)
(* app-sync's purge: rmtree with _chmod_and_retry on a tree that an app    *)
(* and the Portal left in .trash or .staging.  It runs as palmimo-app, one *)
(* purge after another, and each may be killed.  shutil.rmtree is external *)
(* and takes the entries of a directory in any order.                      *)
(***************************************************************************)
EXTENDS Naturals, SequencesExt

CONSTANTS
  Nodes,       \* names in .trash and .staging
  Target,      \* the directory to purge
  Parent,      \* of each node
  Roots,       \* .trash and .staging, the Portal's: write access for the group
  Foreign,     \* a file of root's
  Kinds,       \* of each node, what it may be
  Links,       \* of each node, where it may lead as a symbolic link
  MaxRuns      \* bound on the purges

ASSUME ConstantsAssumption ==
  /\ Target \in Nodes /\ Roots \notin Nodes /\ Foreign \notin Nodes
  /\ Parent \in [Nodes -> Nodes \union {Roots}] /\ Parent[Target] = Roots
  /\ Kinds \in [Nodes -> SUBSET {"dir", "file", "link"}] /\ Kinds[Target] = {"dir"}
  /\ Links \in [Nodes -> SUBSET (Nodes \union {Foreign})]
  /\ MaxRuns \in Nat

VARIABLES
  tree,        \* the nodes that are there
  kind, to,    \* what they are, and where those that are links lead
  owner,       \* "app" or "portal", whose directories give the group all access
  mode,        \* the owner's digit of a directory: 7, 6, 5 or 0
  runs, tool, answer,
  stack,       \* of rmtree: a directory, where it is in it, the entries left
  retried,     \* _RETRIED
  easy         \* history: the tree of this purge was Easy

vars == <<tree, kind, to, owner, mode, runs, tool, answer, stack, retried, easy>>
lasting == <<kind, to, owner, runs, easy>>

\* The directories over a node: what is in every set that has its parent and,
\* of each of its members, the parent.
Closed(S) == \A x \in S : Parent[x] \in S \union {Roots}
Above == [n \in Nodes |->
  {a \in Nodes : \A S \in SUBSET Nodes :
                   Closed(S) /\ Parent[n] \in S \union {Roots} => a \in S}]

Below(n) == {x \in Nodes : n \in Above[x]}

\* All over it are directories.
Placed(n) == \A a \in Above[n] : kind[a] = "dir"

Entries(n) == {x \in tree : Parent[x] = n}

Owner(n) == IF n = Roots THEN "portal" ELSE owner[n]

Searchable(n, m) == \A a \in Above[n] \intersect tree : m[a] \in {7, 5}

Writable(n, m) == n = Roots \/ m[n] = 7

(***************************************************************************)
(* _chmod_and_retry.                                                       *)
(***************************************************************************)
Ends(how) == tool' = "idle" /\ answer' = how /\ stack' = <<>>

Raise == Ends("raised") /\ UNCHANGED tree

GoOn(rest) == stack' = rest /\ UNCHANGED <<tool, answer>>

Frame(n) == [path |-> n, at |-> "open", left |-> {}]

\* chmod, is_dir and the open of rmtree follow a link.
Aim(n) == IF kind[n] = "link" THEN to[n] ELSE n

\* A mistake the runs must notice: the parent is left as it is.
ParentForgotten(n) == mode

ParentOpened(n) ==
  IF Owner(Parent[n]) = "app" THEN [mode EXCEPT ![Parent[n]] = 7]
  ELSE mode

\* Only an owner may chmod, and only what it can reach.
MayChmod(n, m) ==
  /\ Aim(n) \in Nodes /\ Searchable(Aim(n), m)
  /\ Aim(n) \in tree => owner[Aim(n)] = "app"

\* A mistake the runs must notice: the path of the retry is resolved first.
AgainResolved(n, m, rest) ==
  IF Aim(n) \notin tree THEN mode' = m /\ GoOn(rest) /\ UNCHANGED tree
  ELSE IF kind[Aim(n)] = "dir"
  THEN mode' = [m EXCEPT ![Aim(n)] = 7] /\ GoOn(Append(rest, Frame(Aim(n)))) /\ UNCHANGED tree
  ELSE mode' = m /\ GoOn(rest) /\ tree' = tree \ {Aim(n)}

\* The retry that follows: rmtree for a directory, or what looks like one; else unlink.
Again(n, m, rest) ==
  IF Aim(n) \notin tree THEN mode' = m /\ GoOn(rest) /\ UNCHANGED tree
  ELSE IF kind[Aim(n)] = "dir"
  THEN mode' = [m EXCEPT ![Aim(n)] = 7] /\ GoOn(Append(rest, Frame(n))) /\ UNCHANGED tree
  ELSE /\ mode' = m
       /\ IF Writable(Parent[n], m) THEN tree' = tree \ {n} /\ GoOn(rest)
          ELSE Raise

\* A mistake the runs must notice: nothing remembers what was retried.
RetryForEver(n, rest) ==
  /\ retried' = retried \union {n} /\ UNCHANGED lasting
  /\ LET m == ParentOpened(n) IN
     IF Owner(Parent[n]) = "app" /\ MayChmod(n, m) THEN Again(n, m, rest)
     ELSE mode' = m /\ Raise

\* No path is retried twice.  (_RETRIED may have one as str and as Path: the code
\* then retries it once more, as it would in a walk of its own.)
ChmodAndRetry(n, rest) ==
  /\ retried' = retried \union {n} /\ UNCHANGED lasting
  /\ LET m == ParentOpened(n) IN
     IF n \in retried THEN Raise /\ UNCHANGED mode
     ELSE IF Owner(Parent[n]) = "app" /\ MayChmod(n, m) THEN Again(n, m, rest)
     ELSE mode' = m /\ Raise

(***************************************************************************)
(* rmtree, with _chmod_and_retry for its errors.                           *)
(***************************************************************************)
Top == Last(stack)

At(step) == tool = "purge" /\ stack # <<>> /\ Top.at = step

\* It opens no link.
Opens(n) ==
  /\ kind[n] = "dir" /\ mode[n] # 0
  /\ Parent[n] = Roots \/ mode[Parent[n]] \in {7, 5}

Quiet == UNCHANGED <<mode, retried, tool, answer, lasting>>

Open ==
  /\ At("open")
  /\ IF Opens(Top.path)
     THEN /\ stack' = Append(Front(stack), [path |-> Top.path, at |-> "entries",
                                            left |-> Entries(Top.path)])
          /\ Quiet /\ UNCHANGED tree
     ELSE ChmodAndRetry(Top.path, Front(stack))

Entry ==
  /\ At("entries")
  /\ \E e \in Top.left :
       LET rest == Append(Front(stack), [Top EXCEPT !.left = @ \ {e}]) IN
       \/ kind[e] = "dir" /\ stack' = Append(rest, Frame(e)) /\ Quiet /\ UNCHANGED tree
       \/ /\ kind[e] # "dir" /\ Writable(Top.path, mode)
          /\ stack' = rest /\ tree' = tree \ {e} /\ Quiet
       \/ kind[e] # "dir" /\ ~Writable(Top.path, mode) /\ ChmodAndRetry(e, rest)

Rmdir ==
  /\ At("entries") /\ Top.left = {}
  /\ IF Entries(Top.path) = {} /\ Writable(Parent[Top.path], mode)
     THEN stack' = Front(stack) /\ tree' = tree \ {Top.path} /\ Quiet
     ELSE ChmodAndRetry(Top.path, Front(stack))

(***************************************************************************)
(* _purge.                                                                 *)
(***************************************************************************)
\* What a purge does remove: only a directory below one of the app's own is
\* closed to its owner, and no link is in one that is not writable.
Easy ==
  \A n \in tree : (kind[n] = "dir" /\ mode[n] # 7 /\ (n = Target \/ n \in Below(Target))) =>
    /\ mode[n] = 0 => Owner(Parent[n]) = "app"
    /\ \A e \in Entries(n) : kind[e] # "link"

Purge ==
  /\ tool = "idle" /\ runs < MaxRuns /\ runs' = runs + 1
  /\ tool' = "purge" /\ answer' = "none" /\ retried' = {} /\ easy' = Easy
  /\ stack' = IF Target \in tree THEN <<Frame(Target)>> ELSE <<>>
  /\ UNCHANGED <<tree, kind, to, owner, mode>>

\* A path that is not strictly below one of the roots.
Refuse ==
  /\ tool = "idle" /\ answer' = "refused"
  /\ UNCHANGED <<tree, lasting, mode, tool, stack, retried>>

Return ==
  /\ tool = "purge" /\ stack = <<>>
  /\ Ends(IF Target \in tree THEN "left" ELSE "removed")
  /\ UNCHANGED <<tree, lasting, mode, retried>>

\* By systemd, after half an hour, or by a power cut.
Kill == tool = "purge" /\ Ends("killed") /\ UNCHANGED <<tree, lasting, mode, retried>>

\* Below a directory of the app everything is the app's; what the Portal made
\* gives the group access.
Init ==
  /\ kind \in [Nodes -> {"dir", "file", "link"}] /\ \A n \in Nodes : kind[n] \in Kinds[n]
  /\ to \in [Nodes -> Nodes \union {Foreign}]
  /\ \A n \in Nodes : IF kind[n] = "link" THEN to[n] \in Links[n] ELSE to[n] = Foreign
  /\ tree = {n \in Nodes : Placed(n)}
  /\ owner \in [Nodes -> {"app", "portal"}]
  /\ \A n \in Nodes : Owner(Parent[n]) = "app" => owner[n] = "app"
  /\ mode \in [Nodes -> {7, 6, 5, 0}]
  /\ \A n \in Nodes : mode[n] # 7 => kind[n] = "dir" /\ owner[n] = "app"
  /\ runs = 0 /\ tool = "idle" /\ answer = "none" /\ stack = <<>> /\ retried = {}
  /\ easy = FALSE

Walk == Open \/ Entry \/ Rmdir \/ Return

Next == Purge \/ Refuse \/ Walk \/ Kill

Spec == Init /\ [][Next]_vars

\* A purge goes on.
FairSpec == Spec /\ WF_vars(Walk)

-----------------------------------------------------------------------------
(***************************************************************************)
(* Properties.                                                             *)
(***************************************************************************)
\* Types; the retries nest no deeper than the tree, so that a walk does not
\* run out of stack however often it starts anew.
TypeOK ==
  /\ tree \subseteq Nodes /\ retried \subseteq Nodes
  /\ mode \in [Nodes -> {7, 6, 5, 0}]
  /\ runs \in 0..MaxRuns /\ tool \in {"idle", "purge"} /\ easy \in BOOLEAN
  /\ answer \in {"none", "refused", "raised", "killed", "left", "removed"}
  /\ \A i \in DOMAIN stack :
       /\ stack[i].path \in tree /\ stack[i].at \in {"open", "entries"}
       /\ i > 1 => Parent[stack[i].path] = stack[i - 1].path

\* Whatever the app locked and whichever purges were killed half way, a purge
\* removes an Easy tree; the Portal starts it because "apps create 0700 dirs as
\* uid palmimo-app that the Portal's own uid cannot delete" (the unit, 44-45).
\* And it removes nothing else, wherever links lead: that "would take every
\* other app's in-flight job down with it" (104-105).
Purges ==
  /\ answer \in {"raised", "left"} => ~easy
  /\ \A n \in Nodes : n # Target /\ n \notin Below(Target) /\ Placed(n) => n \in tree

\* A purge that is not killed comes to an end: "re-raising ends the walk
\* instead of recursing on the same path" (81).
Finishes == (tool = "purge") ~> (tool = "idle")
===============================================================================
