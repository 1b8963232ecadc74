--------------------------- MODULE ComitupReconnect ---------------------------
(***************************************************************************)
(* What patch_comitup_reconnect.py appends to comitup, run inside comitup. *)
(* comitup is a GLib loop: callbacks carry the state_id they were made     *)
(* for, run one at a time in any order, and ask for a transition by        *)
(* set_state(), which a later callback carries out.  comitup itself is     *)
(* modelled from how the wrappers, their tests and design.md use it, for   *)
(* the one radio of a Palmimo: modemgr's SINGLE_MODE.                      *)
(***************************************************************************)
EXTENDS Integers, Sequences, FiniteSets, SequencesExt

CONSTANTS
  Networks,    \* SSIDs, numbered in the order of ListConnections
  Hidden,      \* those whose profile says hidden
  Budget,      \* seconds one candidate decision may take
  None,
  MaxFaults

ASSUME ConstantsAssumption ==
  /\ Networks \subseteq Nat /\ IsFiniteSet(Networks) /\ Hidden \subseteq Networks /\ None \notin Networks
  /\ Budget \in Nat /\ MaxFaults \in Nat

VARIABLES
  state,       \* comitup's state
  startup,     \* comitup's flag: no candidate was tried since boot or the last loss
  queue,       \* transitions asked for: [state, list], list is the conn_list
  trying,      \* CONNECTING: the conn_list that is left, the first one being tried
  events,      \* HOTSPOT callbacks due: [fn, current], current is id = state_id
  pass,        \* _palmimo_startup_pass_id = state_id
  deciding,    \* the candidate decision under way and what it has read, if there is one
  flag,        \* _palmimo_filter_next_candidates
  group,       \* mdns.group: "none", "live", or made by an avahi that is gone: "stale"
  ap,          \* the setup access point is up
  active,      \* the network NetworkManager is connected to
  range,       \* the networks in range
  saved, prio, \* the saved profiles and their autoconnect-priority
  clients,     \* somebody is on the access point
  residual,    \* a second disconnect signal of one loss is on its way
  owed,        \* networks of the last startup decision that are not tried yet
  heard,       \* what spoke for the networks of the last decision
  stale,       \* whose priority that decision did not read, or the Portal changed since
  faults

world == <<range, prio, clients>>
\* What a decision is about.
memory == <<deciding, owed, heard, stale>>
vars == <<world, memory, state, startup, queue, trying, events, pass, flag, group, ap, active,
          saved, residual, faults>>

Fault == faults < MaxFaults /\ faults' = faults + 1
NoFault == faults' = faults

\* The loop is in no callback that decides.
Idle == deciding = {}

Event(fn) == [fn |-> fn, current |-> TRUE]
Ask(st, list) == queue' = Append(queue, [state |-> st, list |-> list])

(***************************************************************************)
(* nm.py: the candidates.                                                  *)
(***************************************************************************)
Priorities == [Networks -> {0, 1}]

\* A mistake the runs must notice: comitup's own order, that of ListConnections.
ListOrder(read, a, b) == a < b

Before(read, a, b) == read[a] > read[b] \/ (read[a] = read[b] /\ a < b)

Lists == UNION {[1..k -> Networks] : k \in 0..Cardinality(Networks)}

Sorts(s, S, read) == ToSet(s) = S /\ \A i, j \in DOMAIN s : i < j => Before(read, s[i], s[j])

\* The networks S by their priorities as they were read.
Ordered(S, read) == CHOOSE s \in Lists : Sorts(s, S, read)

\* A mistake the runs must notice: hidden profiles have to be seen too.
ExemptLive == {active} \intersect Networks

\* Hidden profiles and the live connection need not be seen.
Exempt == (Hidden \intersect saved) \union ({active} \intersect Networks)

\* The reads before the scan.  A profile that cannot be read has priority 0, one
\* that the Portal is changing that of before or after; a hidden profile or the
\* active connection that cannot be read is not exempt.
Reading(fn) ==
  \E read \in Priorities, passing \in SUBSET Exempt :
    /\ deciding' = {[fn |-> fn, read |-> read, candidates |-> saved, passing |-> passing]}
    /\ stale' = {n \in Networks : read[n] # prio[n]}
    /\ IF read = prio /\ passing = Exempt THEN NoFault ELSE Fault

\* The candidates of the decision d that are named; what is left out leaves the
\* others in their order.
Keep(d, names) == Ordered(d.candidates \intersect names, d.read)

\* What a scan reports: it may miss a network, or report one just gone.
Reports == SUBSET (Networks \ Hidden)
Errs(seen) == seen # range \ Hidden

Decision(d, names, slip) == [list |-> Keep(d, names), heard |-> names, slip |-> slip]

\* After a scan of s seconds that left nothing there is time for another.
Retries(s) == Budget - s > s

\* A mistake the runs must notice: an error of the second scan brings back
\* every candidate.
SecondScanForgets(d, seen) ==
  {[Decision(d, Networks, TRUE) EXCEPT !.heard = seen \union d.passing]}
    \union {Decision(d, again \union d.passing, Errs(again)) : again \in Reports}

\* The second scan: its failure changes nothing.
SecondScan(d, seen) ==
  {Decision(d, seen \union d.passing, TRUE)}
    \union {Decision(d, again \union d.passing, Errs(again)) : again \in Reports}

\* The scan and the filter.  An error, or the deadline, before there is a first
\* result makes it every candidate.
Filtered(d) ==
  LET Result(seen) ==
        {Decision(d, seen \union d.passing, Errs(seen))} \union
          (IF Keep(d, seen \union d.passing) = <<>> /\ \E s \in 1..Budget : Retries(s)
           THEN SecondScan(d, seen) ELSE {})
  IN {Decision(d, Networks, TRUE)} \union UNION {Result(seen) : seen \in Reports}

\* A mistake the runs must notice: every lookup is filtered.
LookupFilters(requested, d) ==
  IF d.candidates # {} THEN Filtered(d) ELSE {Decision(d, Networks, FALSE)}

\* get_candidate_connections(): what it may return.
Lookup(requested, d) ==
  IF requested /\ d.candidates # {} THEN Filtered(d) ELSE {Decision(d, Networks, FALSE)}

(***************************************************************************)
(* states.py: the callbacks of HOTSPOT.                                    *)
(***************************************************************************)
\* A callback of an id that is past: comitup's decorator and the wrappers drop it.
Past ==
  /\ Idle /\ \E e \in events : ~e.current /\ events' = events \ {e}
  /\ UNCHANGED <<world, memory, state, startup, queue, trying, pass, flag, group, ap, active, saved,
                 residual, faults>>

\* hotspot_pass: the pass of the startup hotspot decides.
HotspotPass ==
  /\ Idle /\ Event("pass") \in events /\ events' = events \ {Event("pass")}
  /\ pass' = (pass \/ startup) /\ flag' = FALSE
  /\ IF startup THEN Reading("pass") ELSE NoFault /\ UNCHANGED <<deciding, stale>>
  /\ UNCHANGED <<world, state, startup, queue, trying, group, ap, active, saved, residual, owed, heard>>

\* Minutes after the access point came up: nothing else is due.
TimerDue == queue = <<>> /\ ~residual /\ \A e \in events : e.current => e.fn = "timeout"

\* hotspot_timeout, every few minutes: a decision, unless the access point is
\* in use.
HotspotTimeout ==
  /\ Idle /\ Event("timeout") \in events /\ TimerDue
  /\ IF clients THEN NoFault /\ UNCHANGED <<deciding, stale>> ELSE Reading("timeout")
  /\ flag' = FALSE
  /\ UNCHANGED <<world, state, startup, queue, trying, events, pass, group, ap, active, saved,
                 residual, owed, heard>>

\* The scan has ended, and the callback with it.
Decide ==
  /\ \E d \in deciding : \E x \in Lookup(TRUE, d) :
       /\ IF x.slip THEN Fault ELSE NoFault
       /\ IF d.fn = "pass" \/ x.list # <<>>
          THEN heard' = x.heard /\ Ask("CONNECTING", x.list) ELSE UNCHANGED <<heard, queue>>
       /\ IF d.fn = "pass" THEN owed' = ToSet(x.list) /\ startup' = FALSE
                          ELSE UNCHANGED <<owed, startup>>
  /\ deciding' = {} /\ flag' = FALSE
  /\ UNCHANGED <<world, state, trying, events, pass, group, ap, active, saved, residual, stale>>

\* A mistake the runs must notice: the id of the startup hotspot is not kept.
ResidualWhileStartup == startup

\* hotspot_fail: in the startup hotspot no access point was started that could
\* fail; the disconnect is one of the network that was lost.
Residual == startup \/ pass

HotspotFail ==
  /\ Idle /\ Event("fail") \in events /\ events' = events \ {Event("fail")}
  /\ IF Residual THEN UNCHANGED queue ELSE Ask("HOTSPOT", <<>>)
  /\ UNCHANGED <<world, memory, state, startup, trying, pass, flag, group, ap, active, saved,
                 residual, faults>>

(***************************************************************************)
(* comitup: the transitions.                                               *)
(***************************************************************************)
\* A new state_id: what is due belongs to the past.
Take(st) ==
  /\ Idle /\ queue # <<>> /\ Head(queue).state = st
  /\ state' = st /\ pass' = FALSE

\* A mistake the runs must notice: callbacks keep no id.
OldEventsCount == events

\* Callbacks that are due get a past id; a timer that is not due yet will find
\* its id past, and need not be kept.
OldEvents == {[e EXCEPT !.current = FALSE] : e \in {f \in events : f.fn # "timeout"}}

\* A mistake the runs must notice: the exception of a stale group ends the callback.
ClearEntriesRaises(down) == IF down THEN group' = "none" ELSE group' = "live" /\ group # "stale"

\* clear_entries() and establish_group(): a stale group is dropped and made
\* again, and done without while avahi is down.
ClearEntries(down) == group' = IF down THEN "none" ELSE "live"

\* hotspot_start(): the startup hotspot is passed through
\* without an access point.
EnterHotspot ==
  /\ Take("HOTSPOT") /\ queue' = Tail(queue)
  /\ \E down \in BOOLEAN : ClearEntries(down) /\ IF down THEN Fault ELSE NoFault
  /\ ap' = ~startup
  /\ events' = OldEvents \union
       IF ap' THEN {Event("pass"), Event("timeout")} ELSE {Event("pass")}
  /\ active' = IF ap' THEN None ELSE active
  /\ trying' = <<>>
  /\ UNCHANGED <<world, memory, startup, flag, saved, residual>>

\* connecting_start(): a live connection to any saved network is taken over,
\* whatever their order; otherwise the list is tried, and the access point comes
\* back after it.
EnterConnecting ==
  /\ Take("CONNECTING")
  /\ \E passing \in SUBSET Exempt :
     \E x \in Lookup(flag, [read |-> prio, candidates |-> saved, passing |-> passing]) :
       LET list == Head(queue).list IN
       /\ IF x.slip THEN Fault ELSE NoFault
       /\ IF active \in ToSet(x.list)
          THEN /\ queue' = Tail(queue) \o <<[state |-> "CONNECTED", list |-> <<>>]>>
               /\ trying' = <<>> /\ owed' = {} /\ UNCHANGED active
          ELSE /\ active' = None /\ trying' = list /\ UNCHANGED owed
               /\ queue' = IF list # <<>> THEN Tail(queue)
                           ELSE Tail(queue) \o <<[state |-> "HOTSPOT", list |-> <<>>]>>
  /\ flag' = FALSE /\ ap' = FALSE /\ events' = OldEvents
  /\ clients' = FALSE /\ heard' = {}
  /\ UNCHANGED <<range, prio, startup, group, saved, residual, deciding, stale>>

\* connected_start(); 50-palmimo-avahi restarts avahi.
EnterConnected ==
  /\ Take("CONNECTED") /\ queue' = Tail(queue)
  /\ startup' = TRUE /\ group' = (IF group = "live" THEN "stale" ELSE group)
  /\ events' = OldEvents /\ owed' = {}
  /\ UNCHANGED <<world, trying, flag, ap, active, saved, residual, deciding, heard, stale, faults>>

\* The attempt at the first network of the list.
Attempt ==
  /\ Idle /\ state = "CONNECTING" /\ trying # <<>>
  /\ owed' = owed \ {Head(trying)}
  /\ LET usable == Head(trying) \in range \intersect saved IN
     \/ /\ usable /\ NoFault
        /\ active' = Head(trying) /\ trying' = <<>> /\ Ask("CONNECTED", <<>>)
     \/ /\ IF usable THEN Fault ELSE NoFault
        /\ trying' = Tail(trying)
        /\ IF Tail(trying) = <<>> THEN Ask("HOTSPOT", <<>>) ELSE UNCHANGED queue
        /\ UNCHANGED active
  /\ UNCHANGED <<world, state, startup, events, pass, flag, group, ap, saved, residual,
                 deciding, heard, stale>>

\* comitup learns of the loss.
Lost ==
  /\ Idle /\ state = "CONNECTED" /\ active = None /\ queue = <<>> /\ Ask("HOTSPOT", <<>>)
  /\ UNCHANGED <<world, memory, state, startup, trying, events, pass, flag, group, ap, active, saved,
                 residual, faults>>

(***************************************************************************)
(* NetworkManager, the radio, the Portal.                                  *)
(***************************************************************************)
\* A network that is lost signals twice: FAILED and, 2 ms later, DISCONNECTED.
Lose ==
  /\ active # None /\ active \notin range
  /\ active' = None /\ residual' = TRUE
  /\ UNCHANGED <<world, memory, state, startup, queue, trying, events, pass, flag, group, ap, saved,
                 faults>>

\* The second signal comes when it comes, and counts against the state of then.
Signal ==
  /\ residual /\ residual' = FALSE
  /\ events' = IF state = "HOTSPOT" THEN events \union {Event("fail")} ELSE events
  /\ UNCHANGED <<world, memory, state, startup, queue, trying, pass, flag, group, ap, active, saved,
                 faults>>

\* The access point goes down by itself, and comitup hears of it before it
\* decides: what a decision has asked for is earlier in the loop.
ApFails ==
  /\ Idle /\ ap /\ state = "HOTSPOT" /\ queue = <<>> /\ Fault
  /\ ap' = FALSE /\ clients' = FALSE /\ events' = events \union {Event("fail")}
  /\ UNCHANGED <<range, prio, memory, state, startup, queue, trying, pass, flag, group, active, saved,
                 residual>>

\* NetworkManager connects by itself, before comitup disconnects it.
Autoconnect ==
  /\ state = "HOTSPOT" /\ (startup \/ pass) /\ ~ap /\ active = None
  /\ active' \in saved \intersect range
  /\ UNCHANGED <<world, memory, state, startup, queue, trying, events, pass, flag, group, ap, saved,
                 residual, faults>>

Move ==
  /\ range' \in SUBSET Networks
  /\ UNCHANGED <<memory, state, startup, queue, trying, events, pass, flag, group, ap, active,
                 saved, prio, clients, residual, faults>>

Clients ==
  /\ ap /\ clients' \in BOOLEAN
  /\ UNCHANGED <<memory, state, startup, queue, trying, events, pass, flag, group, ap, active,
                 range, saved, prio, residual, faults>>

\* The Portal is another process: it changes the priorities or forgets a network
\* whatever comitup is doing.
Portal ==
  /\ Fault
  /\ \/ /\ prio' \in Priorities /\ stale' = stale \union {n \in Networks : prio'[n] # prio[n]}
        /\ UNCHANGED <<saved, active>>
     \/ \E n \in saved : /\ saved' = saved \ {n} /\ UNCHANGED <<prio, stale>>
                         /\ active' = IF active = n THEN None ELSE active
  /\ UNCHANGED <<state, startup, queue, trying, events, pass, flag, group, ap, range,
                 clients, residual, deciding, owed, heard>>

Fresh ==
  /\ state' = "HOTSPOT" /\ queue' = <<[state |-> "HOTSPOT", list |-> <<>>]>>
  /\ startup' = TRUE /\ trying' = <<>> /\ events' = {} /\ pass' = FALSE /\ flag' = FALSE
  /\ group' = "none" /\ ap' = FALSE /\ owed' = {} /\ heard' = {}
  /\ deciding' = {} /\ stale' = {}

\* comitup is restarted, by patch_comitup() of install.sh or by systemd.
Restart ==
  /\ Fault /\ Fresh /\ clients' = FALSE
  /\ UNCHANGED <<range, prio, active, saved, residual>>

Init ==
  /\ state = "HOTSPOT" /\ queue = <<[state |-> "HOTSPOT", list |-> <<>>]>>
  /\ startup = TRUE /\ trying = <<>> /\ events = {} /\ pass = FALSE /\ flag = FALSE
  /\ group = "none" /\ ap = FALSE /\ owed = {} /\ heard = {}
  /\ deciding = {} /\ stale = {}
  /\ range = Networks /\ saved = Networks /\ prio \in Priorities
  /\ active \in Networks \union {None} /\ clients = FALSE /\ residual = FALSE /\ faults = 0

Comitup ==
  \/ Past \/ HotspotPass \/ HotspotTimeout \/ Decide \/ HotspotFail
  \/ EnterHotspot \/ EnterConnecting \/ EnterConnected \/ Attempt \/ Lost

Next ==
  \/ Comitup
  \/ Lose \/ Signal \/ ApFails \/ Autoconnect \/ Move \/ Clients \/ Portal \/ Restart

Spec == Init /\ [][Next]_vars

\* The loop runs every callback that is due, timers included; attempts end, and
\* decisions, which have a deadline;
\* NetworkManager reports what it lost.  Nothing makes the world move.
FairSpec ==
  /\ Spec
  /\ WF_vars(Past) /\ WF_vars(HotspotPass) /\ WF_vars(HotspotTimeout) /\ WF_vars(HotspotFail)
  /\ WF_vars(EnterHotspot) /\ WF_vars(EnterConnecting) /\ WF_vars(EnterConnected)
  /\ WF_vars(Decide) /\ WF_vars(Attempt) /\ WF_vars(Lost) /\ WF_vars(Lose) /\ WF_vars(Signal)

(***************************************************************************)
(* Properties.                                                             *)
(***************************************************************************)
Transitions == [state : {"HOTSPOT", "CONNECTING", "CONNECTED"}, list : Lists]

Decisions == [fn : {"pass", "timeout"}, read : Priorities, candidates : SUBSET Networks,
              passing : SUBSET Networks]

\* Types.  A callback is only current in the state it was made in, and decides
\* only there.
TypeOK ==
  /\ state \in {"HOTSPOT", "CONNECTING", "CONNECTED"}
  /\ {startup, pass, flag, ap, clients, residual} \subseteq BOOLEAN
  /\ queue \in Seq(Transitions)
  /\ trying \in Lists
  /\ events \subseteq [fn : {"pass", "fail", "timeout"}, current : BOOLEAN]
  /\ state # "HOTSPOT" => Event("pass") \notin events /\ Event("timeout") \notin events
  /\ group \in {"none", "live", "stale"}
  /\ active \in Networks \union {None}
  /\ {range, saved, owed, heard, stale} \subseteq SUBSET Networks
  /\ prio \in Priorities
  /\ deciding \subseteq Decisions /\ (state # "HOTSPOT" => Idle)
  /\ faults \in 0..MaxFaults

\* A single device does not raise its access point before it has tried every
\* network of the startup decision, in whatever order the pass and the
\* residual disconnect of the loss are called (states.py appendix,
\* design.md:217-222).
TriesBeforeAp == ap => owed = {}

\* No network is tried before one of higher priority (nm.py appendix,
\* design.md:165), unless the decision could not read the priority of one of the
\* two or the Portal changed it after the read, while the decision or the
\* attempts were under way.
TriesInOrder ==
  \A i, j \in DOMAIN trying :
    i < j /\ {trying[i], trying[j]} \intersect stale = {} => prio[trying[i]] >= prio[trying[j]]

\* comitup never gives up a live connection to a saved network in range, also
\* when it was restarted and its scan did not show that network
\* (nm.py appendix: "need the full list to recognize a live connection").
LiveKept ==
  [][(active \in saved' \intersect range) => active' = active]_vars

\* A running access point is given up only for networks that a scan reported,
\* that are hidden, or after a first scan that failed (nm.py appendix: a retry
\* "cannot ... tear down an otherwise idle AP").
ApHeld == [][EnterConnecting /\ ap => ToSet(trying') \subseteq heard]_vars

\* When every network is gone, the access point comes up, again and again, also
\* if avahi was restarted or is down (mdns.py appendix); it stays up when no
\* hidden network is saved.
FallsBack ==
  /\ <>[](range = {}) => []<>ap
  /\ <>[](range = {} /\ saved \intersect Hidden = {}) => <>[]ap

\* When the world stays as it is, with a saved network in range and nobody on the
\* access point, the device gets connected and stays so.
Reconnects ==
  \A R \in SUBSET Networks :
    <>[](range = R /\ saved \intersect R # {} /\ ~clients)
      => <>[](state = "CONNECTED" /\ active \in R)
===============================================================================
