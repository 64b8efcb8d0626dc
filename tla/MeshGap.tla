------------------------------- MODULE MeshGap ------------------------------
(***************************************************************************)
(* How nodes find each other (the GAP events of main/mesh_main.c): each    *)
(* node advertises for a random time after it booted, then scans, connects *)
(* to an advertiser it hears, discovers its services and scans again,      *)
(* until a timer stops the search and another one sends it to sleep.  Time *)
(* is a number of ticks; a timer that has expired is handled before the    *)
(* next tick.  NimBLE and the radio are external.                          *)
(***************************************************************************)
EXTENDS Integers, FiniteSets

CONSTANTS
  Node,
  InRange,       \* the pairs {n, p} that hear each other
  MaxAdv,        \* MAX_ADV_DURATION_IN_MS, in ticks, as are all that follow
  MaxDsc,        \* MAX_DSC_DURATION_IN_MS
  StopTicks,     \* MAX_CONNECTION_DISCOVERY_DURATION_IN_MS
  AwakeTicks,    \* MAX_TIME_AWAKE_IN_MS
  ConnectTicks,  \* the timeout of ble_gap_connect
  SleepTicks,    \* timeToSleepInSeconds
  MaxOffset,     \* how much later than the first node another one first wakes
  Disturbances   \* how many refused calls, errors, lost links and commands to
                 \* sleep there may be

ASSUME NodeAssumption   == IsFiniteSet(Node)
ASSUME RangeAssumption  == InRange \subseteq {{n, p} : n, p \in Node}
ASSUME TickAssumption   ==
  {MaxAdv, MaxDsc, StopTicks, AwakeTicks, ConnectTicks, SleepTicks} \subseteq Nat \ {0}
ASSUME OffsetAssumption == MaxOffset \in Nat
ASSUME BudgetAssumption == Disturbances \in Nat

VARIABLES
  timer,   \* timer[n]: the ticks left of each timer of n, or Off
  target,  \* target[n]: the node that n tries to connect to, as a set
  peer,    \* peer[n][p]: what the peer table of n says of p
  link,    \* the connections that are up, with their central: <<central, peripheral>>
  period,  \* period[n]: how long n advertises in this boot (history)
  found,   \* found[n]: n has tried to connect, or was connected to, in this
           \* boot (history)
  budget   \* the disturbances there may still be

vars == <<timer, target, peer, link, period, found, budget>>

Off    == -1
Timers == {"adv", "scan", "connect", "stop", "sleep", "wake"}
States == {"absent", "silent", "discovering", "ready"}

\* In deep sleep only the wake-up timer runs.
Asleep(ticks) == [t \in Timers |-> IF t = "wake" THEN ticks ELSE Off]
Awake(n)  == timer[n].wake = Off
Runs(n, t) == timer[n][t] # Off
Due(n, t)  == timer[n][t] = 0
Linked(n, p) == <<n, p>> \in link \/ <<p, n>> \in link

Disturbed == budget > 0 /\ budget' = budget - 1

-----------------------------------------------------------------------------
(* Starting to advertise and to scan.                                      *)

\* app_main starts the two timers.
AppMain == [Asleep(Off) EXCEPT !.stop = StopTicks, !.sleep = AwakeTicks]

\* When the host has synced, meshsnsr_adv advertises for a random time.
Boot(n) ==
  /\ Due(n, "wake")
  /\ \E d \in 1..MaxAdv :
       /\ timer' = [timer EXCEPT ![n] = [AppMain EXCEPT !.adv = d]]
       /\ period' = [period EXCEPT ![n] = d]
  /\ UNCHANGED <<target, peer, link, found, budget>>

\* (mutant) the flag that stops the search is read the wrong way round
ScanningWhenStopped(t) ==
  IF t.stop # Off \/ t.scan # Off \/ t.connect # Off THEN {t}
  ELSE {[t EXCEPT !.scan = d] : d \in 1..MaxDsc}

\* meshsnsr_dsc on the timers t of a node: nothing once the search has been
\* stopped; NimBLE refuses while it scans or connects already.
Scanning(t) ==
  IF t.stop = Off \/ t.scan # Off \/ t.connect # Off THEN {t}
  ELSE {[t EXCEPT !.scan = d] : d \in 1..MaxDsc}

\* BLE_GAP_EVENT_ADV_COMPLETE (mesh_node_resend_packets_if_needed is in MeshNode).
AdvComplete(n) ==
  /\ Due(n, "adv")
  /\ \E t \in Scanning([timer[n] EXCEPT !.adv = Off]) : timer' = [timer EXCEPT ![n] = t]
  /\ UNCHANGED <<target, peer, link, period, found, budget>>

\* (mutant) the node advertises again after a scan
DscCompleteAdvertises(n) ==
  /\ Due(n, "scan")
  /\ \E d \in 1..MaxAdv : timer' = [timer EXCEPT ![n].scan = Off, ![n].adv = d]
  /\ UNCHANGED <<target, peer, link, period, found, budget>>

\* BLE_GAP_EVENT_DISC_COMPLETE: the node does not look for peers any more.
DscComplete(n) ==
  /\ Due(n, "scan")
  /\ timer' = [timer EXCEPT ![n].scan = Off]
  /\ UNCHANGED <<target, peer, link, period, found, budget>>

\* stop_connection_discovery: a scan that is under way goes on.
StopConnectionDiscovery(n) ==
  /\ Due(n, "stop")
  /\ timer' = [timer EXCEPT ![n].stop = Off]
  /\ UNCHANGED <<target, peer, link, period, found, budget>>

-----------------------------------------------------------------------------
(* Connecting.                                                             *)

\* n hears the advertisements of p, and p is not in its peer table
\* (meshsnsr_should_connect).
Hears(n, p) ==
  /\ {n, p} \in InRange /\ n # p
  /\ Runs(n, "scan") /\ Runs(p, "adv")
  /\ peer[n][p] = "absent"

\* meshsnsr_connect_if_interesting: the scan is cancelled, which is not reported
\* by an event, then ble_gap_connect is called; when it fails, that is all.
Connect(n, p) ==
  /\ Hears(n, p)
  /\ found' = [found EXCEPT ![n] = TRUE]
  /\ \/ /\ timer' = [timer EXCEPT ![n].scan = Off, ![n].connect = ConnectTicks]
        /\ target' = [target EXCEPT ![n] = {p}]
        /\ UNCHANGED budget
     \/ /\ Disturbed
        /\ timer' = [timer EXCEPT ![n].scan = Off]
        /\ UNCHANGED target
  /\ UNCHANGED <<peer, link, period>>

\* p still advertises to n, which tries to connect to it.
Connects(n, p) ==
  /\ p \in target[n] /\ Runs(p, "adv") /\ {n, p} \in InRange

\* BLE_GAP_EVENT_CONNECT, status 0, on both ends: p stops advertising, which is
\* not reported by an event; each adds the other to its table and starts to
\* discover its services, or stays with an empty table when that is refused.
Connected(n, p) ==
  /\ Connects(n, p)
  /\ timer' = [timer EXCEPT ![n].connect = Off, ![p].adv = Off]
  /\ target' = [target EXCEPT ![n] = {}]
  /\ link' = link \cup {<<n, p>>}
  /\ found' = [found EXCEPT ![p] = TRUE]
  /\ \/ /\ peer' = [peer EXCEPT ![n][p] = "discovering", ![p][n] = "discovering"]
        /\ UNCHANGED budget
     \/ /\ Disturbed
        /\ \/ peer' = [peer EXCEPT ![n][p] = "silent", ![p][n] = "discovering"]
           \/ peer' = [peer EXCEPT ![n][p] = "discovering", ![p][n] = "silent"]
  /\ UNCHANGED <<period>>

\* (mutant) the target is kept
ConnectFailsKeepsTarget(n) ==
  /\ Runs(n, "connect")
  /\ \/ Due(n, "connect") /\ UNCHANGED budget
     \/ Disturbed
  /\ timer' = [timer EXCEPT ![n].connect = Off]
  /\ UNCHANGED <<target, peer, link, period, found>>

\* BLE_GAP_EVENT_CONNECT with an error, or after the timeout: the handler does
\* nothing, so n neither scans nor advertises from then on.
ConnectFails(n) ==
  /\ Runs(n, "connect")
  /\ \/ Due(n, "connect") /\ UNCHANGED budget
     \/ Disturbed
  /\ timer' = [timer EXCEPT ![n].connect = Off]
  /\ target' = [target EXCEPT ![n] = {}]
  /\ UNCHANGED <<peer, link, period, found>>

-----------------------------------------------------------------------------
(* Connections.                                                            *)

Unlinked(n, p) == link \ {<<n, p>>, <<p, n>>}

\* meshsnsr_on_disc_complete: on an error the connection is terminated; either way
\* the node goes on scanning.
DiscComplete(n, p) ==
  /\ peer[n][p] = "discovering" /\ Linked(n, p)
  /\ \/ /\ peer' = [peer EXCEPT ![n][p] = "ready"]
        /\ UNCHANGED <<link, budget>>
     \/ /\ Disturbed
        /\ link' = Unlinked(n, p)
        /\ peer' = [peer EXCEPT ![n][p] = "silent"]
  /\ \E t \in Scanning(timer[n]) : timer' = [timer EXCEPT ![n] = t]
  /\ UNCHANGED <<target, period, found>>

LinkLoss(n, p) ==
  /\ <<n, p>> \in link
  /\ Disturbed
  /\ link' = Unlinked(n, p)
  /\ UNCHANGED <<timer, target, peer, period, found>>

\* BLE_GAP_EVENT_DISCONNECT: mesh_peer_delete.  NimBLE fails a discovery that is
\* under way first, and meshsnsr_on_disc_complete scans again.
Disconnect(n, p) ==
  /\ peer[n][p] # "absent" /\ ~Linked(n, p)
  /\ peer' = [peer EXCEPT ![n][p] = "absent"]
  /\ IF peer[n][p] = "discovering"
     THEN \E t \in Scanning(timer[n]) : timer' = [timer EXCEPT ![n] = t]
     ELSE UNCHANGED timer
  /\ UNCHANGED <<target, link, period, found, budget>>

-----------------------------------------------------------------------------
(* Sleep and time.                                                         *)

\* go_to_sleep: everything but the wake-up timer is gone.
PowerDown(n) ==
  /\ timer' = [timer EXCEPT ![n] = Asleep(SleepTicks)]
  /\ target' = [target EXCEPT ![n] = {}]
  /\ peer' = [peer EXCEPT ![n] = [p \in Node |-> "absent"]]
  /\ link' = {l \in link : n \notin {l[1], l[2]}}
  /\ period' = [period EXCEPT ![n] = 0] /\ found' = [found EXCEPT ![n] = FALSE]

ForcedSleep(n) == Due(n, "sleep") /\ PowerDown(n) /\ UNCHANGED budget

\* meshsnsr_proc_go_to_sleep: the command comes over a connection.
GoToSleep(n) ==
  /\ \E p \in Node : Linked(n, p)
  /\ Disturbed
  /\ PowerDown(n)

\* Time passes when every timer that expired has been handled, and every node that
\* could be heard or connected to has been: the radio loses nothing but links.
Tick ==
  /\ \A n \in Node, t \in Timers : ~Due(n, t)
  /\ \A n, p \in Node : ~Hears(n, p) /\ ~Connects(n, p)
  /\ timer' = [n \in Node |-> [t \in Timers |->
                 IF timer[n][t] = Off THEN Off ELSE timer[n][t] - 1]]
  /\ UNCHANGED <<target, peer, link, period, found, budget>>

-----------------------------------------------------------------------------
\* The nodes sleep and wake up one after the other.
Init ==
  /\ timer \in [Node -> {Asleep(ticks) : ticks \in 0..MaxOffset}]
  /\ target = [n \in Node |-> {}]
  /\ peer = [n \in Node |-> [p \in Node |-> "absent"]]
  /\ link = {}
  /\ period = [n \in Node |-> 0]
  /\ found = [n \in Node |-> FALSE]
  /\ budget = Disturbances

Next ==
  \/ \E n \in Node :
       Boot(n) \/ AdvComplete(n) \/ DscComplete(n) \/ StopConnectionDiscovery(n)
         \/ ConnectFails(n) \/ ForcedSleep(n) \/ GoToSleep(n)
  \/ \E n, p \in Node :
       Connect(n, p) \/ Connected(n, p) \/ DiscComplete(n, p) \/ LinkLoss(n, p)
         \/ Disconnect(n, p)
  \/ Tick

Spec == Init /\ [][Next]_vars
-----------------------------------------------------------------------------
(* Properties.                                                             *)

\* Each variable keeps to its range; only a node that tries to connect has a
\* target.
TypeOK ==
  /\ timer \in [Node -> [Timers -> Nat \cup {Off}]]
  /\ target \in [Node -> SUBSET Node]
  /\ \A n \in Node : Cardinality(target[n]) = IF Runs(n, "connect") THEN 1 ELSE 0
  /\ peer \in [Node -> [Node -> States]]
  /\ link \subseteq Node \X Node
  /\ period \in [Node -> 0..MaxAdv] /\ found \in [Node -> BOOLEAN]
  /\ budget \in Nat

\* The connections between nodes never form a cycle: a node scans only after it
\* has stopped advertising for good, so it is found at most once per boot and has
\* to be found before it finds others.  The flood of mesh_node.c sends a packet
\* along each connection between nodes only from the side that has it first.
MeshIsForest ==
  \A S \in (SUBSET Node) \ {{}} :
    Cardinality({l \in link : l[1] \in S /\ l[2] \in S}) < Cardinality(S)

\* When n stops advertising, in the time it may still search, and p advertises
\* then or later than n stopped, the two do not both stay alone: one of them has
\* found or was found by some node.
AdvEnd(n) == timer[n].sleep + period[n]  \* from the time both go to sleep, backwards
Overlap(n, p) ==
  /\ period[n] < StopTicks
  /\ timer[p].sleep <= AdvEnd(n) /\ AdvEnd(n) < AdvEnd(p)
NobodyOverlooked ==
  \A n, p \in Node :
    /\ n # p /\ {n, p} \in InRange /\ Awake(n) /\ Awake(p)
    /\ ~Runs(n, "adv") /\ ~Runs(p, "adv")
    /\ Overlap(n, p)
    => found[n] \/ found[p]

\* mesh_main.c:29: "We add in an offset that's different for each sensor to ensure
\* they can't accidentally overlap and never see each other."
NodesMeet ==
  \A n, p \in Node :
    /\ n # p /\ {n, p} \in InRange /\ Awake(n) /\ Awake(p)
    /\ \A t \in {"adv", "scan", "connect"} : ~Runs(n, t) /\ ~Runs(p, t)
    => found[n] \/ found[p]
=============================================================================
