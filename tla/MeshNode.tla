------------------------------ MODULE MeshNode ------------------------------
(***************************************************************************)
(* The packet layer of the sensor mesh (main/mesh_node.c) together with    *)
(* the handlers main/mesh_main.c registers with it: flooding with a time   *)
(* to live, the table of processed idempotency keys, provisioning of node  *)
(* ids by the hub, and the request that is resent until it is answered.    *)
(*                                                                         *)
(* Every node runs the NimBLE host task, which handles one GAP or GATT     *)
(* event at a time: a handler is one action.  The FreeRTOS timer task and  *)
(* the other nodes interleave with it between handlers.  The hub is not in *)
(* the repository; it is modelled from what the nodes expect of it.        *)
(***************************************************************************)
EXTENDS Integers, Sequences, FiniteSets

CONSTANTS
  Node,      \* sensor nodes; a node stands for its own Bluetooth address too
  Hub,       \* the hub
  Links,     \* the pairs {n, p} that are in radio range of each other
  NoAddr,    \* the payload of a packet that carries no address
  UInt8,     \* how many values a uint8_t has (256 in the build)
  StdTtl,    \* std_ttl
  MaxPars,   \* MAX_PACKETS_AWAITING_RESPONSE
  NodeIds,   \* the node ids the hub assigns
  Commands,  \* the types of the commands the hub sends
  Budget     \* bounds of the environment: see BudgetKinds

HUB_NODE_ID         == 0
PROVISIONAL_NODE_ID == 1
Unassigned          == 0   \* the hub has not given this address an id yet

\* How often each thing that the environment may do at will can still happen:
\* expiries of the resend timer, link losses, writes the host refuses,
\* commands of the hub, forced sleeps, and wake-ups from deep sleep.
BudgetKinds == {"ticks", "drops", "losses", "commands", "sleeps", "wakes"}

CommandTypes == {"REQ", "UPDATE", "OTA_UPDATE_AVAILABLE", "GO_TO_SLEEP"}
ReplyTypes   == {"RESP", "ACK", "OTA_UPDATE_AVAILABLE_RESP"}
PacketTypes  == {"NODE_CONNECTED", "NODE_CONNECTED_RESP"}
                  \cup CommandTypes \cup ReplyTypes

ASSUME NodeAssumption   == /\ IsFiniteSet(Node) /\ Node # {}
                           /\ Hub \notin Node /\ NoAddr \notin Node
ASSUME LinkAssumption   == Links \subseteq {{n, p} : n \in Node, p \in Node \cup {Hub}}
ASSUME WidthAssumption  == UInt8 \in Nat /\ UInt8 > 2
ASSUME TtlAssumption    == StdTtl \in 1..(UInt8 - 1)
ASSUME ParsAssumption   == MaxPars \in Nat \ {0}
ASSUME IdAssumption     == NodeIds \subseteq 2..(UInt8 - 1)
ASSUME CommandAssumption == Commands \subseteq CommandTypes
ASSUME BudgetAssumption == Budget \in [BudgetKinds -> Nat]

VARIABLES
  awake,      \* awake[n]: n is running rather than in deep sleep
  node,       \* node[n]: the RAM of n (globals of mesh_node.c); see PowerOn
  peer,       \* peer[n][p]: what n's peer table knows of p
  link,       \* the connections that are up, as pairs
  chan,       \* chan[<<p, n>>]: frames p sent that n has not handled, oldest first
  hub_inbox,  \* requests for an id that reached the hub
  hub_id,     \* the id the hub gave to each address
  hub_key,    \* the hub's idempotency key counter
  budget      \* what the environment may still do

vars == <<awake, node, peer, link, chan, hub_inbox, hub_id, hub_key, budget>>
hubVars == <<hub_inbox, hub_id, hub_key>>

Peers == Node \cup {Hub}
Byte  == 0..(UInt8 - 1)
Wire  == {l \in Peers \X Node : l[1] # l[2]}

-----------------------------------------------------------------------------
(* Packets and frames.                                                     *)

\* A mesh_data_packet.  The data is an address and a number: the assigned id in
\* a response of the hub, the number of the command in a command or its reply.
Packet == [source : Byte, dest : Byte, ttl : Byte, key : Byte,
           type : PacketTypes, addr : Node \cup {NoAddr}, val : Nat]

\* A packet is carried by a characteristic write or by a notification.
Frame == [op : {"write", "notify"}, packet : Packet]

\* (mutant) every packet to the hub is filled in as the request for an id is
ToHubUnassigned(s, type, addr, val) ==
  [source |-> PROVISIONAL_NODE_ID, dest |-> HUB_NODE_ID, ttl |-> StdTtl,
   key |-> s.idempotency_key_counter, type |-> type, addr |-> addr, val |-> val]

ToHub(s, type, addr, val) ==
  [source |-> s.our_node_id, dest |-> HUB_NODE_ID, ttl |-> StdTtl,
   key |-> s.idempotency_key_counter, type |-> type, addr |-> addr, val |-> val]

ReplyType(type) ==
  CASE type = "REQ"    -> "RESP"
    [] type = "UPDATE" -> "ACK"
    [] OTHER           -> "OTA_UPDATE_AVAILABLE_RESP"

-----------------------------------------------------------------------------
(* The RAM of one node, and the functions of mesh_node.c on it.            *)

\* "applied" is a history variable: the commands whose handler ran since boot.
PowerOn ==
  [our_node_id |-> PROVISIONAL_NODE_ID, provisioning_requested |-> FALSE,
   processed_packets |-> {}, idempotency_key_counter |-> 0, pars |-> <<>>,
   resend_packets |-> FALSE, resend_timer |-> FALSE, applied |-> <<>>]

NodeState ==
  [our_node_id : Byte, provisioning_requested : BOOLEAN,
   processed_packets : SUBSET Byte, idempotency_key_counter : Byte,
   pars : Seq(Packet), resend_packets : BOOLEAN, resend_timer : BOOLEAN,
   applied : Seq(Nat)]

NextKey(s, k) == (s.idempotency_key_counter + k) % UInt8

\* mesh_node_next_idempotency_key: the counter is a uint8_t and wraps.
KeyTaken(s) == [s EXCEPT !.idempotency_key_counter = NextKey(s, 1)]

\* (mutant) the resend timer is not started
AwaitNothing(s, p) ==
  IF Len(s.pars) >= MaxPars THEN s ELSE [s EXCEPT !.pars = <<p>> \o @]

\* mn_add_packet_awaiting_response: dropped when the pool is empty; otherwise
\* the packet is remembered and the resend timer runs.
AwaitResponse(s, p) ==
  IF Len(s.pars) >= MaxPars THEN s
  ELSE [s EXCEPT !.pars = <<p>> \o @, !.resend_timer = TRUE]

\* The first packet of a given type, as mn_find_par_by_type walks the list.
IsFirstOfType(ps, type, i) ==
  /\ ps[i].type = type
  /\ \A j \in 1..(i - 1) : ps[j].type # type

Without(ps, i) == SubSeq(ps, 1, i - 1) \o SubSeq(ps, i + 1, Len(ps))

\* mesh_node_packet_response_received: the request is no longer outstanding.
ResponseReceived(s) ==
  [s EXCEPT !.pars =
     IF \E i \in DOMAIN @ : @[i].type = "NODE_CONNECTED"
     THEN Without(@, CHOOSE i \in DOMAIN @ : IsFirstOfType(@, "NODE_CONNECTED", i))
     ELSE @]

\* The outstanding packets, each with the fresh key it is resent under.
Rekeyed(s) ==
  [i \in 1..Len(s.pars) |-> [s.pars[i] EXCEPT !.key = NextKey(s, i - 1)]]

\* (mutant) a packet is resent once and then forgotten
ResendOnce(s) ==
  IF ~s.resend_packets THEN s
  ELSE [s EXCEPT !.resend_packets = FALSE, !.resend_timer = FALSE, !.pars = <<>>,
                 !.idempotency_key_counter = NextKey(s, Len(s.pars))]

\* mesh_node_resend_packets_if_needed: what it does to the RAM ...
ResendIfNeeded(s) ==
  IF ~s.resend_packets THEN s
  ELSE IF s.pars = <<>> THEN [s EXCEPT !.resend_packets = FALSE, !.resend_timer = FALSE]
  ELSE [s EXCEPT !.resend_packets = FALSE, !.pars = Rekeyed(s),
                 !.idempotency_key_counter = NextKey(s, Len(s.pars))]

\* ... and what it hands to mn_forward_packet for every peer.
Resent(s) == IF s.resend_packets THEN Rekeyed(s) ELSE <<>>

\* (mutants) the address in an answer of the hub is not compared; the destination
\* of a command is not; the ttl is not looked at
NextStepAnyAddress(n, p) ==
  LET s == node[n] IN
  CASE p.dest = s.our_node_id -> IF p.key \in s.processed_packets THEN "TERMINATE" ELSE "PROCESS"
    [] p.dest # s.our_node_id /\ p.type = "GO_TO_SLEEP" -> "PROCESS"
    [] OTHER -> IF p.ttl = 0 THEN "TERMINATE" ELSE "FORWARD"
NextStepAnyDest(n, p) ==
  CASE p.type \in CommandTypes ->
         IF p.key \in node[n].processed_packets THEN "TERMINATE" ELSE "PROCESS"
    [] OTHER -> IF p.ttl = 0 THEN "TERMINATE" ELSE "FORWARD"
NextStepAnyTtl(n, p) ==
  LET s == node[n] IN
  CASE p.dest = s.our_node_id /\ p.type = "NODE_CONNECTED_RESP" ->
         IF p.addr = n THEN "PROCESS" ELSE "FORWARD"
    [] p.dest = s.our_node_id /\ p.type # "NODE_CONNECTED_RESP" ->
         IF p.key \in s.processed_packets THEN "TERMINATE" ELSE "PROCESS"
    [] p.dest # s.our_node_id /\ p.type = "GO_TO_SLEEP" -> "PROCESS"
    [] OTHER -> "FORWARD"

\* mn_packet_next_step: the decision about a packet that was written to node n.
NextStep(n, p) ==
  LET s == node[n] IN
  CASE p.dest = s.our_node_id /\ p.type = "NODE_CONNECTED_RESP" ->
         IF p.addr = n THEN "PROCESS" ELSE "FORWARD"
    [] p.dest = s.our_node_id /\ p.type # "NODE_CONNECTED_RESP" ->
         IF p.key \in s.processed_packets THEN "TERMINATE" ELSE "PROCESS"
    [] p.dest # s.our_node_id /\ p.type = "GO_TO_SLEEP" -> "PROCESS"
    [] OTHER -> IF p.ttl = 0 THEN "TERMINATE" ELSE "FORWARD"

\* (mutants) the ttl is a signed number; a packet is not marked; keys are taken
\* for sequence numbers
DecrementedSigned(p) == [p EXCEPT !.ttl = @ - 1]
Unmarked(s, p) == s
MarkedUpTo(s, p) == [s EXCEPT !.processed_packets = @ \cup 0..p.key]

\* data_packet.ttl -= 1 on a uint8_t.
Decremented(p) == [p EXCEPT !.ttl = (@ - 1) % UInt8]

\* mn_process_packet marks the key before it calls the handler.
Marked(s, p) == [s EXCEPT !.processed_packets = @ \cup {p.key}]

-----------------------------------------------------------------------------
(* Sending.                                                                *)

\* mn_forward_packet writes to the peer's data characteristic if it has been
\* discovered and notifies otherwise.  The hub has no such characteristic.
Op(n, p) == IF peer[n][p] \in {"found", "ready"} THEN "write" ELSE "notify"

Framed(n, p, out) == [i \in 1..Len(out) |-> [op |-> Op(n, p), packet |-> out[i]]]

\* The peers a packet of n reaches: those in its table whose link is still up.
Reached(n) == {p \in Peers : peer[n][p] # "absent" /\ {n, p} \in link}

\* The peers for which the host refuses a write (no memory, no free procedure).
Refusals(n) ==
  {{}} \cup IF budget.losses > 0 THEN {{p} : p \in Reached(n)} ELSE {}

Transmitted(c, n, out, to) ==
  [l \in Wire |-> IF l[1] = n /\ l[2] \in to
                  THEN c[l] \o Framed(n, l[2], out) ELSE c[l]]

\* What the hub learns from the packets in out.
Requests(out) ==
  {[addr |-> out[i].addr, source |-> out[i].source] :
     i \in {j \in 1..Len(out) : out[j].type = "NODE_CONNECTED"}}

\* The end of every handler of node n: its RAM becomes s, and the packets in out
\* go, in order, to each peer (mesh_peer_exec_for_each(mn_forward_packet, ...)).
\* A refused write is only logged, whatever the packet.  c is what is in flight.
Finish(n, s, out, c) ==
  \E refused \in IF out = <<>> THEN {{}} ELSE Refusals(n) :
    LET to == Reached(n) \ refused IN
    /\ node' = [node EXCEPT ![n] = s]
    /\ chan' = Transmitted(c, n, out, to)
    /\ hub_inbox' = IF Hub \in to THEN hub_inbox \cup Requests(out) ELSE hub_inbox
    /\ budget' = [budget EXCEPT !.losses = @ - Cardinality(refused)]
    /\ UNCHANGED <<awake, peer, link, hub_id, hub_key>>

\* mn_receive_data calls mesh_node_resend_packets_if_needed last.
FinishReceive(n, s, out, c) ==
  Finish(n, ResendIfNeeded(s), out \o Resent(s), c)

-----------------------------------------------------------------------------
(* Handlers of the GATT server: mn_receive_data.                           *)

InFlight(p, n)  == <<p, n>> \in Wire /\ chan[<<p, n>>] # <<>>
Received(p, n)  == Head(chan[<<p, n>>]).packet
Handled(p, n)   == [chan EXCEPT ![<<p, n>>] = Tail(@)]
Writes(p, n, decision) ==
  /\ InFlight(p, n)
  /\ Head(chan[<<p, n>>]).op = "write"
  /\ NextStep(n, Received(p, n)) = decision

\* BLE_GAP_EVENT_NOTIFY_RX has no case in meshsnsr_gap_event.
IgnoreNotification(p, n) ==
  /\ InFlight(p, n)
  /\ Head(chan[<<p, n>>]).op = "notify"
  /\ chan' = Handled(p, n)
  /\ UNCHANGED <<awake, node, peer, link, hubVars, budget>>

Forward(p, n) ==
  /\ Writes(p, n, "FORWARD")
  /\ FinishReceive(n, node[n], <<Decremented(Received(p, n))>>, Handled(p, n))

Terminate(p, n) ==
  /\ Writes(p, n, "TERMINATE")
  /\ FinishReceive(n, node[n], <<>>, Handled(p, n))

\* meshsnsr_proc_node_connected_resp
ProcNodeConnectedResp(p, n) ==
  LET m == Received(p, n) IN
  /\ Writes(p, n, "PROCESS")
  /\ m.type = "NODE_CONNECTED_RESP"
  /\ FinishReceive(n, ResponseReceived([Marked(node[n], m) EXCEPT !.our_node_id = m.val]),
                   <<>>, Handled(p, n))

\* meshsnsr_proc_data_request, meshsnsr_proc_config_update and
\* meshsnsr_proc_ota_update_available: the node answers the hub.
ProcCommand(p, n) ==
  LET m == Received(p, n)
      s == [Marked(node[n], m) EXCEPT !.applied = Append(@, m.val)]
  IN /\ Writes(p, n, "PROCESS")
     /\ m.type \in {"REQ", "UPDATE", "OTA_UPDATE_AVAILABLE"}
     /\ FinishReceive(n, KeyTaken(s), <<ToHub(s, ReplyType(m.type), NoAddr, m.val)>>,
                      Handled(p, n))

\* When nvs_open fails the handlers return without an answer; the one for OTA
\* updates has taken its idempotency key by then.
ProcCommandNvsError(p, n) ==
  LET m == Received(p, n)
      s == [Marked(node[n], m) EXCEPT !.applied = Append(@, m.val)]
  IN /\ Writes(p, n, "PROCESS")
     /\ m.type \in {"UPDATE", "OTA_UPDATE_AVAILABLE"}
     /\ FinishReceive(n, IF m.type = "OTA_UPDATE_AVAILABLE" THEN KeyTaken(s) ELSE s,
                      <<>>, Handled(p, n))

\* Deep sleep or esp_restart: the RAM and the connections are gone.  What n had
\* put on the air (c) can still be handled by its peers.
PowerDown(n, c) ==
  /\ awake' = [awake EXCEPT ![n] = FALSE]
  /\ node' = [node EXCEPT ![n] = PowerOn]
  /\ peer' = [peer EXCEPT ![n] = [p \in Peers |-> "absent"]]
  /\ link' = {l \in link : n \notin l}
  /\ chan' = [l \in Wire |-> IF l[2] = n THEN <<>> ELSE c[l]]
  /\ UNCHANGED hubVars

\* meshsnsr_proc_go_to_sleep sends the packet on twice and powers down at once;
\* the copies that leave the node before the radio is off reach the peers in to.
ProcGoToSleep(p, n) ==
  LET m == Received(p, n) IN
  /\ Writes(p, n, "PROCESS")
  /\ m.type = "GO_TO_SLEEP"
  /\ \E to \in SUBSET Reached(n) :
       PowerDown(n, Transmitted(Handled(p, n), n, <<m, m>>, to))
  /\ UNCHANGED budget

Receive(p, n) ==
  \/ IgnoreNotification(p, n)
  \/ Forward(p, n)
  \/ Terminate(p, n)
  \/ ProcNodeConnectedResp(p, n)
  \/ ProcCommand(p, n)
  \/ ProcCommandNvsError(p, n)
  \/ ProcGoToSleep(p, n)

-----------------------------------------------------------------------------
(* GAP events, service discovery and timers.                               *)

Spend(kind) == budget[kind] > 0 /\ budget' = [budget EXCEPT ![kind] = @ - 1]

\* BLE_GAP_EVENT_CONNECT on both ends: each adds the other to its peer table
\* and starts to discover its services.
Connect(n, p) ==
  /\ {n, p} \in Links \ link
  /\ awake[n] /\ peer[n][p] = "absent"
  /\ p \in Node => awake[p] /\ peer[p][n] = "absent"
  /\ link' = link \cup {{n, p}}
  /\ peer' = [m \in Node |->
                CASE m = n -> [peer[m] EXCEPT ![p] = "discovering"]
                  [] m = p -> [peer[m] EXCEPT ![n] = "discovering"]
                  [] OTHER -> peer[m]]
  /\ UNCHANGED <<awake, node, chan, hubVars, budget>>

\* Discovery has reached the data characteristic of p, but is not complete.
ChrFound(n, p) ==
  /\ p \in Node
  /\ peer[n][p] = "discovering" /\ {n, p} \in link
  /\ peer' = [peer EXCEPT ![n][p] = "found"]
  /\ UNCHANGED <<awake, node, link, chan, hubVars, budget>>

\* meshsnsr_on_disc_complete, status 0, and mesh_node_connection_available: the
\* first time, the node asks the hub for an id.
DiscComplete(n, p) ==
  LET s   == node[n]
      req == ToHub(s, "NODE_CONNECTED", n, 0)
      known == [peer EXCEPT ![n][p] = "ready"]
  IN /\ {n, p} \in link
     /\ peer[n][p] = IF p = Hub THEN "discovering" ELSE "found"
     /\ peer' = known
     /\ IF s.provisioning_requested
        THEN UNCHANGED <<node, chan, hub_inbox, budget>>
        ELSE \E refused \in Refusals(n) :
               LET to == Reached(n) \ refused IN
               /\ node' = [node EXCEPT ![n] =
                    AwaitResponse(KeyTaken([s EXCEPT !.provisioning_requested = TRUE]), req)]
               /\ chan' = Transmitted(chan, n, <<req>>, to)
               /\ hub_inbox' = IF Hub \in to THEN hub_inbox \cup Requests(<<req>>) ELSE hub_inbox
               /\ budget' = [budget EXCEPT !.losses = @ - Cardinality(refused)]
     /\ UNCHANGED <<awake, link, hub_id, hub_key>>

\* The link is lost (or discovery failed and the node terminated it) with what
\* was in flight on it; each end hears of it by its own DISCONNECT event.
LinkLoss(n, p) ==
  /\ {n, p} \in link
  /\ Spend("drops")
  /\ link' = link \ {{n, p}}
  /\ chan' = [l \in Wire |-> IF {l[1], l[2]} = {n, p} THEN <<>> ELSE chan[l]]
  /\ UNCHANGED <<awake, node, peer, hubVars>>

\* BLE_GAP_EVENT_DISCONNECT: mesh_peer_delete.
Disconnect(n, p) ==
  /\ peer[n][p] # "absent" /\ {n, p} \notin link
  /\ peer' = [peer EXCEPT ![n][p] = "absent"]
  /\ UNCHANGED <<awake, node, link, chan, hubVars, budget>>

\* mn_set_resend_flag, on the timer task; the timer reloads itself.
ResendTick(n) ==
  /\ node[n].resend_timer /\ ~node[n].resend_packets
  /\ Spend("ticks")
  /\ node' = [node EXCEPT ![n].resend_packets = TRUE]
  /\ UNCHANGED <<awake, peer, link, chan, hubVars>>

\* BLE_GAP_EVENT_ADV_COMPLETE and _DISC_COMPLETE, when there is something to do.
HostEvent(n) ==
  /\ node[n].resend_packets
  /\ Finish(n, ResendIfNeeded(node[n]), Resent(node[n]), chan)

\* forced_sleep: the node has been awake for MAX_TIME_AWAKE_IN_MS.
ForcedSleep(n) ==
  /\ awake[n]
  /\ Spend("sleeps")
  /\ PowerDown(n, chan)

\* The end of deep sleep: app_main starts with fresh RAM.
Wake(n) ==
  /\ ~awake[n]
  /\ Spend("wakes")
  /\ awake' = [awake EXCEPT ![n] = TRUE]
  /\ UNCHANGED <<node, peer, link, chan, hubVars>>

-----------------------------------------------------------------------------
(* The hub (external).                                                     *)

HubPacket(dest, type, addr, val) ==
  [source |-> HUB_NODE_ID, dest |-> dest, ttl |-> StdTtl, key |-> hub_key,
   type |-> type, addr |-> addr, val |-> val]

\* The hub writes a packet to the data characteristic of every node it reaches.
HubSends(m) ==
  /\ chan' = [l \in Wire |-> IF l[1] = Hub /\ {l[2], Hub} \in link
                             THEN Append(chan[l], [op |-> "write", packet |-> m])
                             ELSE chan[l]]
  /\ hub_key' = (hub_key + 1) % UInt8

\* A request is answered with the id of its address, to the id it came from; an
\* address the hub has not seen before gets an id no other address has.
HubAnswer ==
  \E r \in hub_inbox, id \in NodeIds :
    /\ IF hub_id[r.addr] = Unassigned THEN \A m \in Node : hub_id[m] # id
                                      ELSE hub_id[r.addr] = id
    /\ hub_id' = [hub_id EXCEPT ![r.addr] = id]
    /\ hub_inbox' = hub_inbox \ {r}
    /\ HubSends(HubPacket(r.source, "NODE_CONNECTED_RESP", r.addr, id))
    /\ UNCHANGED <<awake, node, peer, link, budget>>

\* A command for a node the hub knows, numbered by what is left of the budget.
HubCommand(n) ==
  /\ hub_id[n] # Unassigned
  /\ \E type \in Commands :
       HubSends(HubPacket(hub_id[n], type, NoAddr, budget.commands))
  /\ Spend("commands")
  /\ UNCHANGED <<awake, node, peer, link, hub_inbox, hub_id>>

-----------------------------------------------------------------------------
Init ==
  /\ awake = [n \in Node |-> TRUE]
  /\ node = [n \in Node |-> PowerOn]
  /\ peer = [n \in Node |-> [p \in Peers |-> "absent"]]
  /\ link = {}
  /\ chan = [l \in Wire |-> <<>>]
  /\ hub_inbox = {}
  /\ hub_id = [n \in Node |-> Unassigned]
  /\ hub_key = 0
  /\ budget = Budget

Next ==
  \/ \E n \in Node, p \in Peers :
       Connect(n, p) \/ ChrFound(n, p) \/ DiscComplete(n, p)
         \/ LinkLoss(n, p) \/ Disconnect(n, p) \/ Receive(p, n)
  \/ \E n \in Node :
       ResendTick(n) \/ HostEvent(n) \/ ForcedSleep(n) \/ Wake(n) \/ HubCommand(n)
  \/ HubAnswer

Spec == Init /\ [][Next]_vars

\* The NimBLE host delivers what is queued: every frame is eventually handled.
FairDelivery == \A l \in Wire : WF_vars(Receive(l[1], l[2]))
FairSpec == Spec /\ FairDelivery

-----------------------------------------------------------------------------
(* Properties.                                                             *)

\* The packets of every frame in c that is still to be handled.
Flying(c) == UNION {{c[l][i].packet : i \in 1..Len(c[l])} : l \in Wire}

\* Each variable keeps to the set of values the declarations of mesh_node.c and
\* mesh_data_packet.h give it.
TypeOK ==
  /\ awake \in [Node -> BOOLEAN]
  /\ node \in [Node -> NodeState]
  /\ peer \in [Node -> [Peers -> {"absent", "discovering", "found", "ready"}]]
  /\ link \subseteq Links
  /\ chan \in [Wire -> Seq(Frame)]
  /\ hub_inbox \subseteq [addr : Node, source : Byte]
  /\ hub_id \in [Node -> NodeIds \cup {Unassigned}]
  /\ hub_key \in Byte
  /\ budget \in [BudgetKinds -> Nat]

\* Two nodes never act under the same assigned id, although every unprovisioned
\* node shares one id and the hub's answers flood through all of them
\* (mn_packet_next_step tells them apart by the address in the data).
UniqueIds ==
  \A n, m \in Node :
    n # m /\ node[n].our_node_id = node[m].our_node_id
      => node[n].our_node_id = PROVISIONAL_NODE_ID

\* A node asks for its id once per boot.  As long as it has asked and has no id,
\* the request is still remembered and the timer that resends it still runs,
\* whatever was lost (mesh_node_connection_available, mn_packet_response_received).
UnansweredRequestIsRetried ==
  \A n \in Node :
    node[n].provisioning_requested /\ node[n].our_node_id = PROVISIONAL_NODE_ID
      => /\ \E i \in 1..Len(node[n].pars) :
              node[n].pars[i].type = "NODE_CONNECTED" /\ node[n].pars[i].addr = n
         /\ node[n].resend_timer

\* A command reaches its node along several paths and as several copies, but its
\* handler runs at most once per boot (mn_packet_processed).
AppliedAtMostOnce ==
  \A n \in Node : \A i, j \in 1..Len(node[n].applied) :
    node[n].applied[i] = node[n].applied[j] => i = j

\* A command that is still on its way and would be dropped as a duplicate has
\* been applied, although keys are compared without their source and the copies of
\* two commands overtake each other on different paths (mn_packet_processed).
\* This holds as long as the hub does not use a key again while a node is awake.
OnlyDuplicatesDropped ==
  \A l \in Wire : \A i \in 1..Len(chan[l]) :
    LET q == chan[l][i].packet
        s == node[l[2]]
    IN q.type \in CommandTypes \ {"GO_TO_SLEEP"} /\ q.dest = s.our_node_id
         /\ q.key \in s.processed_packets
         => \E j \in 1..Len(s.applied) : s.applied[j] = q.val

\* The hub attributes a reply to the node whose id is its source: that id always
\* is one the hub has assigned, never the one unprovisioned nodes share.
RepliesAttributable ==
  \A q \in Flying(chan) :
    q.type \in ReplyTypes
      => q.source # Unassigned /\ \E n \in Node : hub_id[n] = q.source

\* Outside provisioning answers, the ttl of a packet never grows past the one it
\* was sent with: mn_packet_next_step stops it at 0, before the uint8_t wraps.
TtlNeverWraps ==
  \A q \in Flying(chan) : q.type # "NODE_CONNECTED_RESP" => q.ttl <= StdTtl

\* Once the environment is quiet the flood ends: nothing but answers to
\* unprovisioned nodes stays in flight.
Quiesces == <>[](\A q \in Flying(chan) : q.type = "NODE_CONNECTED_RESP")

\* The number of a command that is on its way stands for its copies; it is meant for
\* the node that has the id it is addressed to, and so is the source of a reply.
Addressed(n) ==
  {q.val : q \in {r \in Flying(chan) :
                  r.type \in CommandTypes \ {"GO_TO_SLEEP"} /\ r.dest = hub_id[n]}}
Replied(n) ==
  {q.val : q \in {r \in Flying(chan) : r.type \in ReplyTypes /\ r.source = hub_id[n]}}
Applied(n) == {node[n].applied[i] : i \in 1..Len(node[n].applied)}

PendingCommands == UNION {{n} \X Addressed(n) : n \in Node}
PendingReplies  == UNION {{n} \X Replied(n) : n \in Node}
AppliedCommands == UNION {{n} \X Applied(n) : n \in Node}

\* The flood does for the commands of the hub what CommandService says: only the node
\* a command is meant for applies it, once, and replies under its own id.
Service ==
  INSTANCE CommandService WITH
    Limit <- Budget.commands, left <- budget.commands,
    pending <- PendingCommands, replies <- PendingReplies, applied <- AppliedCommands
ImplementsCommandService == Service!Spec

\* mesh_node.c:393: "Decrement ttl so that the packet will eventually stop
\* flooding the network."  Said of every packet that is forwarded.
EveryTtlRunsOut == \A q \in Flying(chan) : q.ttl <= StdTtl

\* mesh_node.c:440: "All nodes have the data write characteristic. Only the hub
\* does not, so we send the data through notification."
OnlyHubIsNotified ==
  \A l \in Wire : \A i \in 1..Len(chan[l]) : chan[l][i].op = "write"
=============================================================================
