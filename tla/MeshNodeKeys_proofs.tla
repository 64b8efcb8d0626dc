------------------------- MODULE MeshNodeKeys_proofs -------------------------
(* Further proofs about MeshNode: what the table of processed idempotency    *)
(* keys is worth as long as the hub's counter, a uint8_t, does not wrap.     *)
(* Keys are compared without their source, so a node may take a new command  *)
(* for a duplicate; the argument is that only packets of the hub are ever    *)
(* marked, and that a key of the hub belongs to a single packet of it.       *)
EXTENDS MeshNode_proofs

USE DEF HUB_NODE_ID, PROVISIONAL_NODE_ID, Unassigned

\* The counter of the hub never wraps: no key is used a second time.
KeysNotReused == [][hub_key' >= hub_key]_vars

-----------------------------------------------------------------------------
(* The inductive invariant.                                                *)

\* The packets that the hub fills in, and the only ones a node marks.
FromHub(q) == IsCommand(q) \/ q.type = "NODE_CONNECTED_RESP"

\* The packets on the air never change what identifies them.
Copy(q, r) == q.type = r.type /\ q.key = r.key /\ q.dest = r.dest /\ q.val = r.val

\* Every packet of the hub in G is a copy of one in F.
OnlyCopies(G, F) == \A q \in G : FromHub(q) => \E r \in F : Copy(q, r)

\* A key of the hub has been used, and for one packet.
HubKeysOK(F) ==
  /\ \A q \in F : FromHub(q) => q.key < hub_key
  /\ \A q, r \in F : FromHub(q) /\ FromHub(r) /\ q.key = r.key
                       => q.type = r.type /\ q.val = r.val

\* A node marks only keys the hub has used, none before it has an id, and the
\* commands for it that carry a marked key were handled.
MarksOK(s, F) ==
  /\ \A k \in s.processed_packets : k < hub_key
  /\ s.our_node_id = PROVISIONAL_NODE_ID => s.processed_packets = {}
  /\ \A q \in F : IsCommand(q) /\ q.dest = s.our_node_id /\ q.key \in s.processed_packets
                    => q.val \in Done(s)

KInv ==
  /\ HubKeysOK(Flying(chan))
  /\ \A n \in Node : MarksOK(node[n], Flying(chan))

-----------------------------------------------------------------------------
(* Steps in which the hub sends nothing.                                   *)

\* A step of one node that passes on only copies of the hub's packets.
LEMMA NodeKeysStep ==
  ASSUME TypeOK, KInv, NEW n \in Node, NEW s, MarksOK(s, Flying(chan)),
         node' = [node EXCEPT ![n] = s], hub_key' = hub_key,
         OnlyCopies(Flying(chan'), Flying(chan))
  PROVE  KInv'
<1>1. HubKeysOK(Flying(chan))'
  BY DEF KInv, HubKeysOK, OnlyCopies, Copy, FromHub, IsCommand
<1>2. ASSUME NEW k \in Node PROVE MarksOK(node[k], Flying(chan))'
  <2>1. MarksOK(node'[k], Flying(chan))
    BY DEF KInv, TypeOK
  <2>2. /\ \A x \in node'[k].processed_packets : x < hub_key'
        /\ node'[k].our_node_id = PROVISIONAL_NODE_ID => node'[k].processed_packets = {}
    BY <2>1 DEF MarksOK
  <2>3. ASSUME NEW q \in Flying(chan'), IsCommand(q), q.dest = node'[k].our_node_id,
               q.key \in node'[k].processed_packets
        PROVE  q.val \in Done(node'[k])
    <3>1. PICK r \in Flying(chan) : Copy(q, r)
      BY <2>3 DEF OnlyCopies, FromHub
    <3>2. IsCommand(r)
      BY <2>3, <3>1 DEF Copy, IsCommand
    <3> QED
      BY <2>1, <2>3, <3>1, <3>2 DEF MarksOK, Copy
  <2> QED
    BY <2>2, <2>3 DEF MarksOK, IsCommand, Done
<1> QED
  BY <1>1, <1>2 DEF KInv

\* A step that changes no RAM and passes on only copies of the hub's packets.
LEMMA QuietKeysStep ==
  ASSUME TypeOK, KInv, UNCHANGED <<node, hub_key>>,
         Flying(chan') \subseteq Flying(chan)
  PROVE  KInv'
<1>1. PICK n \in Node : TRUE
  BY NodeAssumption
<1>2. node' = [node EXCEPT ![n] = node[n]] /\ MarksOK(node[n], Flying(chan))
  BY DEF TypeOK, KInv
<1>3. OnlyCopies(Flying(chan'), Flying(chan))
  BY DEF OnlyCopies, Copy
<1> QED
  BY <1>2, <1>3, NodeKeysStep

\* The end of a handler that passes on only copies of the hub's packets.
LEMMA FinishKeys ==
  ASSUME TypeOK, KInv, NEW n \in Node, NEW s, MarksOK(s, Flying(chan)),
         NEW out \in Seq(Packet),
         \A i \in 1..Len(out) : FromHub(out[i]) => \E r \in Flying(chan) : Copy(out[i], r),
         NEW c \in [Wire -> Seq(Frame)], Flying(c) \subseteq Flying(chan),
         Finish(n, s, out, c)
  PROVE  KInv'
<1>1. PICK refused :
        /\ node' = [node EXCEPT ![n] = s]
        /\ chan' = Transmitted(c, n, out, Reached(n) \ refused)
        /\ hub_key' = hub_key
  BY DEF Finish
<1>2. \A q \in Flying(chan') : q \in Flying(c) \/ \E i \in 1..Len(out) : q = out[i]
  BY <1>1, FlyingTransmitted
<1>3. OnlyCopies(Flying(chan'), Flying(chan))
  BY <1>2 DEF OnlyCopies, Copy
<1> QED
  BY <1>1, <1>3, NodeKeysStep

\* The end of mn_receive_data: what a node resends are requests of its own.
LEMMA FinishReceiveKeys ==
  ASSUME TypeOK, KInv, NEW n \in Node, NEW s \in NodeState, MarksOK(s, Flying(chan)),
         \A i \in 1..Len(s.pars) : s.pars[i].type = "NODE_CONNECTED",
         NEW out \in Seq(Packet),
         \A i \in 1..Len(out) : FromHub(out[i]) => \E r \in Flying(chan) : Copy(out[i], r),
         NEW c \in [Wire -> Seq(Frame)], Flying(c) \subseteq Flying(chan),
         FinishReceive(n, s, out, c)
  PROVE  KInv'
<1> DEFINE r == ResendIfNeeded(s)
           more == Resent(s)
<1>1. /\ more \in Seq(Packet)
      /\ r.our_node_id = s.our_node_id
      /\ r.processed_packets = s.processed_packets
      /\ r.applied = s.applied
      /\ \A i \in 1..Len(more) : more[i].type = "NODE_CONNECTED"
  BY SMTT(60), ResendType
<1>2. Finish(n, r, out \o more, c)
  BY DEF FinishReceive
<1> HIDE DEF r, more
<1>3. MarksOK(r, Flying(chan))
  BY <1>1 DEF MarksOK, Done
<1>4. /\ out \o more \in Seq(Packet)
      /\ \A i \in 1..Len(out \o more) :
           \/ i \in 1..Len(out) /\ (out \o more)[i] = out[i]
           \/ i - Len(out) \in 1..Len(more) /\ (out \o more)[i] = more[i - Len(out)]
  BY <1>1
<1>5. \A i \in 1..Len(more) : ~FromHub(more[i])
  BY <1>1 DEF FromHub, IsCommand, CommandTypes
<1>6. \A i \in 1..Len(out \o more) :
        FromHub((out \o more)[i]) => \E m \in Flying(chan) : Copy((out \o more)[i], m)
  BY <1>4, <1>5
<1> HIDE DEF FromHub, Copy
<1> QED
  BY <1>2, <1>3, <1>4, <1>6, FinishKeys

\* A handler that sends nothing of its own.
LEMMA SilentKeys ==
  ASSUME TypeOK, KInv, NEW n \in Node, NEW s \in NodeState, MarksOK(s, Flying(chan)),
         \A i \in 1..Len(s.pars) : s.pars[i].type = "NODE_CONNECTED",
         NEW c \in [Wire -> Seq(Frame)], Flying(c) \subseteq Flying(chan),
         FinishReceive(n, s, <<>>, c)
  PROVE  KInv'
<1> DEFINE out == <<>>
<1>1. out \in Seq(Packet) /\ Len(out) = 0 /\ FinishReceive(n, s, out, c)
  OBVIOUS
<1> HIDE DEF out
<1>2. \A i \in 1..Len(out) : FromHub(out[i]) => \E r \in Flying(chan) : Copy(out[i], r)
  BY <1>1
<1> QED
  BY <1>1, <1>2, FinishReceiveKeys

\* A handler that sends a single packet.
LEMMA SingleKeys ==
  ASSUME TypeOK, KInv, NEW n \in Node, NEW s \in NodeState, MarksOK(s, Flying(chan)),
         \A i \in 1..Len(s.pars) : s.pars[i].type = "NODE_CONNECTED",
         NEW d \in Packet, FromHub(d) => \E r \in Flying(chan) : Copy(d, r),
         NEW c \in [Wire -> Seq(Frame)], Flying(c) \subseteq Flying(chan),
         FinishReceive(n, s, <<d>>, c)
  PROVE  KInv'
<1> DEFINE out == <<d>>
<1>1. out \in Seq(Packet) /\ Len(out) = 1 /\ out[1] = d /\ FinishReceive(n, s, out, c)
  OBVIOUS
<1> HIDE DEF out
<1>2. \A i \in 1..Len(out) : FromHub(out[i]) => \E r \in Flying(chan) : Copy(out[i], r)
  BY <1>1
<1> QED
  BY SMTT(60), <1>1, <1>2, FinishReceiveKeys

-----------------------------------------------------------------------------
(* Every action of the GATT server.                                        *)

\* What the two invariants say of a node and of the packet it receives.
LEMMA NodeFacts ==
  ASSUME IInv, KInv, NEW n \in Node
  PROVE  /\ TypeOK /\ node[n] \in NodeState
         /\ MarksOK(node[n], Flying(chan))
         /\ \A i \in 1..Len(node[n].pars) : node[n].pars[i].type = "NODE_CONNECTED"
         /\ Flying(chan) \subseteq Packet /\ HubKeysOK(Flying(chan))
BY FlyingElement DEF IInv, KInv, TypeOK, NodeOK, ParOK

\* A packet that is passed on is a copy, and one that is dropped is gone.
LEMMA ForwardKeys ==
  ASSUME IInv, KInv, NEW n \in Node, NEW p \in Peers, Forward(p, n) \/ Terminate(p, n)
  PROVE  KInv'
<1> DEFINE m == Received(p, n)
           d == Decremented(m)
<1>1. /\ InFlight(p, n)
      /\ \/ FinishReceive(n, node[n], <<d>>, Handled(p, n))
         \/ FinishReceive(n, node[n], <<>>, Handled(p, n))
  BY DEF Forward, Terminate, Writes
<1>2. /\ Handled(p, n) \in [Wire -> Seq(Frame)]
      /\ Flying(Handled(p, n)) \subseteq Flying(chan)
      /\ m \in Flying(chan) /\ m \in Packet
  BY <1>1, FlyingHandled DEF IInv
<1> HIDE DEF m
<1>3. d \in Packet /\ Copy(d, m)
  <2>1. m.ttl \in Int
    BY <1>2, ByteInt DEF Packet
  <2>2. (m.ttl - 1) % UInt8 \in Byte
    BY <2>1, ByteArithmetic
  <2> QED
    BY <1>2, <2>2 DEF Decremented, Packet, Copy
<1> HIDE DEF d
<1>4. FromHub(d) => \E r \in Flying(chan) : Copy(d, r)
  BY <1>2, <1>3
<1> QED
  BY <1>1, <1>2, <1>3, <1>4, NodeFacts, SilentKeys, SingleKeys

\* An answer gives a node its id before the node has marked anything, or the id it
\* has already; its key is that of no command.
LEMMA ProcNodeConnectedRespKeys ==
  ASSUME IInv, KInv, NEW n \in Node, NEW p \in Peers, ProcNodeConnectedResp(p, n)
  PROVE  KInv'
<1> DEFINE m == Received(p, n)
           s == [Marked(node[n], m) EXCEPT !.our_node_id = m.val]
           r == ResponseReceived(s)
<1>1. /\ InFlight(p, n) /\ NextStep(n, m) = "PROCESS" /\ m.type = "NODE_CONNECTED_RESP"
      /\ FinishReceive(n, r, <<>>, Handled(p, n))
  BY DEF ProcNodeConnectedResp, Writes
<1>2. /\ Handled(p, n) \in [Wire -> Seq(Frame)]
      /\ Flying(Handled(p, n)) \subseteq Flying(chan)
      /\ m \in Flying(chan) /\ m \in Packet
  BY <1>1, FlyingHandled DEF IInv
<1> HIDE DEF m
<1>3. m.addr = n
  <2>1. CASE m.dest = node[n].our_node_id
    BY <1>1, <2>1 DEF NextStep
  <2>2. CASE m.dest # node[n].our_node_id
    BY <1>1, <2>2 DEF NextStep
  <2> QED
    BY <2>1, <2>2
<1>4. m.val = hub_id[n] /\ m.val \in Byte /\ m.val # 1
  <2>1. PacketOK(m)
    BY <1>2 DEF IInv
  <2>2. hub_id[n] \in NodeIds \cup {0}
    BY DEF IInv, TypeOK
  <2> QED
    BY <1>1, <1>3, <2>1, <2>2, ByteArithmetic DEF PacketOK
<1>5. node[n].our_node_id = m.val \/ node[n].our_node_id = 1
  BY <1>4 DEF IInv, NodeOK
<1>6. /\ s \in NodeState
      /\ s.our_node_id = m.val
      /\ s.processed_packets = node[n].processed_packets \cup {m.key}
      /\ s.applied = node[n].applied
      /\ s.pars = node[n].pars
  <2>1. m.key \in Byte
    BY <1>2 DEF Packet
  <2> QED
    BY <1>4, <2>1, NodeFacts DEF Marked, NodeState
<1> HIDE DEF s
<1>7. /\ r \in NodeState
      /\ r.our_node_id = s.our_node_id
      /\ r.processed_packets = s.processed_packets
      /\ r.applied = s.applied
      /\ \A j \in 1..Len(r.pars) : \E k \in 1..Len(s.pars) : r.pars[j] = s.pars[k]
  BY <1>6, ResponseReceivedType
<1> HIDE DEF r
<1>8. FromHub(m) /\ m.key < hub_key
  BY <1>1, <1>2, NodeFacts DEF FromHub, HubKeysOK
<1>9. ASSUME NEW q \in Flying(chan), IsCommand(q)
      PROVE  q.key # m.key
  <2>1. FromHub(q) /\ q.type # "NODE_CONNECTED_RESP"
    BY <1>9 DEF FromHub, IsCommand, CommandTypes
  <2> QED
    BY <1>1, <1>2, <1>8, <2>1, NodeFacts DEF HubKeysOK
<1>10. MarksOK(r, Flying(chan))
  BY <1>4, <1>5, <1>6, <1>7, <1>8, <1>9, NodeFacts DEF MarksOK, Done
<1>11. \A i \in 1..Len(r.pars) : r.pars[i].type = "NODE_CONNECTED"
  BY <1>6, <1>7, NodeFacts
<1> QED
  BY <1>1, <1>2, <1>7, <1>10, <1>11, NodeFacts, SilentKeys

\* A command marks its key when it is handled, and its number becomes a done one.
LEMMA CommandKeys ==
  ASSUME IInv, KInv, NEW n \in Node, NEW m \in Flying(chan), NextStep(n, m) = "PROCESS",
         m.type \in {"REQ", "UPDATE", "OTA_UPDATE_AVAILABLE"}
  PROVE  LET s == [Marked(node[n], m) EXCEPT !.applied = Append(@, m.val)] IN
         /\ MarksOK(s, Flying(chan)) /\ MarksOK(KeyTaken(s), Flying(chan))
         /\ \A i \in 1..Len(s.pars) : s.pars[i].type = "NODE_CONNECTED"
         /\ \A i \in 1..Len(KeyTaken(s).pars) : KeyTaken(s).pars[i].type = "NODE_CONNECTED"
<1> DEFINE s == [Marked(node[n], m) EXCEPT !.applied = Append(@, m.val)]
           t == KeyTaken(s)
<1>1. /\ s \in NodeState /\ t \in NodeState
      /\ NodeOK(n, s) /\ NodeOK(n, t) /\ s.our_node_id = m.dest
  BY CommandMarked
<1>2. /\ node[n] \in NodeState /\ m \in Packet /\ MarksOK(node[n], Flying(chan))
      /\ HubKeysOK(Flying(chan))
  BY NodeFacts
<1>3. /\ s.our_node_id = node[n].our_node_id
      /\ s.processed_packets = node[n].processed_packets \cup {m.key}
      /\ s.applied = Append(node[n].applied, m.val)
  BY <1>2 DEF Marked, NodeState
<1>4. /\ t.our_node_id = s.our_node_id
      /\ t.processed_packets = s.processed_packets
      /\ t.applied = s.applied
  BY <1>1 DEF KeyTaken, NodeState
<1> HIDE DEF s, t
<1>5. Done(s) = Done(node[n]) \cup {m.val}
  <2>1. node[n].applied \in Seq(Nat) /\ m.val \in Nat
    BY <1>2 DEF NodeState, Packet
  <2>2. /\ Len(s.applied) = Len(node[n].applied) + 1 /\ Len(node[n].applied) \in Nat
        /\ \A i \in 1..Len(node[n].applied) : s.applied[i] = node[n].applied[i]
        /\ s.applied[Len(s.applied)] = m.val
    BY <1>3, <2>1
  <2>3. \A i \in 1..Len(s.applied) : i \in 1..Len(node[n].applied) \/ i = Len(s.applied)
    BY <2>2
  <2>4. /\ \A i \in 1..Len(node[n].applied) : i \in 1..Len(s.applied)
        /\ Len(s.applied) \in 1..Len(s.applied)
    BY <2>2
  <2> QED
    BY ZenonT(60), <2>2, <2>3, <2>4 DEF Done
<1>6. IsCommand(m) /\ FromHub(m) /\ m.key < hub_key
  BY <1>2 DEF IsCommand, CommandTypes, FromHub, HubKeysOK
<1>7. m.dest # 1
  <2>1. PICK k \in Node : hub_id[k] = m.dest
    BY <1>6 DEF IInv, PacketOK
  <2>2. hub_id[k] \in NodeIds \cup {0}
    BY DEF IInv, TypeOK
  <2> QED
    BY <2>1, <2>2, ByteArithmetic
<1>8. ASSUME NEW q \in Flying(chan), IsCommand(q), q.key = m.key
      PROVE  q.val = m.val
  BY <1>2, <1>6, <1>8 DEF HubKeysOK, FromHub
<1>9. MarksOK(s, Flying(chan))
  BY <1>1, <1>2, <1>3, <1>5, <1>6, <1>7, <1>8 DEF MarksOK
<1>10. MarksOK(t, Flying(chan))
  BY <1>4, <1>9 DEF MarksOK, Done
<1>11. /\ \A i \in 1..Len(s.pars) : s.pars[i].type = "NODE_CONNECTED"
       /\ \A i \in 1..Len(t.pars) : t.pars[i].type = "NODE_CONNECTED"
  BY <1>1 DEF NodeOK, ParOK
<1> QED
  BY <1>9, <1>10, <1>11 DEF s, t

\* The handler of a command sends a packet of the node, or none.
LEMMA ProcCommandKeys ==
  ASSUME IInv, KInv, NEW n \in Node, NEW p \in Peers,
         ProcCommand(p, n) \/ ProcCommandNvsError(p, n)
  PROVE  KInv'
<1> DEFINE m == Received(p, n)
           s == [Marked(node[n], m) EXCEPT !.applied = Append(@, m.val)]
           t == KeyTaken(s)
           d == ToHub(s, ReplyType(m.type), NoAddr, m.val)
<1>1. /\ InFlight(p, n) /\ NextStep(n, m) = "PROCESS"
      /\ m.type \in {"REQ", "UPDATE", "OTA_UPDATE_AVAILABLE"}
      /\ \/ FinishReceive(n, t, <<d>>, Handled(p, n))
         \/ FinishReceive(n, t, <<>>, Handled(p, n))
         \/ FinishReceive(n, s, <<>>, Handled(p, n))
  BY DEF ProcCommand, ProcCommandNvsError, Writes
<1>2. /\ Handled(p, n) \in [Wire -> Seq(Frame)]
      /\ Flying(Handled(p, n)) \subseteq Flying(chan)
      /\ m \in Flying(chan) /\ m \in Packet
  BY <1>1, FlyingHandled DEF IInv
<1> HIDE DEF m
<1>3. s \in NodeState /\ t \in NodeState
  BY <1>1, <1>2, CommandMarked
<1>4. /\ MarksOK(s, Flying(chan)) /\ MarksOK(t, Flying(chan))
      /\ \A i \in 1..Len(s.pars) : s.pars[i].type = "NODE_CONNECTED"
      /\ \A i \in 1..Len(t.pars) : t.pars[i].type = "NODE_CONNECTED"
  BY <1>1, <1>2, CommandKeys
<1> HIDE DEF s, t
<1>5. ReplyType(m.type) \in ReplyTypes
  BY <1>1 DEF ReplyType, ReplyTypes
<1>6. d \in Packet /\ d.type \in ReplyTypes
  <2>1. s.our_node_id \in Byte /\ s.idempotency_key_counter \in Byte
    BY <1>3 DEF NodeState
  <2>2. m.val \in Nat
    BY <1>2 DEF Packet
  <2>3. ReplyTypes \subseteq PacketTypes
    BY DEF PacketTypes
  <2> QED
    BY <1>5, <2>1, <2>2, <2>3, ByteArithmetic DEF ToHub, Packet
<1> HIDE DEF d
<1>7. ~FromHub(d)
  BY <1>6 DEF FromHub, IsCommand, CommandTypes, ReplyTypes
<1> QED
  BY <1>1, <1>2, <1>3, <1>4, <1>6, <1>7, NodeFacts, SilentKeys, SingleKeys

-----------------------------------------------------------------------------
(* Power, links and timers.                                                *)

\* A node that boots has marked nothing.
LEMMA PowerDownKeys ==
  ASSUME IInv, KInv, NEW n \in Node, ForcedSleep(n) \/ \E p \in Peers : ProcGoToSleep(p, n)
  PROVE  KInv'
<1>1. MarksOK(PowerOn, Flying(chan))
  BY DEF MarksOK, PowerOn
<1>2. ASSUME NEW c \in [Wire -> Seq(Frame)], Flying(c) \subseteq Flying(chan), PowerDown(n, c)
      PROVE  KInv'
  <2> DEFINE S == {l \in Wire : l[2] = n}
  <2>1. /\ node' = [node EXCEPT ![n] = PowerOn] /\ hub_key' = hub_key
        /\ chan' = [l \in Wire |-> IF l \in S THEN <<>> ELSE c[l]]
    BY <1>2 DEF PowerDown, hubVars
  <2> HIDE DEF S
  <2>2. Flying(chan') \subseteq Flying(chan)
    BY ZenonT(60), <1>2, <2>1, FlyingEmptied
  <2>3. OnlyCopies(Flying(chan'), Flying(chan))
    BY <2>2 DEF OnlyCopies, Copy
  <2> QED
    BY <1>1, <2>1, <2>3, NodeKeysStep DEF IInv
<1>3. CASE ForcedSleep(n)
  BY <1>2, <1>3 DEF ForcedSleep, IInv, TypeOK
<1>4. ASSUME NEW p \in Peers, ProcGoToSleep(p, n) PROVE KInv'
  <2> DEFINE m == Received(p, n)
             out == <<m, m>>
  <2>1. /\ InFlight(p, n)
        /\ \E to \in SUBSET Reached(n) : PowerDown(n, Transmitted(Handled(p, n), n, out, to))
    BY <1>4 DEF ProcGoToSleep, Writes
  <2>2. PICK to : PowerDown(n, Transmitted(Handled(p, n), n, out, to))
    BY <2>1
  <2>3. /\ Handled(p, n) \in [Wire -> Seq(Frame)]
        /\ Flying(Handled(p, n)) \subseteq Flying(chan)
        /\ m \in Flying(chan) /\ m \in Packet
    BY <2>1, FlyingHandled DEF IInv
  <2> HIDE DEF m
  <2>4. out \in Seq(Packet) /\ \A i \in 1..Len(out) : out[i] = m
    BY <2>3
  <2> HIDE DEF out
  <2> DEFINE c == Transmitted(Handled(p, n), n, out, to)
  <2>5. /\ c \in [Wire -> Seq(Frame)]
        /\ \A q \in Flying(c) : q \in Flying(Handled(p, n)) \/ \E i \in 1..Len(out) : q = out[i]
    BY <2>3, <2>4, FlyingTransmitted
  <2> HIDE DEF c
  <2>6. Flying(c) \subseteq Flying(chan)
    BY <2>3, <2>4, <2>5
  <2>7. PowerDown(n, c)
    BY <2>2 DEF c
  <2> QED
    BY <1>2, <2>5, <2>6, <2>7
<1> QED
  BY <1>3, <1>4

\* Events that add no packet of the hub and mark nothing.
LEMMA EventKeys ==
  ASSUME IInv, KInv, NEW n \in Node,
         \/ Wake(n)
         \/ \E p \in Peers : \/ Connect(n, p) \/ ChrFound(n, p) \/ Disconnect(n, p)
                             \/ LinkLoss(n, p) \/ IgnoreNotification(p, n)
  PROVE  KInv'
<1>1. TypeOK /\ chan \in [Wire -> Seq(Frame)]
  BY DEF IInv, TypeOK
<1>2. CASE \/ Wake(n)
           \/ \E p \in Peers : Connect(n, p) \/ ChrFound(n, p) \/ Disconnect(n, p)
  <2>1. UNCHANGED <<node, chan, hub_key>>
    BY <1>2 DEF Wake, Connect, ChrFound, Disconnect, hubVars
  <2> QED
    BY <1>1, <2>1, QuietKeysStep
<1>3. ASSUME NEW p \in Peers, LinkLoss(n, p) PROVE KInv'
  <2> DEFINE S == {l \in Wire : {l[1], l[2]} = {n, p}}
  <2>1. /\ chan' = [l \in Wire |-> IF l \in S THEN <<>> ELSE chan[l]]
        /\ UNCHANGED <<node, hub_key>>
    BY <1>3 DEF LinkLoss, hubVars
  <2> HIDE DEF S
  <2>2. Flying(chan') \subseteq Flying(chan)
    BY <1>1, <2>1, FlyingEmptied
  <2> QED
    BY <1>1, <2>1, <2>2, QuietKeysStep
<1>4. ASSUME NEW p \in Peers, IgnoreNotification(p, n) PROVE KInv'
  <2>1. InFlight(p, n) /\ chan' = Handled(p, n) /\ UNCHANGED <<node, hub_key>>
    BY <1>4 DEF IgnoreNotification, hubVars
  <2>2. Flying(chan') \subseteq Flying(chan)
    BY <1>1, <2>1, FlyingHandled
  <2> QED
    BY <1>1, <2>1, <2>2, QuietKeysStep
<1> QED
  BY <1>2, <1>3, <1>4

\* What a node sends on its own account is a request, with a key of its own.
LEMMA RequestKeys ==
  ASSUME IInv, KInv, NEW n \in Node,
         ResendTick(n) \/ HostEvent(n) \/ \E p \in Peers : DiscComplete(n, p)
  PROVE  KInv'
<1>1. /\ TypeOK /\ node[n] \in NodeState /\ MarksOK(node[n], Flying(chan))
      /\ \A i \in 1..Len(node[n].pars) : node[n].pars[i].type = "NODE_CONNECTED"
      /\ chan \in [Wire -> Seq(Frame)]
  BY NodeFacts DEF TypeOK
<1>2. CASE ResendTick(n)
  <2> DEFINE s == [node[n] EXCEPT !.resend_packets = TRUE]
  <2>1. /\ node' = [node EXCEPT ![n] = s] /\ UNCHANGED <<chan, hub_key>>
    BY <1>1, <1>2 DEF ResendTick, hubVars, TypeOK
  <2>2. MarksOK(s, Flying(chan))
    BY <1>1 DEF MarksOK, Done, NodeState
  <2>3. OnlyCopies(Flying(chan'), Flying(chan))
    BY <2>1 DEF OnlyCopies, Copy
  <2> HIDE DEF s
  <2> QED
    BY <1>1, <2>1, <2>2, <2>3, NodeKeysStep
<1>3. CASE HostEvent(n)
  <2> DEFINE out == Resent(node[n])
             s == ResendIfNeeded(node[n])
  <2>1. /\ out \in Seq(Packet)
        /\ s.our_node_id = node[n].our_node_id
        /\ s.processed_packets = node[n].processed_packets
        /\ s.applied = node[n].applied
        /\ \A i \in 1..Len(out) : out[i].type = "NODE_CONNECTED"
    BY <1>1, ResendType
  <2>2. Finish(n, s, out, chan)
    BY <1>3 DEF HostEvent
  <2> HIDE DEF out, s
  <2>3. MarksOK(s, Flying(chan))
    BY <1>1, <2>1 DEF MarksOK, Done
  <2>4. \A i \in 1..Len(out) : ~FromHub(out[i])
    BY <2>1 DEF FromHub, IsCommand, CommandTypes
  <2> QED
    BY <1>1, <2>1, <2>2, <2>3, <2>4, FinishKeys
<1>4. ASSUME NEW p \in Peers, DiscComplete(n, p) PROVE KInv'
  <2> DEFINE s   == node[n]
             req == ToHub(s, "NODE_CONNECTED", n, 0)
             asked == [s EXCEPT !.provisioning_requested = TRUE]
             t   == AwaitResponse(KeyTaken(asked), req)
             out == <<req>>
  <2>1. hub_key' = hub_key
    BY <1>4 DEF DiscComplete
  <2>2. CASE s.provisioning_requested
    <3>1. UNCHANGED <<node, chan>>
      BY <1>4, <2>2 DEF DiscComplete
    <3> QED
      BY <1>1, <2>1, <3>1, QuietKeysStep
  <2>3. CASE ~s.provisioning_requested
    <3>1. \E to : node' = [node EXCEPT ![n] = t] /\ chan' = Transmitted(chan, n, out, to)
      BY <1>4, <2>3 DEF DiscComplete
    <3>2. PICK to : node' = [node EXCEPT ![n] = t] /\ chan' = Transmitted(chan, n, out, to)
      BY <3>1
    <3>3. req \in Packet /\ req.type = "NODE_CONNECTED"
      <4>1. s.our_node_id \in Byte /\ s.idempotency_key_counter \in Byte
        BY <1>1 DEF NodeState
      <4>2. "NODE_CONNECTED" \in PacketTypes
        BY DEF PacketTypes
      <4> QED
        BY <4>1, <4>2, ByteArithmetic DEF ToHub, Packet
    <3>4. /\ t.our_node_id = s.our_node_id
          /\ t.processed_packets = s.processed_packets
          /\ t.applied = s.applied
      <4> HIDE DEF req
      <4>1. /\ asked \in NodeState /\ asked.our_node_id = s.our_node_id
            /\ asked.processed_packets = s.processed_packets /\ asked.applied = s.applied
        BY <1>1 DEF NodeState
      <4> HIDE DEF asked
      <4>2. NextKey(asked, 1) \in Byte
        BY <4>1, NextKeyType
      <4> DEFINE k == KeyTaken(asked)
      <4>3. /\ k \in NodeState /\ k.our_node_id = s.our_node_id
            /\ k.processed_packets = s.processed_packets /\ k.applied = s.applied
        BY <4>1, <4>2 DEF KeyTaken, NodeState
      <4> HIDE DEF k
      <4>4. t = AwaitResponse(k, req)
        BY DEF k
      <4> QED
        BY <4>3, <4>4 DEF AwaitResponse, NodeState
    <3> HIDE DEF req, t
    <3>5. /\ out \in Seq(Packet)
          /\ \A i \in 1..Len(out) : out[i] = req
      BY <3>3
    <3> HIDE DEF out
    <3>6. \A q \in Flying(chan') : q \in Flying(chan) \/ q = req
      BY <1>1, <3>2, <3>5, FlyingTransmitted
    <3>7. ~FromHub(req)
      BY <3>3 DEF FromHub, IsCommand, CommandTypes
    <3>8. OnlyCopies(Flying(chan'), Flying(chan))
      BY <3>6, <3>7 DEF OnlyCopies, Copy
    <3>9. MarksOK(t, Flying(chan))
      BY <1>1, <3>4 DEF MarksOK, Done
    <3> QED
      BY <1>1, <2>1, <3>2, <3>8, <3>9, NodeKeysStep
  <2> QED
    BY <2>2, <2>3
<1> QED
  BY <1>2, <1>3, <1>4

-----------------------------------------------------------------------------
(* The hub.                                                                *)

\* A packet of the hub takes a key that no packet and no table has seen.
LEMMA HubSendsKeys ==
  ASSUME TypeOK, KInv, NEW m \in Packet, HubSends(m), m.key = hub_key,
         UNCHANGED node, hub_key' >= hub_key
  PROVE  KInv'
<1>1. hub_key \in Int /\ hub_key >= 0 /\ hub_key < UInt8
  BY ByteInt DEF TypeOK
<1>2. hub_key' = hub_key + 1
  <2>1. hub_key' = (hub_key + 1) % UInt8
    BY DEF HubSends
  <2>2. CASE hub_key + 1 < UInt8
    BY <1>1, <2>1, <2>2, WidthAssumption
  <2>3. CASE hub_key + 1 = UInt8
    <3>1. UInt8 % UInt8 = 0
      BY WidthAssumption
    <3> QED
      BY <1>1, <2>1, <2>3, <3>1, WidthAssumption
  <2> QED
    BY <1>1, <2>2, <2>3, WidthAssumption
<1>3. \A q \in Flying(chan') : q \in Flying(chan) \/ q = m
  BY HubSendsType
<1>4. \A q \in Flying(chan) : q \in Packet /\ q.key \in Int
  BY FlyingElement, ByteInt DEF TypeOK, Packet
<1>5. HubKeysOK(Flying(chan)) /\ \A n \in Node : MarksOK(node[n], Flying(chan))
  BY DEF KInv
<1>6. HubKeysOK(Flying(chan))'
  BY <1>1, <1>2, <1>3, <1>4, <1>5 DEF HubKeysOK, FromHub, IsCommand
<1>7. ASSUME NEW n \in Node PROVE MarksOK(node[n], Flying(chan))'
  <2>1. \A k \in node[n].processed_packets : k \in Int /\ k < hub_key
    BY <1>5, ByteInt DEF MarksOK, TypeOK, NodeState
  <2>2. m.key \notin node[n].processed_packets
    BY <1>1, <2>1
  <2> QED
    BY <1>1, <1>2, <1>3, <1>5, <2>1, <2>2 DEF MarksOK, IsCommand, Done
<1> QED
  BY <1>6, <1>7 DEF KInv

\* An answer and a command of the hub.
LEMMA HubKeys ==
  ASSUME IInv, KInv, hub_key' >= hub_key, HubAnswer \/ \E n \in Node : HubCommand(n)
  PROVE  KInv'
<1>1. TypeOK /\ hub_key \in Byte
  BY DEF IInv, TypeOK
<1>2. CASE HubAnswer
  <2>1. PICK r \in hub_inbox, id \in NodeIds :
          HubSends(HubPacket(r.source, "NODE_CONNECTED_RESP", r.addr, id)) /\ UNCHANGED node
    BY <1>2 DEF HubAnswer
  <2> DEFINE m == HubPacket(r.source, "NODE_CONNECTED_RESP", r.addr, id)
  <2>2. m \in Packet /\ m.key = hub_key
    <3>1. r.addr \in Node /\ r.source \in Byte /\ id \in Byte
      BY <2>1, ByteArithmetic DEF IInv, TypeOK
    <3>2. "NODE_CONNECTED_RESP" \in PacketTypes /\ id \in Nat
      BY <3>1, ByteInt DEF PacketTypes
    <3> QED
      BY <1>1, <3>1, <3>2, ByteArithmetic DEF HubPacket, Packet
  <2> HIDE DEF m
  <2>3. HubSends(m) /\ UNCHANGED node
    BY <2>1 DEF m
  <2> QED
    BY <1>1, <2>2, <2>3, HubSendsKeys
<1>3. ASSUME NEW n \in Node, HubCommand(n) PROVE KInv'
  <2>1. PICK type \in Commands :
          HubSends(HubPacket(hub_id[n], type, NoAddr, budget.commands))
    BY <1>3 DEF HubCommand
  <2> DEFINE m == HubPacket(hub_id[n], type, NoAddr, budget.commands)
  <2>2. m \in Packet /\ m.key = hub_key
    <3>1. hub_id[n] \in Byte /\ budget.commands \in Nat
      BY ByteArithmetic DEF IInv, TypeOK, BudgetKinds
    <3>2. type \in PacketTypes
      BY CommandAssumption DEF PacketTypes
    <3> QED
      BY <1>1, <3>1, <3>2, ByteArithmetic DEF HubPacket, Packet
  <2> HIDE DEF m
  <2>3. HubSends(m) /\ UNCHANGED node
    BY <1>3, <2>1 DEF m, HubCommand
  <2> QED
    BY <1>1, <2>2, <2>3, HubSendsKeys
<1> QED
  BY <1>2, <1>3

-----------------------------------------------------------------------------
(* The invariant and the theorems.                                         *)

\* No key is marked and no packet is on the air when every node powers on.
LEMMA InitKeys == Init => KInv
<1> SUFFICES ASSUME Init PROVE KInv
  OBVIOUS
<1>1. Flying(chan) = {}
  BY DEF Init, Flying
<1>2. \A n \in Node : MarksOK(node[n], Flying(chan))
  BY <1>1 DEF Init, MarksOK, PowerOn
<1> QED
  BY <1>1, <1>2 DEF KInv, HubKeysOK

\* Every step in which the hub's counter does not wrap keeps the invariant.
LEMMA NextKeys == IInv /\ KInv /\ [Next]_vars /\ [hub_key' >= hub_key]_vars => KInv'
<1> SUFFICES ASSUME IInv, KInv, [Next]_vars, [hub_key' >= hub_key]_vars PROVE KInv'
  OBVIOUS
<1>1. CASE UNCHANGED vars
  <2>1. UNCHANGED <<node, chan, hub_key>>
    BY <1>1 DEF vars
  <2> QED
    BY <2>1, QuietKeysStep DEF IInv
<1>2. ASSUME NEW n \in Node, NEW p \in Peers, Receive(p, n) PROVE KInv'
  BY <1>2, ForwardKeys, ProcNodeConnectedRespKeys, ProcCommandKeys, PowerDownKeys,
     EventKeys DEF Receive
<1>3. ASSUME NEW n \in Node, NEW p \in Peers,
             \/ Connect(n, p) \/ ChrFound(n, p) \/ DiscComplete(n, p)
             \/ LinkLoss(n, p) \/ Disconnect(n, p)
      PROVE  KInv'
  BY <1>3, EventKeys, RequestKeys
<1>4. ASSUME NEW n \in Node, ResendTick(n) \/ HostEvent(n) \/ ForcedSleep(n) \/ Wake(n)
      PROVE  KInv'
  BY <1>4, EventKeys, RequestKeys, PowerDownKeys
<1>5. ASSUME vars' # vars, HubAnswer \/ \E n \in Node : HubCommand(n) PROVE KInv'
  BY <1>5, HubKeys
<1> QED
  BY <1>1, <1>2, <1>3, <1>4, <1>5 DEF Next

\* As long as the hub's counter does not wrap, every key a node has marked, and
\* every packet of the hub on the air, stands for one packet of the hub.
THEOREM KeysInvariance == Spec /\ KeysNotReused => []KInv
BY Invariance, InitKeys, NextKeys, PTL DEF Spec, KeysNotReused

\* As long as the hub's counter does not wrap, mn_packet_processed only ever drops
\* a command that was applied, over any mesh and whatever is lost or overtaken.
THEOREM DuplicatesOnly == Spec /\ KeysNotReused => []OnlyDuplicatesDropped
<1>1. IInv /\ KInv => OnlyDuplicatesDropped
  <2> SUFFICES ASSUME IInv, KInv, NEW l \in Wire, NEW i \in 1..Len(chan[l]),
                      chan[l][i].packet.type \in CommandTypes \ {"GO_TO_SLEEP"},
                      chan[l][i].packet.dest = node[l[2]].our_node_id,
                      chan[l][i].packet.key \in node[l[2]].processed_packets
               PROVE  \E j \in 1..Len(node[l[2]].applied) :
                        node[l[2]].applied[j] = chan[l][i].packet.val
    BY DEF OnlyDuplicatesDropped
  <2>1. l[2] \in Node
    BY DEF Wire
  <2>2. chan[l][i].packet \in Flying(chan)
    BY FlyingElement DEF IInv, TypeOK
  <2>3. MarksOK(node[l[2]], Flying(chan))
    BY <2>1 DEF KInv
  <2>4. chan[l][i].packet.val \in Done(node[l[2]])
    BY <2>2, <2>3 DEF MarksOK, IsCommand
  <2> QED
    BY <2>4 DEF Done
<1> QED
  BY <1>1, Invariance, KeysInvariance, PTL
=============================================================================
