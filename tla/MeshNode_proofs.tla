--------------------------- MODULE MeshNode_proofs ---------------------------
(* Proofs about MeshNode, for every set of nodes, every radio range, every   *)
(* ttl and width of the counters, and every bound on the environment.        *)
EXTENDS MeshNode, FiniteSetTheorems, WellFoundedInduction, TLAPS

USE DEF HUB_NODE_ID, PROVISIONAL_NODE_ID, Unassigned

-----------------------------------------------------------------------------
(* The inductive invariant.                                                *)

IsCommand(q) == q.type \in CommandTypes

\* A packet in flight.  An answer carries the id the hub gave to its address; a
\* command names an assigned id and a number the hub has used.
PacketOK(q) ==
  /\ q.type = "NODE_CONNECTED" => q.addr \in Node
  /\ q.type = "NODE_CONNECTED_RESP" =>
       q.addr \in Node /\ q.val = hub_id[q.addr] /\ q.val # Unassigned
  /\ q.type # "NODE_CONNECTED_RESP" => q.ttl <= StdTtl
  /\ IsCommand(q) => /\ q.dest # Unassigned /\ \E n \in Node : hub_id[n] = q.dest
                     /\ q.val > budget.commands
  /\ q.type \in ReplyTypes =>
       q.source # Unassigned /\ \E n \in Node : hub_id[n] = q.source

\* The request of node n, as it waits to be resent.
ParOK(n, q) == q.type = "NODE_CONNECTED" /\ q.addr = n /\ q.ttl <= StdTtl

Done(s) == {s.applied[i] : i \in 1..Len(s.applied)}

\* The RAM s of node n: an id that is its own, a request outstanding whenever the
\* id is missing, no command handled twice.
NodeOK(n, s) ==
  /\ s.our_node_id # Unassigned
  /\ s.our_node_id = PROVISIONAL_NODE_ID \/ s.our_node_id = hub_id[n]
  /\ ~s.provisioning_requested => s.pars = <<>>
  /\ \A i \in 1..Len(s.pars) : ParOK(n, s.pars[i])
  /\ s.provisioning_requested /\ s.our_node_id = PROVISIONAL_NODE_ID
       => s.pars # <<>> /\ s.resend_timer
  /\ \A i, j \in 1..Len(s.applied) : s.applied[i] = s.applied[j] => i = j
  /\ \A v \in Done(s) : v > budget.commands

\* Copies of a command that was handled carry a key that is marked.
DedupOK(s, F) ==
  \A q \in F : IsCommand(q) /\ q.val \in Done(s) => q.key \in s.processed_packets

\* All copies of a command carry one key.
KeysOK(F) ==
  \A q, r \in F : IsCommand(q) /\ IsCommand(r) /\ q.val = r.val => q.key = r.key

\* No two addresses hold one id.
HubOK ==
  \A n, m \in Node : n # m /\ hub_id[n] = hub_id[m] => hub_id[n] = Unassigned

IInv ==
  /\ TypeOK
  /\ HubOK
  /\ \A q \in Flying(chan) : PacketOK(q)
  /\ \A n \in Node : NodeOK(n, node[n]) /\ DedupOK(node[n], Flying(chan))
  /\ KeysOK(Flying(chan))

-----------------------------------------------------------------------------
(* Lemmas about the operators.                                             *)

\* A uint8_t stays a uint8_t.
LEMMA ByteArithmetic ==
  /\ \A x \in Int : x % UInt8 \in Byte
  /\ 0 \in Byte /\ 1 \in Byte /\ StdTtl \in Byte /\ NodeIds \subseteq Byte
  /\ \A id \in NodeIds : id # 0 /\ id # 1
BY WidthAssumption, TtlAssumption, IdAssumption DEF Byte

\* Byte is a set of integers from 0.
LEMMA ByteInt == \A x \in Byte : x \in Int /\ x >= 0 /\ x < UInt8
BY WidthAssumption DEF Byte

\* Frames of typed packets are typed, and carry those packets.
LEMMA FramedType ==
  ASSUME NEW n \in Node, NEW p \in Node, NEW out \in Seq(Packet)
  PROVE  /\ Framed(n, p, out) \in Seq(Frame)
         /\ Len(Framed(n, p, out)) = Len(out)
         /\ \A i \in 1..Len(out) : Framed(n, p, out)[i].packet = out[i]
<1>1. Len(out) \in Nat /\ \A i \in 1..Len(out) : out[i] \in Packet
  OBVIOUS
<1>2. Op(n, p) \in {"write", "notify"}
  BY DEF Op
<1>3. \A i \in 1..Len(out) : [op |-> Op(n, p), packet |-> out[i]] \in Frame
  BY <1>1, <1>2 DEF Frame
<1> QED
  BY <1>1, <1>3 DEF Framed

\* What is in flight is a frame of some channel.
LEMMA FlyingElement ==
  ASSUME NEW c \in [Wire -> Seq(Frame)]
  PROVE  /\ \A l \in Wire : \A i \in 1..Len(c[l]) : c[l][i].packet \in Flying(c)
         /\ \A q \in Flying(c) : \E l \in Wire : \E i \in 1..Len(c[l]) : q = c[l][i].packet
         /\ Flying(c) \subseteq Packet
<1>1. \A l \in Wire : \A i \in 1..Len(c[l]) : c[l][i] \in Frame
  OBVIOUS
<1> QED
  BY <1>1 DEF Flying, Frame

\* Sending adds no packet but those sent.
LEMMA FlyingTransmitted ==
  ASSUME NEW c \in [Wire -> Seq(Frame)], NEW n \in Node, NEW to,
         NEW out \in Seq(Packet)
  PROVE  /\ Transmitted(c, n, out, to) \in [Wire -> Seq(Frame)]
         /\ \A q \in Flying(Transmitted(c, n, out, to)) :
              q \in Flying(c) \/ \E i \in 1..Len(out) : q = out[i]
<1> DEFINE t == Transmitted(c, n, out, to)
<1>1. \A l \in Wire : l[2] \in Node
  BY DEF Wire
<1>2. ASSUME NEW l \in Wire
      PROVE  /\ t[l] \in Seq(Frame)
             /\ \A i \in 1..Len(t[l]) :
                  t[l][i].packet \in Flying(c) \/ \E j \in 1..Len(out) : t[l][i].packet = out[j]
  <2>1. CASE l[1] = n /\ l[2] \in to
    <3> DEFINE f == Framed(n, l[2], out)
    <3>1. t[l] = c[l] \o f
      BY <2>1 DEF Transmitted
    <3>2. /\ f \in Seq(Frame) /\ Len(f) = Len(out)
          /\ \A i \in 1..Len(out) : f[i].packet = out[i]
      BY <1>1, FramedType
    <3>3. \A i \in 1..Len(c[l]) : c[l][i].packet \in Flying(c)
      BY FlyingElement
    <3>4. c[l] \in Seq(Frame)
      OBVIOUS
    <3> HIDE DEF f
    <3>5. /\ c[l] \o f \in Seq(Frame)
          /\ \A i \in 1..Len(c[l] \o f) :
               \/ i \in 1..Len(c[l]) /\ (c[l] \o f)[i] = c[l][i]
               \/ i - Len(c[l]) \in 1..Len(out) /\ (c[l] \o f)[i] = f[i - Len(c[l])]
      BY <3>2, <3>4
    <3> QED
      BY SMTT(60), <3>1, <3>2, <3>3, <3>5
  <2>2. CASE ~(l[1] = n /\ l[2] \in to)
    BY <2>2, FlyingElement DEF Transmitted
  <2> QED
    BY <2>1, <2>2
<1>3. t \in [Wire -> Seq(Frame)]
  BY <1>2 DEF Transmitted
<1>4. ASSUME NEW q \in Flying(t)
      PROVE  q \in Flying(c) \/ \E i \in 1..Len(out) : q = out[i]
  <2> HIDE DEF t
  <2>1. PICK l \in Wire : \E i \in 1..Len(t[l]) : q = t[l][i].packet
    BY <1>3, FlyingElement
  <2> QED
    BY <2>1, <1>2
<1> QED
  BY <1>3, <1>4

\* Handling the oldest frame of a channel removes it and adds nothing.
LEMMA FlyingHandled ==
  ASSUME TypeOK, NEW p \in Peers, NEW n \in Node, InFlight(p, n)
  PROVE  /\ Handled(p, n) \in [Wire -> Seq(Frame)]
         /\ Flying(Handled(p, n)) \subseteq Flying(chan)
         /\ Received(p, n) \in Flying(chan)
         /\ Received(p, n) \in Packet
<1> DEFINE l0 == <<p, n>>
<1>1. chan \in [Wire -> Seq(Frame)] /\ l0 \in Wire /\ chan[l0] # <<>>
  BY DEF TypeOK, InFlight
<1>2. /\ chan[l0] \in Seq(Frame) /\ Len(chan[l0]) \in Nat /\ Len(chan[l0]) > 0
      /\ Tail(chan[l0]) \in Seq(Frame) /\ Len(Tail(chan[l0])) = Len(chan[l0]) - 1
      /\ Head(chan[l0]) = chan[l0][1]
      /\ \A i \in 1..Len(Tail(chan[l0])) :
           i + 1 \in 1..Len(chan[l0]) /\ Tail(chan[l0])[i] = chan[l0][i + 1]
  BY <1>1
<1>3. Handled(p, n) \in [Wire -> Seq(Frame)]
  BY <1>1, <1>2 DEF Handled
<1>4. \A l \in Wire : \A i \in 1..Len(Handled(p, n)[l]) :
        Handled(p, n)[l][i].packet \in Flying(chan)
  BY ZenonT(60), <1>1, <1>2, FlyingElement DEF Handled
<1>5. Flying(Handled(p, n)) \subseteq Flying(chan)
  BY <1>3, <1>4, FlyingElement
<1>6. Received(p, n) = chan[l0][1].packet /\ 1 \in 1..Len(chan[l0])
  BY <1>2 DEF Received
<1> QED
  BY SMTT(60), <1>1, <1>3, <1>5, <1>6, FlyingElement

\* A key is a uint8_t whatever is added to the counter.
LEMMA NextKeyType ==
  ASSUME NEW s \in NodeState, NEW k \in Int
  PROVE  NextKey(s, k) \in Byte
<1>1. s.idempotency_key_counter \in Int
  BY ByteInt DEF NodeState
<1> QED
  BY <1>1, ByteArithmetic DEF NextKey

\* A resent packet is the remembered one but for its key.
LEMMA RekeyedType ==
  ASSUME NEW s \in NodeState
  PROVE  /\ Rekeyed(s) \in Seq(Packet)
         /\ Len(Rekeyed(s)) = Len(s.pars)
         /\ \A i \in 1..Len(s.pars) : /\ Rekeyed(s)[i].type = s.pars[i].type
                                      /\ Rekeyed(s)[i].addr = s.pars[i].addr
                                      /\ Rekeyed(s)[i].ttl = s.pars[i].ttl
<1>1. s.pars \in Seq(Packet) /\ Len(s.pars) \in Nat
  BY DEF NodeState
<1>2. ASSUME NEW i \in 1..Len(s.pars)
      PROVE  /\ [s.pars[i] EXCEPT !.key = NextKey(s, i - 1)] \in Packet
             /\ [s.pars[i] EXCEPT !.key = NextKey(s, i - 1)].type = s.pars[i].type
             /\ [s.pars[i] EXCEPT !.key = NextKey(s, i - 1)].addr = s.pars[i].addr
             /\ [s.pars[i] EXCEPT !.key = NextKey(s, i - 1)].ttl = s.pars[i].ttl
  <2>1. NextKey(s, i - 1) \in Byte
    BY NextKeyType
  <2>2. s.pars[i] \in Packet
    BY <1>1
  <2> QED
    BY <2>1, <2>2 DEF Packet
<1> QED
  BY <1>1, <1>2 DEF Rekeyed

\* What mesh_node_resend_packets_if_needed does to the RAM of a node.
LEMMA ResendType ==
  ASSUME NEW s \in NodeState
  PROVE  LET r == ResendIfNeeded(s) IN
         /\ r \in NodeState
         /\ Resent(s) \in Seq(Packet)
         /\ r.our_node_id = s.our_node_id
         /\ r.provisioning_requested = s.provisioning_requested
         /\ r.processed_packets = s.processed_packets
         /\ r.applied = s.applied
         /\ Len(r.pars) = Len(s.pars)
         /\ s.pars # <<>> => r.resend_timer = s.resend_timer
         /\ \A i \in 1..Len(s.pars) : /\ r.pars[i].type = s.pars[i].type
                                      /\ r.pars[i].addr = s.pars[i].addr
                                      /\ r.pars[i].ttl = s.pars[i].ttl
         /\ \A i \in 1..Len(Resent(s)) :
              /\ i \in 1..Len(s.pars)
              /\ Resent(s)[i].type = s.pars[i].type
              /\ Resent(s)[i].addr = s.pars[i].addr
              /\ Resent(s)[i].ttl = s.pars[i].ttl
<1>1. NextKey(s, Len(s.pars)) \in Byte
  <2>1. Len(s.pars) \in Int
    BY DEF NodeState
  <2> QED
    BY <2>1, NextKeyType
<1>2. CASE ~s.resend_packets
  BY <1>2 DEF ResendIfNeeded, Resent, NodeState
<1>3. CASE s.resend_packets /\ s.pars = <<>>
  BY <1>3, RekeyedType DEF ResendIfNeeded, Resent, NodeState
<1>4. CASE s.resend_packets /\ s.pars # <<>>
  <2>1. ResendIfNeeded(s) =
          [s EXCEPT !.resend_packets = FALSE, !.pars = Rekeyed(s),
                    !.idempotency_key_counter = NextKey(s, Len(s.pars))]
    BY <1>4 DEF ResendIfNeeded
  <2>2. Resent(s) = Rekeyed(s)
    BY <1>4 DEF Resent
  <2>3. ResendIfNeeded(s) \in NodeState
    BY <1>1, <2>1, RekeyedType DEF NodeState
  <2>4. /\ ResendIfNeeded(s).our_node_id = s.our_node_id
        /\ ResendIfNeeded(s).provisioning_requested = s.provisioning_requested
        /\ ResendIfNeeded(s).processed_packets = s.processed_packets
        /\ ResendIfNeeded(s).applied = s.applied
        /\ ResendIfNeeded(s).resend_timer = s.resend_timer
        /\ ResendIfNeeded(s).pars = Rekeyed(s)
    BY <2>1 DEF NodeState
  <2> QED
    BY <2>2, <2>3, <2>4, RekeyedType
<1> QED
  BY <1>2, <1>3, <1>4 DEF NodeState

\* Resending keeps what the invariant says of a node, and resends its request.
LEMMA ResendNodeOK ==
  ASSUME NEW n \in Node, NEW s \in NodeState, NodeOK(n, s)
  PROVE  /\ NodeOK(n, ResendIfNeeded(s))
         /\ \A F : DedupOK(s, F) => DedupOK(ResendIfNeeded(s), F)
         /\ \A i \in 1..Len(Resent(s)) : ParOK(n, Resent(s)[i])
<1> DEFINE r == ResendIfNeeded(s)
<1>1. /\ r \in NodeState
      /\ r.our_node_id = s.our_node_id
      /\ r.provisioning_requested = s.provisioning_requested
      /\ r.processed_packets = s.processed_packets
      /\ r.applied = s.applied
      /\ Len(r.pars) = Len(s.pars)
      /\ s.pars # <<>> => r.resend_timer = s.resend_timer
      /\ \A i \in 1..Len(s.pars) : /\ r.pars[i].type = s.pars[i].type
                                   /\ r.pars[i].addr = s.pars[i].addr
                                   /\ r.pars[i].ttl = s.pars[i].ttl
  BY ResendType
<1> HIDE DEF r
<1>2. r.pars = <<>> <=> s.pars = <<>>
  <2>1. r.pars \in Seq(Packet) /\ s.pars \in Seq(Packet)
    BY <1>1 DEF NodeState
  <2> QED
    BY <1>1, <2>1
<1>3. \A i \in 1..Len(r.pars) : ParOK(n, r.pars[i])
  BY <1>1 DEF NodeOK, ParOK
<1>4. NodeOK(n, r)
  BY <1>1, <1>2, <1>3 DEF NodeOK, Done
<1>5. \A F : DedupOK(s, F) => DedupOK(r, F)
  BY <1>1 DEF DedupOK, Done
<1>6. \A i \in 1..Len(Resent(s)) : ParOK(n, Resent(s)[i])
  BY ResendType DEF NodeOK, ParOK
<1> QED
  BY <1>4, <1>5, <1>6 DEF r

\* The hub's inbox holds addresses and the ids they were sent under.
LEMMA RequestsType ==
  ASSUME NEW out \in Seq(Packet),
         \A i \in 1..Len(out) : out[i].type = "NODE_CONNECTED" => out[i].addr \in Node
  PROVE  Requests(out) \subseteq [addr : Node, source : Byte]
<1>1. ASSUME NEW i \in 1..Len(out) PROVE out[i].source \in Byte
  <2>1. out[i] \in Packet
    OBVIOUS
  <2> QED
    BY <2>1 DEF Packet
<1> QED
  BY <1>1 DEF Requests

\* Losing a write is paid for from the budget.
LEMMA RefusalsBudget ==
  ASSUME TypeOK, NEW n \in Node, NEW refused,
         refused = {} \/ refused \in Refusals(n),
         budget' = [budget EXCEPT !.losses = @ - Cardinality(refused)]
  PROVE  budget' \in [BudgetKinds -> Nat] /\ budget'.commands = budget.commands
<1>1. \/ Cardinality(refused) = 0
      \/ Cardinality(refused) = 1 /\ budget.losses > 0
  BY FS_EmptySet, FS_Singleton DEF Refusals
<1>2. "losses" \in BudgetKinds /\ "commands" \in BudgetKinds
  BY DEF BudgetKinds
<1> QED
  BY <1>1, <1>2 DEF TypeOK

\* A step of one node that keeps its RAM in order and sends only packets in order.
LEMMA NodeStep ==
  ASSUME IInv, TypeOK', NEW n \in Node, NEW s \in NodeState,
         NodeOK(n, s), DedupOK(s, Flying(chan)),
         NEW out \in Seq(Packet),
         \A i \in 1..Len(out) :
           /\ PacketOK(out[i])
           /\ IsCommand(out[i]) => \E m \in Flying(chan) :
                IsCommand(m) /\ m.val = out[i].val /\ m.key = out[i].key,
         \A q \in Flying(chan') : q \in Flying(chan) \/ \E i \in 1..Len(out) : q = out[i],
         node' = [node EXCEPT ![n] = s],
         hub_id' = hub_id, budget'.commands = budget.commands
  PROVE  IInv'
<1>1. HubOK'
  BY DEF IInv, HubOK
<1>2. ASSUME NEW q \in Flying(chan') PROVE PacketOK(q)'
  <2>1. PacketOK(q)
    BY DEF IInv
  <2> QED
    BY <2>1 DEF PacketOK, IsCommand
<1>3. \A q \in Flying(chan') : IsCommand(q) => \E m \in Flying(chan) :
        IsCommand(m) /\ m.val = q.val /\ m.key = q.key
  OBVIOUS
<1>4. ASSUME NEW k \in Node
      PROVE  NodeOK(k, node[k])' /\ DedupOK(node[k], Flying(chan))'
  <2>1. NodeOK(k, node'[k]) /\ DedupOK(node'[k], Flying(chan))
    BY DEF IInv, TypeOK
  <2>2. NodeOK(k, node[k])'
    BY <2>1 DEF NodeOK
  <2>3. DedupOK(node[k], Flying(chan))'
    BY <1>3, <2>1 DEF DedupOK, IsCommand
  <2> QED
    BY <2>2, <2>3
<1>5. KeysOK(Flying(chan))'
  BY <1>3 DEF IInv, KeysOK, IsCommand
<1> QED
  BY <1>1, <1>2, <1>4, <1>5 DEF IInv

\* A request is a packet that may be sent.
LEMMA ParPacket ==
  ASSUME NEW n \in Node, NEW q, ParOK(n, q)
  PROVE  PacketOK(q) /\ ~IsCommand(q)
BY DEF ParOK, PacketOK, IsCommand, CommandTypes, ReplyTypes

\* The end of a handler keeps the invariant.
LEMMA FinishPreserves ==
  ASSUME IInv, NEW n \in Node, NEW s \in NodeState,
         NodeOK(n, s), DedupOK(s, Flying(chan)),
         NEW out \in Seq(Packet),
         \A i \in 1..Len(out) :
           /\ PacketOK(out[i])
           /\ IsCommand(out[i]) => \E m \in Flying(chan) :
                IsCommand(m) /\ m.val = out[i].val /\ m.key = out[i].key,
         NEW c \in [Wire -> Seq(Frame)], Flying(c) \subseteq Flying(chan),
         Finish(n, s, out, c)
  PROVE  IInv'
<1>1. PICK refused \in IF out = <<>> THEN {{}} ELSE Refusals(n) :
        LET to == Reached(n) \ refused IN
        /\ node' = [node EXCEPT ![n] = s]
        /\ chan' = Transmitted(c, n, out, to)
        /\ hub_inbox' = IF Hub \in to THEN hub_inbox \cup Requests(out) ELSE hub_inbox
        /\ budget' = [budget EXCEPT !.losses = @ - Cardinality(refused)]
        /\ UNCHANGED <<awake, peer, link, hub_id, hub_key>>
  BY DEF Finish
<1>2. /\ chan' \in [Wire -> Seq(Frame)]
      /\ \A q \in Flying(chan') : q \in Flying(chan) \/ \E i \in 1..Len(out) : q = out[i]
  BY <1>1, FlyingTransmitted
<1>3. budget' \in [BudgetKinds -> Nat] /\ budget'.commands = budget.commands
  BY <1>1, RefusalsBudget DEF IInv
<1>4. Requests(out) \subseteq [addr : Node, source : Byte]
  BY RequestsType DEF PacketOK
<1>5. TypeOK'
  BY <1>1, <1>2, <1>3, <1>4 DEF IInv, TypeOK
<1> QED
  BY <1>1, <1>2, <1>3, <1>5, NodeStep

\* The end of mn_receive_data, which resends as well, keeps the invariant.
LEMMA FinishReceivePreserves ==
  ASSUME IInv, NEW n \in Node, NEW s \in NodeState,
         NodeOK(n, s), DedupOK(s, Flying(chan)),
         NEW out \in Seq(Packet),
         \A i \in 1..Len(out) :
           /\ PacketOK(out[i])
           /\ IsCommand(out[i]) => \E m \in Flying(chan) :
                IsCommand(m) /\ m.val = out[i].val /\ m.key = out[i].key,
         NEW c \in [Wire -> Seq(Frame)], Flying(c) \subseteq Flying(chan),
         FinishReceive(n, s, out, c)
  PROVE  IInv'
<1> DEFINE r == ResendIfNeeded(s)
           more == Resent(s)
<1>1. r \in NodeState /\ more \in Seq(Packet)
  BY ResendType
<1>2. /\ NodeOK(n, r) /\ DedupOK(r, Flying(chan))
      /\ \A i \in 1..Len(more) : PacketOK(more[i]) /\ ~IsCommand(more[i])
  BY ResendNodeOK, ParPacket
<1>3. Finish(n, r, out \o more, c)
  BY DEF FinishReceive
<1> HIDE DEF r, more
<1>4. /\ out \o more \in Seq(Packet)
      /\ \A i \in 1..Len(out \o more) :
           \/ i \in 1..Len(out) /\ (out \o more)[i] = out[i]
           \/ i - Len(out) \in 1..Len(more) /\ (out \o more)[i] = more[i - Len(out)]
  BY <1>1
<1>5. \A i \in 1..Len(out \o more) :
        /\ PacketOK((out \o more)[i])
        /\ IsCommand((out \o more)[i]) => \E m \in Flying(chan) :
             IsCommand(m) /\ m.val = (out \o more)[i].val /\ m.key = (out \o more)[i].key
  BY <1>2, <1>4
<1> QED
  BY <1>1, <1>2, <1>3, <1>4, <1>5, FinishPreserves

\* The special case of a handler that sends nothing of its own.
LEMMA SilentPreserves ==
  ASSUME IInv, NEW n \in Node, NEW s \in NodeState,
         NodeOK(n, s), DedupOK(s, Flying(chan)),
         NEW c \in [Wire -> Seq(Frame)], Flying(c) \subseteq Flying(chan),
         FinishReceive(n, s, <<>>, c)
  PROVE  IInv'
<1> DEFINE out == <<>>
<1>1. out \in Seq(Packet) /\ Len(out) = 0 /\ FinishReceive(n, s, out, c)
  OBVIOUS
<1> HIDE DEF out
<1>2. \A i \in 1..Len(out) :
        /\ PacketOK(out[i])
        /\ IsCommand(out[i]) => \E q \in Flying(chan) :
             IsCommand(q) /\ q.val = out[i].val /\ q.key = out[i].key
  BY <1>1
<1> QED
  BY <1>1, <1>2, FinishReceivePreserves

\* ... and of one that sends a single packet.
LEMMA SinglePreserves ==
  ASSUME IInv, NEW n \in Node, NEW s \in NodeState,
         NodeOK(n, s), DedupOK(s, Flying(chan)),
         NEW d \in Packet, PacketOK(d),
         IsCommand(d) => \E q \in Flying(chan) :
           IsCommand(q) /\ q.val = d.val /\ q.key = d.key,
         NEW c \in [Wire -> Seq(Frame)], Flying(c) \subseteq Flying(chan),
         FinishReceive(n, s, <<d>>, c)
  PROVE  IInv'
<1> DEFINE out == <<d>>
<1>1. out \in Seq(Packet) /\ Len(out) = 1 /\ out[1] = d /\ FinishReceive(n, s, out, c)
  OBVIOUS
<1> HIDE DEF out
<1>2. \A i \in 1..Len(out) :
        /\ PacketOK(out[i])
        /\ IsCommand(out[i]) => \E q \in Flying(chan) :
             IsCommand(q) /\ q.val = out[i].val /\ q.key = out[i].key
  BY <1>1
<1> QED
  BY <1>1, <1>2, FinishReceivePreserves

-----------------------------------------------------------------------------
(* Every action of the GATT server keeps the invariant.                    *)

\* A packet that is passed on counts down, unless it answers a request for an id.
LEMMA ForwardPreserves ==
  ASSUME IInv, NEW n \in Node, NEW p \in Peers, Forward(p, n)
  PROVE  IInv'
<1> DEFINE m == Received(p, n)
           d == Decremented(m)
<1>1. /\ InFlight(p, n) /\ NextStep(n, m) = "FORWARD"
      /\ FinishReceive(n, node[n], <<d>>, Handled(p, n))
  BY DEF Forward, Writes
<1>2. /\ Handled(p, n) \in [Wire -> Seq(Frame)]
      /\ Flying(Handled(p, n)) \subseteq Flying(chan)
      /\ m \in Flying(chan) /\ m \in Packet
  BY <1>1, FlyingHandled DEF IInv
<1>3. node[n] \in NodeState /\ NodeOK(n, node[n]) /\ DedupOK(node[n], Flying(chan))
  BY DEF IInv, TypeOK
<1> HIDE DEF m
<1>4. /\ d \in Packet
      /\ d.ttl = (m.ttl - 1) % UInt8
      /\ d.type = m.type /\ d.addr = m.addr /\ d.val = m.val /\ d.key = m.key
      /\ d.dest = m.dest /\ d.source = m.source
  <2>1. m.ttl \in Int
    BY <1>2, ByteInt DEF Packet
  <2>2. (m.ttl - 1) % UInt8 \in Byte
    BY <2>1, ByteArithmetic
  <2> QED
    BY <1>2, <2>2 DEF Decremented, Packet
<1>5. m.type # "NODE_CONNECTED_RESP" => m.ttl # 0
  BY <1>1 DEF NextStep
<1>6. PacketOK(m)
  BY <1>2 DEF IInv
<1>7. d.type # "NODE_CONNECTED_RESP" => d.ttl <= StdTtl
  <2>1. m.ttl \in Int /\ m.ttl >= 0 /\ m.ttl < UInt8
    BY <1>2, ByteInt DEF Packet
  <2>2. m.ttl # 0 => (m.ttl - 1) % UInt8 = m.ttl - 1
    BY <2>1, WidthAssumption
  <2> QED
    BY <1>4, <1>5, <1>6, <2>1, <2>2, TtlAssumption DEF PacketOK
<1>8. PacketOK(d)
  BY <1>4, <1>6, <1>7 DEF PacketOK, IsCommand
<1>9. IsCommand(d) => IsCommand(m) /\ m.val = d.val /\ m.key = d.key
  BY <1>4 DEF IsCommand
<1> HIDE DEF d
<1> QED
  BY <1>1, <1>2, <1>3, <1>4, <1>8, <1>9, SinglePreserves

\* A packet that is dropped leaves only the resend to do.
LEMMA TerminatePreserves ==
  ASSUME IInv, NEW n \in Node, NEW p \in Peers, Terminate(p, n)
  PROVE  IInv'
<1>1. InFlight(p, n) /\ FinishReceive(n, node[n], <<>>, Handled(p, n))
  BY DEF Terminate, Writes
<1>2. /\ Handled(p, n) \in [Wire -> Seq(Frame)]
      /\ Flying(Handled(p, n)) \subseteq Flying(chan)
  BY <1>1, FlyingHandled DEF IInv
<1>3. node[n] \in NodeState /\ NodeOK(n, node[n]) /\ DedupOK(node[n], Flying(chan))
  BY DEF IInv, TypeOK
<1> QED
  BY <1>1, <1>2, <1>3, SilentPreserves

\* Removing an outstanding packet leaves only packets that were outstanding.
LEMMA WithoutType ==
  ASSUME NEW ps \in Seq(Packet), NEW i \in 1..Len(ps)
  PROVE  /\ Without(ps, i) \in Seq(Packet)
         /\ \A j \in 1..Len(Without(ps, i)) : \E k \in 1..Len(ps) : Without(ps, i)[j] = ps[k]
<1> DEFINE front == SubSeq(ps, 1, i - 1)
           back  == SubSeq(ps, i + 1, Len(ps))
<1>1. Len(ps) \in Nat /\ i \in Nat /\ i >= 1 /\ i <= Len(ps)
  OBVIOUS
<1>2. /\ front \in Seq(Packet) /\ Len(front) = i - 1
      /\ \A j \in 1..Len(front) : j \in 1..Len(ps) /\ front[j] = ps[j]
  BY <1>1
<1>3. /\ back \in Seq(Packet) /\ Len(back) = Len(ps) - i
      /\ \A j \in 1..Len(back) : j + i \in 1..Len(ps) /\ back[j] = ps[j + i]
  BY <1>1
<1> HIDE DEF front, back
<1>4. front \o back \in Seq(Packet)
  BY <1>2, <1>3
<1>5. ASSUME NEW j \in 1..Len(front \o back)
      PROVE  \E k \in 1..Len(ps) : (front \o back)[j] = ps[k]
  <2>1. \/ j \in 1..Len(front) /\ (front \o back)[j] = front[j]
        \/ j - Len(front) \in 1..Len(back) /\ (front \o back)[j] = back[j - Len(front)]
    BY <1>2, <1>3
  <2> QED
    BY <1>2, <1>3, <2>1
<1> QED
  BY <1>4, <1>5 DEF Without, front, back

\* The state of a node that handled the hub's response to its request.
LEMMA ResponseReceivedType ==
  ASSUME NEW s \in NodeState
  PROVE  LET r == ResponseReceived(s) IN
         /\ r \in NodeState
         /\ r.our_node_id = s.our_node_id
         /\ r.provisioning_requested = s.provisioning_requested
         /\ r.processed_packets = s.processed_packets
         /\ r.applied = s.applied
         /\ s.pars = <<>> => r.pars = <<>>
         /\ \A j \in 1..Len(r.pars) : \E k \in 1..Len(s.pars) : r.pars[j] = s.pars[k]
<1>1. s.pars \in Seq(Packet)
  BY DEF NodeState
<1>2. CASE \E i \in DOMAIN s.pars : s.pars[i].type = "NODE_CONNECTED"
  <2> DEFINE P(i) == IsFirstOfType(s.pars, "NODE_CONNECTED", i)
             i0 == CHOOSE i \in DOMAIN s.pars : P(i)
  <2>1. \E i \in DOMAIN s.pars : P(i)
    <3> DEFINE S == {i \in Nat : i \in DOMAIN s.pars /\ s.pars[i].type = "NODE_CONNECTED"}
    <3>1. S # {} /\ S \subseteq Nat
      BY <1>1, <1>2
    <3>2. PICK i \in S : \A j \in S : ~(<<j, i>> \in OpToRel(<, Nat))
      BY <3>1, WFMin, NatLessThanWellFounded
    <3>3. \A j \in S : ~(j < i)
      BY <3>1, <3>2 DEF OpToRel
    <3> QED
      BY SMTT(60), <1>1, <3>3 DEF IsFirstOfType
  <2>2. i0 \in 1..Len(s.pars)
    BY <1>1, <2>1
  <2>3. ResponseReceived(s) = [s EXCEPT !.pars = Without(s.pars, i0)]
    BY <1>2 DEF ResponseReceived
  <2> HIDE DEF i0
  <2>4. s.pars # <<>>
    BY <1>1, <2>2
  <2> DEFINE w == Without(s.pars, i0)
  <2>5. /\ w \in Seq(Packet)
        /\ \A j \in 1..Len(w) : \E k \in 1..Len(s.pars) : w[j] = s.pars[k]
    BY <1>1, <2>2, WithoutType
  <2> HIDE DEF w
  <2>6. ResponseReceived(s) = [s EXCEPT !.pars = w]
    BY <2>3 DEF w
  <2>7. ResponseReceived(s) \in NodeState
    BY <2>5, <2>6 DEF NodeState
  <2>8. /\ ResponseReceived(s).our_node_id = s.our_node_id
        /\ ResponseReceived(s).provisioning_requested = s.provisioning_requested
        /\ ResponseReceived(s).processed_packets = s.processed_packets
        /\ ResponseReceived(s).applied = s.applied
        /\ ResponseReceived(s).pars = w
    BY <2>6 DEF NodeState
  <2> QED
    BY <2>4, <2>5, <2>7, <2>8
<1>3. CASE ~\E i \in DOMAIN s.pars : s.pars[i].type = "NODE_CONNECTED"
  <2>1. ResponseReceived(s) = [s EXCEPT !.pars = s.pars]
    BY <1>3 DEF ResponseReceived
  <2> QED
    BY <2>1 DEF NodeState
<1> QED
  BY <1>2, <1>3

\* A node takes the id of the answer to its own request, and no longer waits.
LEMMA IdTaken ==
  ASSUME IInv, NEW n \in Node, NEW m \in Flying(chan),
         NextStep(n, m) = "PROCESS", m.type = "NODE_CONNECTED_RESP"
  PROVE  LET r == ResponseReceived([Marked(node[n], m) EXCEPT !.our_node_id = m.val]) IN
         /\ r \in NodeState /\ NodeOK(n, r) /\ DedupOK(r, Flying(chan))
         /\ r.applied = node[n].applied
<1> DEFINE s == [Marked(node[n], m) EXCEPT !.our_node_id = m.val]
           r == ResponseReceived(s)
<1>1. m \in Packet /\ PacketOK(m)
  BY FlyingElement DEF IInv, TypeOK
<1>2. node[n] \in NodeState /\ NodeOK(n, node[n]) /\ DedupOK(node[n], Flying(chan))
  BY DEF IInv, TypeOK
<1>3. m.addr = n
  <2>1. CASE m.dest = node[n].our_node_id
    BY <2>1 DEF NextStep
  <2>2. CASE m.dest # node[n].our_node_id
    BY <2>2 DEF NextStep
  <2> QED
    BY <2>1, <2>2
<1>4. m.val = hub_id[n] /\ m.val \in Byte /\ m.val # 0 /\ m.val # 1
  <2>1. hub_id[n] \in NodeIds \cup {0}
    BY DEF IInv, TypeOK
  <2> QED
    BY <1>1, <1>3, <2>1, ByteArithmetic DEF PacketOK
<1>5. /\ s \in NodeState
      /\ s.our_node_id = m.val
      /\ s.provisioning_requested = node[n].provisioning_requested
      /\ s.processed_packets = node[n].processed_packets \cup {m.key}
      /\ s.applied = node[n].applied
      /\ s.pars = node[n].pars
  <2>1. m.key \in Byte
    BY <1>1 DEF Packet
  <2> QED
    BY <1>2, <1>4, <2>1 DEF Marked, NodeState
<1> HIDE DEF s
<1>6. /\ r \in NodeState
      /\ r.our_node_id = s.our_node_id
      /\ r.provisioning_requested = s.provisioning_requested
      /\ r.processed_packets = s.processed_packets
      /\ r.applied = s.applied
      /\ s.pars = <<>> => r.pars = <<>>
      /\ \A j \in 1..Len(r.pars) : \E k \in 1..Len(s.pars) : r.pars[j] = s.pars[k]
  BY <1>5, ResponseReceivedType
<1> HIDE DEF r
<1>7. NodeOK(n, r)
  BY <1>2, <1>4, <1>5, <1>6 DEF NodeOK, Done
<1>8. DedupOK(r, Flying(chan))
  BY SMTT(60), <1>2, <1>5, <1>6 DEF DedupOK, Done
<1> QED
  BY <1>5, <1>6, <1>7, <1>8 DEF r, s

\* That keeps the invariant.
LEMMA ProcNodeConnectedRespPreserves ==
  ASSUME IInv, NEW n \in Node, NEW p \in Peers, ProcNodeConnectedResp(p, n)
  PROVE  IInv'
<1> DEFINE m == Received(p, n)
           r == ResponseReceived([Marked(node[n], m) EXCEPT !.our_node_id = m.val])
<1>1. /\ InFlight(p, n) /\ NextStep(n, m) = "PROCESS" /\ m.type = "NODE_CONNECTED_RESP"
      /\ FinishReceive(n, r, <<>>, Handled(p, n))
  BY DEF ProcNodeConnectedResp, Writes
<1>2. /\ Handled(p, n) \in [Wire -> Seq(Frame)]
      /\ Flying(Handled(p, n)) \subseteq Flying(chan)
      /\ m \in Flying(chan)
  BY <1>1, FlyingHandled DEF IInv
<1> HIDE DEF m
<1>3. r \in NodeState /\ NodeOK(n, r) /\ DedupOK(r, Flying(chan))
  BY <1>1, <1>2, IdTaken
<1> HIDE DEF r
<1> QED
  BY <1>1, <1>2, <1>3, SilentPreserves

\* A command reaches its handler under a key that is not marked, so no copy of it
\* was handled before.
LEMMA CommandMarked ==
  ASSUME IInv, NEW n \in Node, NEW m \in Flying(chan), NextStep(n, m) = "PROCESS",
         m.type \in {"REQ", "UPDATE", "OTA_UPDATE_AVAILABLE"}
  PROVE  LET s == [Marked(node[n], m) EXCEPT !.applied = Append(@, m.val)] IN
         /\ s \in NodeState /\ KeyTaken(s) \in NodeState
         /\ NodeOK(n, s) /\ NodeOK(n, KeyTaken(s))
         /\ DedupOK(s, Flying(chan)) /\ DedupOK(KeyTaken(s), Flying(chan))
         /\ s.our_node_id = m.dest /\ node[n].our_node_id = m.dest
         /\ m.val \notin Done(node[n])
         /\ Done(s) = Done(node[n]) \cup {m.val} /\ Done(KeyTaken(s)) = Done(s)
<1> DEFINE s == [Marked(node[n], m) EXCEPT !.applied = Append(@, m.val)]
           t == KeyTaken(s)
<1>1. node[n] \in NodeState /\ NodeOK(n, node[n]) /\ DedupOK(node[n], Flying(chan))
  BY DEF IInv, TypeOK
<1>2. m \in Packet /\ PacketOK(m) /\ IsCommand(m) /\ KeysOK(Flying(chan))
  BY FlyingElement DEF IInv, TypeOK, IsCommand, CommandTypes
<1>3. m.dest = node[n].our_node_id /\ m.key \notin node[n].processed_packets
  <2>1. CASE m.dest = node[n].our_node_id
    BY <2>1 DEF NextStep
  <2>2. CASE m.dest # node[n].our_node_id
    BY <2>2 DEF NextStep
  <2> QED
    BY <2>1, <2>2
<1>4. m.val \in Nat /\ m.key \in Byte /\ node[n].applied \in Seq(Nat)
  BY <1>1, <1>2 DEF Packet, NodeState
<1>5. /\ s \in NodeState
      /\ s.our_node_id = node[n].our_node_id
      /\ s.provisioning_requested = node[n].provisioning_requested
      /\ s.processed_packets = node[n].processed_packets \cup {m.key}
      /\ s.pars = node[n].pars
      /\ s.resend_timer = node[n].resend_timer
      /\ s.applied = Append(node[n].applied, m.val)
  <2> DEFINE k == Marked(node[n], m)
             a == Append(node[n].applied, m.val)
  <2>1. a \in Seq(Nat)
    BY <1>4
  <2>2. /\ k \in NodeState
        /\ k.our_node_id = node[n].our_node_id
        /\ k.provisioning_requested = node[n].provisioning_requested
        /\ k.processed_packets = node[n].processed_packets \cup {m.key}
        /\ k.pars = node[n].pars
        /\ k.resend_timer = node[n].resend_timer
        /\ k.applied = node[n].applied
    BY <1>1, <1>4 DEF Marked, NodeState
  <2> HIDE DEF k, a
  <2>3. s = [k EXCEPT !.applied = a]
    BY <2>2 DEF k, a
  <2>4. s \in NodeState /\ s.applied = a
    BY <2>1, <2>2, <2>3 DEF NodeState
  <2>5. /\ s.our_node_id = k.our_node_id
        /\ s.provisioning_requested = k.provisioning_requested
        /\ s.processed_packets = k.processed_packets
        /\ s.pars = k.pars
        /\ s.resend_timer = k.resend_timer
    BY <2>2, <2>3 DEF NodeState
  <2> QED
    BY <2>2, <2>4, <2>5 DEF a
<1> HIDE DEF s
<1>6. /\ t \in NodeState
      /\ t.our_node_id = s.our_node_id
      /\ t.provisioning_requested = s.provisioning_requested
      /\ t.processed_packets = s.processed_packets
      /\ t.pars = s.pars
      /\ t.resend_timer = s.resend_timer
      /\ t.applied = s.applied
  <2>1. NextKey(s, 1) \in Byte
    BY <1>5, NextKeyType
  <2> QED
    BY <1>5, <2>1 DEF KeyTaken, NodeState
<1> HIDE DEF t
<1>7. /\ Len(s.applied) = Len(node[n].applied) + 1 /\ Len(node[n].applied) \in Nat
      /\ \A i \in 1..Len(node[n].applied) : s.applied[i] = node[n].applied[i]
      /\ s.applied[Len(s.applied)] = m.val
  BY <1>4, <1>5
<1>8. m.val \notin Done(node[n])
  BY <1>1, <1>2, <1>3 DEF DedupOK
<1>9. \A v \in Done(s) : v \in Done(node[n]) \/ v = m.val
  <2> SUFFICES ASSUME NEW i \in 1..Len(s.applied)
               PROVE  s.applied[i] \in Done(node[n]) \/ s.applied[i] = m.val
    BY DEF Done
  <2>1. CASE i = Len(s.applied)
    BY <1>7, <2>1
  <2>2. CASE i # Len(s.applied)
    <3>1. i \in 1..Len(node[n].applied)
      BY <1>7, <2>2
    <3> QED
      BY <1>7, <3>1 DEF Done
  <2> QED
    BY <2>1, <2>2
<1>10. \A i, j \in 1..Len(s.applied) : s.applied[i] = s.applied[j] => i = j
  <2>1. \A i \in 1..Len(node[n].applied) : node[n].applied[i] # m.val
    BY <1>8 DEF Done
  <2>2. \A i, j \in 1..Len(node[n].applied) :
          node[n].applied[i] = node[n].applied[j] => i = j
    BY <1>1 DEF NodeOK
  <2> DEFINE last == Len(node[n].applied) + 1
  <2>3. \A i \in 1..Len(s.applied) : i = last \/ i \in 1..Len(node[n].applied)
    BY <1>7
  <2>4. s.applied[last] = m.val
    BY <1>7
  <2> HIDE DEF last
  <2> QED
    BY SMTT(60), <1>7, <2>1, <2>2, <2>3, <2>4
<1>11. \A v \in Done(s) : v > budget.commands
  BY <1>1, <1>2, <1>9 DEF NodeOK, PacketOK
<1>12. NodeOK(n, s)
  BY <1>1, <1>5, <1>10, <1>11 DEF NodeOK
<1>13. DedupOK(s, Flying(chan))
  BY <1>1, <1>2, <1>5, <1>9 DEF DedupOK, KeysOK
<1>14. Done(t) = Done(s)
  BY <1>6 DEF Done
<1>15. NodeOK(n, t) /\ DedupOK(t, Flying(chan))
  BY <1>6, <1>12, <1>13, <1>14 DEF NodeOK, DedupOK
<1>16. Done(s) = Done(node[n]) \cup {m.val}
  <2>1. \A v \in Done(node[n]) : v \in Done(s)
    BY <1>7 DEF Done
  <2>2. m.val \in Done(s)
    BY <1>7 DEF Done
  <2> QED
    BY <1>9, <2>1, <2>2
<1> QED
  BY <1>3, <1>5, <1>6, <1>8, <1>12, <1>13, <1>14, <1>15, <1>16 DEF s, t

\* A reply carries the assigned id the command was addressed to.
LEMMA ProcCommandPreserves ==
  ASSUME IInv, NEW n \in Node, NEW p \in Peers, ProcCommand(p, n)
  PROVE  IInv'
<1> DEFINE m == Received(p, n)
           s == [Marked(node[n], m) EXCEPT !.applied = Append(@, m.val)]
           d == ToHub(s, ReplyType(m.type), NoAddr, m.val)
<1>1. /\ InFlight(p, n) /\ NextStep(n, m) = "PROCESS"
      /\ m.type \in {"REQ", "UPDATE", "OTA_UPDATE_AVAILABLE"}
      /\ FinishReceive(n, KeyTaken(s), <<d>>, Handled(p, n))
  BY DEF ProcCommand, Writes
<1>2. /\ Handled(p, n) \in [Wire -> Seq(Frame)]
      /\ Flying(Handled(p, n)) \subseteq Flying(chan)
      /\ m \in Flying(chan) /\ m \in Packet
  BY <1>1, FlyingHandled DEF IInv
<1> HIDE DEF m
<1>3. /\ s \in NodeState /\ KeyTaken(s) \in NodeState
      /\ NodeOK(n, KeyTaken(s)) /\ DedupOK(KeyTaken(s), Flying(chan))
      /\ s.our_node_id = m.dest
  BY <1>1, <1>2, CommandMarked
<1> HIDE DEF s
<1>4. ReplyType(m.type) \in ReplyTypes
  BY <1>1 DEF ReplyType, ReplyTypes
<1>5. /\ d \in Packet /\ d.type \in ReplyTypes /\ d.ttl = StdTtl /\ d.source = m.dest
  <2>1. s.our_node_id \in Byte /\ s.idempotency_key_counter \in Byte
    BY <1>3 DEF NodeState
  <2>2. m.val \in Nat
    BY <1>2 DEF Packet
  <2>3. ReplyTypes \subseteq PacketTypes
    BY DEF PacketTypes
  <2> QED
    BY <1>3, <1>4, <2>1, <2>2, <2>3, ByteArithmetic DEF ToHub, Packet
<1>6. PacketOK(d) /\ ~IsCommand(d)
  <2>1. PacketOK(m) /\ IsCommand(m)
    BY <1>1, <1>2 DEF IInv, IsCommand, CommandTypes
  <2>2. StdTtl <= StdTtl
    BY TtlAssumption
  <2> HIDE DEF d
  <2> QED
    BY <1>5, <2>1, <2>2 DEF PacketOK, IsCommand, CommandTypes, ReplyTypes
<1> HIDE DEF d
<1> QED
  BY <1>1, <1>2, <1>3, <1>5, <1>6, SinglePreserves

\* A handler that cannot open the store sends nothing.
LEMMA ProcCommandNvsErrorPreserves ==
  ASSUME IInv, NEW n \in Node, NEW p \in Peers, ProcCommandNvsError(p, n)
  PROVE  IInv'
<1> DEFINE m == Received(p, n)
           s == [Marked(node[n], m) EXCEPT !.applied = Append(@, m.val)]
           t == IF m.type = "OTA_UPDATE_AVAILABLE" THEN KeyTaken(s) ELSE s
<1>1. /\ InFlight(p, n) /\ NextStep(n, m) = "PROCESS"
      /\ m.type \in {"REQ", "UPDATE", "OTA_UPDATE_AVAILABLE"}
      /\ FinishReceive(n, t, <<>>, Handled(p, n))
  BY DEF ProcCommandNvsError, Writes
<1>2. /\ Handled(p, n) \in [Wire -> Seq(Frame)]
      /\ Flying(Handled(p, n)) \subseteq Flying(chan)
      /\ m \in Flying(chan) /\ m \in Packet
  BY <1>1, FlyingHandled DEF IInv
<1> HIDE DEF m
<1>3. t \in NodeState /\ NodeOK(n, t) /\ DedupOK(t, Flying(chan))
  <2>1. /\ s \in NodeState /\ KeyTaken(s) \in NodeState
        /\ NodeOK(n, s) /\ NodeOK(n, KeyTaken(s))
        /\ DedupOK(s, Flying(chan)) /\ DedupOK(KeyTaken(s), Flying(chan))
    BY <1>1, <1>2, CommandMarked
  <2> HIDE DEF s
  <2> QED
    BY <2>1
<1> HIDE DEF t
<1> QED
  BY <1>1, <1>2, <1>3, SilentPreserves

-----------------------------------------------------------------------------
(* Powering down, GAP events and timers.                                   *)

\* A node that boots knows nothing, which is in order.
LEMMA PowerOnOK ==
  ASSUME NEW n \in Node
  PROVE  PowerOn \in NodeState /\ NodeOK(n, PowerOn) /\ \A F : DedupOK(PowerOn, F)
<1>1. Done(PowerOn) = {} /\ PowerOn.applied = <<>> /\ PowerOn.pars = <<>>
  BY DEF PowerOn, Done
<1>2. PowerOn \in NodeState
  BY ByteArithmetic DEF PowerOn, NodeState
<1> QED
  BY <1>1, <1>2 DEF NodeOK, DedupOK, PowerOn

\* Spending from the budget touches one of its entries.
LEMMA SpendType ==
  ASSUME TypeOK, NEW kind \in BudgetKinds, Spend(kind)
  PROVE  /\ budget' \in [BudgetKinds -> Nat]
         /\ kind # "commands" => budget'.commands = budget.commands
         /\ kind = "commands" => budget.commands > budget'.commands
BY DEF TypeOK, Spend, BudgetKinds

\* A step that changes no RAM and adds no packet keeps the invariant.
LEMMA QuietStep ==
  ASSUME IInv, TypeOK', Flying(chan') \subseteq Flying(chan),
         UNCHANGED <<node, hub_id>>, budget'.commands = budget.commands
  PROVE  IInv'
<1>1. PICK n \in Node : TRUE
  BY NodeAssumption
<1>2. /\ node[n] \in NodeState /\ NodeOK(n, node[n]) /\ DedupOK(node[n], Flying(chan))
      /\ node' = [node EXCEPT ![n] = node[n]]
  BY DEF IInv, TypeOK
<1> DEFINE out == <<>>
<1>3. out \in Seq(Packet) /\ Len(out) = 0
  OBVIOUS
<1> HIDE DEF out
<1>4. \A i \in 1..Len(out) :
        /\ PacketOK(out[i])
        /\ IsCommand(out[i]) => \E q \in Flying(chan) :
             IsCommand(q) /\ q.val = out[i].val /\ q.key = out[i].key
  BY <1>3
<1> QED
  BY <1>2, <1>3, <1>4, NodeStep

\* Emptying some channels adds no packet.
LEMMA FlyingEmptied ==
  ASSUME NEW c \in [Wire -> Seq(Frame)], NEW S
  PROVE  LET d == [l \in Wire |-> IF l \in S THEN <<>> ELSE c[l]] IN
         d \in [Wire -> Seq(Frame)] /\ Flying(d) \subseteq Flying(c)
<1> DEFINE d == [l \in Wire |-> IF l \in S THEN <<>> ELSE c[l]]
<1>1. d \in [Wire -> Seq(Frame)]
  OBVIOUS
<1>2. \A l \in Wire : \A i \in 1..Len(d[l]) : d[l][i].packet \in Flying(c)
  BY FlyingElement
<1> HIDE DEF d
<1>3. Flying(d) \subseteq Flying(c)
  BY SMTT(60), <1>1, <1>2, FlyingElement
<1> QED
  BY <1>1, <1>3 DEF d

\* Powering down resets the RAM and loses what was on its way to the node.
LEMMA PowerDownPreserves ==
  ASSUME IInv, NEW n \in Node, NEW c \in [Wire -> Seq(Frame)],
         Flying(c) \subseteq Flying(chan), PowerDown(n, c),
         budget' \in [BudgetKinds -> Nat], budget'.commands = budget.commands
  PROVE  IInv'
<1> DEFINE S == {l \in Wire : l[2] = n}
<1>1. chan' = [l \in Wire |-> IF l \in S THEN <<>> ELSE c[l]]
  BY DEF PowerDown
<1>2. chan' \in [Wire -> Seq(Frame)] /\ Flying(chan') \subseteq Flying(chan)
  BY ZenonT(60), <1>1, FlyingEmptied
<1>3. PowerOn \in NodeState /\ NodeOK(n, PowerOn) /\ DedupOK(PowerOn, Flying(chan))
  BY PowerOnOK
<1>4. TypeOK'
  BY <1>2, <1>3 DEF PowerDown, IInv, TypeOK, hubVars
<1> DEFINE out == <<>>
<1>5. out \in Seq(Packet) /\ Len(out) = 0
  OBVIOUS
<1> HIDE DEF out
<1>6. \A i \in 1..Len(out) :
        /\ PacketOK(out[i])
        /\ IsCommand(out[i]) => \E q \in Flying(chan) :
             IsCommand(q) /\ q.val = out[i].val /\ q.key = out[i].key
  BY <1>5
<1>7. node' = [node EXCEPT ![n] = PowerOn] /\ hub_id' = hub_id
  BY DEF PowerDown, hubVars
<1> QED
  BY <1>2, <1>3, <1>4, <1>5, <1>6, <1>7, NodeStep

\* The copies a node sends before it sleeps are copies of what it received.
LEMMA ProcGoToSleepPreserves ==
  ASSUME IInv, NEW n \in Node, NEW p \in Peers, ProcGoToSleep(p, n)
  PROVE  IInv'
<1> DEFINE m == Received(p, n)
           out == <<m, m>>
<1>1. PICK to \in SUBSET Reached(n) :
        PowerDown(n, Transmitted(Handled(p, n), n, out, to))
  BY DEF ProcGoToSleep
<1>2. InFlight(p, n) /\ budget' = budget
  BY DEF ProcGoToSleep, Writes
<1>3. /\ Handled(p, n) \in [Wire -> Seq(Frame)]
      /\ Flying(Handled(p, n)) \subseteq Flying(chan)
      /\ m \in Flying(chan) /\ m \in Packet
  BY <1>2, FlyingHandled DEF IInv
<1> HIDE DEF m
<1>4. out \in Seq(Packet) /\ \A i \in 1..Len(out) : out[i] = m
  BY <1>3
<1> HIDE DEF out
<1> DEFINE c == Transmitted(Handled(p, n), n, out, to)
<1>5. c \in [Wire -> Seq(Frame)] /\ Flying(c) \subseteq Flying(chan)
  <2>1. /\ c \in [Wire -> Seq(Frame)]
        /\ \A q \in Flying(c) : q \in Flying(Handled(p, n)) \/ \E i \in 1..Len(out) : q = out[i]
    BY <1>3, <1>4, FlyingTransmitted
  <2> HIDE DEF c
  <2> QED
    BY <1>3, <1>4, <2>1
<1>6. budget' \in [BudgetKinds -> Nat] /\ budget'.commands = budget.commands
  BY <1>2 DEF IInv, TypeOK
<1> HIDE DEF c
<1>7. PowerDown(n, c)
  BY <1>1 DEF c
<1> QED
  BY <1>5, <1>6, <1>7, PowerDownPreserves

\* A notification is lost on a node.
LEMMA IgnoreNotificationPreserves ==
  ASSUME IInv, NEW n \in Node, NEW p \in Peers, IgnoreNotification(p, n)
  PROVE  IInv'
<1>1. /\ InFlight(p, n) /\ chan' = Handled(p, n)
      /\ UNCHANGED <<awake, node, peer, link, hub_inbox, hub_id, hub_key, budget>>
  BY DEF IgnoreNotification, hubVars
<1>2. chan' \in [Wire -> Seq(Frame)] /\ Flying(chan') \subseteq Flying(chan)
  BY <1>1, FlyingHandled DEF IInv
<1>3. TypeOK'
  BY <1>1, <1>2 DEF IInv, TypeOK
<1> QED
  BY <1>1, <1>2, <1>3, QuietStep

\* Connecting and disconnecting concern the peer tables only.
LEMMA GapPreserves ==
  ASSUME IInv, NEW n \in Node, NEW p \in Peers,
         Connect(n, p) \/ ChrFound(n, p) \/ Disconnect(n, p)
  PROVE  IInv'
<1>1. UNCHANGED <<awake, node, chan, hub_inbox, hub_id, hub_key, budget>>
  BY DEF Connect, ChrFound, Disconnect, hubVars
<1>2. link' \subseteq Links
  BY DEF Connect, ChrFound, Disconnect, IInv, TypeOK
<1>3. peer' \in [Node -> [Peers -> {"absent", "discovering", "found", "ready"}]]
  <2>1. CASE Connect(n, p)
    BY <2>1 DEF Connect, IInv, TypeOK, Peers
  <2>2. CASE ChrFound(n, p)
    BY <2>2 DEF ChrFound, IInv, TypeOK
  <2>3. CASE Disconnect(n, p)
    BY <2>3 DEF Disconnect, IInv, TypeOK
  <2> QED
    BY <2>1, <2>2, <2>3
<1>4. TypeOK'
  BY <1>1, <1>2, <1>3 DEF IInv, TypeOK
<1> QED
  BY <1>1, <1>4, QuietStep

\* A lost link takes what was in flight on it.
LEMMA LinkLossPreserves ==
  ASSUME IInv, NEW n \in Node, NEW p \in Peers, LinkLoss(n, p)
  PROVE  IInv'
<1> DEFINE S == {l \in Wire : {l[1], l[2]} = {n, p}}
<1>1. /\ chan' = [l \in Wire |-> IF l \in S THEN <<>> ELSE chan[l]]
      /\ UNCHANGED <<awake, node, peer, hub_inbox, hub_id, hub_key>>
      /\ link' \subseteq link /\ Spend("drops")
  BY DEF LinkLoss, hubVars
<1> HIDE DEF S
<1>2. chan' \in [Wire -> Seq(Frame)] /\ Flying(chan') \subseteq Flying(chan)
  <2>1. chan \in [Wire -> Seq(Frame)]
    BY DEF IInv, TypeOK
  <2> QED
    BY <1>1, <2>1, FlyingEmptied
<1>3. budget' \in [BudgetKinds -> Nat] /\ budget'.commands = budget.commands
  BY <1>1, SpendType DEF IInv, BudgetKinds
<1>4. TypeOK'
  BY <1>1, <1>2, <1>3 DEF IInv, TypeOK
<1> QED
  BY <1>1, <1>2, <1>3, <1>4, QuietStep

\* Sleep, waking, the timer and the host's own events.
LEMMA TimerPreserves ==
  ASSUME IInv, NEW n \in Node,
         ResendTick(n) \/ HostEvent(n) \/ ForcedSleep(n) \/ Wake(n)
  PROVE  IInv'
<1>1. node[n] \in NodeState /\ NodeOK(n, node[n]) /\ DedupOK(node[n], Flying(chan))
  BY DEF IInv, TypeOK
<1>2. /\ {"ticks", "sleeps", "wakes"} \subseteq BudgetKinds
      /\ chan \in [Wire -> Seq(Frame)] /\ Flying(chan) \subseteq Flying(chan)
  BY DEF BudgetKinds, IInv, TypeOK
<1>3. CASE ResendTick(n)
  <2> DEFINE s == [node[n] EXCEPT !.resend_packets = TRUE]
             out == <<>>
  <2>1. /\ node' = [node EXCEPT ![n] = s] /\ Spend("ticks")
        /\ UNCHANGED <<awake, peer, link, chan, hub_inbox, hub_id, hub_key>>
    BY <1>3 DEF ResendTick, hubVars, IInv, TypeOK
  <2>2. s \in NodeState
    BY <1>1 DEF NodeState
  <2>3. NodeOK(n, s) /\ DedupOK(s, Flying(chan))
    BY <1>1 DEF NodeOK, DedupOK, Done, NodeState
  <2>4. budget' \in [BudgetKinds -> Nat] /\ budget'.commands = budget.commands
    BY <1>2, <2>1, SpendType DEF IInv
  <2>5. TypeOK'
    BY <2>1, <2>2, <2>4 DEF IInv, TypeOK
  <2>6. out \in Seq(Packet) /\ Len(out) = 0
    OBVIOUS
  <2> HIDE DEF out, s
  <2>7. \A i \in 1..Len(out) :
          /\ PacketOK(out[i])
          /\ IsCommand(out[i]) => \E q \in Flying(chan) :
               IsCommand(q) /\ q.val = out[i].val /\ q.key = out[i].key
    BY <2>6
  <2> QED
    BY <2>1, <2>2, <2>3, <2>4, <2>5, <2>6, <2>7, NodeStep
<1>4. CASE HostEvent(n)
  <2> DEFINE out == Resent(node[n])
             s == ResendIfNeeded(node[n])
  <2>1. out \in Seq(Packet) /\ s \in NodeState
    BY <1>1, ResendType
  <2>2. /\ NodeOK(n, s) /\ DedupOK(s, Flying(chan))
        /\ \A i \in 1..Len(out) : PacketOK(out[i]) /\ ~IsCommand(out[i])
    BY <1>1, ResendNodeOK, ParPacket
  <2>3. Finish(n, s, out, chan)
    BY <1>4 DEF HostEvent
  <2> HIDE DEF out, s
  <2> QED
    BY <1>2, <2>1, <2>2, <2>3, FinishPreserves
<1>5. CASE ForcedSleep(n)
  <2>1. PowerDown(n, chan) /\ Spend("sleeps")
    BY <1>5 DEF ForcedSleep
  <2>2. budget' \in [BudgetKinds -> Nat] /\ budget'.commands = budget.commands
    BY <1>2, <2>1, SpendType DEF IInv
  <2> QED
    BY <1>2, <2>1, <2>2, PowerDownPreserves
<1>6. CASE Wake(n)
  <2>1. /\ awake' = [awake EXCEPT ![n] = TRUE] /\ Spend("wakes")
        /\ UNCHANGED <<node, peer, link, chan, hub_inbox, hub_id, hub_key>>
    BY <1>6 DEF Wake, hubVars
  <2>2. budget' \in [BudgetKinds -> Nat] /\ budget'.commands = budget.commands
    BY <1>2, <2>1, SpendType DEF IInv
  <2>3. TypeOK'
    BY <2>1, <2>2 DEF IInv, TypeOK
  <2> QED
    BY <2>1, <2>2, <2>3, QuietStep
<1> QED
  BY <1>3, <1>4, <1>5, <1>6

\* The first completed discovery sends the request for an id and remembers it.
LEMMA DiscCompletePreserves ==
  ASSUME IInv, NEW n \in Node, NEW p \in Peers, DiscComplete(n, p)
  PROVE  IInv'
<1> DEFINE s   == node[n]
           req == ToHub(s, "NODE_CONNECTED", n, 0)
           asked == [s EXCEPT !.provisioning_requested = TRUE]
           t   == AwaitResponse(KeyTaken(asked), req)
           out == <<req>>
<1>1. /\ peer' = [peer EXCEPT ![n][p] = "ready"]
      /\ UNCHANGED <<awake, link, hub_id, hub_key>>
  BY DEF DiscComplete
<1>2. peer' \in [Node -> [Peers -> {"absent", "discovering", "found", "ready"}]]
  BY <1>1 DEF IInv, TypeOK
<1>3. s \in NodeState /\ NodeOK(n, s) /\ DedupOK(s, Flying(chan))
  BY DEF IInv, TypeOK
<1>4. CASE s.provisioning_requested
  <2>1. UNCHANGED <<node, chan, hub_inbox, budget>>
    BY <1>4 DEF DiscComplete
  <2>2. TypeOK'
    BY <1>1, <1>2, <2>1 DEF IInv, TypeOK
  <2> QED
    BY <1>1, <2>1, <2>2, QuietStep
<1>5. CASE ~s.provisioning_requested
  <2>1. PICK refused \in Refusals(n) :
          /\ node' = [node EXCEPT ![n] = t]
          /\ chan' = Transmitted(chan, n, out, Reached(n) \ refused)
          /\ hub_inbox' = IF Hub \in Reached(n) \ refused
                          THEN hub_inbox \cup Requests(out) ELSE hub_inbox
          /\ budget' = [budget EXCEPT !.losses = @ - Cardinality(refused)]
    BY <1>5 DEF DiscComplete
  <2>2. req \in Packet /\ ParOK(n, req)
    <3>1. s.our_node_id \in Byte /\ s.idempotency_key_counter \in Byte
      BY <1>3 DEF NodeState
    <3>2. "NODE_CONNECTED" \in PacketTypes
      BY DEF PacketTypes
    <3>3. StdTtl <= StdTtl
      BY TtlAssumption
    <3> QED
      BY <3>1, <3>2, <3>3, ByteArithmetic DEF ToHub, Packet, ParOK
  <2> HIDE DEF req
  <2>3. /\ out \in Seq(Packet)
        /\ \A i \in 1..Len(out) : out[i] = req
        /\ out # <<>>
    BY <2>2
  <2>4. s.pars = <<>>
    BY <1>3, <1>5 DEF NodeOK
  <2>5. /\ KeyTaken(asked) \in NodeState
        /\ KeyTaken(asked).our_node_id = s.our_node_id
        /\ KeyTaken(asked).provisioning_requested = TRUE
        /\ KeyTaken(asked).processed_packets = s.processed_packets
        /\ KeyTaken(asked).applied = s.applied
        /\ KeyTaken(asked).pars = <<>>
    <3>1. /\ asked \in NodeState
          /\ asked.our_node_id = s.our_node_id
          /\ asked.provisioning_requested = TRUE
          /\ asked.processed_packets = s.processed_packets
          /\ asked.applied = s.applied
          /\ asked.pars = <<>>
      BY <1>3, <2>4 DEF NodeState
    <3> HIDE DEF asked
    <3>2. NextKey(asked, 1) \in Byte
      BY <3>1, NextKeyType
    <3> QED
      BY <3>1, <3>2 DEF KeyTaken, NodeState
  <2> DEFINE k == KeyTaken(asked)
  <2> HIDE DEF k
  <2>6. t = [k EXCEPT !.pars = <<req>> \o <<>>, !.resend_timer = TRUE]
    <3>1. ~(Len(k.pars) >= MaxPars)
      BY <2>5, ParsAssumption DEF k
    <3> QED
      BY <2>5, <3>1 DEF AwaitResponse, k
  <2>7. out = <<req>> \o <<>>
    OBVIOUS
  <2> HIDE DEF asked, t, out
  <2>8. /\ t \in NodeState /\ t.our_node_id = s.our_node_id
        /\ t.provisioning_requested = TRUE /\ t.resend_timer = TRUE
        /\ t.processed_packets = s.processed_packets /\ t.applied = s.applied
        /\ t.pars = out
    BY <2>3, <2>5, <2>6, <2>7 DEF k, NodeState
  <2>9. NodeOK(n, t)
    <3>1. out # <<>>
      BY <2>3
    <3>2. ASSUME NEW i \in 1..Len(out) PROVE ParOK(n, out[i])
      BY <2>2, <2>3 DEF ParOK
    <3>3. Done(t) = Done(s)
      BY <2>8 DEF Done
    <3> QED
      BY <1>3, <2>8, <3>1, <3>2, <3>3 DEF NodeOK
  <2>10. DedupOK(t, Flying(chan))
    BY <1>3, <2>8 DEF DedupOK, Done
  <2>11. \A i \in 1..Len(out) : PacketOK(out[i]) /\ ~IsCommand(out[i])
    BY <2>2, <2>3, ParPacket
  <2>12. /\ chan' \in [Wire -> Seq(Frame)]
         /\ \A q \in Flying(chan') : q \in Flying(chan) \/ \E i \in 1..Len(out) : q = out[i]
    <3>1. chan \in [Wire -> Seq(Frame)]
      BY DEF IInv, TypeOK
    <3> QED
      BY <2>1, <2>3, <3>1, FlyingTransmitted
  <2>13. budget' \in [BudgetKinds -> Nat] /\ budget'.commands = budget.commands
    BY <2>1, RefusalsBudget DEF IInv
  <2>14. Requests(out) \subseteq [addr : Node, source : Byte]
    BY <2>2, <2>3, RequestsType DEF ParOK
  <2>15. TypeOK'
    BY <1>1, <1>2, <2>1, <2>8, <2>12, <2>13, <2>14 DEF IInv, TypeOK
  <2> QED
    BY <1>1, <2>1, <2>3, <2>8, <2>9, <2>10, <2>11, <2>12, <2>13, <2>15, NodeStep
<1> QED
  BY <1>4, <1>5

-----------------------------------------------------------------------------
(* The hub.                                                                *)

\* The hub adds one packet, whatever the nodes it reaches.
LEMMA HubSendsType ==
  ASSUME TypeOK, NEW m \in Packet, HubSends(m)
  PROVE  /\ chan' \in [Wire -> Seq(Frame)] /\ hub_key' \in Byte
         /\ \A q \in Flying(chan') : q \in Flying(chan) \/ q = m
<1> DEFINE f == [op |-> "write", packet |-> m]
<1>1. chan \in [Wire -> Seq(Frame)] /\ f \in Frame /\ f.packet = m
  BY DEF TypeOK, Frame
<1> HIDE DEF f
<1>2. chan' = [l \in Wire |-> IF l[1] = Hub /\ {l[2], Hub} \in link
                              THEN Append(chan[l], f) ELSE chan[l]]
  BY DEF HubSends, f
<1>3. chan' \in [Wire -> Seq(Frame)]
  BY <1>1, <1>2
<1>4. \A l \in Wire : \A i \in 1..Len(chan'[l]) :
        chan'[l][i].packet \in Flying(chan) \/ chan'[l][i].packet = m
  <2>1. ASSUME NEW l \in Wire, NEW i \in 1..Len(chan'[l])
        PROVE  chan'[l][i].packet \in Flying(chan) \/ chan'[l][i].packet = m
    <3>1. CASE chan'[l] = chan[l]
      BY <1>1, <3>1, FlyingElement
    <3>2. CASE chan'[l] = Append(chan[l], f)
      <4>1. chan[l] \in Seq(Frame)
        BY <1>1
      <4>2. (i \in 1..Len(chan[l]) /\ chan'[l][i] = chan[l][i]) \/ chan'[l][i] = f
        BY <1>1, <3>2, <4>1
      <4> QED
        BY <1>1, <4>2, FlyingElement
    <3> QED
      BY <1>2, <3>1, <3>2
  <2> QED
    BY <2>1
<1>5. hub_key' \in Byte
  <2>1. hub_key \in Int
    BY ByteInt DEF TypeOK
  <2> QED
    BY <2>1, ByteArithmetic DEF HubSends
<1>6. \A q \in Flying(chan') : \E l \in Wire : \E i \in 1..Len(chan'[l]) : q = chan'[l][i].packet
  BY <1>3, FlyingElement
<1> QED
  BY <1>3, <1>4, <1>5, <1>6

\* An answer gives an address the id it has, or one that nobody has.
LEMMA HubAnswerPreserves ==
  ASSUME IInv, HubAnswer
  PROVE  IInv'
<1>1. PICK r \in hub_inbox, id \in NodeIds :
        /\ IF hub_id[r.addr] = Unassigned THEN \A m \in Node : hub_id[m] # id
                                          ELSE hub_id[r.addr] = id
        /\ hub_id' = [hub_id EXCEPT ![r.addr] = id]
        /\ hub_inbox' = hub_inbox \ {r}
        /\ HubSends(HubPacket(r.source, "NODE_CONNECTED_RESP", r.addr, id))
        /\ UNCHANGED <<awake, node, peer, link, budget>>
  BY DEF HubAnswer
<1> DEFINE m == HubPacket(r.source, "NODE_CONNECTED_RESP", r.addr, id)
<1>2. r.addr \in Node /\ r.source \in Byte /\ id # 0 /\ id \in Byte
  BY <1>1, ByteArithmetic DEF IInv, TypeOK
<1>3. /\ m \in Packet /\ m.type = "NODE_CONNECTED_RESP" /\ m.addr = r.addr /\ m.val = id
  <2>1. hub_key \in Byte
    BY DEF IInv, TypeOK
  <2>2. "NODE_CONNECTED_RESP" \in PacketTypes
    BY DEF PacketTypes
  <2>3. id \in Nat
    BY <1>2, ByteInt
  <2> QED
    BY <1>2, <2>1, <2>2, <2>3, ByteArithmetic DEF HubPacket, Packet
<1> HIDE DEF m
<1>4. /\ chan' \in [Wire -> Seq(Frame)] /\ hub_key' \in Byte
      /\ \A q \in Flying(chan') : q \in Flying(chan) \/ q = m
  BY <1>1, <1>3, HubSendsType DEF IInv, m
<1>5. TypeOK'
  BY <1>1, <1>4 DEF IInv, TypeOK
<1>6. /\ \A n \in Node : hub_id[n] # 0 => hub_id'[n] = hub_id[n]
      /\ hub_id'[r.addr] = id
  BY <1>1, <1>2 DEF IInv, TypeOK
<1>7. HubOK'
  BY <1>1, <1>2 DEF HubOK, IInv, TypeOK
<1>8. ASSUME NEW q \in Flying(chan') PROVE PacketOK(q)'
  <2>1. CASE q = m
    BY <1>2, <1>3, <1>6, <2>1
      DEF PacketOK, IsCommand, CommandTypes, ReplyTypes
  <2>2. CASE q \in Flying(chan)
    <3>1. PacketOK(q)
      BY <2>2 DEF IInv
    <3> QED
      BY <1>1, <1>6, <3>1 DEF PacketOK, IsCommand
  <2> QED
    BY <1>4, <2>1, <2>2
<1>9. ~IsCommand(m)
  BY <1>3 DEF IsCommand, CommandTypes
<1>10. ASSUME NEW n \in Node
       PROVE  NodeOK(n, node[n])' /\ DedupOK(node[n], Flying(chan))'
  <2>1. NodeOK(n, node[n]) /\ DedupOK(node[n], Flying(chan))
    BY DEF IInv
  <2>2. NodeOK(n, node[n])'
    BY <1>1, <1>6, <2>1 DEF NodeOK
  <2>3. DedupOK(node[n], Flying(chan))'
    BY <1>1, <1>4, <1>9, <2>1 DEF DedupOK
  <2> QED
    BY <2>2, <2>3
<1>11. KeysOK(Flying(chan))'
  BY <1>4, <1>9 DEF IInv, KeysOK
<1> QED
  BY <1>5, <1>7, <1>8, <1>10, <1>11 DEF IInv

\* A new command has a number that no packet and no node knows yet.
LEMMA HubCommandPreserves ==
  ASSUME IInv, NEW k \in Node, HubCommand(k)
  PROVE  IInv'
<1>1. PICK type \in Commands :
        HubSends(HubPacket(hub_id[k], type, NoAddr, budget.commands))
  BY DEF HubCommand
<1>2. /\ hub_id[k] # 0 /\ Spend("commands")
      /\ UNCHANGED <<awake, node, peer, link, hub_inbox, hub_id>>
  BY DEF HubCommand
<1> DEFINE m == HubPacket(hub_id[k], type, NoAddr, budget.commands)
<1>3. /\ budget' \in [BudgetKinds -> Nat] /\ budget.commands > budget'.commands
      /\ budget.commands \in Nat /\ budget'.commands \in Nat
  BY <1>2, SpendType DEF IInv, TypeOK, BudgetKinds
<1>4. /\ m \in Packet /\ IsCommand(m) /\ m.dest = hub_id[k] /\ m.ttl = StdTtl
      /\ m.val = budget.commands /\ m.type \in CommandTypes
  <2>1. hub_key \in Byte /\ hub_id[k] \in Byte
    BY <1>2, ByteArithmetic DEF IInv, TypeOK
  <2>2. type \in CommandTypes /\ type \in PacketTypes
    BY CommandAssumption DEF PacketTypes
  <2> QED
    BY <1>3, <2>1, <2>2, ByteArithmetic DEF HubPacket, Packet, IsCommand
<1> HIDE DEF m
<1>5. /\ chan' \in [Wire -> Seq(Frame)] /\ hub_key' \in Byte
      /\ \A q \in Flying(chan') : q \in Flying(chan) \/ q = m
  BY <1>1, <1>4, HubSendsType DEF IInv, m
<1>6. TypeOK'
  BY <1>2, <1>3, <1>5 DEF IInv, TypeOK
<1>7. ASSUME NEW q \in Flying(chan), IsCommand(q)
      PROVE  q.val # m.val /\ q.val > budget'.commands
  <2>1. q.val > budget.commands /\ q.val \in Nat
    BY <1>7, FlyingElement DEF IInv, TypeOK, PacketOK, Packet
  <2> QED
    BY <1>3, <1>4, <2>1
<1>8. ASSUME NEW n \in Node, NEW v \in Done(node[n])
      PROVE  v # m.val /\ v > budget'.commands
  <2>1. v > budget.commands
    BY DEF IInv, NodeOK
  <2>2. v \in Nat
    BY DEF IInv, TypeOK, Done, NodeState
  <2> QED
    BY <1>3, <1>4, <2>1, <2>2
<1>9. HubOK'
  BY <1>2 DEF HubOK, IInv
<1>10. ASSUME NEW q \in Flying(chan') PROVE PacketOK(q)'
  <2>1. CASE q = m
    <3>1. StdTtl <= StdTtl /\ m.val > budget'.commands
      BY <1>3, <1>4, TtlAssumption
    <3> QED
      BY <1>2, <1>4, <2>1, <3>1 DEF PacketOK, IsCommand, CommandTypes, ReplyTypes
  <2>2. CASE q \in Flying(chan)
    <3>1. PacketOK(q)
      BY <2>2 DEF IInv
    <3> QED
      BY <1>2, <1>7, <2>2, <3>1 DEF PacketOK, IsCommand
  <2> QED
    BY <1>5, <2>1, <2>2
<1>11. ASSUME NEW n \in Node
       PROVE  NodeOK(n, node[n])' /\ DedupOK(node[n], Flying(chan))'
  <2>1. NodeOK(n, node[n]) /\ DedupOK(node[n], Flying(chan))
    BY DEF IInv
  <2>2. NodeOK(n, node[n])'
    BY <1>2, <1>8, <2>1 DEF NodeOK, Done
  <2>3. DedupOK(node[n], Flying(chan))'
    BY <1>2, <1>5, <1>8, <2>1 DEF DedupOK, Done
  <2> QED
    BY <2>2, <2>3
<1>12. KeysOK(Flying(chan))'
  BY <1>5, <1>7 DEF IInv, KeysOK
<1> QED
  BY <1>6, <1>9, <1>10, <1>11, <1>12 DEF IInv

-----------------------------------------------------------------------------
(* The invariant and the theorems.                                         *)

\* The invariant holds when every node powers on.
LEMMA InitIInv == Init => IInv
<1> SUFFICES ASSUME Init PROVE IInv
  OBVIOUS
<1>1. TypeOK
  BY PowerOnOK, ByteArithmetic, BudgetAssumption DEF Init, TypeOK
<1>2. Flying(chan) = {}
  BY DEF Init, Flying
<1>3. \A n \in Node : NodeOK(n, node[n]) /\ DedupOK(node[n], Flying(chan))
  BY PowerOnOK DEF Init
<1> QED
  BY <1>1, <1>2, <1>3 DEF Init, IInv, HubOK, KeysOK

\* Every handler, event and step of the hub keeps the invariant.
LEMMA NextIInv == IInv /\ [Next]_vars => IInv'
<1> SUFFICES ASSUME IInv, [Next]_vars PROVE IInv'
  OBVIOUS
<1>1. CASE UNCHANGED vars
  <2>1. UNCHANGED <<awake, node, peer, link, chan, hub_inbox, hub_id, hub_key, budget>>
    BY <1>1 DEF vars
  <2>2. TypeOK'
    BY <2>1 DEF IInv, TypeOK
  <2> QED
    BY <2>1, <2>2, QuietStep
<1>2. ASSUME NEW n \in Node, NEW p \in Peers, Receive(p, n) PROVE IInv'
  BY <1>2, IgnoreNotificationPreserves, ForwardPreserves, TerminatePreserves,
     ProcNodeConnectedRespPreserves, ProcCommandPreserves,
     ProcCommandNvsErrorPreserves, ProcGoToSleepPreserves DEF Receive
<1>3. ASSUME NEW n \in Node, NEW p \in Peers,
             \/ Connect(n, p) \/ ChrFound(n, p) \/ DiscComplete(n, p)
             \/ LinkLoss(n, p) \/ Disconnect(n, p)
      PROVE  IInv'
  BY <1>3, GapPreserves, DiscCompletePreserves, LinkLossPreserves
<1>4. ASSUME NEW n \in Node,
             ResendTick(n) \/ HostEvent(n) \/ ForcedSleep(n) \/ Wake(n) \/ HubCommand(n)
      PROVE  IInv'
  BY <1>4, TimerPreserves, HubCommandPreserves
<1> QED
  BY <1>1, <1>2, <1>3, <1>4, HubAnswerPreserves DEF Next

\* The inductive invariant holds of every behaviour.
THEOREM Invariance == Spec => []IInv
BY InitIInv, NextIInv, PTL DEF Spec

\* Every variable keeps to its type.
THEOREM TypeCorrect == Spec => []TypeOK
<1>1. IInv => TypeOK
  BY DEF IInv
<1> QED
  BY <1>1, Invariance, PTL

\* No two nodes ever act under one assigned id.
THEOREM IdsAreUnique == Spec => []UniqueIds
<1>1. IInv => UniqueIds
  BY DEF IInv, NodeOK, HubOK, UniqueIds
<1> QED
  BY <1>1, Invariance, PTL

\* A node without an id never stops waiting for the answer to its request.
THEOREM RequestIsKept == Spec => []UnansweredRequestIsRetried
<1>1. IInv => UnansweredRequestIsRetried
  <2> SUFFICES ASSUME IInv, NEW n \in Node,
                      node[n].provisioning_requested,
                      node[n].our_node_id = PROVISIONAL_NODE_ID
               PROVE  /\ \E i \in 1..Len(node[n].pars) :
                           node[n].pars[i].type = "NODE_CONNECTED" /\ node[n].pars[i].addr = n
                      /\ node[n].resend_timer
    BY DEF UnansweredRequestIsRetried
  <2>1. NodeOK(n, node[n]) /\ node[n].pars \in Seq(Packet)
    BY DEF IInv, TypeOK, NodeState
  <2>2. node[n].pars # <<>> /\ node[n].resend_timer
    BY <2>1 DEF NodeOK
  <2>3. 1 \in 1..Len(node[n].pars)
    BY <2>1, <2>2
  <2> QED
    BY <2>1, <2>2, <2>3 DEF NodeOK, ParOK
<1> QED
  BY <1>1, Invariance, PTL

\* No handler of a command runs twice between two boots.
THEOREM CommandsApplyOnce == Spec => []AppliedAtMostOnce
<1>1. IInv => AppliedAtMostOnce
  BY DEF IInv, NodeOK, AppliedAtMostOnce
<1> QED
  BY <1>1, Invariance, PTL

\* Every reply names a node.
THEOREM RepliesNameTheirNode == Spec => []RepliesAttributable
<1>1. IInv => RepliesAttributable
  BY DEF IInv, PacketOK, RepliesAttributable
<1> QED
  BY <1>1, Invariance, PTL

\* Only answers to requests for an id can outlive their ttl.
THEOREM TtlBounded == Spec => []TtlNeverWraps
<1>1. IInv => TtlNeverWraps
  BY DEF IInv, PacketOK, TtlNeverWraps
<1> QED
  BY <1>1, Invariance, PTL
-----------------------------------------------------------------------------
(* The flood implements CommandService.                                    *)

Asks(q)    == q.type \in CommandTypes \ {"GO_TO_SLEEP"}
Answers(q) == q.type \in ReplyTypes

\* Packet q says to the service what m says.
SameMessage(q, m) ==
  q.type = m.type /\ q.dest = m.dest /\ q.source = m.source /\ q.val = m.val

\* Packet q tells the service nothing that was not in flight.
NothingNew(q) == Asks(q) \/ Answers(q) => \E m \in Flying(chan) : SameMessage(q, m)

\* The messages of the service, and what was applied, before and after a step.
LEMMA ServiceSets ==
  /\ \A x : x \in PendingCommands <=>
       \E n \in Node : \E q \in Flying(chan) :
         Asks(q) /\ q.dest = hub_id[n] /\ x = <<n, q.val>>
  /\ \A x : x \in PendingReplies <=>
       \E n \in Node : \E q \in Flying(chan) :
         Answers(q) /\ q.source = hub_id[n] /\ x = <<n, q.val>>
  /\ \A x : x \in AppliedCommands <=>
       \E n \in Node : \E v \in Done(node[n]) : x = <<n, v>>
BY DEF PendingCommands, Addressed, PendingReplies, Replied, AppliedCommands, Applied, Done,
       Asks, Answers

LEMMA ServiceSetsNext ==
  /\ \A x : x \in PendingCommands' <=>
       \E n \in Node : \E q \in Flying(chan') :
         Asks(q) /\ q.dest = hub_id'[n] /\ x = <<n, q.val>>
  /\ \A x : x \in PendingReplies' <=>
       \E n \in Node : \E q \in Flying(chan') :
         Answers(q) /\ q.source = hub_id'[n] /\ x = <<n, q.val>>
  /\ \A x : x \in AppliedCommands' <=>
       \E n \in Node : \E v \in Done(node'[n]) : x = <<n, v>>
<1>1. Flying(chan') = Flying(chan)'
  BY DEF Flying
<1> QED
  BY <1>1 DEF PendingCommands, Addressed, PendingReplies, Replied, AppliedCommands, Applied,
              Done, Asks, Answers

\* A step that adds no command and no reply lets the messages be, or loses some.
LEMMA NothingNewMessages ==
  ASSUME hub_id' = hub_id, \A q \in Flying(chan') : NothingNew(q)
  PROVE  PendingCommands' \subseteq PendingCommands /\ PendingReplies' \subseteq PendingReplies
<1>1. ASSUME NEW x \in PendingCommands' PROVE x \in PendingCommands
  <2>1. PICK n \in Node, q \in Flying(chan') : Asks(q) /\ q.dest = hub_id[n] /\ x = <<n, q.val>>
    BY ServiceSetsNext
  <2>2. PICK m \in Flying(chan) : SameMessage(q, m)
    BY <2>1 DEF NothingNew
  <2>3. Asks(m) /\ m.dest = hub_id[n] /\ x = <<n, m.val>>
    BY <2>1, <2>2 DEF SameMessage, Asks
  <2> QED
    BY <2>3, ServiceSets
<1>2. ASSUME NEW x \in PendingReplies' PROVE x \in PendingReplies
  <2>1. PICK n \in Node, q \in Flying(chan') :
          Answers(q) /\ q.source = hub_id[n] /\ x = <<n, q.val>>
    BY ServiceSetsNext
  <2>2. PICK m \in Flying(chan) : SameMessage(q, m)
    BY <2>1 DEF NothingNew
  <2>3. Answers(m) /\ m.source = hub_id[n] /\ x = <<n, m.val>>
    BY <2>1, <2>2 DEF SameMessage, Answers
  <2> QED
    BY <2>3, ServiceSets
<1> QED
  BY <1>1, <1>2

\* What is in flight, a packet that is neither command nor reply, and a copy are
\* nothing new.
LEMMA OldIsNotNew ==
  /\ \A q \in Flying(chan) : NothingNew(q)
  /\ \A q : q.type \in {"NODE_CONNECTED", "NODE_CONNECTED_RESP"} => NothingNew(q)
BY DEF NothingNew, SameMessage, Asks, Answers, CommandTypes, ReplyTypes

\* A node that neither applies a command nor boots changes nothing that was applied.
LEMMA AppliedUntouched ==
  ASSUME node \in [Node -> NodeState], NEW n \in Node, NEW s,
         node' = [node EXCEPT ![n] = s], s.applied = node[n].applied
  PROVE  AppliedCommands' = AppliedCommands
<1>1. \A k \in Node : Done(node'[k]) = Done(node[k])
  BY DEF Done
<1>2. \A x : x \in AppliedCommands' <=> x \in AppliedCommands
  BY <1>1, ServiceSets, ServiceSetsNext
<1> QED
  BY <1>2 DEF AppliedCommands

\* Such steps are Lose of the service.
LEMMA LoseService ==
  ASSUME \A q \in Flying(chan') : NothingNew(q),
         AppliedCommands' = AppliedCommands, hub_id' = hub_id,
         budget'.commands = budget.commands
  PROVE  Service!Next
<1>1. PendingCommands' \subseteq PendingCommands /\ PendingReplies' \subseteq PendingReplies
  BY NothingNewMessages
<1>2. Service!Lose
  BY <1>1 DEF Service!Lose
<1> QED
  BY <1>2 DEF Service!Next

\* So are those that touch no RAM and add no packet.
LEMMA QuietService ==
  ASSUME UNCHANGED <<node, hub_id>>, Flying(chan') \subseteq Flying(chan),
         budget'.commands = budget.commands
  PROVE  Service!Next
<1>1. AppliedCommands' = AppliedCommands
  BY DEF AppliedCommands, Applied
<1>2. \A q \in Flying(chan') : NothingNew(q)
  BY OldIsNotNew
<1> QED
  BY <1>1, <1>2, LoseService

\* What the end of a handler does to what the service sees.
LEMMA FinishSends ==
  ASSUME IInv, NEW n \in Node, NEW s, NEW out \in Seq(Packet),
         NEW c \in [Wire -> Seq(Frame)], Flying(c) \subseteq Flying(chan),
         Finish(n, s, out, c)
  PROVE  /\ \A q \in Flying(chan') : q \in Flying(chan) \/ \E i \in 1..Len(out) : q = out[i]
         /\ node' = [node EXCEPT ![n] = s]
         /\ hub_id' = hub_id /\ budget'.commands = budget.commands
<1>1. PICK refused \in IF out = <<>> THEN {{}} ELSE Refusals(n) :
        LET to == Reached(n) \ refused IN
        /\ node' = [node EXCEPT ![n] = s]
        /\ chan' = Transmitted(c, n, out, to)
        /\ hub_inbox' = IF Hub \in to THEN hub_inbox \cup Requests(out) ELSE hub_inbox
        /\ budget' = [budget EXCEPT !.losses = @ - Cardinality(refused)]
        /\ UNCHANGED <<awake, peer, link, hub_id, hub_key>>
  BY DEF Finish
<1>2. \A q \in Flying(chan') : q \in Flying(chan) \/ \E i \in 1..Len(out) : q = out[i]
  BY <1>1, FlyingTransmitted
<1>3. budget'.commands = budget.commands
  BY <1>1, RefusalsBudget DEF IInv
<1> QED
  BY <1>1, <1>2, <1>3

\* A resend adds requests for an id, and nothing else.
LEMMA FinishReceiveSends ==
  ASSUME IInv, NEW n \in Node, NEW s \in NodeState, NodeOK(n, s),
         NEW out \in Seq(Packet),
         NEW c \in [Wire -> Seq(Frame)], Flying(c) \subseteq Flying(chan),
         FinishReceive(n, s, out, c)
  PROVE  /\ \A q \in Flying(chan') : NothingNew(q) \/ \E i \in 1..Len(out) : q = out[i]
         /\ node' = [node EXCEPT ![n] = ResendIfNeeded(s)]
         /\ ResendIfNeeded(s).applied = s.applied
         /\ hub_id' = hub_id /\ budget'.commands = budget.commands
<1> DEFINE r == ResendIfNeeded(s)
           more == Resent(s)
<1>1. more \in Seq(Packet) /\ r.applied = s.applied
  BY ResendType
<1>2. \A i \in 1..Len(more) : NothingNew(more[i])
  BY ResendNodeOK, OldIsNotNew DEF ParOK
<1>3. Finish(n, r, out \o more, c)
  BY DEF FinishReceive
<1> HIDE DEF r, more
<1>4. /\ out \o more \in Seq(Packet)
      /\ \A i \in 1..Len(out \o more) :
           \/ i \in 1..Len(out) /\ (out \o more)[i] = out[i]
           \/ i - Len(out) \in 1..Len(more) /\ (out \o more)[i] = more[i - Len(out)]
  BY <1>1
<1>5. /\ \A q \in Flying(chan') :
           q \in Flying(chan) \/ \E i \in 1..Len(out \o more) : q = (out \o more)[i]
      /\ node' = [node EXCEPT ![n] = r]
      /\ hub_id' = hub_id /\ budget'.commands = budget.commands
  BY <1>3, <1>4, FinishSends
<1>6. \A q \in Flying(chan') : NothingNew(q) \/ \E i \in 1..Len(out) : q = out[i]
  BY <1>2, <1>4, <1>5, OldIsNotNew
<1> QED
  BY <1>1, <1>5, <1>6 DEF r

\* A handler that applies nothing and sends nothing new.
LEMMA SilentService ==
  ASSUME IInv, NEW n \in Node, NEW s \in NodeState, NodeOK(n, s),
         s.applied = node[n].applied,
         NEW out \in Seq(Packet), \A i \in 1..Len(out) : NothingNew(out[i]),
         NEW c \in [Wire -> Seq(Frame)], Flying(c) \subseteq Flying(chan),
         FinishReceive(n, s, out, c)
  PROVE  Service!Next
<1> DEFINE r == ResendIfNeeded(s)
<1>1. /\ \A q \in Flying(chan') : NothingNew(q) \/ \E i \in 1..Len(out) : q = out[i]
      /\ node' = [node EXCEPT ![n] = r]
      /\ r.applied = node[n].applied
      /\ hub_id' = hub_id /\ budget'.commands = budget.commands
  BY FinishReceiveSends
<1> HIDE DEF r
<1>2. AppliedCommands' = AppliedCommands
  BY <1>1, AppliedUntouched DEF IInv, TypeOK
<1>3. \A q \in Flying(chan') : NothingNew(q)
  BY <1>1
<1> QED
  BY <1>1, <1>2, <1>3, LoseService

\* Forwarding makes copies, and dropping or taking an id makes nothing.
LEMMA RelayService ==
  ASSUME IInv, NEW n \in Node, NEW p \in Peers,
         Forward(p, n) \/ Terminate(p, n) \/ ProcNodeConnectedResp(p, n)
  PROVE  Service!Next
<1> DEFINE m == Received(p, n)
           none == <<>>
<1>1. InFlight(p, n)
  BY DEF Forward, Terminate, ProcNodeConnectedResp, Writes
<1>2. /\ Handled(p, n) \in [Wire -> Seq(Frame)]
      /\ Flying(Handled(p, n)) \subseteq Flying(chan)
      /\ m \in Flying(chan) /\ m \in Packet
  BY <1>1, FlyingHandled DEF IInv
<1>3. node[n] \in NodeState /\ NodeOK(n, node[n])
  BY DEF IInv, TypeOK
<1>4. none \in Seq(Packet) /\ Len(none) = 0
  OBVIOUS
<1> HIDE DEF none
<1>5. \A i \in 1..Len(none) : NothingNew(none[i])
  BY <1>4
<1>6. CASE Forward(p, n)
  <2> DEFINE d == Decremented(m)
             out == <<d>>
  <2>1. FinishReceive(n, node[n], out, Handled(p, n))
    BY <1>6 DEF Forward
  <2> HIDE DEF m
  <2>2. d \in Packet /\ SameMessage(d, m)
    <3>1. m.ttl \in Int
      BY <1>2, ByteInt DEF Packet
    <3>2. (m.ttl - 1) % UInt8 \in Byte
      BY <3>1, ByteArithmetic
    <3> QED
      BY <1>2, <3>2 DEF Decremented, Packet, SameMessage
  <2> HIDE DEF d
  <2>3. NothingNew(d)
    BY <1>2, <2>2 DEF NothingNew
  <2>4. out \in Seq(Packet) /\ \A i \in 1..Len(out) : out[i] = d
    BY <2>2
  <2> HIDE DEF out
  <2> QED
    BY <1>2, <1>3, <2>1, <2>3, <2>4, SilentService
<1>7. CASE Terminate(p, n)
  <2>1. FinishReceive(n, node[n], none, Handled(p, n))
    BY <1>7 DEF Terminate, none
  <2> QED
    BY <1>2, <1>3, <1>4, <1>5, <2>1, SilentService
<1>8. CASE ProcNodeConnectedResp(p, n)
  <2> DEFINE r == ResponseReceived([Marked(node[n], m) EXCEPT !.our_node_id = m.val])
  <2>1. /\ NextStep(n, m) = "PROCESS" /\ m.type = "NODE_CONNECTED_RESP"
        /\ FinishReceive(n, r, none, Handled(p, n))
    BY <1>8 DEF ProcNodeConnectedResp, Writes, none
  <2> HIDE DEF m
  <2>2. r \in NodeState /\ NodeOK(n, r) /\ r.applied = node[n].applied
    BY <1>2, <2>1, IdTaken
  <2> HIDE DEF r
  <2> QED
    BY <1>2, <1>4, <1>5, <2>1, <2>2, SilentService
<1> QED
  BY <1>6, <1>7, <1>8

\* A command is processed by the one node it is meant for.
LEMMA CommandIsMine ==
  ASSUME IInv, NEW n \in Node, NEW m \in Flying(chan), Asks(m),
         node[n].our_node_id = m.dest
  PROVE  m.dest = hub_id[n] /\ \A k \in Node : hub_id[k] = m.dest => k = n
<1>1. IsCommand(m) /\ PacketOK(m)
  BY DEF Asks, IsCommand, IInv
<1>2. PICK k \in Node : hub_id[k] = m.dest
  BY <1>1 DEF PacketOK
<1>3. m.dest # 0 /\ m.dest # 1
  <2>1. hub_id[k] \in NodeIds \cup {0}
    BY DEF IInv, TypeOK
  <2> QED
    BY <1>1, <1>2, <2>1, ByteArithmetic DEF PacketOK
<1>4. m.dest = hub_id[n]
  BY <1>3 DEF IInv, NodeOK
<1> QED
  BY <1>3, <1>4 DEF IInv, HubOK

\* Its handler is Apply of the service, whether it replies or not.
LEMMA ApplyService ==
  ASSUME IInv, NEW n \in Node, NEW m \in Flying(chan), Asks(m),
         NextStep(n, m) = "PROCESS",
         NEW t \in NodeState, NodeOK(n, t), Done(t) = Done(node[n]) \cup {m.val},
         NEW out \in Seq(Packet),
         \A i \in 1..Len(out) :
           Answers(out[i]) /\ out[i].source = m.dest /\ out[i].val = m.val,
         NEW c \in [Wire -> Seq(Frame)], Flying(c) \subseteq Flying(chan),
         FinishReceive(n, t, out, c)
  PROVE  Service!Next
<1> DEFINE r == ResendIfNeeded(t)
           x == <<n, m.val>>
<1>1. /\ \A q \in Flying(chan') : NothingNew(q) \/ \E i \in 1..Len(out) : q = out[i]
      /\ node' = [node EXCEPT ![n] = r]
      /\ r.applied = t.applied
      /\ hub_id' = hub_id /\ budget'.commands = budget.commands
  BY FinishReceiveSends
<1> HIDE DEF r
<1>2. node[n].our_node_id = m.dest /\ m.val \notin Done(node[n])
  BY CommandMarked DEF Asks, CommandTypes
<1>3. m.dest = hub_id[n] /\ \A k \in Node : hub_id[k] = m.dest => k = n
  BY <1>2, CommandIsMine
<1>4. x \in PendingCommands
  BY <1>3, ServiceSets
<1>5. x \notin AppliedCommands
  BY <1>2, ServiceSets
<1>6. AppliedCommands' = AppliedCommands \cup {x}
  <2>1. Done(r) = Done(node[n]) \cup {m.val}
    BY <1>1 DEF Done
  <2>2. /\ Done(node'[n]) = Done(node[n]) \cup {m.val}
        /\ \A k \in Node : k # n => Done(node'[k]) = Done(node[k])
    BY <1>1, <2>1 DEF IInv, TypeOK
  <2>3. ASSUME NEW y \in AppliedCommands' PROVE y \in AppliedCommands \cup {x}
    <3>1. PICK k \in Node : \E v \in Done(node'[k]) : y = <<k, v>>
      BY ServiceSetsNext
    <3>2. (\E v \in Done(node[k]) : y = <<k, v>>) \/ y = x
      BY <2>2, <3>1
    <3> QED
      BY <3>2, ServiceSets
  <2>4. ASSUME NEW y \in AppliedCommands PROVE y \in AppliedCommands'
    <3>1. PICK k \in Node : \E v \in Done(node[k]) : y = <<k, v>>
      BY ServiceSets
    <3>2. \E v \in Done(node'[k]) : y = <<k, v>>
      BY <2>2, <3>1
    <3> QED
      BY <3>2, ServiceSetsNext
  <2>5. x \in AppliedCommands'
    BY <2>2, ServiceSetsNext
  <2> QED
    BY <2>3, <2>4, <2>5
<1>7. PendingCommands' \subseteq PendingCommands
  <2> SUFFICES ASSUME NEW y \in PendingCommands' PROVE y \in PendingCommands
    OBVIOUS
  <2>1. PICK k \in Node, q \in Flying(chan') : Asks(q) /\ q.dest = hub_id[k] /\ y = <<k, q.val>>
    BY <1>1, ServiceSetsNext
  <2>2. ~Answers(q)
    BY <2>1 DEF Asks, Answers, CommandTypes, ReplyTypes
  <2>3. PICK o \in Flying(chan) : SameMessage(q, o)
    BY <1>1, <2>1, <2>2 DEF NothingNew
  <2>4. Asks(o) /\ o.dest = hub_id[k] /\ y = <<k, o.val>>
    BY <2>1, <2>3 DEF SameMessage, Asks
  <2> QED
    BY <2>4, ServiceSets
<1>8. PendingReplies' \subseteq PendingReplies \cup {x}
  <2> SUFFICES ASSUME NEW y \in PendingReplies' PROVE y \in PendingReplies \cup {x}
    OBVIOUS
  <2>1. PICK k \in Node, q \in Flying(chan') :
          Answers(q) /\ q.source = hub_id[k] /\ y = <<k, q.val>>
    BY <1>1, ServiceSetsNext
  <2>2. CASE NothingNew(q)
    <3>1. PICK o \in Flying(chan) : SameMessage(q, o)
      BY <2>1, <2>2 DEF NothingNew
    <3>2. Answers(o) /\ o.source = hub_id[k] /\ y = <<k, o.val>>
      BY <2>1, <3>1 DEF SameMessage, Answers
    <3> QED
      BY <3>2, ServiceSets
  <2>3. CASE \E i \in 1..Len(out) : q = out[i]
    <3>1. q.source = m.dest /\ q.val = m.val
      BY <2>3
    <3> QED
      BY <1>3, <2>1, <3>1
  <2> QED
    BY <1>1, <2>2, <2>3
<1> HIDE DEF x
<1>9. Service!Apply
  BY <1>1, <1>4, <1>5, <1>6, <1>7, <1>8 DEF Service!Apply
<1> QED
  BY <1>9 DEF Service!Next

\* The handlers of commands.
LEMMA ProcCommandService ==
  ASSUME IInv, NEW n \in Node, NEW p \in Peers,
         ProcCommand(p, n) \/ ProcCommandNvsError(p, n)
  PROVE  Service!Next
<1> DEFINE m == Received(p, n)
           s == [Marked(node[n], m) EXCEPT !.applied = Append(@, m.val)]
<1>1. /\ InFlight(p, n) /\ NextStep(n, m) = "PROCESS"
      /\ m.type \in {"REQ", "UPDATE", "OTA_UPDATE_AVAILABLE"}
  BY DEF ProcCommand, ProcCommandNvsError, Writes
<1>2. /\ Handled(p, n) \in [Wire -> Seq(Frame)]
      /\ Flying(Handled(p, n)) \subseteq Flying(chan)
      /\ m \in Flying(chan) /\ m \in Packet
  BY <1>1, FlyingHandled DEF IInv
<1>3. CASE ProcCommand(p, n)
  <2> DEFINE d == ToHub(s, ReplyType(m.type), NoAddr, m.val)
             out == <<d>>
  <2>1. FinishReceive(n, KeyTaken(s), out, Handled(p, n))
    BY <1>3 DEF ProcCommand
  <2> HIDE DEF m
  <2>2. /\ s \in NodeState /\ KeyTaken(s) \in NodeState /\ NodeOK(n, KeyTaken(s))
        /\ Done(KeyTaken(s)) = Done(node[n]) \cup {m.val}
        /\ s.our_node_id = m.dest
    BY <1>1, <1>2, CommandMarked
  <2> HIDE DEF s
  <2>3. ReplyType(m.type) \in ReplyTypes
    BY <1>1 DEF ReplyType, ReplyTypes
  <2>4. d \in Packet /\ Answers(d) /\ d.source = m.dest /\ d.val = m.val
    <3>1. s.our_node_id \in Byte /\ s.idempotency_key_counter \in Byte
      BY <2>2 DEF NodeState
    <3>2. m.val \in Nat
      BY <1>2 DEF Packet
    <3>3. ReplyTypes \subseteq PacketTypes
      BY DEF PacketTypes
    <3> QED
      BY <2>2, <2>3, <3>1, <3>2, <3>3, ByteArithmetic DEF ToHub, Packet, Answers
  <2> HIDE DEF d
  <2>5. out \in Seq(Packet) /\ \A i \in 1..Len(out) : out[i] = d
    BY <2>4
  <2> HIDE DEF out
  <2>6. Asks(m)
    BY <1>1 DEF Asks, CommandTypes
  <2> QED
    BY <1>1, <1>2, <2>1, <2>2, <2>4, <2>5, <2>6, ApplyService
<1>4. CASE ProcCommandNvsError(p, n)
  <2> DEFINE t == IF m.type = "OTA_UPDATE_AVAILABLE" THEN KeyTaken(s) ELSE s
             out == <<>>
  <2>1. FinishReceive(n, t, out, Handled(p, n))
    BY <1>4 DEF ProcCommandNvsError
  <2> HIDE DEF m
  <2>2. t \in NodeState /\ NodeOK(n, t) /\ Done(t) = Done(node[n]) \cup {m.val}
    <3>1. /\ s \in NodeState /\ KeyTaken(s) \in NodeState
          /\ NodeOK(n, s) /\ NodeOK(n, KeyTaken(s))
          /\ Done(s) = Done(node[n]) \cup {m.val} /\ Done(KeyTaken(s)) = Done(s)
      BY <1>1, <1>2, CommandMarked
    <3> HIDE DEF s
    <3> QED
      BY <3>1
  <2> HIDE DEF t
  <2>3. out \in Seq(Packet) /\ Len(out) = 0
    OBVIOUS
  <2> HIDE DEF out
  <2>4. \A i \in 1..Len(out) :
          Answers(out[i]) /\ out[i].source = m.dest /\ out[i].val = m.val
    BY <2>3
  <2>5. Asks(m)
    BY <1>1 DEF Asks, CommandTypes
  <2> QED
    BY <1>1, <1>2, <2>1, <2>2, <2>3, <2>4, <2>5, ApplyService
<1> QED
  BY <1>3, <1>4

\* Powering down is Boot of the service: the RAM that says what was applied is gone.
LEMMA PowerDownService ==
  ASSUME IInv, NEW n \in Node, NEW c \in [Wire -> Seq(Frame)],
         Flying(c) \subseteq Flying(chan), PowerDown(n, c),
         budget'.commands = budget.commands
  PROVE  Service!Next
<1> DEFINE S == {l \in Wire : l[2] = n}
<1>1. chan' = [l \in Wire |-> IF l \in S THEN <<>> ELSE c[l]]
  BY DEF PowerDown
<1>2. Flying(chan') \subseteq Flying(chan)
  BY ZenonT(60), <1>1, FlyingEmptied
<1>3. node' = [node EXCEPT ![n] = PowerOn] /\ hub_id' = hub_id
  BY DEF PowerDown, hubVars
<1>4. PendingCommands' \subseteq PendingCommands /\ PendingReplies' \subseteq PendingReplies
  BY <1>2, <1>3, OldIsNotNew, NothingNewMessages
<1>5. Done(node'[n]) = {} /\ \A k \in Node : k # n => Done(node'[k]) = Done(node[k])
  BY <1>3 DEF Done, PowerOn, IInv, TypeOK
<1>6. AppliedCommands' = {x \in AppliedCommands : x[1] # n}
  <2>1. ASSUME NEW x \in AppliedCommands' PROVE x \in AppliedCommands /\ x[1] # n
    <3>1. PICK k \in Node : \E v \in Done(node'[k]) : x = <<k, v>>
      BY ServiceSetsNext
    <3>2. k # n /\ \E v \in Done(node[k]) : x = <<k, v>>
      BY <1>5, <3>1
    <3> QED
      BY <3>2, ServiceSets
  <2>2. ASSUME NEW x \in AppliedCommands, x[1] # n PROVE x \in AppliedCommands'
    <3>1. PICK k \in Node : \E v \in Done(node[k]) : x = <<k, v>>
      BY ServiceSets
    <3>2. k # n
      BY <2>2, <3>1
    <3>3. \E v \in Done(node'[k]) : x = <<k, v>>
      BY <1>5, <3>1, <3>2
    <3> QED
      BY <3>3, ServiceSetsNext
  <2> QED
    BY <2>1, <2>2
<1>7. Service!Boot(n)
  BY <1>4, <1>6 DEF Service!Boot
<1> QED
  BY <1>7 DEF Service!Next

\* The copies that a node sends before it sleeps are copies.
LEMMA SleepService ==
  ASSUME IInv, NEW n \in Node,
         ForcedSleep(n) \/ \E p \in Peers : ProcGoToSleep(p, n)
  PROVE  Service!Next
<1>1. CASE ForcedSleep(n)
  <2>1. PowerDown(n, chan) /\ Spend("sleeps")
    BY <1>1 DEF ForcedSleep
  <2>2. budget'.commands = budget.commands
    BY <2>1, SpendType DEF IInv, BudgetKinds
  <2>3. chan \in [Wire -> Seq(Frame)] /\ Flying(chan) \subseteq Flying(chan)
    BY DEF IInv, TypeOK
  <2> QED
    BY <2>1, <2>2, <2>3, PowerDownService
<1>2. ASSUME NEW p \in Peers, ProcGoToSleep(p, n) PROVE Service!Next
  <2> DEFINE m == Received(p, n)
             out == <<m, m>>
  <2>1. PICK to \in SUBSET Reached(n) :
          PowerDown(n, Transmitted(Handled(p, n), n, out, to))
    BY <1>2 DEF ProcGoToSleep
  <2>2. InFlight(p, n) /\ budget' = budget
    BY <1>2 DEF ProcGoToSleep, Writes
  <2>3. /\ Handled(p, n) \in [Wire -> Seq(Frame)]
        /\ Flying(Handled(p, n)) \subseteq Flying(chan)
        /\ m \in Flying(chan) /\ m \in Packet
    BY <2>2, FlyingHandled DEF IInv
  <2> HIDE DEF m
  <2>4. out \in Seq(Packet) /\ \A i \in 1..Len(out) : out[i] = m
    BY <2>3
  <2> HIDE DEF out
  <2> DEFINE c == Transmitted(Handled(p, n), n, out, to)
  <2>5. /\ c \in [Wire -> Seq(Frame)]
        /\ \A q \in Flying(c) : q \in Flying(Handled(p, n)) \/ \E i \in 1..Len(out) : q = out[i]
    BY <2>3, <2>4, FlyingTransmitted
  <2>6. PowerDown(n, c)
    BY <2>1
  <2> HIDE DEF c
  <2>7. Flying(c) \subseteq Flying(chan)
    BY <2>3, <2>4, <2>5
  <2> QED
    BY <2>2, <2>5, <2>6, <2>7, PowerDownService
<1> QED
  BY <1>1, <1>2

\* A request for an id is no command.
LEMMA RequestService ==
  ASSUME IInv, NEW n \in Node,
         HostEvent(n) \/ ResendTick(n) \/ \E p \in Peers : DiscComplete(n, p)
  PROVE  Service!Next
<1>1. node \in [Node -> NodeState] /\ node[n] \in NodeState /\ NodeOK(n, node[n])
  BY DEF IInv, TypeOK
<1>2. chan \in [Wire -> Seq(Frame)] /\ Flying(chan) \subseteq Flying(chan)
  BY DEF IInv, TypeOK
<1>3. CASE HostEvent(n)
  <2> DEFINE out == Resent(node[n])
             s == ResendIfNeeded(node[n])
  <2>1. out \in Seq(Packet) /\ s.applied = node[n].applied
    BY <1>1, ResendType
  <2>2. \A i \in 1..Len(out) : NothingNew(out[i])
    BY <1>1, ResendNodeOK, OldIsNotNew DEF ParOK
  <2>3. Finish(n, s, out, chan)
    BY <1>3 DEF HostEvent
  <2> HIDE DEF out, s
  <2>4. /\ \A q \in Flying(chan') : q \in Flying(chan) \/ \E i \in 1..Len(out) : q = out[i]
        /\ node' = [node EXCEPT ![n] = s]
        /\ hub_id' = hub_id /\ budget'.commands = budget.commands
    BY <1>2, <2>1, <2>3, FinishSends
  <2>5. AppliedCommands' = AppliedCommands
    BY <1>1, <2>1, <2>4, AppliedUntouched
  <2>6. \A q \in Flying(chan') : NothingNew(q)
    BY <2>2, <2>4, OldIsNotNew
  <2> QED
    BY <2>4, <2>5, <2>6, LoseService
<1>4. CASE ResendTick(n)
  <2> DEFINE s == [node[n] EXCEPT !.resend_packets = TRUE]
  <2>1. /\ node' = [node EXCEPT ![n] = s] /\ Spend("ticks")
        /\ UNCHANGED <<chan, hub_id>>
    BY <1>1, <1>4 DEF ResendTick, hubVars
  <2>2. s.applied = node[n].applied
    BY <1>1 DEF NodeState
  <2> HIDE DEF s
  <2>3. AppliedCommands' = AppliedCommands
    BY <1>1, <2>1, <2>2, AppliedUntouched
  <2>4. budget'.commands = budget.commands
    BY <2>1, SpendType DEF IInv, BudgetKinds
  <2>5. \A q \in Flying(chan') : NothingNew(q)
    BY <2>1, OldIsNotNew
  <2> QED
    BY <2>1, <2>3, <2>4, <2>5, LoseService
<1>5. ASSUME NEW p \in Peers, DiscComplete(n, p) PROVE Service!Next
  <2> DEFINE s   == node[n]
             req == ToHub(s, "NODE_CONNECTED", n, 0)
             k   == KeyTaken([s EXCEPT !.provisioning_requested = TRUE])
             t   == AwaitResponse(k, req)
             out == <<req>>
  <2>1. hub_id' = hub_id
    BY <1>5 DEF DiscComplete
  <2>2. CASE s.provisioning_requested
    <3>1. UNCHANGED <<node, chan, budget>>
      BY <1>5, <2>2 DEF DiscComplete
    <3> QED
      BY <2>1, <3>1, QuietService
  <2>3. CASE ~s.provisioning_requested
    <3>1. PICK refused \in Refusals(n) :
            /\ node' = [node EXCEPT ![n] = t]
            /\ chan' = Transmitted(chan, n, out, Reached(n) \ refused)
            /\ budget' = [budget EXCEPT !.losses = @ - Cardinality(refused)]
      BY <1>5, <2>3 DEF DiscComplete
    <3>2. req \in Packet /\ req.type = "NODE_CONNECTED"
      <4>1. s.our_node_id \in Byte /\ s.idempotency_key_counter \in Byte
        BY <1>1 DEF NodeState
      <4>2. "NODE_CONNECTED" \in PacketTypes
        BY DEF PacketTypes
      <4> QED
        BY <1>1, <4>1, <4>2, ByteArithmetic DEF ToHub, Packet
    <3> HIDE DEF req
    <3>3. t.applied = s.applied
      <4>1. k.applied = s.applied /\ DOMAIN k = DOMAIN s
        BY <1>1 DEF KeyTaken, NodeState
      <4>2. "applied" \in DOMAIN s
        BY <1>1 DEF NodeState
      <4> HIDE DEF k
      <4>3. t.applied = k.applied
        BY <4>1, <4>2 DEF AwaitResponse
      <4> QED
        BY <4>1, <4>3
    <3>4. out \in Seq(Packet) /\ \A i \in 1..Len(out) : out[i] = req
      BY <3>2
    <3> HIDE DEF out, t
    <3>5. \A q \in Flying(chan') : q \in Flying(chan) \/ \E i \in 1..Len(out) : q = out[i]
      BY <1>2, <3>1, <3>4, FlyingTransmitted
    <3>6. \A q \in Flying(chan') : NothingNew(q)
      BY <3>2, <3>4, <3>5, OldIsNotNew
    <3>7. AppliedCommands' = AppliedCommands
      BY <1>1, <3>1, <3>3, AppliedUntouched
    <3>8. budget'.commands = budget.commands
      BY <3>1, RefusalsBudget DEF IInv
    <3> QED
      BY <2>1, <3>6, <3>7, <3>8, LoseService
  <2> QED
    BY <2>2, <2>3
<1> QED
  BY <1>3, <1>4, <1>5

\* An id that the hub gives out is nobody's, so no message in flight is for it.
LEMMA HubAnswerService ==
  ASSUME IInv, HubAnswer
  PROVE  Service!Next
<1>1. PICK r \in hub_inbox, id \in NodeIds :
        /\ IF hub_id[r.addr] = Unassigned THEN \A m \in Node : hub_id[m] # id
                                          ELSE hub_id[r.addr] = id
        /\ hub_id' = [hub_id EXCEPT ![r.addr] = id]
        /\ HubSends(HubPacket(r.source, "NODE_CONNECTED_RESP", r.addr, id))
        /\ UNCHANGED <<node, budget>>
  BY DEF HubAnswer
<1> DEFINE m == HubPacket(r.source, "NODE_CONNECTED_RESP", r.addr, id)
<1>2. m \in Packet /\ m.type = "NODE_CONNECTED_RESP"
  <2>1. hub_key \in Byte /\ r.addr \in Node /\ r.source \in Byte
    BY DEF IInv, TypeOK
  <2>2. "NODE_CONNECTED_RESP" \in PacketTypes
    BY DEF PacketTypes
  <2>3. id \in Nat
    BY ByteInt, ByteArithmetic
  <2> QED
    BY <2>1, <2>2, <2>3, ByteArithmetic DEF HubPacket, Packet
<1> HIDE DEF m
<1>3. \A q \in Flying(chan') : q \in Flying(chan) \/ q = m
  BY <1>1, <1>2, HubSendsType DEF IInv, m
<1>4. \A q \in Flying(chan') : Asks(q) \/ Answers(q) => q \in Flying(chan) /\ PacketOK(q)
  BY <1>2, <1>3 DEF Asks, Answers, CommandTypes, ReplyTypes, IInv
<1>5. ASSUME NEW n \in Node, NEW k \in Node, hub_id'[n] = hub_id[k], hub_id[k] # 0
      PROVE  hub_id[n] = hub_id[k]
  BY <1>1, <1>5 DEF IInv, TypeOK
<1>6. ASSUME NEW x \in PendingCommands' PROVE x \in PendingCommands
  <2>1. PICK n \in Node, q \in Flying(chan') : Asks(q) /\ q.dest = hub_id'[n] /\ x = <<n, q.val>>
    BY ServiceSetsNext
  <2>2. q \in Flying(chan) /\ PacketOK(q) /\ IsCommand(q)
    BY <1>4, <2>1 DEF Asks, IsCommand
  <2>3. PICK k \in Node : hub_id[k] = q.dest /\ q.dest # 0
    BY <2>2 DEF PacketOK
  <2>4. q.dest = hub_id[n]
    BY <1>5, <2>1, <2>3
  <2> QED
    BY <2>1, <2>2, <2>4, ServiceSets
<1>7. ASSUME NEW x \in PendingReplies' PROVE x \in PendingReplies
  <2>1. PICK n \in Node, q \in Flying(chan') :
          Answers(q) /\ q.source = hub_id'[n] /\ x = <<n, q.val>>
    BY ServiceSetsNext
  <2>2. q \in Flying(chan) /\ PacketOK(q)
    BY <1>4, <2>1
  <2>3. PICK k \in Node : hub_id[k] = q.source /\ q.source # 0
    BY <2>1, <2>2 DEF PacketOK, Answers
  <2>4. q.source = hub_id[n]
    BY <1>5, <2>1, <2>3
  <2> QED
    BY <2>1, <2>2, <2>4, ServiceSets
<1>8. AppliedCommands' = AppliedCommands
  BY <1>1 DEF AppliedCommands, Applied
<1>9. Service!Lose
  BY <1>1, <1>6, <1>7, <1>8 DEF Service!Lose
<1> QED
  BY <1>9 DEF Service!Next

\* A command of the hub is Issue of the service; one to sleep is nobody's in
\* particular.
LEMMA HubCommandService ==
  ASSUME IInv, NEW k \in Node, HubCommand(k)
  PROVE  Service!Next
<1>1. PICK type \in Commands :
        HubSends(HubPacket(hub_id[k], type, NoAddr, budget.commands))
  BY DEF HubCommand
<1>2. hub_id[k] # 0 /\ Spend("commands") /\ UNCHANGED <<node, hub_id>>
  BY DEF HubCommand
<1> DEFINE m == HubPacket(hub_id[k], type, NoAddr, budget.commands)
<1>3. /\ budget.commands > 0 /\ budget'.commands = budget.commands - 1
      /\ budget.commands \in Nat
  BY <1>2 DEF Spend, IInv, TypeOK, BudgetKinds
<1>4. /\ m \in Packet /\ m.type \in CommandTypes /\ m.dest = hub_id[k]
      /\ m.val = budget.commands
  <2>1. hub_key \in Byte /\ hub_id[k] \in Byte
    BY <1>2, ByteArithmetic DEF IInv, TypeOK
  <2>2. type \in CommandTypes /\ type \in PacketTypes
    BY CommandAssumption DEF PacketTypes
  <2> QED
    BY <1>3, <2>1, <2>2, ByteArithmetic DEF HubPacket, Packet
<1> HIDE DEF m
<1>5. \A q \in Flying(chan') : q \in Flying(chan) \/ q = m
  BY <1>1, <1>4, HubSendsType DEF IInv, m
<1>6. \A n \in Node : hub_id[n] = hub_id[k] => n = k
  BY <1>2 DEF IInv, HubOK
<1>7. PendingCommands' \subseteq PendingCommands \cup {<<k, budget.commands>>}
  <2> SUFFICES ASSUME NEW x \in PendingCommands'
               PROVE  x \in PendingCommands \cup {<<k, budget.commands>>}
    OBVIOUS
  <2>1. PICK n \in Node, q \in Flying(chan') : Asks(q) /\ q.dest = hub_id[n] /\ x = <<n, q.val>>
    BY <1>2, ServiceSetsNext
  <2>2. CASE q \in Flying(chan)
    BY <2>1, <2>2, ServiceSets
  <2>3. CASE q = m
    BY <1>4, <1>6, <2>1, <2>3
  <2> QED
    BY <1>5, <2>2, <2>3
<1>8. PendingReplies' \subseteq PendingReplies
  <2> SUFFICES ASSUME NEW x \in PendingReplies' PROVE x \in PendingReplies
    OBVIOUS
  <2>1. PICK n \in Node, q \in Flying(chan') :
          Answers(q) /\ q.source = hub_id[n] /\ x = <<n, q.val>>
    BY <1>2, ServiceSetsNext
  <2>2. q # m
    BY <1>4, <2>1 DEF Answers, CommandTypes, ReplyTypes
  <2> QED
    BY <1>5, <2>1, <2>2, ServiceSets
<1>9. AppliedCommands' = AppliedCommands
  BY <1>2 DEF AppliedCommands, Applied
<1>10. Service!Issue(k)
  BY <1>3, <1>7, <1>8, <1>9 DEF Service!Issue
<1> QED
  BY <1>10 DEF Service!Next

\* The other events concern links and tables, or lose what was in flight.
LEMMA LinkService ==
  ASSUME IInv, NEW n \in Node, NEW p \in Peers,
         \/ Connect(n, p) \/ ChrFound(n, p) \/ Disconnect(n, p)
         \/ LinkLoss(n, p) \/ Wake(n) \/ IgnoreNotification(p, n)
  PROVE  Service!Next
<1>1. chan \in [Wire -> Seq(Frame)]
  BY DEF IInv, TypeOK
<1>2. CASE Connect(n, p) \/ ChrFound(n, p) \/ Disconnect(n, p)
  <2>1. UNCHANGED <<node, chan, hub_id, budget>>
    BY <1>2 DEF Connect, ChrFound, Disconnect, hubVars
  <2> QED
    BY <2>1, QuietService
<1>3. CASE LinkLoss(n, p)
  <2> DEFINE S == {l \in Wire : {l[1], l[2]} = {n, p}}
  <2>1. /\ chan' = [l \in Wire |-> IF l \in S THEN <<>> ELSE chan[l]]
        /\ UNCHANGED <<node, hub_id>> /\ Spend("drops")
    BY <1>3 DEF LinkLoss, hubVars
  <2> HIDE DEF S
  <2>2. Flying(chan') \subseteq Flying(chan)
    BY <1>1, <2>1, FlyingEmptied
  <2>3. budget'.commands = budget.commands
    BY <2>1, SpendType DEF IInv, BudgetKinds
  <2> QED
    BY <2>1, <2>2, <2>3, QuietService
<1>4. CASE Wake(n)
  <2>1. UNCHANGED <<node, chan, hub_id>> /\ Spend("wakes")
    BY <1>4 DEF Wake, hubVars
  <2>2. budget'.commands = budget.commands
    BY <2>1, SpendType DEF IInv, BudgetKinds
  <2> QED
    BY <2>1, <2>2, QuietService
<1>5. CASE IgnoreNotification(p, n)
  <2>1. /\ InFlight(p, n) /\ chan' = Handled(p, n)
        /\ UNCHANGED <<node, hub_id, budget>>
    BY <1>5 DEF IgnoreNotification, hubVars
  <2>2. Flying(chan') \subseteq Flying(chan)
    BY <2>1, FlyingHandled DEF IInv
  <2> QED
    BY <2>1, <2>2, QuietService
<1> QED
  BY <1>2, <1>3, <1>4, <1>5

\* Nothing is in flight at first.
LEMMA InitService == Init => Service!Init
<1> SUFFICES ASSUME Init PROVE Service!Init
  OBVIOUS
<1>1. Flying(chan) = {}
  BY DEF Init, Flying
<1>2. \A n \in Node : Done(node[n]) = {}
  BY DEF Init, PowerOn, Done
<1>3. PendingCommands = {} /\ PendingReplies = {} /\ AppliedCommands = {}
  BY <1>1, <1>2, ServiceSets
<1>4. budget.commands = Budget.commands
  BY DEF Init
<1> QED
  BY <1>3, <1>4 DEF Service!Init

\* Every step of the mesh is a step of the service.
LEMMA NextService == IInv /\ [Next]_vars => [Service!Next]_(Service!vars)
<1> SUFFICES ASSUME IInv, [Next]_vars PROVE Service!Next
  OBVIOUS
<1>1. CASE UNCHANGED vars
  <2>1. UNCHANGED <<node, chan, hub_id, budget>>
    BY <1>1 DEF vars
  <2> QED
    BY <2>1, QuietService
<1>2. ASSUME NEW n \in Node, NEW p \in Peers, Receive(p, n) PROVE Service!Next
  BY <1>2, LinkService, RelayService, ProcCommandService, SleepService DEF Receive
<1>3. ASSUME NEW n \in Node, NEW p \in Peers,
             \/ Connect(n, p) \/ ChrFound(n, p) \/ DiscComplete(n, p)
             \/ LinkLoss(n, p) \/ Disconnect(n, p)
      PROVE  Service!Next
  BY <1>3, LinkService, RequestService
<1>4. ASSUME NEW n \in Node,
             ResendTick(n) \/ HostEvent(n) \/ ForcedSleep(n) \/ Wake(n) \/ HubCommand(n)
      PROVE  Service!Next
  <2>1. Hub \in Peers
    BY DEF Peers
  <2> QED
    BY <1>4, <2>1, RequestService, SleepService, LinkService, HubCommandService
<1> QED
  BY <1>1, <1>2, <1>3, <1>4, HubAnswerService DEF Next

\* Only the node a command is meant for applies it, once between two boots, and the
\* replies attributed to a node are its own.
THEOREM Refinement == Spec => ImplementsCommandService
BY Invariance, InitService, NextService, PTL DEF Spec, ImplementsCommandService, Service!Spec
=============================================================================
