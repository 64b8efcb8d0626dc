----------------------------- MODULE MCMeshNode -----------------------------
(* Instances of MeshNode for TLC.                                          *)
EXTENDS MeshNode, TLC

CONSTANTS a, b, h, none

Triangle == {{a, b}, {a, h}, {b, h}}
Line     == {{a, b}, {b, h}}

Bounds(ticks, drops, losses, commands, sleeps, wakes) ==
  [ticks |-> ticks, drops |-> drops, losses |-> losses, commands |-> commands,
   sleeps |-> sleeps, wakes |-> wakes]

\* Nodes that provision over a lossy mesh.
LossyProvisioning == Bounds(1, 1, 1, 0, 0, 0)

\* A mesh that has settled: every link is up, a then b asked for an id while
\* both could reach the hub, and the answers have died out.
SettledNode(n) ==
  [PowerOn EXCEPT !.our_node_id = IF n = a THEN 2 ELSE 3,
                  !.provisioning_requested = TRUE,
                  !.processed_packets = IF n = a THEN {0} ELSE {1},
                  !.idempotency_key_counter = 1,
                  !.resend_timer = TRUE]

SettledInit ==
  /\ awake = [n \in Node |-> TRUE]
  /\ node = [n \in Node |-> SettledNode(n)]
  /\ link = Links
  /\ peer = [n \in Node |-> [p \in Peers |-> IF {n, p} \in Links THEN "ready" ELSE "absent"]]
  /\ chan = [l \in Wire |-> <<>>]
  /\ hub_inbox = {}
  /\ hub_id = [n \in Node |-> node[n].our_node_id]
  /\ hub_key = 2
  /\ budget = Budget

SettledSpec     == SettledInit /\ [][Next]_vars
FairSettledSpec == SettledInit /\ [][Next]_vars /\ FairDelivery

\* Two commands that flood a settled mesh, with a link lost and a write refused.
LossyCommands == Bounds(0, 1, 1, 2, 0, 0)

\* Nothing is lost and no timer expires.
NoFaults == Bounds(0, 0, 0, 0, 0, 0)

\* A command to sleep, a node forced to sleep, and a node that wakes again.
SleepAndWake == Bounds(0, 0, 0, 1, 1, 1)
=============================================================================
