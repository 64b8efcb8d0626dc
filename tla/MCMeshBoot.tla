----------------------------- MODULE MCMeshBoot -----------------------------
(* Instances of MeshBoot for TLC. *)
EXTENDS MeshBoot

\* One voltage above high; a new high makes it equal to low, or less.
DefaultConfig ==
  [k \in ConfigKeys |-> CASE k \in {"sensor_lv", "battery_lv"} -> 2
                          [] k \in {"sensor_hv", "battery_hv"} -> 3
                          [] OTHER -> 1]

\* Two power failures, one write to NVS that fails, and one read of it.
EveryFault == [crashes |-> 2, writes |-> 1, reads |-> 1]

\* The power is good; one write to NVS fails.
OneLostWrite == [crashes |-> 0, writes |-> 1, reads |-> 0]
=============================================================================
