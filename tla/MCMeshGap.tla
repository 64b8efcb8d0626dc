------------------------------ MODULE MCMeshGap -----------------------------
(* Instances of MeshGap for TLC: a tick is 7.5 s. *)
EXTENDS MeshGap

CONSTANTS a, b, c

All  == {{a, b}, {a, c}, {b, c}}
Pair == {{a, b}}
=============================================================================
