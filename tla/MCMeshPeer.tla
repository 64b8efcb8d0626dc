----------------------------- MODULE MCMeshPeer -----------------------------
(* Instances of MeshPeer for TLC.                                          *)
EXTENDS MeshPeer

Chr(def, dscs) == [def |-> def, val |-> def + 1, dscs |-> dscs]
Svc(start, end, chrs) == [start |-> start, end |-> end, chrs |-> chrs]

\* Two characteristics, the first of them without room for a descriptor, then a
\* service that is empty.
Sensor ==
  << Svc(1, 7, << Chr(2, <<>>), Chr(4, <<6, 7>>) >>), Svc(8, 8, <<>>) >>

\* The ranges leave a handle unused after the first characteristic.
Gaps ==
  << Svc(1, 4, << Chr(2, <<>>) >>), Svc(5, 8, << Chr(6, <<8>>) >>) >>

\* A service that has attributes but no characteristic, such as one that only
\* includes other services.
Bare ==
  << Svc(1, 3, << Chr(2, <<>>) >>), Svc(4, 5, <<>>) >>

\* Three characteristics, of which the middle one has no room for a descriptor.
Wide ==
  << Svc(1, 10, << Chr(2, <<4>>), Chr(5, <<>>), Chr(7, <<9, 10>>) >>) >>

All == {Sensor, Gaps, Bare, Wide}
=============================================================================
