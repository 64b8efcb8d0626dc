--------------------------- MODULE CommandService ---------------------------
(***************************************************************************)
(* What the hub relies on of the mesh, whatever paths and copies a command *)
(* takes: only the node it is meant for applies it, no more than once      *)
(* between two boots, and a reply that is attributed to a node comes from  *)
(* that node and follows its applying the command.  Any message may be     *)
(* lost, and a boot forgets what was applied.                              *)
(***************************************************************************)
EXTENDS Naturals

CONSTANTS
  Node,   \* sensor nodes
  Limit   \* how many commands the hub may issue

\* A message <<n, v>> is command number v for node n, or n's reply to it.
VARIABLES
  left,     \* the commands the hub may still issue; they are numbered downwards
  pending,  \* the commands in flight
  replies,  \* the replies in flight
  applied   \* the commands that nodes have applied since they booted

vars == <<left, pending, replies, applied>>

Issue(n) ==
  /\ left > 0 /\ left' = left - 1
  /\ pending' \subseteq pending \cup {<<n, left>>}
  /\ replies' \subseteq replies
  /\ UNCHANGED applied

Apply ==
  /\ \E m \in pending \ applied :
       applied' = applied \cup {m} /\ replies' \subseteq replies \cup {m}
  /\ pending' \subseteq pending
  /\ UNCHANGED left

Boot(n) ==
  /\ applied' = {m \in applied : m[1] # n}
  /\ pending' \subseteq pending /\ replies' \subseteq replies
  /\ UNCHANGED left

Lose ==
  /\ pending' \subseteq pending /\ replies' \subseteq replies
  /\ UNCHANGED <<left, applied>>

Init == left = Limit /\ pending = {} /\ replies = {} /\ applied = {}

Next ==
  \/ \E n \in Node : Issue(n) \/ Boot(n)
  \/ Apply \/ Lose

Spec == Init /\ [][Next]_vars
=============================================================================
