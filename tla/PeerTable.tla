------------------------------ MODULE PeerTable -----------------------------
(***************************************************************************)
(* What the rest of the firmware relies on of the peer table: while a      *)
(* connection lasts the table learns the attributes of the peer and        *)
(* forgets none, it names only attributes that exist, discovery is         *)
(* reported once, and success means that nothing is missing.  Afterwards   *)
(* nothing is left of it.                                                  *)
(***************************************************************************)
CONSTANTS
  Conn,      \* connection handles
  Attribute  \* the attributes a peer may offer

VARIABLES
  phase,    \* phase[c]: how far discovery is on c
  offered,  \* offered[c]: the attributes of the peer
  known     \* known[c]: those of them that are in the table

vars == <<phase, offered, known>>

Move(c, from, to) == phase[c] = from /\ phase' = [phase EXCEPT ![c] = to]

Open(c) ==
  /\ Move(c, "none", "running") \/ Move(c, "none", "unstarted")
  /\ \E attrs \in SUBSET Attribute : offered' = [offered EXCEPT ![c] = attrs]
  /\ UNCHANGED known

Learn(c) ==
  /\ phase[c] = "running"
  /\ \E a \in offered[c] \ known[c] : known' = [known EXCEPT ![c] = @ \cup {a}]
  /\ UNCHANGED <<phase, offered>>

Succeed(c) ==
  /\ Move(c, "running", "ok")
  /\ known[c] = offered[c]
  /\ UNCHANGED <<offered, known>>

Fail(c) ==
  /\ Move(c, "running", "error")
  /\ UNCHANGED <<offered, known>>

Close(c) ==
  /\ phase[c] # "none" /\ phase' = [phase EXCEPT ![c] = "none"]
  /\ offered' = [offered EXCEPT ![c] = {}]
  /\ known' = [known EXCEPT ![c] = {}]

\* The node goes to sleep.
CloseAll ==
  /\ phase' = [c \in Conn |-> "none"]
  /\ offered' = [c \in Conn |-> {}]
  /\ known' = [c \in Conn |-> {}]

Init ==
  /\ phase = [c \in Conn |-> "none"]
  /\ offered = [c \in Conn |-> {}]
  /\ known = [c \in Conn |-> {}]

Next ==
  \/ \E c \in Conn : Open(c) \/ Learn(c) \/ Succeed(c) \/ Fail(c) \/ Close(c)
  \/ CloseAll

Spec == Init /\ [][Next]_vars
=============================================================================
