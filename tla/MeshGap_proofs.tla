--------------------------- MODULE MeshGap_proofs ---------------------------
(***************************************************************************)
(* Proofs about MeshGap, for any nodes, durations and disturbances: the    *)
(* connections between nodes are a forest, and no two nodes that should    *)
(* hear each other both stay alone.                                        *)
(***************************************************************************)
EXTENDS MeshGap, FiniteSetTheorems, TLAPS

\* n has advertised in this boot and will not do so again.
Past(n) == Awake(n) /\ ~Runs(n, "adv")

\* Each variable keeps to its range; a node tries to connect to one node.
Typed ==
  /\ timer \in [Node -> [Timers -> Nat \cup {Off}]]
  /\ target \in [Node -> SUBSET Node]
  /\ \A n \in Node : IF Runs(n, "connect") THEN \E p \in Node : target[n] = {p}
                                           ELSE target[n] = {}
  /\ peer \in [Node -> [Node -> States]]
  /\ link \subseteq Node \X Node /\ IsFiniteSet(link)
  /\ period \in [Node -> 0..MaxAdv] /\ found \in [Node -> BOOLEAN]
  /\ budget \in Nat

\* Only a node that has advertised scans, connects, or has a peer or a connection.
PastAt(n) ==
  /\ Runs(n, "adv") => Awake(n)
  /\ \/ Runs(n, "scan") \/ Runs(n, "connect")
     \/ \E p \in Node : peer[n][p] # "absent" \/ Linked(n, p)
     => Past(n)
PastOK == \A n \in Node : PastAt(n)

IInv == Typed /\ PastOK /\ MeshIsForest

-----------------------------------------------------------------------------
\* The connections among the nodes of S.
Among(S) == {l \in link : l[1] \in S /\ l[2] \in S}

LEMMA NodesFinite == ASSUME NEW S \in SUBSET Node
                     PROVE  IsFiniteSet(S) /\ Cardinality(S) \in Nat
  BY NodeAssumption, FS_Subset, FS_CardinalityType

LEMMA AmongFinite ==
  ASSUME Typed, NEW S
  PROVE  IsFiniteSet(Among(S)) /\ Cardinality(Among(S)) \in Nat
<1>1. Among(S) \in SUBSET link  BY DEF Among
<1> QED  BY <1>1, FS_Subset, FS_CardinalityType DEF Typed

\* A forest that loses connections is one.
LEMMA ForestShrinks ==
  ASSUME Typed, MeshIsForest, link' \subseteq link
  PROVE  MeshIsForest' /\ IsFiniteSet(link')
<1>1. IsFiniteSet(link')  BY FS_Subset DEF Typed
<1>2. ASSUME NEW S \in (SUBSET Node) \ {{}}
      PROVE  Cardinality({l \in link' : l[1] \in S /\ l[2] \in S}) < Cardinality(S)
  <2> DEFINE E == {l \in link' : l[1] \in S /\ l[2] \in S}
  <2>1. E \in SUBSET Among(S)  BY DEF Among
  <2>2. IsFiniteSet(Among(S)) /\ Cardinality(Among(S)) \in Nat  BY AmongFinite
  <2>3. IsFiniteSet(E) /\ Cardinality(E) <= Cardinality(Among(S))  BY <2>1, <2>2, FS_Subset
  <2>4. Cardinality(E) \in Nat  BY <2>3, FS_CardinalityType
  <2>5. Cardinality(S) \in Nat  BY NodesFinite
  <2>6. Cardinality(Among(S)) < Cardinality(S)  BY DEF MeshIsForest, Among
  <2> HIDE DEF E
  <2>7. Cardinality(E) < Cardinality(S)  BY <2>2, <2>3, <2>4, <2>5, <2>6
  <2> QED  BY <2>7 DEF E
<1> QED  BY <1>1, <1>2 DEF MeshIsForest

\* A node without connections can be connected to any other.
LEMMA ForestGrows ==
  ASSUME Typed, MeshIsForest, NEW n \in Node, NEW p \in Node, n # p,
         \A q \in Node : ~Linked(p, q),
         link' = link \cup {<<n, p>>}
  PROVE  MeshIsForest' /\ IsFiniteSet(link')
<1>1. IsFiniteSet(link')  BY FS_AddElement DEF Typed
<1>2. \A l \in link : l = <<l[1], l[2]>> /\ l[1] \in Node /\ l[2] \in Node  BY DEF Typed
<1>3. \A l \in link : l[1] # p /\ l[2] # p  BY <1>2 DEF Linked
<1>4. ASSUME NEW S \in (SUBSET Node) \ {{}}
      PROVE  Cardinality({l \in link' : l[1] \in S /\ l[2] \in S}) < Cardinality(S)
  <2> DEFINE E == {l \in link' : l[1] \in S /\ l[2] \in S}
             T == S \ {p}
  <2>1. Cardinality(Among(S)) < Cardinality(S)  BY DEF MeshIsForest, Among
  <2>2. CASE ~(n \in S /\ p \in S)
    <3>1. E = Among(S)  BY <2>2 DEF Among
    <3> QED  BY <3>1, <2>1
  <2>3. CASE n \in S /\ p \in S
    <3>1. T \in (SUBSET Node) \ {{}}  BY <2>3
    <3>2. E = Among(T) \cup {<<n, p>>}  BY <1>3, <2>3 DEF Among
    <3>3. <<n, p>> \notin Among(T)  BY DEF Among
    <3>4. IsFiniteSet(Among(T)) /\ Cardinality(Among(T)) \in Nat  BY AmongFinite
    <3>5. Cardinality(Among(T)) < Cardinality(T)  BY <3>1 DEF MeshIsForest, Among
    <3>6. IsFiniteSet(S) /\ Cardinality(S) \in Nat  BY NodesFinite
    <3>7. Cardinality(T) = Cardinality(S) - 1  BY <2>3, <3>6, FS_RemoveElement
    <3>8. Cardinality(E) = Cardinality(Among(T)) + 1  BY <3>2, <3>3, <3>4, FS_AddElement
    <3> HIDE DEF E, T
    <3>9. Cardinality(E) < Cardinality(S)  BY <3>4, <3>5, <3>6, <3>7, <3>8
    <3> QED  BY <3>9 DEF E
  <2> QED  BY <2>2, <2>3
<1> QED  BY <1>1, <1>4 DEF MeshIsForest

-----------------------------------------------------------------------------
LEMMA ScanningOK ==
  ASSUME NEW u \in [Timers -> Nat \cup {Off}], NEW t \in Scanning(u)
  PROVE  /\ t \in [Timers -> Nat \cup {Off}]
         /\ \A k \in Timers \ {"scan"} : t[k] = u[k]
  BY TickAssumption DEF Scanning, Timers

\* A step in which only the timers of n change, and n has advertised afterwards.
LEMMA TimerStep ==
  ASSUME IInv, NEW n \in Node, NEW t \in [Timers -> Nat \cup {Off}],
         timer' = [timer EXCEPT ![n] = t], t.adv = Off, t.wake = Off,
         t.connect = timer[n].connect,
         UNCHANGED <<target, peer, link, period, found, budget>>
  PROVE  IInv'
<1>1. Typed'  BY DEF IInv, Typed, Runs, Timers
<1>2. PastOK'  BY DEF IInv, Typed, PastOK, PastAt, Past, Awake, Runs, Linked, Timers
<1>3. MeshIsForest'  BY DEF IInv, MeshIsForest
<1> QED  BY <1>1, <1>2, <1>3 DEF IInv

LEMMA InitIInv == Init => IInv
<1> SUFFICES ASSUME Init PROVE IInv  OBVIOUS
<1>1. Typed
  BY FS_EmptySet, OffsetAssumption, BudgetAssumption, TickAssumption
  DEF Init, Typed, Asleep, Timers, Off, States, Runs
<1>2. PastOK
  BY OffsetAssumption DEF Init, PastOK, PastAt, Past, Awake, Asleep, Runs, Linked, Timers, Off
<1>3. ASSUME NEW S \in (SUBSET Node) \ {{}}
      PROVE  Cardinality({l \in link : l[1] \in S /\ l[2] \in S}) < Cardinality(S)
  <2>1. {l \in link : l[1] \in S /\ l[2] \in S} = {}  BY DEF Init
  <2>2. IsFiniteSet(S) /\ Cardinality(S) \in Nat  BY NodesFinite
  <2>3. Cardinality(S) # 0  BY <2>2, FS_EmptySet
  <2> QED  BY <2>1, <2>2, <2>3, FS_EmptySet
<1> QED  BY <1>1, <1>2, <1>3 DEF IInv, MeshIsForest

LEMMA BootIInv == ASSUME IInv, NEW n \in Node, Boot(n) PROVE IInv'
<1>1. PICK d \in 1..MaxAdv :
        /\ timer' = [timer EXCEPT ![n] = [AppMain EXCEPT !.adv = d]]
        /\ period' = [period EXCEPT ![n] = d]
  BY DEF Boot
<1>2. ~Past(n) /\ ~Runs(n, "connect")
  BY DEF IInv, PastOK, PastAt, Boot, Due, Past, Awake, Off
<1>3. [AppMain EXCEPT !.adv = d] \in [Timers -> Nat \cup {Off}]
  <2>1. Asleep(Off) \in [Timers -> Nat \cup {Off}]  BY DEF Asleep
  <2>2. AppMain \in [Timers -> Nat \cup {Off}]  BY <2>1, TickAssumption DEF AppMain, Timers
  <2> QED  BY <2>2 DEF Timers
<1>4. /\ timer' \in [Node -> [Timers -> Nat \cup {Off}]]
      /\ \A m \in Node \ {n} : timer'[m] = timer[m]
      /\ timer'[n] = [AppMain EXCEPT !.adv = d]
  BY <1>1, <1>3 DEF IInv, Typed
<1>5. [AppMain EXCEPT !.adv = d].connect = Off /\ [AppMain EXCEPT !.adv = d].scan = Off
      /\ [AppMain EXCEPT !.adv = d].wake = Off
  BY DEF AppMain, Asleep, Timers
<1>6. \A m \in Node : timer'[m].connect = timer[m].connect
  BY <1>2, <1>4, <1>5 DEF Runs
<1>7. period' \in [Node -> 0..MaxAdv]  BY <1>1, TickAssumption DEF IInv, Typed
<1>8. Typed'  BY <1>4, <1>6, <1>7 DEF IInv, Typed, Boot, Runs
<1>9. PastOK'
  <2>1. ASSUME NEW m \in Node, m # n
        PROVE  PastAt(m)'
    <3>1. PastAt(m)  BY DEF IInv, PastOK, PastAt
    <3> QED  BY <1>4, <2>1, <3>1 DEF PastAt, Boot, Past, Awake, Runs, Linked
  <2>2. PastAt(n)'
    <3>1. ~\E p \in Node : peer[n][p] # "absent" \/ Linked(n, p)
      BY <1>2 DEF IInv, PastOK, PastAt
    <3> QED  BY <1>4, <1>5, <3>1 DEF PastAt, Boot, Awake, Runs, Linked
  <2> QED  BY <2>1, <2>2 DEF PastOK, PastAt
<1>10. MeshIsForest'  BY DEF IInv, MeshIsForest, Boot
<1> QED  BY <1>9, <1>10, <1>8 DEF IInv

LEMMA SearchIInv ==
  ASSUME IInv, NEW n \in Node,
         AdvComplete(n) \/ DscComplete(n) \/ StopConnectionDiscovery(n)
  PROVE  IInv'
<1>0. timer[n] \in [Timers -> Nat \cup {Off}]  BY DEF IInv, Typed
<1>1. CASE AdvComplete(n)
  <2> DEFINE u == [timer[n] EXCEPT !.adv = Off]
  <2>1. PICK t \in Scanning(u) : timer' = [timer EXCEPT ![n] = t]  BY <1>1 DEF AdvComplete
  <2>2. u \in [Timers -> Nat \cup {Off}]  BY <1>0 DEF Timers
  <2>3. t \in [Timers -> Nat \cup {Off}] /\ \A k \in Timers \ {"scan"} : t[k] = u[k]
    BY <2>1, <2>2, ScanningOK
  <2>4. timer[n].wake = Off  BY <1>1 
    DEF AdvComplete, IInv, PastOK, PastAt, Awake, Runs, Due, Off
  <2>5. t.adv = Off /\ t.wake = Off /\ t.connect = timer[n].connect
    BY <1>0, <2>3, <2>4 DEF Timers
  <2> QED  BY <1>1, <2>1, <2>3, <2>5, TimerStep DEF AdvComplete
<1>2. CASE DscComplete(n)
  <2>1. Past(n)  BY <1>2 DEF DscComplete, IInv, PastOK, PastAt, Runs, Due, Off
  <2> DEFINE t == [timer[n] EXCEPT !.scan = Off]
  <2>2. t \in [Timers -> Nat \cup {Off}] /\ t.connect = timer[n].connect
        /\ t.adv = timer[n].adv /\ t.wake = timer[n].wake
    BY <1>0 DEF Timers
  <2>3. timer' = [timer EXCEPT ![n] = t]  BY <1>2 DEF DscComplete, IInv, Typed
  <2>4. t.adv = Off /\ t.wake = Off  BY <2>1, <2>2 DEF Past, Awake, Runs
  <2> HIDE DEF t
  <2> QED  BY <1>2, <2>2, <2>3, <2>4, TimerStep DEF DscComplete
<1>3. CASE StopConnectionDiscovery(n)
  <2>1. timer' = [timer EXCEPT ![n] = [timer[n] EXCEPT !.stop = Off]]
    BY <1>3 DEF StopConnectionDiscovery, IInv, Typed
  <2>2. \A m \in Node, k \in Timers \ {"stop"} : timer'[m][k] = timer[m][k]
    BY <2>1 DEF IInv, Typed
  <2>3. timer' \in [Node -> [Timers -> Nat \cup {Off}]]
    BY <2>1 DEF IInv, Typed, Timers
  <2>4. Typed'  BY <1>3, <2>2, <2>3 DEF IInv, Typed, StopConnectionDiscovery, Runs, Timers
  <2>5. ASSUME NEW m \in Node
        PROVE  PastAt(m)'
    <3>1. PastAt(m)  BY DEF IInv, PastOK
    <3>2. /\ timer'[m].adv = timer[m].adv /\ timer'[m].scan = timer[m].scan
          /\ timer'[m].connect = timer[m].connect /\ timer'[m].wake = timer[m].wake
      BY <2>2 DEF Timers
    <3>3. UNCHANGED <<peer, link>>  BY <1>3 DEF StopConnectionDiscovery
    <3> QED  BY <3>1, <3>2, <3>3 DEF PastAt, Past, Awake, Runs, Linked
  <2>6. MeshIsForest'  BY <1>3 DEF IInv, MeshIsForest, StopConnectionDiscovery
  <2> QED  BY <2>4, <2>5, <2>6 DEF IInv, PastOK
<1> QED  BY <1>1, <1>2, <1>3

\* meshsnsr_connect_if_interesting stops the scan and starts the attempt, or fails to.
LEMMA ConnectTimers ==
  ASSUME Typed, NEW n \in Node, NEW p \in Node, Connect(n, p)
  PROVE  /\ timer' \in [Node -> [Timers -> Nat \cup {Off}]]
         /\ \A m \in Node, k \in Timers :
              m # n \/ k \notin {"scan", "connect"} => timer'[m][k] = timer[m][k]
<1>1. CASE timer' = [timer EXCEPT ![n].scan = Off, ![n].connect = ConnectTicks]
  <2> DEFINE ts == [timer EXCEPT ![n].scan = Off]
  <2>1. /\ ts \in [Node -> [Timers -> Nat \cup {Off}]]
        /\ \A m \in Node, k \in Timers : m # n \/ k # "scan" => ts[m][k] = timer[m][k]
    BY DEF Typed, Timers
  <2>2. timer' = [ts EXCEPT ![n].connect = ConnectTicks]  BY <1>1
  <2> HIDE DEF ts
  <2>3. /\ timer' \in [Node -> [Timers -> Nat \cup {Off}]]
        /\ \A m \in Node, k \in Timers : m # n \/ k # "connect" => timer'[m][k] = ts[m][k]
    BY <2>1, <2>2, TickAssumption DEF Timers
  <2> QED  BY <2>1, <2>3
<1>2. CASE timer' = [timer EXCEPT ![n].scan = Off]
  BY <1>2 DEF Typed, Timers
<1> QED  BY <1>1, <1>2 DEF Connect

LEMMA ConnectIInv ==
  ASSUME IInv, NEW n \in Node, NEW p \in Node, Connect(n, p)
  PROVE  IInv'
<1>1. Past(n)  BY DEF IInv, PastOK, PastAt, Connect, Hears
<1>2. \A m \in Node, k \in Timers \ {"scan", "connect"} : timer'[m][k] = timer[m][k]
  BY ConnectTimers DEF IInv
<1>3. \A m \in Node \ {n}, k \in Timers : timer'[m][k] = timer[m][k]
  BY ConnectTimers DEF IInv
<1>4. timer' \in [Node -> [Timers -> Nat \cup {Off}]]  BY ConnectTimers DEF IInv
<1>5. /\ peer' \in [Node -> [Node -> States]]
      /\ link' \subseteq Node \X Node /\ IsFiniteSet(link')
      /\ period' \in [Node -> 0..MaxAdv] /\ found' \in [Node -> BOOLEAN]
  BY DEF IInv, Typed, Connect
<1>6. budget' \in Nat  BY DEF IInv, Typed, Connect, Disturbed
<1>7. target' \in [Node -> SUBSET Node]
  <2>1. target \in [Node -> SUBSET Node] /\ {p} \in SUBSET Node  BY DEF IInv, Typed
  <2>2. target' = target \/ target' = [target EXCEPT ![n] = {p}]  BY DEF Connect
  <2> QED  BY <2>1, <2>2
<1>8. ASSUME NEW m \in Node
       PROVE  IF Runs(m, "connect")' THEN \E q \in Node : target'[m] = {q} ELSE target'[m] = {}
  <2>1. IF Runs(m, "connect") THEN \E q \in Node : target[m] = {q} ELSE target[m] = {}
    BY DEF IInv, Typed
  <2>2. CASE m # n
    <3>1. timer'[m].connect = timer[m].connect  BY <1>3, <2>2 DEF Timers
    <3>2. target'[m] = target[m]  BY <2>2 DEF Connect, IInv, Typed
    <3> QED  BY <2>1, <3>1, <3>2 DEF Runs
  <2>3. CASE /\ m = n
             /\ timer' = [timer EXCEPT ![n].scan = Off, ![n].connect = ConnectTicks]
             /\ target' = [target EXCEPT ![n] = {p}]
    <3>1. timer'[n].connect # Off
      BY <2>3, TickAssumption DEF IInv, Typed, Timers, Off
    <3>2. target'[n] = {p}  BY <2>3 DEF IInv, Typed
    <3> QED  BY <2>3, <3>1, <3>2 DEF Runs
  <2>4. CASE m = n /\ timer' = [timer EXCEPT ![n].scan = Off] /\ UNCHANGED target
    <3>1. timer'[n].connect = timer[n].connect  BY <2>4 DEF IInv, Typed, Timers
    <3> QED  BY <2>1, <2>4, <3>1 DEF Runs
  <2> QED  BY <2>2, <2>3, <2>4 DEF Connect
<1>9. Typed'  BY <1>4, <1>5, <1>6, <1>7, <1>8 DEF Typed
<1>10. PastOK'
  BY <1>1, <1>2, <1>3 DEF IInv, PastOK, PastAt, Connect, Past, Awake, Runs, Linked, Timers
<1>11. MeshIsForest'  BY DEF IInv, MeshIsForest, Connect
<1> QED  BY <1>10, <1>11, <1>9 DEF IInv

\* A node that does not try to connect any more has no target.
LEMMA TargetDropped ==
  ASSUME Typed, NEW n \in Node, target' = [target EXCEPT ![n] = {}],
         \A m \in Node : timer'[m].connect = IF m = n THEN Off ELSE timer[m].connect
  PROVE  /\ target' \in [Node -> SUBSET Node]
         /\ \A m \in Node : IF Runs(m, "connect")' THEN \E p \in Node : target'[m] = {p}
                                                   ELSE target'[m] = {}
<1>1. target' \in [Node -> SUBSET Node]  BY DEF Typed
<1>2. ASSUME NEW m \in Node
      PROVE  IF Runs(m, "connect")' THEN \E p \in Node : target'[m] = {p}
                                    ELSE target'[m] = {}
  <2>1. CASE m = n
    <3>1. target'[m] = {}  BY <2>1 DEF Typed
    <3>2. ~Runs(m, "connect")'  BY <2>1 DEF Runs
    <3> QED  BY <3>1, <3>2
  <2>2. CASE m # n
    <3>1. target'[m] = target[m]  BY <2>2 DEF Typed
    <3>2. Runs(m, "connect")' <=> Runs(m, "connect")  BY <2>2 DEF Runs
    <3> QED  BY <3>1, <3>2 DEF Typed
  <2> QED  BY <2>1, <2>2
<1> QED  BY <1>1, <1>2

LEMMA ConnectedIInv ==
  ASSUME IInv, NEW n \in Node, NEW p \in Node, Connected(n, p)
  PROVE  IInv'
<1>1. Runs(n, "connect") /\ Runs(p, "adv")
  BY DEF IInv, Typed, Connected, Connects
<1>2. Past(n) /\ Awake(p) /\ n # p  BY <1>1 DEF IInv, PastOK, PastAt, Past
<1>3. \A q \in Node : ~Linked(p, q)  BY <1>1 DEF IInv, PastOK, PastAt, Past
<1> DEFINE ts == [timer EXCEPT ![n].connect = Off]
<1>4. /\ ts \in [Node -> [Timers -> Nat \cup {Off}]]
      /\ \A m \in Node, k \in Timers :
           ts[m][k] = IF m = n /\ k = "connect" THEN Off ELSE timer[m][k]
  BY DEF IInv, Typed, Timers
<1>5. timer' = [ts EXCEPT ![p].adv = Off]  BY DEF Connected
<1> HIDE DEF ts
<1>6. /\ timer' \in [Node -> [Timers -> Nat \cup {Off}]]
      /\ \A m \in Node, k \in Timers :
           timer'[m][k] = IF m = p /\ k = "adv" THEN Off ELSE ts[m][k]
  BY <1>4, <1>5 DEF Timers
<1>7. MeshIsForest' /\ IsFiniteSet(link')
  BY <1>2, <1>3, ForestGrows DEF IInv, Connected
<1>8. peer' \in [Node -> [Node -> States]]
      /\ \A m \in Node \ {n, p} : peer'[m] = peer[m]
  <2>1. peer \in [Node -> [Node -> States]]  BY DEF IInv, Typed
  <2>2. PICK s \in States, t \in States : peer' = [peer EXCEPT ![n][p] = s, ![p][n] = t]
    BY DEF Connected, States
  <2> DEFINE q == [peer EXCEPT ![n][p] = s]
  <2>3. q \in [Node -> [Node -> States]] /\ \A m \in Node \ {n} : q[m] = peer[m]
    BY <2>1
  <2>4. peer' = [q EXCEPT ![p][n] = t]  BY <2>2
  <2> HIDE DEF q
  <2> QED  BY <2>3, <2>4
<1>9. Typed'
  <2>1. /\ target' \in [Node -> SUBSET Node]
        /\ \A m \in Node : IF Runs(m, "connect")' THEN \E q \in Node : target'[m] = {q}
                                                  ELSE target'[m] = {}
    <3>1. \A m \in Node : timer'[m].connect = IF m = n THEN Off ELSE timer[m].connect
      BY <1>4, <1>6 DEF Timers
    <3> QED  BY <3>1, TargetDropped DEF IInv, Connected
  <2>2. link' \subseteq Node \X Node /\ budget' \in Nat
    BY DEF IInv, Typed, Connected, Disturbed
  <2>3. period' \in [Node -> 0..MaxAdv] /\ found' \in [Node -> BOOLEAN]
    BY DEF IInv, Typed, Connected
  <2> QED  BY <1>6, <1>7, <1>8, <2>1, <2>2, <2>3 DEF Typed
<1>10. PastOK'
  <2> SUFFICES ASSUME NEW m \in Node
               PROVE  /\ Runs(m, "adv")' => Awake(m)'
                      /\ \/ Runs(m, "scan")' \/ Runs(m, "connect")'
                         \/ \E q \in Node : peer'[m][q] # "absent" \/ Linked(m, q)'
                         => Past(m)'
    BY DEF PastOK, PastAt
  <2>1. Awake(m)' <=> Awake(m)  BY <1>4, <1>6 DEF Awake, Timers
  <2>2. CASE m \in {n, p}
    <3>1. Past(m)'  BY <1>2, <1>4, <1>6, <2>1, <2>2 DEF Past, Runs, Timers
    <3> QED  BY <3>1 DEF Past
  <2>3. CASE m \notin {n, p}
    <3>1. \A k \in Timers : timer'[m][k] = timer[m][k]
      BY <1>4, <1>6, <2>3
    <3>2. \A q \in Node : Linked(m, q)' <=> Linked(m, q)
      BY <2>3 DEF Connected, Linked
    <3>3. peer'[m] = peer[m]  BY <1>8, <2>3
    <3> QED  BY <3>1, <3>2, <3>3 DEF IInv, PastOK, PastAt, Past, Awake, Runs, Timers
  <2> QED  BY <2>2, <2>3
<1> QED  BY <1>7, <1>9, <1>10 DEF IInv

LEMMA ConnectFailsIInv == ASSUME IInv, NEW n \in Node, ConnectFails(n) PROVE IInv'
<1>1. \A m \in Node, k \in Timers \ {"connect"} : timer'[m][k] = timer[m][k]
  BY DEF IInv, Typed, ConnectFails
<1>2. \A m \in Node : timer'[m].connect = IF m = n THEN Off ELSE timer[m].connect
  BY DEF IInv, Typed, ConnectFails, Timers
<1>3. timer' \in [Node -> [Timers -> Nat \cup {Off}]]
  BY DEF IInv, Typed, ConnectFails, Timers
<1>4. Typed'
  <2>1. /\ target' \in [Node -> SUBSET Node]
        /\ \A m \in Node : IF Runs(m, "connect")' THEN \E q \in Node : target'[m] = {q}
                                                  ELSE target'[m] = {}
    BY <1>2, TargetDropped DEF IInv, ConnectFails
  <2>2. budget' \in Nat  BY DEF IInv, Typed, ConnectFails, Disturbed
  <2>3. UNCHANGED <<peer, link, period, found>>  BY DEF ConnectFails
  <2> QED  BY <1>3, <2>1, <2>2, <2>3 DEF IInv, Typed
<1>5. PastOK'
  BY <1>1, <1>2 DEF IInv, PastOK, PastAt, ConnectFails, Past, Awake, Runs, Linked, Timers
<1>6. MeshIsForest'  BY DEF IInv, MeshIsForest, ConnectFails
<1> QED  BY <1>4, <1>5, <1>6 DEF IInv

\* A step in which connections end, and a node that has advertised may scan.
LEMMA EndStep ==
  ASSUME IInv, NEW n \in Node, Past(n), NEW u \in Scanning(timer[n]),
         timer' = [timer EXCEPT ![n] = u],
         link' \subseteq link,
         peer' \in [Node -> [Node -> States]],
         \A m, q \in Node : peer'[m][q] # "absent" => peer[m][q] # "absent",
         budget' \in Nat, UNCHANGED <<target, period, found>>
  PROVE  IInv'
<1>1. timer[n] \in [Timers -> Nat \cup {Off}]  BY DEF IInv, Typed
<1>2. u \in [Timers -> Nat \cup {Off}] /\ \A k \in Timers \ {"scan"} : u[k] = timer[n][k]
  BY <1>1, ScanningOK
<1>3. \A m \in Node, k \in Timers \ {"scan"} : timer'[m][k] = timer[m][k]
  BY <1>2 DEF IInv, Typed
<1>4. \A m \in Node \ {n} : timer'[m] = timer[m]  BY DEF IInv, Typed
<1>5. MeshIsForest' /\ IsFiniteSet(link')  BY ForestShrinks DEF IInv
<1>6. Typed'
  <2>1. timer' \in [Node -> [Timers -> Nat \cup {Off}]]  BY <1>2 DEF IInv, Typed
  <2>2. \A m \in Node : Runs(m, "connect")' <=> Runs(m, "connect")  BY <1>3 DEF Runs, Timers
  <2> QED  BY <1>5, <2>1, <2>2 DEF IInv, Typed
<1>7. PastOK'
  <2> SUFFICES ASSUME NEW m \in Node
               PROVE  /\ Runs(m, "adv")' => Awake(m)'
                      /\ \/ Runs(m, "scan")' \/ Runs(m, "connect")'
                         \/ \E p \in Node : peer'[m][p] # "absent" \/ Linked(m, p)'
                         => Past(m)'
    BY DEF PastOK, PastAt
  <2>1. /\ Runs(m, "adv")' <=> Runs(m, "adv")
        /\ Runs(m, "connect")' <=> Runs(m, "connect")
        /\ Awake(m)' <=> Awake(m)
        /\ Past(m)' <=> Past(m)
    BY <1>3 DEF Runs, Awake, Past, Timers
  <2>2. \A p \in Node : (peer'[m][p] # "absent" => peer[m][p] # "absent")
                       /\ (Linked(m, p)' => Linked(m, p))
    BY DEF Linked
  <2>3. CASE m = n  BY <2>1, <2>3 DEF Past
  <2>4. CASE m # n
    <3>1. Runs(m, "scan")' <=> Runs(m, "scan")  BY <1>4, <2>4 DEF Runs
    <3> QED  BY <2>1, <2>2, <3>1 DEF IInv, PastOK, PastAt
  <2> QED  BY <2>3, <2>4
<1> QED  BY <1>5, <1>6, <1>7 DEF IInv

LEMMA LinkIInv ==
  ASSUME IInv, NEW n \in Node, NEW p \in Node,
         DiscComplete(n, p) \/ LinkLoss(n, p) \/ Disconnect(n, p)
  PROVE  IInv'
<1>1. CASE DiscComplete(n, p)
  <2>1. Past(n)  BY <1>1 DEF DiscComplete, IInv, PastOK, PastAt
  <2>2. PICK u \in Scanning(timer[n]) : timer' = [timer EXCEPT ![n] = u]
    BY <1>1 DEF DiscComplete
  <2>3. peer' \in [Node -> [Node -> States]]
        /\ \A m, q \in Node : peer'[m][q] # "absent" => peer[m][q] # "absent"
    <3>1. peer \in [Node -> [Node -> States]] /\ peer[n][p] = "discovering"
      BY <1>1 DEF DiscComplete, IInv, Typed
    <3>2. PICK s \in {"ready", "silent"} : peer' = [peer EXCEPT ![n][p] = s]
      BY <1>1 DEF DiscComplete
    <3>3. \A m, q \in Node :
            peer'[m][q] = IF m = n /\ q = p THEN s ELSE peer[m][q]
      BY <3>1, <3>2
    <3>4. peer' \in [Node -> [Node -> States]]  BY <3>1, <3>2 DEF States
    <3> QED  BY <3>1, <3>3, <3>4
  <2>4. link' \subseteq link /\ budget' \in Nat
    BY <1>1 DEF DiscComplete, IInv, Typed, Unlinked, Disturbed
  <2> QED  BY <1>1, <2>1, <2>2, <2>3, <2>4, EndStep DEF DiscComplete
<1>2. CASE LinkLoss(n, p)
  <2>1. link' \subseteq link /\ budget' \in Nat
    BY <1>2 DEF LinkLoss, IInv, Typed, Unlinked, Disturbed
  <2>2. MeshIsForest' /\ IsFiniteSet(link')  BY <2>1, ForestShrinks DEF IInv
  <2>3. Typed'  BY <1>2, <2>1, <2>2 DEF IInv, Typed, LinkLoss, Runs
  <2>4. PastOK'  BY <1>2, <2>1 DEF IInv, PastOK, PastAt, LinkLoss, Past, Awake, Runs, Linked
  <2> QED  BY <2>2, <2>3, <2>4 DEF IInv
<1>3. CASE Disconnect(n, p)
  <2>1. Past(n)  BY <1>3 DEF Disconnect, IInv, PastOK, PastAt
  <2>2. peer' \in [Node -> [Node -> States]]
        /\ \A m, q \in Node : peer'[m][q] # "absent" => peer[m][q] # "absent"
    BY <1>3 DEF Disconnect, IInv, Typed, States
  <2>3. CASE peer[n][p] = "discovering"
    <3>1. PICK u \in Scanning(timer[n]) : timer' = [timer EXCEPT ![n] = u]
      BY <1>3, <2>3 DEF Disconnect
    <3>2. budget' \in Nat  BY <1>3 DEF Disconnect, IInv, Typed
    <3> QED  BY <1>3, <2>1, <2>2, <3>1, <3>2, EndStep DEF Disconnect
  <2>4. CASE peer[n][p] # "discovering"
    <3>1. Typed'  BY <1>3, <2>2, <2>4 DEF IInv, Typed, Disconnect, Runs
    <3>2. PastOK'
      BY <1>3, <2>2, <2>4 DEF IInv, PastOK, PastAt, Disconnect, Past, Awake, Runs, Linked
    <3>3. MeshIsForest'  BY <1>3 DEF IInv, MeshIsForest, Disconnect
    <3> QED  BY <3>1, <3>2, <3>3 DEF IInv
  <2> QED  BY <2>3, <2>4
<1> QED  BY <1>1, <1>2, <1>3

LEMMA PowerDownIInv ==
  ASSUME IInv, NEW n \in Node, PowerDown(n), budget' \in Nat
  PROVE  IInv'
<1>1. link' \subseteq link  BY DEF PowerDown
<1>2. MeshIsForest' /\ IsFiniteSet(link')  BY <1>1, ForestShrinks DEF IInv
<1>3. Asleep(SleepTicks) \in [Timers -> Nat \cup {Off}]  BY TickAssumption DEF Asleep
<1>4. Typed'
  <2>1. timer' \in [Node -> [Timers -> Nat \cup {Off}]]
    BY <1>3 DEF IInv, Typed, PowerDown
  <2>2. target' \in [Node -> SUBSET Node]  BY DEF IInv, Typed, PowerDown
  <2>3. ASSUME NEW m \in Node
        PROVE  IF Runs(m, "connect")' THEN \E p \in Node : target'[m] = {p}
                                      ELSE target'[m] = {}
    <3>1. CASE m = n
      <4>1. timer'[m] = Asleep(SleepTicks) /\ target'[m] = {}
        BY <3>1 DEF PowerDown, IInv, Typed
      <4> QED  BY <4>1 DEF Asleep, Runs, Timers
    <3>2. CASE m # n
      <4>1. timer'[m] = timer[m] /\ target'[m] = target[m]
        BY <3>2 DEF PowerDown, IInv, Typed
      <4> QED  BY <4>1 DEF IInv, Typed, Runs
    <3> QED  BY <3>1, <3>2
  <2>4. peer' \in [Node -> [Node -> States]]  BY DEF IInv, Typed, PowerDown, States
  <2>5. period' \in [Node -> 0..MaxAdv] /\ found' \in [Node -> BOOLEAN]
    BY TickAssumption DEF IInv, Typed, PowerDown
  <2> QED  BY <1>1, <1>2, <2>1, <2>2, <2>3, <2>4, <2>5 DEF IInv, Typed
<1>5. PastOK'
  <2> SUFFICES ASSUME NEW m \in Node
               PROVE  /\ Runs(m, "adv")' => Awake(m)'
                      /\ \/ Runs(m, "scan")' \/ Runs(m, "connect")'
                         \/ \E p \in Node : peer'[m][p] # "absent" \/ Linked(m, p)'
                         => Past(m)'
    BY DEF PastOK, PastAt
  <2>1. CASE m = n
    <3>1. timer'[n] = Asleep(SleepTicks) /\ \A p \in Node : peer'[n][p] = "absent"
      BY DEF PowerDown, IInv, Typed
    <3>2. \A p \in Node : ~Linked(n, p)'  BY DEF PowerDown, Linked
    <3> QED  BY <2>1, <3>1, <3>2 DEF Asleep, Runs, Timers
  <2>2. CASE m # n
    <3>1. timer'[m] = timer[m] /\ peer'[m] = peer[m]
      BY <2>2 DEF PowerDown, IInv, Typed
    <3> QED  BY <1>1, <3>1 DEF IInv, PastOK, PastAt, Past, Awake, Runs, Linked
  <2> QED  BY <2>1, <2>2
<1> QED  BY <1>2, <1>4, <1>5 DEF IInv

LEMMA TickIInv == IInv /\ Tick => IInv'
<1> SUFFICES ASSUME IInv, Tick PROVE IInv'  OBVIOUS
<1>1. \A n \in Node, k \in Timers :
        /\ timer'[n][k] \in Nat \cup {Off}
        /\ timer'[n][k] = Off <=> timer[n][k] = Off
  <2> TAKE n \in Node, k \in Timers
  <2>1. timer'[n][k] = IF timer[n][k] = Off THEN Off ELSE timer[n][k] - 1  BY DEF Tick
  <2>2. timer[n][k] \in Nat \cup {Off} /\ timer[n][k] # 0  BY DEF Tick, Due, IInv, Typed
  <2> QED  BY <2>1, <2>2 DEF Off
<1>2. timer' \in [Node -> [Timers -> Nat \cup {Off}]]  BY <1>1 DEF Tick
<1>3. Typed'  BY <1>1, <1>2 DEF IInv, Typed, Tick, Runs, Timers
<1>4. PastOK'  BY <1>1 DEF IInv, PastOK, PastAt, Tick, Past, Awake, Runs, Linked, Timers
<1>5. MeshIsForest'  BY DEF IInv, MeshIsForest, Tick
<1> QED  BY <1>3, <1>4, <1>5 DEF IInv

LEMMA NextIInv == IInv /\ [Next]_vars => IInv'
<1> SUFFICES ASSUME IInv, [Next]_vars PROVE IInv'  OBVIOUS
<1>1. CASE \E n \in Node : Boot(n)  BY <1>1, BootIInv
<1>2. CASE \E n \in Node : AdvComplete(n) \/ DscComplete(n) \/ StopConnectionDiscovery(n)
  BY <1>2, SearchIInv
<1>3. CASE \E n \in Node : ConnectFails(n)  BY <1>3, ConnectFailsIInv
<1>4. CASE \E n \in Node : ForcedSleep(n)
  BY <1>4, PowerDownIInv DEF ForcedSleep, IInv, Typed
<1>5. CASE \E n \in Node : GoToSleep(n)
  <2>1. budget' \in Nat  BY <1>5 DEF GoToSleep, Disturbed, IInv, Typed
  <2> QED  BY <1>5, <2>1, PowerDownIInv DEF GoToSleep
<1>6. CASE \E n, p \in Node : Connect(n, p)  BY <1>6, ConnectIInv
<1>7. CASE \E n, p \in Node : Connected(n, p)  BY <1>7, ConnectedIInv
<1>8. CASE \E n, p \in Node : DiscComplete(n, p) \/ LinkLoss(n, p) \/ Disconnect(n, p)
  BY <1>8, LinkIInv
<1>9. CASE Tick  BY <1>9, TickIInv
<1>10. CASE UNCHANGED vars
  BY <1>10 DEF vars, IInv, Typed, PastOK, PastAt, Past, Awake, Runs, Linked, MeshIsForest
<1> QED  BY <1>1, <1>2, <1>3, <1>4, <1>5, <1>6, <1>7, <1>8, <1>9, <1>10 DEF Next

-----------------------------------------------------------------------------
\* Whatever happens, only nodes that have advertised have connections, and these
\* form no cycle.
THEOREM Invariance == Spec => []IInv
<1> QED  BY InitIInv, NextIInv, PTL DEF Spec

\* Each variable keeps to its range, and only a node that tries to connect has a
\* target (meshsnsr_connect_if_interesting and the connection events).
THEOREM TypeCorrect == Spec => []TypeOK
<1>1. IInv => TypeOK
  BY FS_EmptySet, FS_Singleton DEF IInv, Typed, TypeOK
<1> QED  BY <1>1, Invariance, PTL

\* For any number of nodes and any durations, the connections never form a cycle:
\* a node that connects has advertised, and one that is connected to had none.
THEOREM Forest == Spec => []MeshIsForest
<1>1. IInv => MeshIsForest  BY DEF IInv
<1> QED  BY <1>1, Invariance, PTL

-----------------------------------------------------------------------------
(* Time: nobody is overlooked.                                             *)

\* The ticks since n booted.
Elapsed(n) == AwakeTicks - timer[n].sleep

\* The timers of a node that is awake and its history belong together: it has
\* advertised for its whole period or has been found before, and unless it has
\* found or was found by another node it scans when its period is over.
ClockOK(n) ==
  Awake(n) =>
    /\ timer[n].sleep \in 0..AwakeTicks /\ period[n] \in 1..MaxAdv
    /\ IF Runs(n, "stop") THEN timer[n].stop = StopTicks - Elapsed(n)
                          ELSE Elapsed(n) >= StopTicks
    /\ IF Runs(n, "adv") THEN timer[n].adv = period[n] - Elapsed(n)
       ELSE \/ found[n] \/ Elapsed(n) > period[n]
            \/ Elapsed(n) = period[n] /\ (period[n] < StopTicks => timer[n].scan >= 1)
    /\ Runs(n, "connect") \/ (\E p \in Node : peer[n][p] # "absent") => found[n]

\* One tick after n has stopped advertising, it or p is not alone any more.
Met(n, p) ==
  /\ n # p /\ {n, p} \in InRange /\ Awake(n) /\ Awake(p)
  /\ Overlap(n, p) /\ Elapsed(n) > period[n]
  => found[n] \/ found[p]

TimeInv == IInv /\ (\A n \in Node : ClockOK(n)) /\ \A n, p \in Node : Met(n, p)

\* What a step leaves of the timers and the history of m, if m is awake after it.
Kept(m) ==
  Awake(m)' =>
    /\ Awake(m) /\ timer'[m].sleep = timer[m].sleep /\ period'[m] = period[m]
    /\ found[m] => found'[m]

\* It leaves them alone, or m has found or was found by a node.
Quiet(m) ==
  /\ timer'[m].adv = timer[m].adv
  /\ timer'[m].scan = timer[m].scan \/ timer[m].scan = 0
  /\ Runs(m, "connect")' => Runs(m, "connect")
  /\ \A p \in Node : peer'[m][p] # "absent" => peer[m][p] # "absent"

Undisturbed(m) ==
  /\ Kept(m)
  /\ Awake(m)' =>
       /\ timer'[m].stop = timer[m].stop
       /\ Quiet(m) \/ (found'[m] /\ timer'[m].adv \in {timer[m].adv, Off})

\* A node that such a step does not concern keeps its time.
LEMMA ClockKept ==
  ASSUME Typed, NEW m \in Node, ClockOK(m), Undisturbed(m)
  PROVE  ClockOK(m)'
<1> SUFFICES ASSUME Awake(m)'
             PROVE  /\ timer'[m].sleep \in 0..AwakeTicks /\ period'[m] \in 1..MaxAdv
                    /\ IF Runs(m, "stop")' THEN timer'[m].stop = StopTicks - Elapsed(m)'
                                           ELSE Elapsed(m)' >= StopTicks
                    /\ IF Runs(m, "adv")' THEN timer'[m].adv = period'[m] - Elapsed(m)'
                       ELSE \/ found'[m] \/ Elapsed(m)' > period'[m]
                            \/ /\ Elapsed(m)' = period'[m]
                               /\ period'[m] < StopTicks => timer'[m].scan >= 1
                    /\ Runs(m, "connect")' \/ (\E p \in Node : peer'[m][p] # "absent")
                         => found'[m]
  BY DEF ClockOK
<1>1. /\ Awake(m) /\ timer'[m].sleep = timer[m].sleep /\ period'[m] = period[m]
      /\ found[m] => found'[m]
      /\ timer'[m].stop = timer[m].stop
      /\ Quiet(m) \/ (found'[m] /\ timer'[m].adv \in {timer[m].adv, Off})
  BY DEF Undisturbed, Kept
<1>2. Elapsed(m)' = Elapsed(m)
  BY <1>1 DEF Elapsed
<1>3. /\ timer'[m].sleep \in 0..AwakeTicks /\ period'[m] \in 1..MaxAdv
      /\ IF Runs(m, "stop")' THEN timer'[m].stop = StopTicks - Elapsed(m)'
                             ELSE Elapsed(m)' >= StopTicks
  BY <1>1, <1>2 DEF ClockOK, Runs
<1>4. CASE Quiet(m)
  <2>1. Runs(m, "adv")' <=> Runs(m, "adv")
    BY <1>4 DEF Quiet, Runs
  <2>2. timer[m].scan >= 1 => timer'[m].scan >= 1
    BY <1>4 DEF Quiet
  <2> QED
    BY <1>1, <1>2, <1>3, <1>4, <2>1, <2>2 DEF ClockOK, Quiet
<1>5. CASE found'[m] /\ timer'[m].adv \in {timer[m].adv, Off}
  BY <1>1, <1>2, <1>3, <1>5 DEF ClockOK, Runs
<1> QED
  BY <1>1, <1>4, <1>5

\* Nor does a step make two nodes that met alone again while both are awake.
LEMMA MetKept ==
  ASSUME NEW n \in Node, NEW p \in Node, Met(n, p), Kept(n), Kept(p)
  PROVE  Met(n, p)'
<1> SUFFICES ASSUME n # p, {n, p} \in InRange, Awake(n)', Awake(p)', Overlap(n, p)',
                    Elapsed(n)' > period'[n]
             PROVE  found'[n] \/ found'[p]
  BY DEF Met
<1>1. /\ Awake(n) /\ timer'[n].sleep = timer[n].sleep /\ period'[n] = period[n]
      /\ Awake(p) /\ timer'[p].sleep = timer[p].sleep /\ period'[p] = period[p]
  BY DEF Kept
<1>2. Overlap(n, p) /\ Elapsed(n) > period[n]
  BY <1>1 DEF Overlap, AdvEnd, Elapsed
<1> QED
  BY <1>1, <1>2 DEF Met, Kept

\* A step that concerns no node keeps the invariant.
LEMMA TimeKept ==
  ASSUME TimeInv, IInv', \A m \in Node : Undisturbed(m)
  PROVE  TimeInv'
<1>1. \A m \in Node : Kept(m)
  BY DEF Undisturbed
<1>2. \A m \in Node : ClockOK(m)'
  BY ClockKept DEF TimeInv, IInv
<1>3. \A n, p \in Node : Met(n, p)'
  BY <1>1, MetKept DEF TimeInv
<1> QED
  BY <1>2, <1>3 DEF TimeInv

-----------------------------------------------------------------------------
\* All nodes sleep at first.
LEMMA InitTime == Init => TimeInv
<1> SUFFICES ASSUME Init PROVE TimeInv
  OBVIOUS
<1>1. IInv
  BY InitIInv
<1>2. \A n \in Node : ~Awake(n)
  BY OffsetAssumption DEF Init, Awake, Asleep, Timers, Off
<1> QED
  BY <1>1, <1>2 DEF TimeInv, ClockOK, Met

\* A node that wakes up has its whole time before it.
LEMMA BootTime == ASSUME TimeInv, NEW n \in Node, Boot(n) PROVE TimeInv'
<1>1. IInv'
  BY BootIInv DEF TimeInv
<1>2. PICK d \in 1..MaxAdv :
        /\ timer' = [timer EXCEPT ![n] = [AppMain EXCEPT !.adv = d]]
        /\ period' = [period EXCEPT ![n] = d]
  BY DEF Boot
<1>3. /\ timer'[n].sleep = AwakeTicks /\ timer'[n].stop = StopTicks
      /\ timer'[n].adv = d /\ timer'[n].connect = Off /\ period'[n] = d
  BY <1>2 DEF TimeInv, IInv, Typed, AppMain, Asleep, Timers
<1>4. \A p \in Node : peer'[n][p] = "absent"
  <2>1. ~Awake(n)
    BY DEF Boot, Due, Awake, Off
  <2> QED
    BY <2>1 DEF TimeInv, IInv, PastOK, PastAt, Past, Boot
<1>5. \A m \in Node \ {n} : Undisturbed(m)
  <2> TAKE m \in Node \ {n}
  <2>1. timer'[m] = timer[m] /\ period'[m] = period[m] /\ found' = found /\ peer' = peer
    BY <1>2 DEF Boot, TimeInv, IInv, Typed
  <2> QED
    BY <2>1 DEF Undisturbed, Kept, Quiet, Awake, Runs
<1>6. AwakeTicks \in Nat \ {0} /\ StopTicks \in Nat \ {0}
  BY TickAssumption
<1>7. Elapsed(n)' = 0
  BY <1>3, <1>6 DEF Elapsed
<1>8. ClockOK(n)'
  BY <1>3, <1>4, <1>6, <1>7 DEF ClockOK, Runs, Off
<1>9. \A m \in Node : ClockOK(m)'
  BY <1>5, <1>8, ClockKept DEF TimeInv, IInv
<1>10. ASSUME NEW m \in Node, NEW p \in Node PROVE Met(m, p)'
  <2>1. CASE m = n
    BY <1>3, <1>7, <2>1 DEF Met
  <2>2. CASE m # n /\ p = n
    <3>1. timer'[p].sleep = AwakeTicks
      BY <1>3, <2>2
    <3>2. Awake(m)' => timer'[m].sleep \in 0..AwakeTicks /\ period'[m] \in 1..MaxAdv
      BY <1>9 DEF ClockOK
    <3>3. Awake(m)' /\ Overlap(m, p)' => ~(Elapsed(m)' > period'[m])
      BY <1>6, <3>1, <3>2 DEF Overlap, AdvEnd, Elapsed
    <3> QED
      BY <3>3 DEF Met
  <2>3. CASE m # n /\ p # n
    BY <1>5, <2>3, MetKept DEF TimeInv, Undisturbed
  <2> QED
    BY <2>1, <2>2, <2>3
<1> QED
  BY <1>1, <1>9, <1>10 DEF TimeInv

\* A timer of n that is stopped.
LEMMA TimerOff ==
  ASSUME Typed, NEW n \in Node, NEW k \in Timers, timer' = [timer EXCEPT ![n][k] = Off]
  PROVE  \A m \in Node, t \in Timers :
           timer'[m][t] = IF m = n /\ t = k THEN Off ELSE timer[m][t]
BY DEF Typed

\* A node that stops advertising and was not found scans, if it may still search.
LEMMA AdvCompleteTime == ASSUME TimeInv, NEW n \in Node, AdvComplete(n) PROVE TimeInv'
<1>1. IInv'
  BY SearchIInv DEF TimeInv
<1> DEFINE u == [timer[n] EXCEPT !.adv = Off]
<1>2. PICK t \in Scanning(u) : timer' = [timer EXCEPT ![n] = t]
  BY DEF AdvComplete
<1>3. timer[n] \in [Timers -> Nat \cup {Off}]
  BY DEF TimeInv, IInv, Typed
<1>4. /\ u \in [Timers -> Nat \cup {Off}] /\ u.adv = Off
      /\ \A k \in Timers \ {"adv"} : u[k] = timer[n][k]
  BY <1>3 DEF Timers
<1>5. /\ \A k \in Timers \ {"adv", "scan"} : timer'[n][k] = timer[n][k]
      /\ timer'[n].adv = Off /\ timer'[n].scan = t.scan
  <2>1. timer'[n] = t
    BY <1>2 DEF TimeInv, IInv, Typed
  <2>2. \A k \in Timers \ {"scan"} : t[k] = u[k]
    BY <1>2, <1>4, ScanningOK
  <2> QED
    BY <1>4, <2>1, <2>2 DEF Timers
<1>6. \A m \in Node \ {n} : Undisturbed(m)
  <2> TAKE m \in Node \ {n}
  <2>1. timer'[m] = timer[m] /\ period' = period /\ found' = found /\ peer' = peer
    BY <1>2 DEF AdvComplete, TimeInv, IInv, Typed
  <2> QED
    BY <2>1 DEF Undisturbed, Kept, Quiet, Awake, Runs
<1>7. period' = period /\ found' = found /\ peer' = peer
  BY DEF AdvComplete
<1>8. Kept(n)
  BY <1>5, <1>7 DEF Kept, Awake, Timers
<1>9. Runs(n, "adv") /\ timer[n].adv = 0 /\ Awake(n)
  BY DEF AdvComplete, Due, Runs, Off, TimeInv, IInv, PastOK, PastAt
<1>10. timer[n].sleep \in 0..AwakeTicks /\ period[n] \in 1..MaxAdv /\ Elapsed(n) = period[n]
  <2>1. timer[n].sleep \in 0..AwakeTicks /\ period[n] \in 1..MaxAdv
        /\ 0 = period[n] - Elapsed(n)
    BY <1>9 DEF TimeInv, ClockOK
  <2> QED
    BY <2>1, TickAssumption DEF Elapsed
<1>11. period[n] < StopTicks => t.scan >= 1
  <2> SUFFICES ASSUME period[n] < StopTicks PROVE t.scan >= 1
    OBVIOUS
  <2>1. ~(Elapsed(n) >= StopTicks)
    BY <1>10, TickAssumption DEF Elapsed
  <2>2. u.stop # Off
    BY <1>4, <1>9, <2>1 DEF TimeInv, ClockOK, Runs, Timers
  <2>3. ~Past(n)
    BY <1>9 DEF Past
  <2>4. u.scan = Off /\ u.connect = Off
    BY <1>4, <2>3 DEF TimeInv, IInv, PastOK, PastAt, Runs, Timers
  <2>5. PICK d \in 1..MaxDsc : t = [u EXCEPT !.scan = d]
    BY <1>2, <2>2, <2>4 DEF Scanning
  <2>6. t.scan = d
    BY <1>4, <2>5 DEF Timers
  <2> QED
    BY <2>6, TickAssumption
<1>12. Elapsed(n)' = Elapsed(n)
  BY <1>5 DEF Elapsed, Timers
<1>13. ClockOK(n)'
  <2> HIDE DEF u
  <2>1. timer'[n].sleep = timer[n].sleep /\ timer'[n].stop = timer[n].stop
        /\ timer'[n].connect = timer[n].connect
    BY <1>5 DEF Timers
  <2>2. IF Runs(n, "stop") THEN timer[n].stop = StopTicks - Elapsed(n)
                           ELSE Elapsed(n) >= StopTicks
    BY <1>9 DEF TimeInv, ClockOK
  <2>3. Runs(n, "connect") \/ (\E p \in Node : peer[n][p] # "absent") => found[n]
    BY <1>9 DEF TimeInv, ClockOK
  <2>4. ~Runs(n, "adv")'
    BY <1>5 DEF Runs
  <2> QED
    BY <1>5, <1>7, <1>10, <1>11, <1>12, <2>1, <2>2, <2>3, <2>4 DEF ClockOK, Runs
<1>14. \A m \in Node : ClockOK(m)'
  BY <1>6, <1>13, ClockKept DEF TimeInv, IInv
<1>15. \A m, p \in Node : Met(m, p)'
  BY <1>6, <1>8, MetKept DEF TimeInv, Undisturbed
<1> QED
  BY <1>1, <1>14, <1>15 DEF TimeInv

\* The flag that stops the search is set in time.
LEMMA StopTime == ASSUME TimeInv, NEW n \in Node, StopConnectionDiscovery(n) PROVE TimeInv'
<1>1. IInv'
  BY SearchIInv DEF TimeInv
<1>2. \A m \in Node, t \in Timers :
        timer'[m][t] = IF m = n /\ t = "stop" THEN Off ELSE timer[m][t]
  <2>1. timer' = [timer EXCEPT ![n]["stop"] = Off]
    BY DEF StopConnectionDiscovery
  <2> QED
    BY <2>1, TimerOff DEF TimeInv, IInv, Timers
<1>3. period' = period /\ found' = found /\ peer' = peer
  BY DEF StopConnectionDiscovery
<1>4. \A m \in Node \ {n} : Undisturbed(m)
  BY <1>2, <1>3 DEF Undisturbed, Kept, Quiet, Awake, Runs, Timers
<1>5. Kept(n)
  BY <1>2, <1>3 DEF Kept, Awake, Timers
<1>6. ClockOK(n)'
  <2> SUFFICES ASSUME Awake(n)' PROVE ClockOK(n)'
    BY DEF ClockOK
  <2>1. /\ timer'[n].sleep = timer[n].sleep /\ timer'[n].adv = timer[n].adv
        /\ timer'[n].scan = timer[n].scan /\ timer'[n].connect = timer[n].connect
        /\ timer'[n].stop = Off /\ Awake(n)
    BY <1>2 DEF Timers, Awake
  <2>2. Runs(n, "stop") /\ timer[n].stop = 0
    BY DEF StopConnectionDiscovery, Due, Runs, Off
  <2>3. timer[n].sleep \in 0..AwakeTicks /\ 0 = StopTicks - Elapsed(n)
    BY <2>1, <2>2 DEF TimeInv, ClockOK
  <2>4. Elapsed(n) >= StopTicks /\ Elapsed(n)' = Elapsed(n)
    BY <2>1, <2>3, TickAssumption DEF Elapsed
  <2> QED
    BY <1>3, <2>1, <2>4 DEF TimeInv, ClockOK, Runs
<1>7. \A m \in Node : ClockOK(m)'
  BY <1>4, <1>6, ClockKept DEF TimeInv, IInv
<1>8. \A m, p \in Node : Met(m, p)'
  BY <1>4, <1>5, MetKept DEF TimeInv, Undisturbed
<1> QED
  BY <1>1, <1>7, <1>8 DEF TimeInv

\* A node that tries to connect, or has a peer, is not alone any more.
LEMMA Company ==
  ASSUME TimeInv, NEW n \in Node,
         Runs(n, "connect") \/ \E p \in Node : peer[n][p] # "absent"
  PROVE  found[n]
BY DEF TimeInv, IInv, PastOK, PastAt, Past, ClockOK

\* A scan that ends has lasted for a tick.
LEMMA ScanEndTime == ASSUME TimeInv, NEW n \in Node, DscComplete(n) PROVE TimeInv'
<1>1. IInv'
  BY SearchIInv DEF TimeInv
<1>2. \A m \in Node, t \in Timers :
        timer'[m][t] = IF m = n /\ t = "scan" THEN Off ELSE timer[m][t]
  <2>1. timer' = [timer EXCEPT ![n]["scan"] = Off]
    BY DEF DscComplete
  <2> QED
    BY <2>1, TimerOff DEF TimeInv, IInv, Timers
<1>3. timer[n].scan = 0
  BY DEF DscComplete, Due
<1>4. \A m \in Node : Undisturbed(m)
  BY <1>2, <1>3 DEF DscComplete, Undisturbed, Kept, Quiet, Awake, Runs, Timers
<1> QED
  BY <1>1, <1>4, TimeKept

\* A node that tries to connect has found a node.
LEMMA ConnectTime ==
  ASSUME TimeInv, NEW n \in Node, NEW p \in Node, Connect(n, p)
  PROVE  TimeInv'
<1>1. IInv'
  BY ConnectIInv DEF TimeInv
<1>2. /\ \A m \in Node, k \in Timers :
           m # n \/ k \notin {"scan", "connect"} => timer'[m][k] = timer[m][k]
      /\ period' = period /\ peer' = peer
      /\ \A m \in Node : found'[m] = IF m = n THEN TRUE ELSE found[m]
  BY ConnectTimers DEF TimeInv, IInv, Typed, Connect
<1>3. Undisturbed(n)
  BY <1>2 DEF Undisturbed, Kept, Awake, Timers
<1>4. \A m \in Node \ {n} : Undisturbed(m)
  BY <1>2 DEF Undisturbed, Kept, Quiet, Awake, Runs, Timers
<1> QED
  BY <1>1, <1>3, <1>4, TimeKept

\* So has one that is connected, and the other one was found.
LEMMA ConnectedTime ==
  ASSUME TimeInv, NEW n \in Node, NEW p \in Node, Connected(n, p)
  PROVE  TimeInv'
<1>1. IInv'
  BY ConnectedIInv DEF TimeInv
<1>2. \A m \in Node, t \in Timers :
        timer'[m][t] = IF <<m, t>> \in {<<n, "connect">>, <<p, "adv">>} THEN Off
                       ELSE timer[m][t]
  <2> DEFINE ts == [timer EXCEPT ![n]["connect"] = Off]
  <2>1. /\ ts \in [Node -> [Timers -> Nat \cup {Off}]]
        /\ \A m \in Node, t \in Timers :
             ts[m][t] = IF m = n /\ t = "connect" THEN Off ELSE timer[m][t]
    BY DEF TimeInv, IInv, Typed, Timers
  <2>2. timer' = [ts EXCEPT ![p]["adv"] = Off]
    BY DEF Connected
  <2> HIDE DEF ts
  <2>3. \A m \in Node, t \in Timers :
          timer'[m][t] = IF m = p /\ t = "adv" THEN Off ELSE ts[m][t]
    BY <2>1, <2>2 DEF Timers
  <2> QED
    BY <2>1, <2>3
<1>3. Runs(n, "connect")
  BY DEF TimeInv, IInv, Typed, Connected, Connects
<1>4. found[n]
  BY <1>3, Company
<1>5. /\ found'[n] /\ found'[p] /\ \A m \in Node \ {n, p} : found'[m] = found[m]
      /\ period' = period
  BY <1>4 DEF TimeInv, IInv, Typed, Connected
<1>6. \A m \in Node \ {n, p} : peer'[m] = peer[m]
  <2>1. PICK s \in States, t \in States : peer' = [peer EXCEPT ![n][p] = s, ![p][n] = t]
    BY DEF Connected, States
  <2> DEFINE q == [peer EXCEPT ![n][p] = s]
  <2>2. q \in [Node -> [Node -> States]] /\ \A m \in Node \ {n} : q[m] = peer[m]
    BY DEF TimeInv, IInv, Typed
  <2>3. peer' = [q EXCEPT ![p][n] = t]
    BY <2>1
  <2> HIDE DEF q
  <2> QED
    BY <2>2, <2>3
<1>7. \A m \in {n, p} : Undisturbed(m)
  BY <1>2, <1>5 DEF Undisturbed, Kept, Awake, Timers
<1>8. \A m \in Node \ {n, p} : Undisturbed(m)
  BY <1>2, <1>5, <1>6 DEF Undisturbed, Kept, Quiet, Awake, Runs, Timers
<1> QED
  BY <1>1, <1>7, <1>8, TimeKept

\* A failed attempt leaves it so.
LEMMA ConnectFailsTime == ASSUME TimeInv, NEW n \in Node, ConnectFails(n) PROVE TimeInv'
<1>1. IInv'
  BY ConnectFailsIInv DEF TimeInv
<1>2. \A m \in Node, t \in Timers :
        timer'[m][t] = IF m = n /\ t = "connect" THEN Off ELSE timer[m][t]
  <2>1. timer' = [timer EXCEPT ![n]["connect"] = Off]
    BY DEF ConnectFails
  <2> QED
    BY <2>1, TimerOff DEF TimeInv, IInv, Timers
<1>3. period' = period /\ found' = found /\ peer' = peer
  BY DEF ConnectFails
<1>4. \A m \in Node : Undisturbed(m)
  BY <1>2, <1>3 DEF Undisturbed, Kept, Quiet, Awake, Runs, Timers
<1> QED
  BY <1>1, <1>4, TimeKept

\* The scan of a node that has a peer changes nothing: it is not alone.
LEMMA RescanTime ==
  ASSUME TimeInv, NEW n \in Node, NEW p \in Node, DiscComplete(n, p) \/ Disconnect(n, p)
  PROVE  TimeInv'
<1>1. IInv'
  BY LinkIInv DEF TimeInv
<1>2. timer[n] \in [Timers -> Nat \cup {Off}] /\ peer \in [Node -> [Node -> States]]
  BY DEF TimeInv, IInv, Typed
<1>3. timer' = timer \/ \E t \in Scanning(timer[n]) : timer' = [timer EXCEPT ![n] = t]
  BY DEF DiscComplete, Disconnect
<1>4. /\ \A m \in Node \ {n} : timer'[m] = timer[m]
      /\ \A k \in Timers \ {"scan"} : timer'[n][k] = timer[n][k]
  <2>1. CASE timer' = timer
    BY <2>1
  <2>2. CASE \E t \in Scanning(timer[n]) : timer' = [timer EXCEPT ![n] = t]
    <3>1. PICK t \in Scanning(timer[n]) : timer' = [timer EXCEPT ![n] = t]
      BY <2>2
    <3>2. \A k \in Timers \ {"scan"} : t[k] = timer[n][k]
      BY <1>2, ScanningOK
    <3> QED
      BY <3>1, <3>2 DEF TimeInv, IInv, Typed
  <2> QED
    BY <1>3, <2>1, <2>2
<1>5. peer[n][p] # "absent"
  BY DEF DiscComplete, Disconnect
<1>6. found[n]
  BY <1>5, Company
<1>7. period' = period /\ found' = found /\ \A m \in Node \ {n} : peer'[m] = peer[m]
  BY <1>2 DEF DiscComplete, Disconnect
<1>8. Undisturbed(n)
  BY <1>4, <1>6, <1>7 DEF Undisturbed, Kept, Awake, Timers
<1>9. \A m \in Node \ {n} : Undisturbed(m)
  BY <1>4, <1>7 DEF Undisturbed, Kept, Quiet, Awake, Runs, Timers
<1> QED
  BY <1>1, <1>8, <1>9, TimeKept

\* A lost connection changes neither timers nor history.
LEMMA LinkLossTime ==
  ASSUME TimeInv, NEW n \in Node, NEW p \in Node, LinkLoss(n, p)
  PROVE  TimeInv'
<1>1. IInv'
  BY LinkIInv DEF TimeInv
<1>2. \A m \in Node : Undisturbed(m)
  BY DEF LinkLoss, Undisturbed, Kept, Quiet, Awake, Runs
<1> QED
  BY <1>1, <1>2, TimeKept

\* Nothing is said of a node that sleeps.
LEMMA PowerDownTime ==
  ASSUME TimeInv, NEW n \in Node, PowerDown(n), budget' \in Nat
  PROVE  TimeInv'
<1>1. IInv'
  BY PowerDownIInv DEF TimeInv
<1>2. \A m \in Node \ {n} :
        timer'[m] = timer[m] /\ period'[m] = period[m] /\ found'[m] = found[m]
        /\ peer'[m] = peer[m]
  BY DEF PowerDown, TimeInv, IInv, Typed
<1>3. ~Awake(n)'
  BY TickAssumption DEF PowerDown, TimeInv, IInv, Typed, Awake, Asleep, Timers, Off
<1>4. Undisturbed(n)
  BY <1>3 DEF Undisturbed, Kept
<1>5. \A m \in Node \ {n} : Undisturbed(m)
  BY <1>2 DEF Undisturbed, Kept, Quiet, Awake, Runs
<1> QED
  BY <1>1, <1>4, <1>5, TimeKept

-----------------------------------------------------------------------------
\* Time passes for all timers of a node alike.
LEMMA TickClock ==
  ASSUME TimeInv, Tick, NEW n \in Node, Awake(n)'
  PROVE  /\ Awake(n) /\ ClockOK(n)'
         /\ timer'[n].sleep = timer[n].sleep - 1 /\ timer[n].sleep \in 1..AwakeTicks
<1>1. /\ \A k \in Timers : timer'[n][k] = IF timer[n][k] = Off THEN Off ELSE timer[n][k] - 1
      /\ \A k \in Timers : timer[n][k] # 0
      /\ period' = period /\ found' = found /\ peer' = peer
  BY DEF Tick, Due
<1>2. timer[n] \in [Timers -> Nat \cup {Off}]
  BY DEF TimeInv, IInv, Typed
<1>3. \A k \in Timers : timer[n][k] = Off <=> timer'[n][k] = Off
  BY <1>1, <1>2 DEF Off
<1>4. Awake(n)
  BY <1>3 DEF Awake, Timers
<1>5. /\ timer[n].sleep \in 0..AwakeTicks /\ period[n] \in 1..MaxAdv
      /\ IF Runs(n, "stop") THEN timer[n].stop = StopTicks - Elapsed(n)
                            ELSE Elapsed(n) >= StopTicks
      /\ IF Runs(n, "adv") THEN timer[n].adv = period[n] - Elapsed(n)
         ELSE \/ found[n] \/ Elapsed(n) > period[n]
              \/ Elapsed(n) = period[n] /\ (period[n] < StopTicks => timer[n].scan >= 1)
      /\ Runs(n, "connect") \/ (\E p \in Node : peer[n][p] # "absent") => found[n]
  BY <1>4 DEF TimeInv, ClockOK
<1>6. AwakeTicks \in Nat /\ StopTicks \in Nat
  BY TickAssumption
<1>7. timer'[n].sleep = timer[n].sleep - 1 /\ timer[n].sleep \in 1..AwakeTicks
  <2>1. timer[n].sleep # 0
    BY <1>1 DEF Timers
  <2>2. timer[n].sleep # Off
    BY <1>5 DEF Off
  <2> QED
    BY <1>1, <1>5, <1>6, <2>1, <2>2 DEF Timers
<1>8. Elapsed(n) \in Int /\ Elapsed(n)' = Elapsed(n) + 1
  BY <1>6, <1>7 DEF Elapsed
<1>9. IF Runs(n, "stop")' THEN timer'[n].stop = StopTicks - Elapsed(n)'
                          ELSE Elapsed(n)' >= StopTicks
  BY <1>1, <1>3, <1>5, <1>6, <1>8 DEF Runs, Timers
<1>10. IF Runs(n, "adv")' THEN timer'[n].adv = period'[n] - Elapsed(n)'
       ELSE found'[n] \/ Elapsed(n)' > period'[n]
  BY <1>1, <1>3, <1>5, <1>8 DEF Runs, Timers
<1>11. Runs(n, "connect")' \/ (\E p \in Node : peer'[n][p] # "absent") => found'[n]
  BY <1>1, <1>3, <1>5 DEF Runs, Timers
<1>12. timer'[n].sleep \in 0..AwakeTicks /\ period'[n] \in 1..MaxAdv
  BY <1>1, <1>5, <1>6, <1>7
<1>13. ClockOK(n)'
  BY <1>9, <1>10, <1>11, <1>12 DEF ClockOK
<1> QED
  BY <1>4, <1>7, <1>13

\* Before time passes, a node that has just begun to scan has heard every node
\* that goes on advertising.
LEMMA TickMet ==
  ASSUME TimeInv, Tick, NEW n \in Node, NEW p \in Node
  PROVE  Met(n, p)'
<1> SUFFICES ASSUME n # p, {n, p} \in InRange, Awake(n)', Awake(p)', Overlap(n, p)',
                    Elapsed(n)' > period'[n], ~found'[n], ~found'[p]
             PROVE  FALSE
  BY DEF Met
<1>1. /\ Awake(n) /\ timer'[n].sleep = timer[n].sleep - 1 /\ timer[n].sleep \in 1..AwakeTicks
      /\ Awake(p) /\ timer'[p].sleep = timer[p].sleep - 1 /\ timer[p].sleep \in 1..AwakeTicks
  BY TickClock
<1>2. period' = period /\ found' = found /\ UNCHANGED InRange
  BY DEF Tick
<1>3. /\ AwakeTicks \in Nat /\ StopTicks \in Nat
      /\ period[n] \in 1..MaxAdv /\ period[p] \in 1..MaxAdv
  BY <1>1, TickAssumption DEF TimeInv, ClockOK
<1>4. Overlap(n, p)
  BY <1>1, <1>2, <1>3 DEF Overlap, AdvEnd
<1>5. ~found[n] /\ ~found[p] /\ ~(Elapsed(n) > period[n])
  BY <1>1, <1>2, <1>4 DEF TimeInv, Met
<1>6. Elapsed(n) = period[n]
  BY <1>1, <1>2, <1>3, <1>5 DEF Elapsed
<1>7. period[n] < StopTicks /\ Elapsed(p) < period[p]
  BY <1>1, <1>3, <1>4, <1>6 DEF Overlap, AdvEnd, Elapsed
<1>8. Runs(p, "adv")
  BY <1>1, <1>3, <1>5, <1>7 DEF TimeInv, ClockOK, Elapsed
<1>9. ~Runs(n, "adv")
  <2>1. timer[n].adv # 0
    BY DEF Tick, Due, Timers
  <2>2. Runs(n, "adv") => timer[n].adv = period[n] - Elapsed(n)
    BY <1>1 DEF TimeInv, ClockOK
  <2> QED
    BY <1>3, <1>6, <2>1, <2>2
<1>10. Runs(n, "scan")
  <2>1. timer[n].scan >= 1
    BY <1>1, <1>3, <1>5, <1>6, <1>7, <1>9 DEF TimeInv, ClockOK
  <2> QED
    BY <2>1 DEF Runs, Off
<1>11. peer[n][p] = "absent"
  BY <1>5, Company
<1>12. Hears(n, p)
  BY <1>8, <1>10, <1>11 DEF Hears
<1> QED
  BY <1>12 DEF Tick

\* Time passes.
LEMMA TickTime == ASSUME TimeInv, Tick PROVE TimeInv'
<1>1. IInv'
  BY TickIInv DEF TimeInv
<1>2. \A n \in Node : ClockOK(n)'
  BY TickClock DEF ClockOK
<1>3. \A n, p \in Node : Met(n, p)'
  BY TickMet
<1> QED
  BY <1>1, <1>2, <1>3 DEF TimeInv

\* Every step keeps the invariant.
LEMMA NextTime == TimeInv /\ [Next]_vars => TimeInv'
<1> SUFFICES ASSUME TimeInv, [Next]_vars PROVE TimeInv'
  OBVIOUS
<1>1. CASE \E n \in Node : Boot(n)
  BY <1>1, BootTime
<1>2. CASE \E n \in Node : AdvComplete(n)
  BY <1>2, AdvCompleteTime
<1>3. CASE \E n \in Node : DscComplete(n)
  BY <1>3, ScanEndTime
<1>4. CASE \E n \in Node : StopConnectionDiscovery(n)
  BY <1>4, StopTime
<1>5. CASE \E n \in Node : ConnectFails(n)
  BY <1>5, ConnectFailsTime
<1>6. CASE \E n \in Node : ForcedSleep(n) \/ GoToSleep(n)
  <2>1. PICK n \in Node : ForcedSleep(n) \/ GoToSleep(n)
    BY <1>6
  <2>2. PowerDown(n) /\ budget' \in Nat
    BY <2>1 DEF ForcedSleep, GoToSleep, Disturbed, TimeInv, IInv, Typed
  <2> QED
    BY <2>2, PowerDownTime
<1>7. CASE \E n, p \in Node : Connect(n, p)
  BY <1>7, ConnectTime
<1>8. CASE \E n, p \in Node : Connected(n, p)
  BY <1>8, ConnectedTime
<1>9. CASE \E n, p \in Node : DiscComplete(n, p) \/ Disconnect(n, p)
  BY <1>9, RescanTime
<1>10. CASE \E n, p \in Node : LinkLoss(n, p)
  BY <1>10, LinkLossTime
<1>11. CASE Tick
  BY <1>11, TickTime
<1>12. CASE UNCHANGED vars
  <2>1. IInv'
    BY <1>12, NextIInv DEF TimeInv
  <2>2. \A m \in Node : Undisturbed(m)
    BY <1>12 DEF vars, Undisturbed, Kept, Quiet, Awake, Runs
  <2> QED
    BY <2>1, <2>2, TimeKept
<1> QED
  BY <1>1, <1>2, <1>3, <1>4, <1>5, <1>6, <1>7, <1>8, <1>9, <1>10, <1>11, <1>12 DEF Next

-----------------------------------------------------------------------------
\* The clock of every node, and every meeting that the clocks make certain.
THEOREM Clocks == Spec => []TimeInv
BY InitTime, NextTime, PTL DEF Spec

\* For any nodes, durations, offsets and disturbances: of two nodes in range whose
\* advertising overlaps in the time one of them may search, one is not left alone.
THEOREM Meeting == Spec => []NobodyOverlooked
<1>1. TimeInv => NobodyOverlooked
  <2> SUFFICES ASSUME TimeInv, NEW n \in Node, NEW p \in Node,
                      n # p, {n, p} \in InRange, Awake(n), Awake(p),
                      ~Runs(n, "adv"), ~Runs(p, "adv"), Overlap(n, p), ~found[n]
               PROVE  found[p]
    BY DEF NobodyOverlooked
  <2>1. /\ timer[n].sleep \in 0..AwakeTicks /\ period[n] \in 1..MaxAdv
        /\ timer[p].sleep \in 0..AwakeTicks /\ period[p] \in 1..MaxAdv
        /\ AwakeTicks \in Nat
    BY TickAssumption DEF TimeInv, ClockOK
  <2>2. CASE Elapsed(n) > period[n]
    BY <2>2 DEF TimeInv, Met
  <2>3. CASE Elapsed(n) = period[n]
    <3>1. Elapsed(p) < period[p]
      BY <2>1, <2>3 DEF Overlap, AdvEnd, Elapsed
    <3> QED
      BY <2>1, <3>1 DEF TimeInv, ClockOK, Elapsed
  <2> QED
    BY <2>2, <2>3 DEF TimeInv, ClockOK
<1> QED
  BY <1>1, Clocks, PTL
=============================================================================
