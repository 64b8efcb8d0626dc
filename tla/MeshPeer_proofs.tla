-------------------------- MODULE MeshPeer_proofs --------------------------
(* Proofs about MeshPeer, for every finite set of connections, all well-formed   *)
(* databases and all sizes of the pools.                                         *)
EXTENDS MeshPeerChain_proofs

-----------------------------------------------------------------------------
(* The inductive invariant.                                                *)

\* The tables of all connections.
Tabs == [c \in Conn |-> Services(c)]

Typed ==
  /\ up \in [Conn -> BOOLEAN] /\ beat \in [Conn -> BOOLEAN]
  /\ status \in [Conn -> Statuses] /\ reports \in [Conn -> Nat]
  /\ db \in [Conn -> Databases \cup {<<>>}]
  /\ proc = [c \in Conn |-> proc[c]] /\ peers = [c \in Conn |-> peers[c]]
  /\ order \in Seq(Conn) /\ chain \in Seq(SUBSET Conn) /\ abandoned \subseteq Conn

ListsOK ==
  /\ Len(chain) + Len(order) = MaxPeers
  /\ ToSet(order) = {c \in Conn : peers[c] # NoPeer} /\ IsInjective(order)

UpOK(c) ==
  /\ up[c] => status[c] # "none" /\ db[c] \in Databases
  /\ ~up[c] => status[c] = "none" /\ db[c] = <<>> /\ peers[c] = NoPeer

TableOK(c) ==
  peers[c] # NoPeer => up[c] /\ peers[c] \in Peer /\ PartOf(peers[c].svcs, db[c])

ChainOK(c) ==
  /\ proc[c] # NoProc =>
       status[c] = "running" /\ peers[c] # NoPeer /\ UnderWay(proc[c], peers[c], db[c])
  /\ status[c] = "ok" => peers[c] # NoPeer /\ peers[c].svcs = db[c]

ReportsOK(c) ==
  /\ status[c] = "running" => reports[c] = 0
  /\ status[c] \in {"ok", "error"} => reports[c] = 1
  /\ reports[c] <= 1

ConnOK(c) == UpOK(c) /\ TableOK(c) /\ ChainOK(c) /\ ReportsOK(c)

\* The inductive invariant.
IInv == Typed /\ ListsOK /\ Accounts(free, Tabs) /\ \A c \in Conn : ConnOK(c)

\* A peer in the table is not the absence of one.
LEMMA PeerIsPeer == \A p \in Peer : p # NoPeer
<1>1. \A p \in Peer : "svcs" \in DOMAIN p
  BY DEF Peer
<1>2. "svcs" \notin DOMAIN NoPeer
  BY DEF NoPeer
<1> QED
  BY <1>1, <1>2

\* A database that is not empty is one of those that are allowed.
LEMMA DbIs ==
  ASSUME NEW d \in Databases \cup {<<>>}
  PROVE  d \in Seq(Service) /\ WellFormed(d)
<1>1. CASE d = <<>>
  BY <1>1 DEF WellFormed
<1>2. CASE d \in Databases
  BY <1>2, DatabaseAssumption
<1> QED
  BY <1>1, <1>2

\* The tables of all connections are lists of services.
LEMMA TabsAre ==
  ASSUME IInv
  PROVE  /\ Tabs \in Tables
         /\ \A c \in Conn : Tabs[c] = Services(c)
         /\ \A c \in Conn : peers[c] # NoPeer => Services(c) = peers[c].svcs
         /\ \A c \in Conn : peers[c] = NoPeer => Services(c) = <<>>
<1>1. \A c \in Conn : peers[c] # NoPeer => peers[c] \in Peer
  BY DEF IInv, ConnOK, TableOK
<1>2. \A c \in Conn : Services(c) \in Seq(Service)
  BY <1>1 DEF Services, Peer
<1> QED
  BY <1>2 DEF Tabs, Tables, Services

\* The connections that a step leaves alone.
Alone(x) ==
  /\ peers'[x] = peers[x] /\ proc'[x] = proc[x] /\ db'[x] = db[x] /\ up'[x] = up[x]
  /\ status'[x] = status[x] /\ reports'[x] = reports[x]

\* Such a connection stays as it should be.
LEMMA AloneOK ==
  ASSUME NEW x, ConnOK(x), Alone(x)
  PROVE  ConnOK(x)' /\ Services(x)' = Services(x)
BY DEF ConnOK, UpOK, TableOK, ChainOK, ReportsOK, Alone, Services

-----------------------------------------------------------------------------
(* Nothing is connected.                                                   *)

Down ==
  /\ peers = [c \in Conn |-> NoPeer]
  /\ proc = [c \in Conn |-> NoProc]
  /\ db = [c \in Conn |-> <<>>]
  /\ up = [c \in Conn |-> FALSE]
  /\ status = [c \in Conn |-> "none"]
  /\ reports = [c \in Conn |-> 0]
  /\ beat = [c \in Conn |-> FALSE]
  /\ free = AllFree /\ order = <<>> /\ chain = Unused /\ abandoned \subseteq Conn

\* The invariant holds when nothing is connected.
LEMMA DownOK == Down => IInv
<1> SUFFICES ASSUME Down PROVE IInv
  OBVIOUS
<1>1. Typed
  <2>1. MaxPeers \in Nat
    BY PoolAssumption
  <2>2. Unused \in Seq(SUBSET Conn)
    BY <2>1 DEF Unused
  <2> QED
    BY <2>2 DEF Typed, Down, Statuses
<1>2. ListsOK
  <2>1. MaxPeers \in Nat
    BY PoolAssumption
  <2>2. Len(Unused) = MaxPeers
    BY <2>1 DEF Unused
  <2>3. Len(order) = 0 /\ ToSet(order) = {} /\ IsInjective(order)
    BY DEF Down, ToSet, IsInjective
  <2>4. {c \in Conn : peers[c] # NoPeer} = {}
    BY DEF Down
  <2> QED
    BY <2>1, <2>2, <2>3, <2>4 DEF ListsOK, Down
<1>3. Accounts(free, Tabs)
  <2>1. \A c \in Conn : Tabs[c] = <<>>
    BY DEF Tabs, Services, Down
  <2>2. Accounts(AllFree, Tabs)
    BY <2>1, AccountsNone
  <2> QED
    BY <2>2 DEF Down
<1>4. \A c \in Conn : ConnOK(c)
  BY DEF ConnOK, UpOK, TableOK, ChainOK, ReportsOK, Down
<1> QED
  BY <1>1, <1>2, <1>3, <1>4 DEF IInv

\* The same after a step.
LEMMA DownNext == Down' => IInv'
BY DownOK, PTL

\* Init.
LEMMA InitIInv == Init => IInv
<1>1. Init => Down
  BY DEF Init, Down
<1> QED
  BY <1>1, DownOK

\* The node goes to sleep.
LEMMA GoToSleepIInv ==
  ASSUME IInv, GoToSleep
  PROVE  IInv'
<1>1. abandoned' \subseteq Conn
  <2>1. PICK garbage \in SUBSET Conn : abandoned' = ToSet(order) \ Walked(garbage)
    BY DEF GoToSleep
  <2>2. ToSet(order) \subseteq Conn
    BY DEF IInv, ListsOK
  <2> QED
    BY <2>1, <2>2
<1>2. Down'
  BY <1>1 DEF GoToSleep, Down
<1> QED
  BY <1>2, DownNext

-----------------------------------------------------------------------------
(* Every step keeps it.                                                    *)

\* What a callback may yield on a database d: the chain goes on, or it ends for good,
\* with success only if nothing is missing.
GoodNext(r, d) ==
  /\ r.peer \in Peer /\ PartOf(r.peer.svcs, d)
  /\ \/ r.told = "running" /\ UnderWay(r.proc, r.peer, d)
     \/ r.told \in {"ok", "error"} /\ r.proc = NoProc /\ (r.told = "ok" => r.peer.svcs = d)

\* The connection of a procedure that is under way.
LEMMA ProcIs ==
  ASSUME IInv, NEW c \in Conn, proc[c] # NoProc
  PROVE  /\ up[c] /\ status[c] = "running" /\ reports[c] = 0
         /\ peers[c] # NoPeer /\ peers[c] \in Peer /\ PartOf(peers[c].svcs, db[c])
         /\ UnderWay(proc[c], peers[c], db[c])
         /\ db[c] \in Databases /\ db[c] \in Seq(Service) /\ WellFormed(db[c])
         /\ Services(c) = peers[c].svcs
<1>1. ConnOK(c)
  BY DEF IInv
<1>2. /\ up[c] /\ status[c] = "running" /\ reports[c] = 0
      /\ peers[c] # NoPeer /\ peers[c] \in Peer /\ PartOf(peers[c].svcs, db[c])
      /\ UnderWay(proc[c], peers[c], db[c]) /\ db[c] \in Databases
  BY <1>1 DEF ConnOK, UpOK, TableOK, ChainOK, ReportsOK
<1> QED
  BY <1>2, DbIs DEF Services

\* A callback of a procedure that is under way keeps the invariant.
LEMMA SettleIInv ==
  ASSUME IInv, NEW c \in Conn, proc[c] # NoProc, NEW r, Settle(c, r), GoodNext(r, db[c]),
         Accounts(free', [Tabs EXCEPT ![c] = r.peer.svcs])
  PROVE  IInv'
<1>1. /\ up[c] /\ status[c] = "running" /\ reports[c] = 0
      /\ peers[c] # NoPeer /\ db[c] \in Databases
  BY ProcIs
<1>2. /\ peers' = [peers EXCEPT ![c] = r.peer] /\ proc' = [proc EXCEPT ![c] = r.proc]
      /\ status' = [status EXCEPT ![c] = r.told]
      /\ reports' = [reports EXCEPT ![c] = IF r.told = "running" THEN @ ELSE @ + 1]
      /\ beat' = [beat EXCEPT ![c] = ~@]
      /\ db' = db /\ up' = up /\ order' = order /\ chain' = chain /\ abandoned' = abandoned
  BY DEF Settle, peerVars
<1>3. reports' = [reports EXCEPT ![c] = IF r.told = "running" THEN 0 ELSE 1]
  BY <1>1, <1>2
<1>4. Typed
  BY DEF IInv
<1>5. /\ peers'[c] = r.peer /\ proc'[c] = r.proc /\ status'[c] = r.told
      /\ reports'[c] = IF r.told = "running" THEN 0 ELSE 1
  BY <1>2, <1>3, <1>4 DEF Typed
<1>6. r.peer # NoPeer /\ r.peer \in Peer /\ r.told \in {"running", "ok", "error"}
  BY PeerIsPeer DEF GoodNext
<1>7. Typed'
  <2>1. beat' \in [Conn -> BOOLEAN]
    BY <1>2, <1>4 DEF Typed
  <2>2. status' \in [Conn -> Statuses]
    BY <1>2, <1>4, <1>6 DEF Typed, Statuses
  <2>3. reports' \in [Conn -> Nat]
    BY <1>3, <1>4 DEF Typed
  <2>4. proc' = [x \in Conn |-> proc'[x]] /\ peers' = [x \in Conn |-> peers'[x]]
    BY <1>2, <1>4 DEF Typed
  <2> QED
    BY <1>2, <1>4, <2>1, <2>2, <2>3, <2>4 DEF Typed
<1>8. \A x \in Conn \ {c} : Alone(x)
  BY <1>2, <1>3, <1>4 DEF Alone, Typed
<1>9. ConnOK(c)'
  BY <1>1, <1>2, <1>5, <1>6 DEF ConnOK, UpOK, TableOK, ChainOK, ReportsOK, GoodNext
<1>10. \A x \in Conn : ConnOK(x)'
  BY <1>8, <1>9, AloneOK DEF IInv
<1>11. ListsOK'
  <2>1. \A x \in Conn : peers'[x] # NoPeer <=> peers[x] # NoPeer
    BY <1>1, <1>5, <1>6, <1>8 DEF Alone
  <2>2. {x \in Conn : peers'[x] # NoPeer} = {x \in Conn : peers[x] # NoPeer}
    BY <2>1
  <2> QED
    BY <1>2, <2>2 DEF IInv, ListsOK
<1>12. Tabs' = [Tabs EXCEPT ![c] = r.peer.svcs]
  <2>1. \A x \in Conn \ {c} : Services(x)' = Services(x)
    BY <1>8, AloneOK DEF IInv
  <2>2. Services(c)' = r.peer.svcs
    BY <1>5, <1>6 DEF Services
  <2> QED
    BY <2>1, <2>2 DEF Tabs
<1> QED
  BY <1>7, <1>10, <1>11, <1>12 DEF IInv

\* One that adds nothing to the table.
LEMMA SameIInv ==
  ASSUME IInv, NEW c \in Conn, proc[c] # NoProc, NEW r, Settle(c, r),
         Good(r, peers[c].svcs, db[c]), UNCHANGED free
  PROVE  IInv'
<1>1. GoodNext(r, db[c])
  BY ProcIs DEF Good, GoodNext
<1>2. [Tabs EXCEPT ![c] = r.peer.svcs] = Tabs
  <2>1. r.peer.svcs = Services(c)
    BY ProcIs DEF Good
  <2> QED
    BY <2>1 DEF Tabs
<1>3. Accounts(free', [Tabs EXCEPT ![c] = r.peer.svcs])
  BY <1>2 DEF IInv
<1> QED
  BY <1>1, <1>3, SettleIInv

\* A callback that reports an error keeps the invariant.
LEMMA ErrorIInv ==
  ASSUME IInv, NEW c \in Conn, proc[c] # NoProc, Settle(c, Complete(peers[c], "error")),
         UNCHANGED free
  PROVE  IInv'
<1>1. Good(Complete(peers[c], "error"), peers[c].svcs, db[c])
  BY ProcIs, CompleteGood
<1> QED
  BY <1>1, SameIInv

\* peer_svc_disced, peer_chr_disced and peer_dsc_disced with status 0 keep it.
LEMMA ItemIInv ==
  ASSUME IInv, NEW c \in Conn, Item(c)
  PROVE  IInv'
<1> DEFINE x == Head(proc[c].left)
           rest == [proc[c] EXCEPT !.left = Tail(@)]
           r == [peer |-> With(c, x), proc |-> rest, told |-> "running"]
<1>1. proc[c] # NoProc /\ proc[c].left # <<>>
  BY DEF Item, NoProc
<1>2. ItemAdds(c, peers[c], proc[c], db[c], x)
  BY <1>1, ProcIs, ItemGood
<1>3. CASE free[Pool(c)] = 0
  <2>1. Settle(c, Complete(peers[c], "error")) /\ UNCHANGED free
    BY <1>2, <1>3 DEF Item, ItemAdds
  <2> QED
    BY <1>1, <2>1, ErrorIInv
<1>4. CASE free[Pool(c)] # 0
  <2>1. Settle(c, r) /\ free' = [free EXCEPT ![Pool(c)] = @ - 1]
    BY <1>2, <1>4 DEF Item, ItemAdds
  <2>2. /\ With(c, x) \in Peer /\ Pool(c) \in {"svc", "chr", "dsc"}
        /\ Adds(peers[c].svcs, With(c, x).svcs, db[c], Pool(c))
        /\ UnderWay(rest, With(c, x), db[c])
    BY <1>2 DEF ItemAdds
  <2>3. r.peer = With(c, x) /\ r.proc = rest /\ r.told = "running"
    OBVIOUS
  <2> HIDE DEF r, x, rest
  <2>4. GoodNext(r, db[c])
    BY <2>2, <2>3 DEF GoodNext, Adds
  <2>5. Accounts(free', [Tabs EXCEPT ![c] = r.peer.svcs])
    <3>1. Tabs \in Tables /\ Tabs[c] = peers[c].svcs /\ Accounts(free, Tabs)
      BY <1>1, TabsAre, ProcIs DEF IInv
    <3>2. r.peer.svcs \in Seq(Service)
      BY <2>2, <2>3 DEF Peer
    <3>3. Adds(Tabs[c], r.peer.svcs, db[c], Pool(c))
      BY <2>2, <2>3, <3>1
    <3> QED
      BY <1>4, <2>1, <2>2, <3>1, <3>2, <3>3, AccountsItem
  <2> QED
    BY <1>1, <2>1, <2>4, <2>5, SettleIInv
<1> QED
  BY <1>3, <1>4

\* So do they with BLE_HS_EDONE.
LEMMA DoneIInv ==
  ASSUME IInv, NEW c \in Conn, Done(c)
  PROVE  IInv'
<1>1. proc[c] # NoProc /\ proc[c].left = <<>>
  BY DEF Done, NoProc
<1>2. PICK accepted \in BOOLEAN : Settle(c, AfterProc(c, accepted)) /\ UNCHANGED free
  BY DEF Done
<1>3. Good(AfterProc(c, accepted), peers[c].svcs, db[c])
  BY <1>1, ProcIs, AfterProcGood
<1> QED
  BY <1>1, <1>2, <1>3, SameIInv

\* So do they with any other status.
LEMMA ProcErrorIInv ==
  ASSUME IInv, NEW c \in Conn, ProcError(c)
  PROVE  IInv'
<1>1. proc[c] # NoProc
  BY DEF ProcError, NoProc
<1> QED
  BY <1>1, ErrorIInv DEF ProcError

\* mesh_peer_delete keeps the invariant: every block goes back to its pool.
LEMMA DisconnectIInv ==
  ASSUME IInv, NEW c \in Conn, Disconnect(c)
  PROVE  IInv'
<1>1. /\ up[c] /\ up' = [up EXCEPT ![c] = FALSE] /\ peers' = [peers EXCEPT ![c] = NoPeer]
      /\ proc' = [proc EXCEPT ![c] = NoProc] /\ db' = [db EXCEPT ![c] = <<>>]
      /\ status' = [status EXCEPT ![c] = "none"] /\ beat' = [beat EXCEPT ![c] = FALSE]
      /\ reports' = [reports EXCEPT ![c] = IF proc[c] = NoProc THEN @ ELSE @ + 1]
      /\ abandoned' = abandoned
  BY DEF Disconnect
<1>2. Typed /\ ConnOK(c)
  BY DEF IInv
<1>3. /\ peers'[c] = NoPeer /\ proc'[c] = NoProc /\ db'[c] = <<>> /\ up'[c] = FALSE
      /\ status'[c] = "none" /\ reports'[c] \in Nat /\ reports'[c] <= 1
  <2>1. proc[c] # NoProc => reports[c] = 0
    BY ProcIs
  <2>2. reports[c] \in Nat /\ reports[c] <= 1
    BY <1>2 DEF Typed, ConnOK, ReportsOK
  <2> QED
    BY <1>1, <1>2, <2>1, <2>2 DEF Typed
<1>4. reports' \in [Conn -> Nat]
  BY <1>1, <1>2 DEF Typed
<1>5. \A x \in Conn \ {c} : Alone(x)
  BY <1>1, <1>2 DEF Alone, Typed
<1>6. ConnOK(c)'
  BY <1>3 DEF ConnOK, UpOK, TableOK, ChainOK, ReportsOK
<1>7. \A x \in Conn : ConnOK(x)'
  BY <1>5, <1>6, AloneOK DEF IInv
<1>8. Tabs' = [Tabs EXCEPT ![c] = <<>>]
  <2>1. \A x \in Conn \ {c} : Services(x)' = Services(x)
    BY <1>5, AloneOK DEF IInv
  <2>2. Services(c)' = <<>>
    BY <1>3 DEF Services
  <2> QED
    BY <2>1, <2>2 DEF Tabs
<1>9. {x \in Conn : peers'[x] # NoPeer} = {x \in Conn : peers[x] # NoPeer} \ {c}
  BY <1>3, <1>5 DEF Alone
<1>10. CASE peers[c] = NoPeer
  <2>1. free' = free /\ order' = order /\ chain' = chain
    BY <1>10 DEF Disconnect
  <2>2. Typed'
    BY <1>1, <1>2, <1>4, <2>1 DEF Typed, Statuses
  <2>3. ListsOK'
    BY <1>9, <1>10, <2>1 DEF IInv, ListsOK
  <2>4. Tabs' = Tabs
    BY <1>8, <1>10 DEF Tabs, Services
  <2> QED
    BY <1>7, <2>1, <2>2, <2>3, <2>4 DEF IInv
<1>11. CASE peers[c] # NoPeer
  <2>1. /\ free' = Freed(peers[c].svcs, free) /\ order' = RemoveFirst(order, c)
        /\ chain' = <<{c}>> \o chain
    BY <1>11 DEF Disconnect
  <2>2. ListsOK
    BY DEF IInv
  <2>3. order \in Seq(Conn) /\ chain \in Seq(SUBSET Conn) /\ IsInjective(order)
        /\ c \in ToSet(order)
    BY <1>2, <1>11, <2>2 DEF Typed, ListsOK
  <2>4. /\ order' \in Seq(Conn) /\ Len(order') = Len(order) - 1
        /\ IsInjective(order') /\ ToSet(order') = ToSet(order) \ {c}
    BY <2>1, <2>3, ListRemove
  <2>5. chain' \in Seq(SUBSET Conn) /\ Len(chain') = Len(chain) + 1
    <3>1. <<{c}>> \in Seq(SUBSET Conn) /\ Len(<<{c}>>) = 1
      OBVIOUS
    <3>2. Len(<<{c}>> \o chain) = Len(<<{c}>>) + Len(chain) /\ <<{c}>> \o chain \in Seq(SUBSET Conn)
      BY <2>3, <3>1, ConcatProperties
    <3>3. Len(chain) \in Nat
      BY <2>3
    <3> QED
      BY <2>1, <3>1, <3>2, <3>3
  <2>6. Typed'
    BY <1>1, <1>2, <1>4, <2>4, <2>5 DEF Typed, Statuses
  <2>7. ListsOK'
    <3>1. Len(chain) \in Nat /\ Len(order) \in Nat
      BY <2>3
    <3>2. Len(chain') + Len(order') = MaxPeers
      BY <2>2, <2>4, <2>5, <3>1 DEF ListsOK
    <3> QED
      BY <1>9, <2>2, <2>4, <3>2 DEF ListsOK
  <2>8. Accounts(free', Tabs')
    <3>1. Tabs \in Tables /\ Tabs[c] = peers[c].svcs /\ Accounts(free, Tabs)
      BY <1>11, TabsAre DEF IInv
    <3>2. free' = Freed(Tabs[c], free)
      BY <2>1, <3>1
    <3> QED
      BY <1>8, <3>1, <3>2, AccountsFreed
  <2> QED
    BY <1>7, <2>6, <2>7, <2>8 DEF IInv
<1> QED
  BY <1>10, <1>11

\* mesh_peer_add and mesh_peer_disc_all keep the invariant.
LEMMA ConnectIInv ==
  ASSUME IInv, NEW c \in Conn, Connect(c)
  PROVE  IInv'
<1>1. /\ ~up[c] /\ up' = [up EXCEPT ![c] = TRUE] /\ reports' = [reports EXCEPT ![c] = 0]
      /\ beat' = [beat EXCEPT ![c] = FALSE] /\ abandoned' = {} /\ free' = free
  BY DEF Connect
<1> DEFINE new == [svcs |-> <<>>, disc_prev_chr_val |-> 1, cur_svc |-> 0]
           added == chain # <<>>
<1>2. PICK d \in Databases, accepted \in BOOLEAN :
        /\ db' = [db EXCEPT ![c] = d]
        /\ peers' = [peers EXCEPT ![c] = IF added THEN new ELSE NoPeer]
        /\ order' = IF added THEN <<c>> \o order ELSE order
        /\ chain' = IF added THEN Tail(chain) ELSE chain
        /\ proc' = [proc EXCEPT ![c] = IF added /\ accepted THEN SvcProc(d) ELSE NoProc]
        /\ status' = [status EXCEPT ![c] = IF added /\ accepted THEN "running" ELSE "unstarted"]
  BY DEF Connect
<1>3. Typed /\ ListsOK /\ ConnOK(c)
  BY DEF IInv
<1>4. peers[c] = NoPeer
  BY <1>1, <1>3 DEF ConnOK, UpOK
<1>5. /\ up'[c] = TRUE /\ reports'[c] = 0 /\ db'[c] = d
      /\ peers'[c] = (IF added THEN new ELSE NoPeer)
      /\ proc'[c] = (IF added /\ accepted THEN SvcProc(d) ELSE NoProc)
      /\ status'[c] = (IF added /\ accepted THEN "running" ELSE "unstarted")
  BY <1>1, <1>2, <1>3 DEF Typed
<1>6. \A x \in Conn \ {c} : Alone(x)
  BY <1>1, <1>2, <1>3 DEF Alone, Typed
<1>7. new \in Peer /\ new # NoPeer /\ new.svcs = <<>> /\ new.disc_prev_chr_val = 1
  <2>1. new \in Peer
    BY DEF Peer
  <2> QED
    BY <2>1, PeerIsPeer
<1>8. ConnOK(c)'
  <2>1. d \in Seq(Service)
    BY DbIs
  <2>2. PartOf(<<>>, d)
    BY <2>1 DEF PartOf
  <2>3. UnderWay(SvcProc(d), new, d)
    <3>1. SvcProc(d).left \in Seq([start : Nat, end : Nat])
      <4>1. \A m \in 1..Len(d) : d[m].start \in Nat /\ d[m].end \in Nat
        BY <2>1, SvcShape
      <4>2. Len(d) \in Nat
        BY <2>1
      <4> QED
        BY <4>1, <4>2 DEF SvcProc
    <3>2. Left(SvcProc(d).left, 0) = SvcProc(d).left
      BY <3>1, LeftAll
    <3>3. SvcProc(d) = [kind |-> "svcs", left |-> SvcProc(d).left]
      BY DEF SvcProc
    <3>4. Len(new.svcs) = 0
      BY <1>7
    <3> HIDE DEF new
    <3>5. AtSvcs(SvcProc(d), new, d)
      BY <1>7, <3>2, <3>3, <3>4 DEF AtSvcs
    <3> QED
      BY <3>5 DEF UnderWay
  <2> HIDE DEF new
  <2> QED
    BY <1>5, <1>7, <2>2, <2>3 DEF ConnOK, UpOK, TableOK, ChainOK, ReportsOK
<1>9. \A x \in Conn : ConnOK(x)'
  BY <1>6, <1>8, AloneOK DEF IInv
<1>10. Tabs' = Tabs
  <2>1. \A x \in Conn \ {c} : Services(x)' = Services(x)
    BY <1>6, AloneOK DEF IInv
  <2>2. Services(c)' = <<>> /\ Services(c) = <<>>
    <3> HIDE DEF new
    <3> QED
      BY <1>4, <1>5, <1>7 DEF Services
  <2> QED
    BY <2>1, <2>2 DEF Tabs
<1> HIDE DEF new
<1>11. /\ order' \in Seq(Conn) /\ chain' \in Seq(SUBSET Conn)
       /\ Len(chain') + Len(order') = MaxPeers /\ IsInjective(order')
       /\ ToSet(order') = {x \in Conn : peers'[x] # NoPeer}
  <2>1. order \in Seq(Conn) /\ chain \in Seq(SUBSET Conn) /\ IsInjective(order)
        /\ Len(chain) + Len(order) = MaxPeers /\ ToSet(order) = {x \in Conn : peers[x] # NoPeer}
    BY <1>3 DEF Typed, ListsOK
  <2>2. CASE added
    <3>1. order' = <<c>> \o order /\ chain' = Tail(chain) /\ chain # <<>>
      BY <1>2, <2>2
    <3>2. c \notin ToSet(order)
      BY <1>4, <2>1
    <3>3. /\ order' \in Seq(Conn) /\ Len(order') = Len(order) + 1
          /\ IsInjective(order') /\ ToSet(order') = ToSet(order) \cup {c}
      <4>1. Extended(Conn, order, c, order')
        BY <2>1, <3>1, <3>2, ListAdd
      <4> QED
        BY <4>1 DEF Extended
    <3>4. /\ chain' \in Seq(SUBSET Conn) /\ Len(chain') = Len(chain) - 1
          /\ Len(chain) \in Nat /\ Len(order) \in Nat
      BY <2>1, <3>1
    <3>5. Len(chain') + Len(order') = MaxPeers
      BY <2>1, <3>3, <3>4
    <3>6. {x \in Conn : peers'[x] # NoPeer} = {x \in Conn : peers[x] # NoPeer} \cup {c}
      BY <1>5, <1>6, <1>7, <2>2 DEF Alone
    <3> QED
      BY <2>1, <3>3, <3>4, <3>5, <3>6
  <2>3. CASE ~added
    <3>1. order' = order /\ chain' = chain
      BY <1>2, <2>3
    <3>2. {x \in Conn : peers'[x] # NoPeer} = {x \in Conn : peers[x] # NoPeer}
      BY <1>4, <1>5, <1>6, <2>3 DEF Alone
    <3> QED
      BY <2>1, <3>1, <3>2
  <2> QED
    BY <2>2, <2>3
<1>12. Typed'
  <2>1. /\ up' \in [Conn -> BOOLEAN] /\ beat' \in [Conn -> BOOLEAN]
        /\ reports' \in [Conn -> Nat] /\ db' \in [Conn -> Databases \cup {<<>>}]
    BY <1>1, <1>2, <1>3 DEF Typed
  <2>2. status' \in [Conn -> Statuses]
    BY <1>2, <1>3 DEF Typed, Statuses
  <2>3. proc' = [x \in Conn |-> proc'[x]] /\ peers' = [x \in Conn |-> peers'[x]]
    BY <1>2, <1>3 DEF Typed
  <2> QED
    BY <1>1, <1>11, <2>1, <2>2, <2>3 DEF Typed
<1> QED
  BY <1>1, <1>9, <1>10, <1>11, <1>12 DEF IInv, ListsOK

\* Every step keeps the invariant.
LEMMA NextIInv == IInv /\ [Next]_vars => IInv'
<1> SUFFICES ASSUME IInv, [Next]_vars PROVE IInv'
  OBVIOUS
<1>1. ASSUME NEW c \in Conn, Connect(c) PROVE IInv'
  BY <1>1, ConnectIInv
<1>2. ASSUME NEW c \in Conn, Disconnect(c) PROVE IInv'
  BY <1>2, DisconnectIInv
<1>3. ASSUME NEW c \in Conn, Item(c) PROVE IInv'
  BY <1>3, ItemIInv
<1>4. ASSUME NEW c \in Conn, Done(c) PROVE IInv'
  BY <1>4, DoneIInv
<1>5. ASSUME NEW c \in Conn, ProcError(c) PROVE IInv'
  BY <1>5, ProcErrorIInv
<1>6. CASE GoToSleep
  BY <1>6, GoToSleepIInv
<1>7. CASE UNCHANGED vars
  <2>1. IInv' = IInv
    BY ZenonT(60), <1>7 DEF vars, peerVars, IInv, Typed, ListsOK, Accounts, Tabs, Services, ConnOK, UpOK,
              TableOK, ChainOK, ReportsOK
  <2> QED
    BY SMTT(60), <2>1
<1> QED
  BY <1>1, <1>2, <1>3, <1>4, <1>5, <1>6, <1>7 DEF Next

\* The inductive invariant holds of every behaviour.
THEOREM Invariance == Spec => []IInv
BY InitIInv, NextIInv, PTL DEF Spec

-----------------------------------------------------------------------------
(* Properties.                                                             *)

\* A part of a database names handles of the database only.
LEMMA PartHandles ==
  ASSUME NEW t \in Seq(Service), NEW d \in Seq(Service), PartOf(t, d)
  PROVE  Handles(t) \subseteq Handles(d)
<1>1. ASSUME NEW h \in Handles(t) PROVE h \in Handles(d)
  <2>1. PICK i \in 1..Len(t) : h \in SvcHandles(t[i])
    BY <1>1, HandlesAre
  <2>2. i \in 1..Len(d) /\ t[i].start = d[i].start
    BY SvcPart
  <2>3. t[i].chrs \in Seq(Characteristic) /\ d[i].chrs \in Seq(Characteristic)
    BY <2>2, SvcShape
  <2>4. h = t[i].start \/ \E j \in 1..Len(t[i].chrs) : h \in ChrHandles(t[i].chrs[j])
    BY <2>1, <2>3, SvcHandlesAre
  <2>5. h \in SvcHandles(d[i])
    <3>1. CASE h = t[i].start
      BY <2>2, <2>3, <3>1, SvcHandlesAre
    <3>2. ASSUME NEW j \in 1..Len(t[i].chrs), h \in ChrHandles(t[i].chrs[j])
          PROVE  h \in SvcHandles(d[i])
      <4>1. j \in 1..Len(d[i].chrs) /\ t[i].chrs[j].val = d[i].chrs[j].val
        BY ChrPart
      <4>2. t[i].chrs[j].dscs \in Seq(Nat) /\ d[i].chrs[j].dscs \in Seq(Nat)
        BY <2>2, <4>1, ChrShape
      <4>3. \/ h = t[i].chrs[j].val
            \/ \E k \in 1..Len(t[i].chrs[j].dscs) : h = t[i].chrs[j].dscs[k]
        BY <3>2, <4>2, ChrHandlesAre
      <4>4. \A k \in 1..Len(t[i].chrs[j].dscs) :
              k \in 1..Len(d[i].chrs[j].dscs) /\ t[i].chrs[j].dscs[k] = d[i].chrs[j].dscs[k]
        BY DscPart
      <4>5. \/ h = d[i].chrs[j].val
            \/ \E k \in 1..Len(d[i].chrs[j].dscs) : h = d[i].chrs[j].dscs[k]
        BY <4>1, <4>3, <4>4
      <4>6. h \in ChrHandles(d[i].chrs[j])
        BY <4>2, <4>5, ChrHandlesAre
      <4> QED
        BY <2>3, <4>1, <4>6, SvcHandlesAre
    <3> QED
      BY <2>4, <3>1, <3>2
  <2> QED
    BY <2>2, <2>5, HandlesAre
<1> QED
  BY <1>1

\* An empty table names nothing.
LEMMA NoHandles == Handles(<<>>) = {}
BY DEF Handles, ToSet

\* What a connection has in the table is a part of its database.
LEMMA ServicesPart ==
  ASSUME IInv, NEW c \in Conn
  PROVE  /\ db[c] \in Seq(Service) /\ WellFormed(db[c])
         /\ Services(c) \in Seq(Service) /\ PartOf(Services(c), db[c])
         /\ Handles(Services(c)) \subseteq Handles(db[c])
<1>1. ConnOK(c) /\ db[c] \in Databases \cup {<<>>}
  BY DEF IInv, Typed
<1>2. db[c] \in Seq(Service) /\ WellFormed(db[c])
  BY <1>1, DbIs
<1>3. Services(c) \in Seq(Service) /\ PartOf(Services(c), db[c])
  <2>1. CASE peers[c] = NoPeer
    <3>1. Services(c) = <<>>
      BY <2>1 DEF Services
    <3> QED
      BY <1>2, <3>1 DEF PartOf
  <2>2. CASE peers[c] # NoPeer
    BY <1>1, <2>2 DEF ConnOK, TableOK, Services, Peer
  <2> QED
    BY <2>1, <2>2
<1> QED
  BY <1>2, <1>3, PartHandles

\* Each variable keeps to its range, and the table names nothing that the peer has not.
THEOREM TypeCorrect == Spec => []TypeOK
<1>1. IInv => TypeOK
  <2> SUFFICES ASSUME IInv PROVE TypeOK
    OBVIOUS
  <2>1. Typed
    BY DEF IInv
  <2>2. free \in [svc : 0..MaxSvcs, chr : 0..MaxChrs, dsc : 0..MaxDscs]
    <3>1. /\ free \in Counts /\ free.svc + SvcsHeld(Tabs) = MaxSvcs
          /\ free.chr + ChrsHeld(Tabs) = MaxChrs /\ free.dsc + DscsHeld(Tabs) = MaxDscs
      BY DEF IInv, Accounts
    <3>2. SvcsHeld(Tabs) \in Nat /\ ChrsHeld(Tabs) \in Nat /\ DscsHeld(Tabs) \in Nat
      BY TabsAre, TableHeld
    <3>3. free.svc \in Nat /\ free.chr \in Nat /\ free.dsc \in Nat
      BY <3>1 DEF Counts
    <3>4. free.svc \in 0..MaxSvcs /\ free.chr \in 0..MaxChrs /\ free.dsc \in 0..MaxDscs
      BY <3>1, <3>2, <3>3
    <3>5. free = [svc |-> free.svc, chr |-> free.chr, dsc |-> free.dsc]
      BY <3>1, CountsIs
    <3> QED
      BY <3>4, <3>5
  <2>3. \A c \in Conn : Handles(Services(c)) \subseteq Handles(db[c])
    BY ServicesPart
  <2> QED
    BY <2>1, <2>2, <2>3 DEF TypeOK, Typed, Statuses
<1> QED
  BY <1>1, Invariance, PTL

\* Success is reported only when every service, characteristic and descriptor of the
\* peer is in the table, in its place.
THEOREM SuccessIsComplete == Spec => []CompleteOnSuccess
<1>1. IInv => CompleteOnSuccess
  BY DEF IInv, ConnOK, ChainOK, CompleteOnSuccess, Services
<1> QED
  BY <1>1, Invariance, PTL

\* However the chains of all connections interleave, and wherever they fail, the
\* end of each discovery is reported at most once, and then exactly once.
THEOREM OneReport == Spec => []ReportedOnce
<1>1. IInv => ReportedOnce
  BY DEF IInv, ConnOK, ReportsOK, ReportedOnce
<1> QED
  BY <1>1, Invariance, PTL

\* No block of a pool is lost or given out twice, for pools of any size.
THEOREM Accounting == Spec => []PoolAccounting
<1>1. IInv => PoolAccounting
  <2> SUFFICES ASSUME IInv PROVE PoolAccounting
    OBVIOUS
  <2>1. /\ ListsOK /\ free.svc + SvcsHeld(Tabs) = MaxSvcs
        /\ free.chr + ChrsHeld(Tabs) = MaxChrs /\ free.dsc + DscsHeld(Tabs) = MaxDscs
    BY DEF IInv, Accounts
  <2>2. \A c \in Conn : Tabs[c] = Services(c)
    BY DEF Tabs
  <2>3. SvcsHeld(Tabs) = Held([c \in Conn |-> SvcBlocks(Services(c))])
    <3>1. [c \in Conn |-> SvcBlocks(Tabs[c])] = [c \in Conn |-> SvcBlocks(Services(c))]
      BY <2>2
    <3> QED
      BY <3>1 DEF SvcsHeld
  <2>4. ChrsHeld(Tabs) = Held([c \in Conn |-> ChrBlocks(Services(c))])
    <3>1. [c \in Conn |-> ChrBlocks(Tabs[c])] = [c \in Conn |-> ChrBlocks(Services(c))]
      BY <2>2
    <3> QED
      BY <3>1 DEF ChrsHeld
  <2>5. DscsHeld(Tabs) = Held([c \in Conn |-> DscBlocks(Services(c))])
    <3>1. [c \in Conn |-> DscBlocks(Tabs[c])] = [c \in Conn |-> DscBlocks(Services(c))]
      BY <2>2
    <3> QED
      BY <3>1 DEF DscsHeld
  <2> QED
    BY <2>1, <2>3, <2>4, <2>5 DEF PoolAccounting, ListsOK
<1> QED
  BY <1>1, Invariance, PTL

-----------------------------------------------------------------------------
(* The table implements PeerTable.                                         *)

\* The abstract table is empty, too.
LEMMA InitAbstract == Init => Abstract!Init
BY NoHandles DEF Init, Abstract!Init, Services

\* A callback of a procedure that is under way.
LEMMA SettleAbstract ==
  ASSUME IInv, NEW c \in Conn, proc[c] # NoProc, NEW r, Settle(c, r),
         Good(r, peers[c].svcs, db[c])
  PROVE  [Abstract!Next]_(Abstract!vars)
<1>1. /\ status[c] = "running" /\ peers[c] # NoPeer /\ Services(c) = peers[c].svcs
  BY ProcIs
<1>2. /\ peers' = [peers EXCEPT ![c] = r.peer] /\ status' = [status EXCEPT ![c] = r.told]
      /\ db' = db
  BY DEF Settle
<1>3. Typed
  BY DEF IInv
<1>4. r.peer # NoPeer /\ r.peer.svcs = peers[c].svcs /\ r.told \in {"running", "ok", "error"}
      /\ (r.told = "ok" => peers[c].svcs = db[c])
  BY PeerIsPeer DEF Good
<1>5. \A x \in Conn : Services(x)' = Services(x)
  BY <1>1, <1>2, <1>3, <1>4 DEF Services, Typed
<1>6. /\ [x \in Conn |-> Handles(db[x])]' = [x \in Conn |-> Handles(db[x])]
      /\ [x \in Conn |-> Handles(Services(x))]' = [x \in Conn |-> Handles(Services(x))]
  BY <1>2, <1>5
<1>7. CASE r.told = "running"
  <2>1. status' = status
    BY <1>1, <1>2, <1>3, <1>7 DEF Typed
  <2> QED
    BY <1>6, <2>1 DEF Abstract!vars
<1>8. CASE r.told = "ok"
  <2>1. Handles(Services(c)) = Handles(db[c])
    BY <1>1, <1>4, <1>8
  <2>2. Abstract!Succeed(c)
    BY <1>1, <1>2, <1>6, <1>8, <2>1 DEF Abstract!Succeed, Abstract!Move
  <2> QED
    BY <2>2 DEF Abstract!Next
<1>9. CASE r.told = "error"
  <2>1. Abstract!Fail(c)
    BY <1>1, <1>2, <1>6, <1>9 DEF Abstract!Fail, Abstract!Move
  <2> QED
    BY <2>1 DEF Abstract!Next
<1> QED
  BY <1>4, <1>7, <1>8, <1>9

\* A report teaches the abstract table one handle, or fails.
LEMMA ItemAbstract ==
  ASSUME IInv, NEW c \in Conn, Item(c)
  PROVE  [Abstract!Next]_(Abstract!vars)
<1> DEFINE x == Head(proc[c].left)
           rest == [proc[c] EXCEPT !.left = Tail(@)]
           r == [peer |-> With(c, x), proc |-> rest, told |-> "running"]
<1>1. proc[c] # NoProc /\ proc[c].left # <<>>
  BY DEF Item, NoProc
<1>2. ItemAdds(c, peers[c], proc[c], db[c], x)
  BY <1>1, ProcIs, ItemGood
<1>3. CASE free[Pool(c)] = 0
  <2>1. Settle(c, Complete(peers[c], "error"))
    BY <1>2, <1>3 DEF Item, ItemAdds
  <2>2. Good(Complete(peers[c], "error"), peers[c].svcs, db[c])
    BY <1>1, ProcIs, CompleteGood
  <2> QED
    BY <1>1, <2>1, <2>2, SettleAbstract
<1>4. CASE free[Pool(c)] # 0
  <2>1. Settle(c, r)
    BY <1>2, <1>4 DEF Item, ItemAdds
  <2>2. r.peer = With(c, x) /\ r.told = "running"
    OBVIOUS
  <2>3. r.peer \in Peer /\ \E h \in Handles(db[c]) :
          Handles(r.peer.svcs) = Handles(peers[c].svcs) \cup {h}
    BY <1>2 DEF ItemAdds, Adds
  <2> HIDE DEF r
  <2>4. /\ status[c] = "running" /\ peers[c] # NoPeer /\ Services(c) = peers[c].svcs
    BY <1>1, ProcIs
  <2>5. Typed
    BY DEF IInv
  <2>6. /\ peers' = [peers EXCEPT ![c] = r.peer] /\ status' = status /\ db' = db
    BY <2>1, <2>2, <2>4, <2>5 DEF Settle, Typed
  <2>7. Services(c)' = r.peer.svcs /\ \A y \in Conn \ {c} : Services(y)' = Services(y)
    BY <2>3, <2>5, <2>6, PeerIsPeer DEF Services, Typed
  <2>8. PICK h \in Handles(db[c]) : Handles(Services(c)') = Handles(Services(c)) \cup {h}
    BY <2>3, <2>4, <2>7
  <2>9. CASE h \in Handles(Services(c))
    <3>1. \A y \in Conn : Handles(Services(y)') = Handles(Services(y))
      BY <2>7, <2>8, <2>9
    <3> QED
      BY <2>6, <3>1 DEF Abstract!vars
  <2>10. CASE h \notin Handles(Services(c))
    <3>1. [y \in Conn |-> Handles(Services(y))]'
            = [[y \in Conn |-> Handles(Services(y))] EXCEPT ![c] = @ \cup {h}]
      BY <2>7, <2>8
    <3>2. Abstract!Learn(c)
      BY <2>4, <2>6, <2>10, <3>1 DEF Abstract!Learn
    <3> QED
      BY <3>2 DEF Abstract!Next
  <2> QED
    BY <2>9, <2>10
<1> QED
  BY <1>3, <1>4

\* A connection is opened.
LEMMA ConnectAbstract ==
  ASSUME IInv, NEW c \in Conn, Connect(c)
  PROVE  [Abstract!Next]_(Abstract!vars)
<1>1. PICK d \in Databases, told \in {"running", "unstarted"} :
        db' = [db EXCEPT ![c] = d] /\ status' = [status EXCEPT ![c] = told]
  <2>1. PICK d \in Databases, accepted \in BOOLEAN :
          /\ db' = [db EXCEPT ![c] = d]
          /\ status' = [status EXCEPT
               ![c] = IF chain # <<>> /\ accepted THEN "running" ELSE "unstarted"]
    BY DEF Connect
  <2> QED
    BY <2>1
<1>2. Typed /\ ConnOK(c) /\ ~up[c]
  BY DEF IInv, Connect
<1>3. status[c] = "none" /\ peers[c] = NoPeer
  BY <1>2 DEF ConnOK, UpOK
<1> DEFINE new == [svcs |-> <<>>, disc_prev_chr_val |-> 1, cur_svc |-> 0]
<1>4. PICK p \in {new, NoPeer} : peers' = [peers EXCEPT ![c] = p]
  <2>1. PICK added \in BOOLEAN : peers' = [peers EXCEPT ![c] = IF added THEN new ELSE NoPeer]
    BY DEF Connect
  <2> HIDE DEF new
  <2> QED
    BY <2>1
<1>5. \A x \in Conn : Services(x)' = Services(x)
  BY <1>2, <1>3, <1>4 DEF Services, Typed
<1>6. [x \in Conn |-> Handles(Services(x))]' = [x \in Conn |-> Handles(Services(x))]
  BY <1>5
<1>7. [x \in Conn |-> Handles(db[x])]'
        = [[x \in Conn |-> Handles(db[x])] EXCEPT ![c] = Handles(d)]
  BY <1>1, <1>2 DEF Typed
<1>8. Handles(d) \in SUBSET (UNION {Handles(e) : e \in Databases})
  OBVIOUS
<1>9. Abstract!Open(c)
  BY <1>1, <1>3, <1>6, <1>7, <1>8 DEF Abstract!Open, Abstract!Move
<1> QED
  BY <1>9 DEF Abstract!Next

\* A connection is closed.
LEMMA DisconnectAbstract ==
  ASSUME IInv, NEW c \in Conn, Disconnect(c)
  PROVE  [Abstract!Next]_(Abstract!vars)
<1>1. /\ up[c] /\ peers' = [peers EXCEPT ![c] = NoPeer] /\ db' = [db EXCEPT ![c] = <<>>]
      /\ status' = [status EXCEPT ![c] = "none"]
  BY DEF Disconnect
<1>2. Typed /\ status[c] # "none"
  BY <1>1 DEF IInv, ConnOK, UpOK
<1>3. [x \in Conn |-> Handles(Services(x))]'
        = [[x \in Conn |-> Handles(Services(x))] EXCEPT ![c] = {}]
  <2>1. Services(c)' = <<>> /\ \A x \in Conn \ {c} : Services(x)' = Services(x)
    BY <1>1, <1>2 DEF Services, Typed
  <2> QED
    BY <2>1, NoHandles
<1>4. [x \in Conn |-> Handles(db[x])]'
        = [[x \in Conn |-> Handles(db[x])] EXCEPT ![c] = {}]
  BY <1>1, <1>2, NoHandles DEF Typed
<1>5. Abstract!Close(c)
  BY <1>1, <1>2, <1>3, <1>4 DEF Abstract!Close
<1> QED
  BY <1>5 DEF Abstract!Next

\* All connections are closed.
LEMMA GoToSleepAbstract == GoToSleep => Abstract!CloseAll
BY NoHandles DEF GoToSleep, Abstract!CloseAll, Services

\* Every step is one of PeerTable, or changes nothing there.
LEMMA NextAbstract == IInv /\ [Next]_vars => [Abstract!Next]_(Abstract!vars)
<1> SUFFICES ASSUME IInv, [Next]_vars PROVE [Abstract!Next]_(Abstract!vars)
  OBVIOUS
<1>1. ASSUME NEW c \in Conn, Done(c) PROVE [Abstract!Next]_(Abstract!vars)
  <2>1. proc[c] # NoProc /\ proc[c].left = <<>>
    BY <1>1 DEF Done, NoProc
  <2>2. PICK accepted \in BOOLEAN : Settle(c, AfterProc(c, accepted))
    BY <1>1 DEF Done
  <2>3. Good(AfterProc(c, accepted), peers[c].svcs, db[c])
    BY <2>1, ProcIs, AfterProcGood
  <2> QED
    BY <2>1, <2>2, <2>3, SettleAbstract
<1>2. ASSUME NEW c \in Conn, ProcError(c) PROVE [Abstract!Next]_(Abstract!vars)
  <2>1. proc[c] # NoProc /\ Settle(c, Complete(peers[c], "error"))
    BY <1>2 DEF ProcError, NoProc
  <2>2. Good(Complete(peers[c], "error"), peers[c].svcs, db[c])
    BY <2>1, ProcIs, CompleteGood
  <2> QED
    BY <2>1, <2>2, SettleAbstract
<1>3. ASSUME NEW c \in Conn, Item(c) PROVE [Abstract!Next]_(Abstract!vars)
  BY <1>3, ItemAbstract
<1>4. ASSUME NEW c \in Conn, Connect(c) PROVE [Abstract!Next]_(Abstract!vars)
  BY <1>4, ConnectAbstract
<1>5. ASSUME NEW c \in Conn, Disconnect(c) PROVE [Abstract!Next]_(Abstract!vars)
  BY <1>5, DisconnectAbstract
<1>6. CASE GoToSleep
  BY <1>6, GoToSleepAbstract DEF Abstract!Next
<1>7. CASE UNCHANGED vars
  <2>1. peers' = peers /\ db' = db /\ status' = status
    BY <1>7 DEF vars
  <2> QED
    BY <2>1 DEF Abstract!vars, Services
<1> QED
  BY <1>1, <1>2, <1>3, <1>4, <1>5, <1>6, <1>7 DEF Next

\* The table of mesh_peer.c does what the rest of the firmware relies on.
THEOREM Refinement == Spec => ImplementsPeerTable
BY Invariance, InitAbstract, NextAbstract, PTL DEF Spec, ImplementsPeerTable, Abstract!Spec
-----------------------------------------------------------------------------
(* The chain goes forward.                                                 *)

\* The characteristics that a procedure is about belong to the first service that
\* had none when it began.
Asked(q, p) ==
  q.kind = "chrs" =>
    \E i \in 1..Len(p.svcs) :
      /\ p.cur_svc = p.svcs[i].start /\ ~SvcIsEmpty(p.svcs[i])
      /\ \A m \in 1..Len(p.svcs) : m < i => SvcIsEmpty(p.svcs[m]) \/ p.svcs[m].chrs # <<>>

AskedInv == \A c \in Conn : Asked(proc[c], peers[c])

\* What peer_disc_chrs and peer_disc_dscs yield when they begin a procedure.
BeginsChrs(p, r) ==
  /\ r.proc.kind = "chrs"
  /\ \E i \in Undiscovered(p) :
       /\ \A j \in Undiscovered(p) : i <= j
       /\ r.peer = [p EXCEPT !.cur_svc = p.svcs[i].start]

BeginsDscs(p, r) ==
  /\ r.proc.kind = "dscs"
  /\ \E i \in 1..Len(p.svcs) : \E j \in 1..Len(p.svcs[i].chrs) :
       /\ p.disc_prev_chr_val <= p.svcs[i].chrs[j].def
       /\ r.proc.of = p.svcs[i].chrs[j].val

\* The procedure that peer_disc_dscs asks for.
LEMMA NextDscs ==
  ASSUME NEW c, NEW p \in Peer, NEW accepted, NEW r, r = DiscDscs(c, p, accepted),
         r.told = "running"
  PROVE  BeginsDscs(p, r)
<1> DEFINE ij == FirstOf(Undescribed(p))
           val == p.svcs[ij[1]].chrs[ij[2]].val
           end == ChrEndHandle(p.svcs[ij[1]], ij[2])
<1>1. p.svcs \in Seq(Service)
  BY DEF Peer
<1>2. Undescribed(p) # {}
  <2>1. ASSUME Undescribed(p) = {} PROVE r.told = "ok"
    BY <2>1 DEF DiscDscs, Complete
  <2> QED
    BY <2>1
<1>3. r = [peer |-> [p EXCEPT !.disc_prev_chr_val = val],
           proc |-> IF accepted THEN DscProc(db[c], val, end) ELSE NoProc,
           told |-> IF accepted THEN "running" ELSE "error"]
  BY <1>2 DEF DiscDscs
<1>4. r.proc = DscProc(db[c], val, end)
  <2> HIDE DEF ij, val, end
  <2> QED
    BY <1>3
<1>5. r.proc.kind = "dscs" /\ r.proc.of = val
  <2> HIDE DEF ij, val, end
  <2> QED
    BY <1>4 DEF DscProc
<1>6. ij \in Undescribed(p)
  <2>1. ASSUME NEW b \in ChrBlocks(p.svcs) PROVE b \in Nat \X Nat
    <3>1. PICK m \in 1..Len(p.svcs) : b \in {m} \X (1..Len(p.svcs[m].chrs))
      BY DEF ChrBlocks, SvcBlocks
    <3>2. m \in Nat /\ Len(p.svcs[m].chrs) \in Nat
      BY <1>1, SvcShape
    <3> QED
      BY <3>1, <3>2
  <2>2. Undescribed(p) \subseteq Nat \X Nat
    BY <2>1 DEF Undescribed
  <2> QED
    BY <1>2, <2>2, FirstOfLeast
<1> HIDE DEF ij
<1>7. /\ ij \in ChrBlocks(p.svcs)
      /\ p.disc_prev_chr_val <= p.svcs[ij[1]].chrs[ij[2]].def
  BY <1>6 DEF Undescribed
<1>8. PICK i \in 1..Len(p.svcs) : ij \in {i} \X (1..Len(p.svcs[i].chrs))
  BY <1>7 DEF ChrBlocks, SvcBlocks
<1>9. ij[1] = i /\ ij[2] \in 1..Len(p.svcs[i].chrs)
  BY <1>8
<1> QED
  BY <1>5, <1>7, <1>9 DEF BeginsDscs

\* Its kind, whatever it reports.
LEMMA ChrsKind ==
  ASSUME NEW d, NEW svc
  PROVE  ChrProc(d, svc).kind = "chrs"
<1> DEFINE s == d[StartsAt(d, svc.start)]
           left == [i \in 1..Len(s.chrs) |-> [def |-> s.chrs[i].def, val |-> s.chrs[i].val]]
<1>1. ChrProc(d, svc) = [kind |-> "chrs", left |-> left]
  BY ZenonT(60) DEF ChrProc
<1> HIDE DEF left
<1> QED
  BY <1>1

\* The procedure that peer_disc_chrs asks for.
LEMMA NextChrs ==
  ASSUME NEW c, NEW p \in Peer, NEW accepted, NEW r, r = DiscChrs(c, p, accepted),
         r.told = "running"
  PROVE  r = DiscDscs(c, p, accepted) \/ BeginsChrs(p, r)
<1>1. CASE Undiscovered(p) = {}
  BY <1>1 DEF DiscChrs
<1>2. CASE Undiscovered(p) # {}
  <2> DEFINE i == CHOOSE i \in Undiscovered(p) : \A j \in Undiscovered(p) : i <= j
             q == [p EXCEPT !.cur_svc = p.svcs[i].start]
  <2>1. i \in Undiscovered(p) /\ \A j \in Undiscovered(p) : i <= j
    <3>1. Len(p.svcs) \in Nat
      BY DEF Peer
    <3>2. Undiscovered(p) \subseteq Nat
      BY <3>1 DEF Undiscovered
    <3>3. \E n \in Undiscovered(p) : \A j \in Undiscovered(p) : n <= j
      BY <1>2, <3>2, LeastNat
    <3> QED
      BY <3>3
  <2>2. r = IF accepted
            THEN [peer |-> q, proc |-> ChrProc(db[c], p.svcs[i]), told |-> "running"]
            ELSE Complete(q, "error")
    BY <1>2 DEF DiscChrs
  <2> HIDE DEF i
  <2>3. CASE accepted
    <3>1. r.peer = q /\ r.proc = ChrProc(db[c], p.svcs[i])
      BY <2>2, <2>3
    <3>2. r.proc.kind = "chrs"
      BY <3>1, ChrsKind
    <3> QED
      BY <2>1, <3>1, <3>2 DEF BeginsChrs
  <2>4. CASE ~accepted
    BY <2>2, <2>4 DEF Complete
  <2> QED
    BY <2>3, <2>4
<1> QED
  BY <1>1, <1>2

\* It is for the first service without characteristics.
LEMMA NextChrsAsked ==
  ASSUME NEW c, NEW p \in Peer, NEW accepted, NEW r, r = DiscChrs(c, p, accepted),
         r.told = "running"
  PROVE  Asked(r.proc, r.peer)
<1>1. CASE r = DiscDscs(c, p, accepted)
  <2>1. r.proc.kind = "dscs"
    BY <1>1, NextDscs DEF BeginsDscs
  <2> QED
    BY <2>1 DEF Asked
<1>2. ASSUME NEW i \in Undiscovered(p), \A j \in Undiscovered(p) : i <= j,
             r.peer = [p EXCEPT !.cur_svc = p.svcs[i].start]
      PROVE  Asked(r.proc, r.peer)
  <2>1. r.peer.svcs = p.svcs /\ r.peer.cur_svc = p.svcs[i].start
    BY <1>2 DEF Peer
  <2>2. i \in 1..Len(p.svcs) /\ ~SvcIsEmpty(p.svcs[i]) /\ Len(p.svcs) \in Nat
    BY DEF Undiscovered, Peer
  <2>3. ASSUME NEW m \in 1..Len(p.svcs), m < i
        PROVE  SvcIsEmpty(p.svcs[m]) \/ p.svcs[m].chrs # <<>>
    <3>1. m \notin Undiscovered(p)
      BY <1>2, <2>2, <2>3
    <3> QED
      BY <3>1 DEF Undiscovered
  <2> QED
    BY <2>1, <2>2, <2>3 DEF Asked
<1>3. r = DiscDscs(c, p, accepted) \/ BeginsChrs(p, r)
  BY NextChrs
<1> QED
  BY <1>1, <1>2, <1>3 DEF BeginsChrs

\* A service keeps its range when its list of characteristics changes.
LEMMA KeepsRange ==
  ASSUME NEW t \in Seq(Service), NEW k \in 1..Len(t), NEW list,
         NEW u, u = [t EXCEPT ![k].chrs = list]
  PROVE  /\ Len(u) = Len(t)
         /\ \A m \in 1..Len(t) :
              u[m].start = t[m].start /\ u[m].end = t[m].end /\ (m # k => u[m] = t[m])
<1>1. DOMAIN t = 1..Len(t) /\ Len(t) \in Nat
  OBVIOUS
<1>2. DOMAIN u = 1..Len(t) /\ u = [m \in 1..Len(t) |-> u[m]]
  BY <1>1
<1>3. Len(u) = Len(t)
  BY <1>1, <1>2
<1>4. ASSUME NEW m \in 1..Len(t), m # k PROVE u[m] = t[m]
  BY <1>1, <1>4
<1>5. u[k].start = t[k].start /\ u[k].end = t[k].end
  <2>1. t[k] \in Service
    BY SvcShape
  <2>2. u[k] = [t[k] EXCEPT !.chrs = list]
    BY <1>1
  <2>3. "start" \in DOMAIN t[k] /\ "end" \in DOMAIN t[k]
    BY <2>1 DEF Service
  <2> QED
    BY <2>2, <2>3
<1> QED
  BY <1>3, <1>4, <1>5

\* A report leaves the procedure where it was.
StaysThere(c, p, q, x) ==
  Asked([q EXCEPT !.left = Tail(@)], With(c, x)) /\ With(c, x).cur_svc = p.cur_svc

\* That is so for all three kinds of procedure.
LEMMA ItemAsked ==
  ASSUME NEW c, NEW d \in Seq(Service), WellFormed(d), NEW p \in Peer, peers[c] = p,
         NEW q, proc[c] = q, PartOf(p.svcs, d), UnderWay(q, p, d), q.left # <<>>,
         Asked(q, p), NEW x, x = Head(q.left)
  PROVE  StaysThere(c, p, q, x)
<1> DEFINE rest == [q EXCEPT !.left = Tail(@)]
           t == p.svcs
<1>1. ~Known(c, x)
  BY ItemGood DEF ItemAdds
<1>2. ASSUME AtSvcs(q, p, d)
      PROVE  Asked(rest, With(c, x)) /\ With(c, x).cur_svc = p.cur_svc
  <2>1. q.kind = "svcs" /\ rest.kind = "svcs"
    BY <1>2 DEF AtSvcs
  <2>2. With(c, x) = WithSvc(p, x)
    BY <1>1, <2>1 DEF With
  <2>3. WithSvc(p, x).cur_svc = p.cur_svc
    BY DEF WithSvc, Peer
  <2> QED
    BY <2>1, <2>2, <2>3 DEF Asked
<1>3. ASSUME NEW i \in 1..Len(d), AtChrs(q, p, d, i)
      PROVE  Asked(rest, With(c, x)) /\ With(c, x).cur_svc = p.cur_svc
  <2>1. q.kind = "chrs" /\ rest.kind = "chrs" /\ Len(t) = Len(d)
    BY <1>3 DEF AtChrs
  <2>2. With(c, x) = WithChr(p, x)
    BY <1>1, <2>1 DEF With
  <2>3. StartsAt(t, p.cur_svc) = i
    BY <1>3, ChrItem
  <2> DEFINE list == Linked(t[i].chrs, CountBelow(Values(t[i].chrs), x.def),
                            [def |-> x.def, val |-> x.val, dscs |-> <<>>])
             u == [t EXCEPT ![i].chrs = list]
  <2>4. WithChr(p, x) = [p EXCEPT !.svcs = u]
    BY <2>3 DEF WithChr
  <2> HIDE DEF list
  <2>5. t \in Seq(Service) /\ i \in 1..Len(t) /\ Len(t) \in Nat
    BY <2>1 DEF Peer
  <2>6. /\ Len(u) = Len(t)
        /\ \A m \in 1..Len(t) :
             u[m].start = t[m].start /\ u[m].end = t[m].end /\ (m # i => u[m] = t[m])
    BY <2>5, KeepsRange
  <2> HIDE DEF u
  <2>7. With(c, x).svcs = u /\ With(c, x).cur_svc = p.cur_svc
    BY <2>2, <2>4 DEF Peer
  <2>8. PICK k \in 1..Len(t) :
          /\ p.cur_svc = t[k].start /\ ~SvcIsEmpty(t[k])
          /\ \A m \in 1..Len(t) : m < k => SvcIsEmpty(t[m]) \/ t[m].chrs # <<>>
    BY <2>1 DEF Asked
  <2>9. k = i
    <3>1. k \in 1..Len(d) /\ d[k].start = t[k].start
      BY <2>1, <2>5, SvcPart
    <3>2. p.cur_svc = d[i].start
      BY <1>3 DEF AtChrs
    <3>3. StartsAt(d, d[k].start) = k /\ StartsAt(d, d[i].start) = i
      BY <3>1, StartIs
    <3> QED
      BY <2>8, <3>1, <3>2, <3>3
  <2>10. \A m \in 1..Len(t) : SvcIsEmpty(u[m]) = SvcIsEmpty(t[m])
    BY <2>6 DEF SvcIsEmpty
  <2>11. /\ p.cur_svc = u[i].start /\ ~SvcIsEmpty(u[i])
         /\ \A m \in 1..Len(u) : m < i => SvcIsEmpty(u[m]) \/ u[m].chrs # <<>>
    BY <2>5, <2>6, <2>8, <2>9, <2>10
  <2> QED
    BY SMTT(60), <2>5, <2>6, <2>7, <2>11 DEF Asked
<1>4. ASSUME NEW i \in 1..Len(d), NEW j \in 1..Len(d[i].chrs), AtDscs(q, p, d, i, j)
      PROVE  Asked(rest, With(c, x)) /\ With(c, x).cur_svc = p.cur_svc
  <2>1. q.kind = "dscs" /\ rest.kind = "dscs"
    BY <1>4 DEF AtDscs
  <2>2. With(c, x) = WithDsc(p, q.of, x)
    BY <1>1, <2>1 DEF With
  <2>3. WithDsc(p, q.of, x).cur_svc = p.cur_svc
    BY DEF WithDsc, Peer
  <2> QED
    BY SMTT(60), <2>1, <2>2, <2>3 DEF Asked
<1>5. Asked(rest, With(c, x)) /\ With(c, x).cur_svc = p.cur_svc
  BY <1>2, <1>3, <1>4 DEF UnderWay
<1> QED
  BY <1>5 DEF StaysThere

\* A callback at the end of a procedure that starts another one: the new one comes
\* later, and is the one that the chain has to ask for.
LEMMA NextIsLater ==
  ASSUME NEW c, NEW d \in Seq(Service), db[c] = d, WellFormed(d), HasCharacteristics(d),
         NEW p \in Peer, peers[c] = p, NEW q, proc[c] = q, PartOf(p.svcs, d),
         UnderWay(q, p, d), q.left = <<>>, Asked(q, p),
         NEW accepted, NEW r, r = AfterProc(c, accepted), r.told = "running"
  PROVE  \/ Stage(q) < Stage(r.proc)
         \/ q.kind = "chrs" /\ r.proc.kind = "chrs" /\ p.cur_svc < r.peer.cur_svc
         \/ q.kind = "dscs" /\ r.proc.kind = "dscs" /\ q.of < r.proc.of
<1> DEFINE t == p.svcs
<1>1. t \in Seq(Service) /\ Len(t) \in Nat /\ Len(d) \in Nat
  BY DEF Peer
<1>2. CASE AtSvcs(q, p, d)
  <2>1. q.kind = "svcs" /\ p.disc_prev_chr_val = 1
    BY <1>2 DEF AtSvcs
  <2>2. r = DiscChrs(c, p, accepted)
    BY <2>1 DEF AfterProc
  <2>3. BeginsDscs(p, r) \/ BeginsChrs(p, r)
    BY <2>2, NextChrs, NextDscs
  <2> QED
    BY <2>1, <2>3 DEF Stage, BeginsChrs, BeginsDscs
<1>3. ASSUME NEW i \in 1..Len(d), AtChrs(q, p, d, i)
      PROVE  \/ Stage(q) < Stage(r.proc)
             \/ q.kind = "chrs" /\ r.proc.kind = "chrs" /\ p.cur_svc < r.peer.cur_svc
  <2>1. /\ q.kind = "chrs" /\ p.disc_prev_chr_val = 1 /\ Len(t) = Len(d)
        /\ Left(ChrReports(d[i]), Len(t[i].chrs)) = <<>> /\ p.cur_svc = d[i].start
    BY <1>3 DEF AtChrs
  <2>2. r = DiscChrs(c, p, accepted)
    BY <2>1 DEF AfterProc
  <2>3. CASE BeginsDscs(p, r)
    BY <2>1, <2>3 DEF Stage, BeginsDscs
  <2>4. ASSUME r.proc.kind = "chrs", NEW n \in Undiscovered(p),
               r.peer = [p EXCEPT !.cur_svc = t[n].start]
        PROVE  p.cur_svc < r.peer.cur_svc
    <3>1. /\ i \in 1..Len(t) /\ n \in 1..Len(t) /\ n \in 1..Len(d)
          /\ ~SvcIsEmpty(t[n]) /\ t[n].chrs = <<>>
      BY <1>1, <2>1 DEF Undiscovered
    <3>2. r.peer.cur_svc = t[n].start
      BY <2>4 DEF Peer
    <3>3. PICK k \in 1..Len(t) :
            /\ p.cur_svc = t[k].start
            /\ \A m \in 1..Len(t) : m < k => SvcIsEmpty(t[m]) \/ t[m].chrs # <<>>
      BY <2>1 DEF Asked
    <3>4. ~(n < k)
      BY <3>1, <3>3
    <3>5. /\ t[k].start = d[k].start /\ t[n].start = d[n].start /\ k \in 1..Len(d)
          /\ t[n].end = d[n].end
      BY <1>1, <3>1, SvcPart
    <3>6. k = i
      <4>1. StartsAt(d, d[k].start) = k /\ StartsAt(d, d[i].start) = i
        BY <3>5, StartIs
      <4> QED
        BY <2>1, <3>3, <3>5, <4>1
    <3>7. n # i
      <4>1. SUFFICES ASSUME n = i PROVE FALSE
        OBVIOUS
      <4>2. Len(d[i].chrs) # 0
        <5>1. d[i] \in ToSet(d)
          BY <1>1 DEF ToSet
        <5>2. ~SvcIsEmpty(d[i])
          BY <3>1, <3>5, <4>1 DEF SvcIsEmpty
        <5>3. d[i].chrs # <<>> /\ d[i].chrs \in Seq(Characteristic)
          BY <5>1, <5>2, SvcShape DEF HasCharacteristics
        <5> QED
          BY <5>3
      <4>3. Len(t[i].chrs) = 0
        BY <3>1, <4>1
      <4>4. /\ ChrReports(d[i]) \in Seq([def : Nat, val : Nat])
            /\ Len(ChrReports(d[i])) = Len(d[i].chrs)
        <5>1. \A m \in 1..Len(d[i].chrs) : d[i].chrs[m].def \in Nat /\ d[i].chrs[m].val \in Nat
          BY ChrShape
        <5>2. Len(d[i].chrs) \in Nat
          BY SvcShape
        <5> QED
          BY <5>1, <5>2 DEF ChrReports
      <4>5. Left(ChrReports(d[i]), 0) = ChrReports(d[i])
        BY <4>4, LeftAll
      <4>6. ChrReports(d[i]) = <<>>
        BY <2>1, <4>3, <4>5
      <4> QED
        BY <4>2, <4>4, <4>6
    <3>8. i < n
      <4>1. i \in Nat /\ n \in Nat
        BY <1>1, <3>1
      <4> QED
        BY <3>4, <3>6, <3>7, <4>1
    <3>9. d[i].start <= d[i].end /\ d[i].end < d[n].start
      BY <3>1, <3>8, SvcOrder
    <3>10. d[i].start \in Nat /\ d[i].end \in Nat /\ d[n].start \in Nat
      BY <3>1, SvcShape
    <3>11. d[i].start < d[n].start
      BY <3>9, <3>10
    <3> QED
      BY <2>1, <3>2, <3>5, <3>11
  <2>5. BeginsDscs(p, r) \/ BeginsChrs(p, r)
    BY <2>2, NextChrs, NextDscs
  <2> QED
    BY <2>1, <2>3, <2>4, <2>5 DEF BeginsChrs
<1>4. ASSUME NEW i \in 1..Len(d), NEW j \in 1..Len(d[i].chrs), AtDscs(q, p, d, i, j)
      PROVE  q.kind = "dscs" /\ r.proc.kind = "dscs" /\ q.of < r.proc.of
  <2>1. /\ q.kind = "dscs" /\ q.of = d[i].chrs[j].val /\ p.disc_prev_chr_val = d[i].chrs[j].val
    BY <1>4 DEF AtDscs
  <2>2. d[i].chrs[j].val \in Nat /\ d[i].chrs[j].def \in Nat /\ d[i].chrs[j].def < d[i].chrs[j].val
    BY ChrShape, ChrOrder
  <2>3. p.disc_prev_chr_val # 0
    <3>1. \A a, b \in Nat : a < b => b # 0
      OBVIOUS
    <3> QED
      BY <2>1, <2>2, <3>1, ZenonT(60)
  <2>4. r = DiscDscs(c, p, accepted)
    BY <2>1, <2>3 DEF AfterProc
  <2>5. BeginsDscs(p, r)
    BY <2>4, NextDscs
  <2>6. PICK m \in 1..Len(t) : \E n \in 1..Len(t[m].chrs) :
          p.disc_prev_chr_val <= t[m].chrs[n].def /\ r.proc.of = t[m].chrs[n].val
    BY <2>5 DEF BeginsDscs
  <2>7. PICK n \in 1..Len(t[m].chrs) :
          p.disc_prev_chr_val <= t[m].chrs[n].def /\ r.proc.of = t[m].chrs[n].val
    BY <2>6
  <2>8. /\ m \in 1..Len(d) /\ n \in 1..Len(d[m].chrs)
        /\ t[m].chrs[n].def = d[m].chrs[n].def /\ t[m].chrs[n].val = d[m].chrs[n].val
    <3>1. m \in 1..Len(d)
      BY <1>1, SvcPart
    <3>2. PartOf(t, d)
      OBVIOUS
    <3> HIDE DEF t
    <3> QED
      BY ZenonT(60), <1>1, <3>1, <3>2, ChrPart
  <2>9. /\ d[m].chrs[n].def \in Nat /\ d[m].chrs[n].val \in Nat
        /\ d[m].chrs[n].def < d[m].chrs[n].val
    BY <2>8, ChrShape, ChrOrder
  <2>10. \A a, b, e \in Nat : a <= b /\ b < e => a < e
    OBVIOUS
  <2>11. q.of < r.proc.of
    BY <2>1, <2>2, <2>7, <2>8, <2>9, <2>10, ZenonT(60)
  <2> QED
    BY SMTT(60), <2>1, <2>5, <2>11 DEF BeginsDscs
<1> QED
  BY <1>2, <1>3, <1>4 DEF UnderWay

\* Nothing is asked for before a connection exists.
LEMMA InitAsked == Init => AskedInv
BY DEF Init, AskedInv, Asked, NoProc

\* What a callback does to the connections.
LEMMA SettleOne ==
  ASSUME IInv, NEW c \in Conn, NEW r, Settle(c, r)
  PROVE  /\ peers'[c] = r.peer /\ proc'[c] = r.proc /\ status'[c] = r.told
         /\ \A x \in Conn \ {c} :
              peers'[x] = peers[x] /\ proc'[x] = proc[x] /\ beat'[x] = beat[x]
BY DEF Settle, IInv, Typed

\* The report that a step of Item works on.
LEMMA ItemStep ==
  ASSUME IInv, NEW c \in Conn, Item(c)
  PROVE  LET x == Head(proc[c].left)
             rest == [proc[c] EXCEPT !.left = Tail(@)]
         IN  /\ proc[c] # NoProc /\ proc[c].left # <<>>
             /\ \/ Settle(c, Complete(peers[c], "error"))
                \/ Settle(c, [peer |-> With(c, x), proc |-> rest, told |-> "running"])
BY DEF Item, NoProc

\* Every step leaves the procedures where they have to be.
LEMMA NextAsked == IInv /\ AskedInv /\ [Next]_vars => AskedInv'
<1> SUFFICES ASSUME IInv, AskedInv, [Next]_vars PROVE AskedInv'
  OBVIOUS
<1>1. ASSUME NEW c \in Conn, NEW r, Settle(c, r), Asked(r.proc, r.peer) PROVE AskedInv'
  BY <1>1, SettleOne DEF AskedInv
<1>2. \A p : Asked(NoProc, p)
  BY DEF Asked, NoProc
<1>3. ASSUME NEW c \in Conn, Settle(c, Complete(peers[c], "error")) PROVE AskedInv'
  <2>1. Complete(peers[c], "error").proc = NoProc
    BY DEF Complete
  <2> QED
    BY <1>1, <1>2, <1>3, <2>1
<1>4. ASSUME NEW c \in Conn, Item(c) PROVE AskedInv'
  <2> DEFINE x == Head(proc[c].left)
             rest == [proc[c] EXCEPT !.left = Tail(@)]
             r == [peer |-> With(c, x), proc |-> rest, told |-> "running"]
  <2>1. /\ proc[c] # NoProc /\ proc[c].left # <<>>
        /\ Settle(c, Complete(peers[c], "error")) \/ Settle(c, r)
    BY <1>4, ItemStep
  <2>2. Asked(rest, With(c, x))
    <3>1. StaysThere(c, peers[c], proc[c], x)
      BY <2>1, ProcIs, ItemAsked DEF AskedInv
    <3> QED
      BY <3>1 DEF StaysThere
  <2>3. r.peer = With(c, x) /\ r.proc = rest
    OBVIOUS
  <2> HIDE DEF r, x, rest
  <2> QED
    BY <1>1, <1>3, <2>1, <2>2, <2>3
<1>5. ASSUME NEW c \in Conn, Done(c) PROVE AskedInv'
  <2>1. proc[c] # NoProc /\ proc[c].left = <<>>
    BY <1>5 DEF Done, NoProc
  <2>2. PICK accepted \in BOOLEAN : Settle(c, AfterProc(c, accepted))
    BY <1>5 DEF Done
  <2> DEFINE r == AfterProc(c, accepted)
  <2>3. Good(r, peers[c].svcs, db[c])
    BY <2>1, ProcIs, AfterProcGood
  <2>4. CASE r.told # "running"
    <3>1. r.proc = NoProc
      BY <2>3, <2>4 DEF Good
    <3> QED
      BY <1>1, <1>2, <2>2, <3>1
  <2>5. CASE r.told = "running"
    <3>1. CASE r = DiscDscs(c, peers[c], accepted)
      <4>1. r.proc.kind = "dscs"
        BY <2>1, <2>5, <3>1, ProcIs, NextDscs DEF BeginsDscs
      <4>2. Asked(r.proc, r.peer)
        BY <4>1 DEF Asked
      <4> QED
        BY <1>1, <2>2, <4>2
    <3>2. CASE r = DiscChrs(c, peers[c], accepted)
      <4>1. Asked(r.proc, r.peer)
        BY <2>1, <2>5, <3>2, ProcIs, NextChrsAsked
      <4> QED
        BY <1>1, <2>2, <4>1
    <3>3. r = [peer |-> peers[c], proc |-> NoProc, told |-> status[c]]
          \/ r = DiscDscs(c, peers[c], accepted) \/ r = DiscChrs(c, peers[c], accepted)
      BY DEF AfterProc
    <3>4. CASE r = [peer |-> peers[c], proc |-> NoProc, told |-> status[c]]
      <4>1. r.proc = NoProc
        BY <3>4
      <4> QED
        BY <1>1, <1>2, <2>2, <4>1
    <3> QED
      BY <3>1, <3>2, <3>3, <3>4
  <2> QED
    BY <2>4, <2>5
<1>6. ASSUME NEW c \in Conn, ProcError(c) PROVE AskedInv'
  BY <1>3, <1>6 DEF ProcError
<1>7. ASSUME NEW c \in Conn, Connect(c) PROVE AskedInv'
  <2>1. PICK q \in {NoProc} \cup {SvcProc(d) : d \in Databases} :
          proc' = [proc EXCEPT ![c] = q]
    BY ZenonT(60), <1>7 DEF Connect
  <2>2. PICK p : peers' = [peers EXCEPT ![c] = p]
    BY <1>7 DEF Connect
  <2>3. proc'[c] = q /\ \A x \in Conn \ {c} : proc'[x] = proc[x] /\ peers'[x] = peers[x]
    BY <2>1, <2>2 DEF IInv, Typed
  <2>4. q.kind # "chrs"
    BY <2>1 DEF NoProc, SvcProc
  <2> QED
    BY <2>3, <2>4 DEF AskedInv, Asked
<1>8. ASSUME NEW c \in Conn, Disconnect(c) PROVE AskedInv'
  <2>1. peers' = [peers EXCEPT ![c] = NoPeer] /\ proc' = [proc EXCEPT ![c] = NoProc]
    BY <1>8 DEF Disconnect
  <2>2. proc'[c] = NoProc /\ \A x \in Conn \ {c} : proc'[x] = proc[x] /\ peers'[x] = peers[x]
    BY <2>1 DEF IInv, Typed
  <2> QED
    BY <1>2, <2>2 DEF AskedInv
<1>9. CASE GoToSleep
  BY <1>2, <1>9 DEF GoToSleep, AskedInv
<1>10. CASE UNCHANGED vars
  BY <1>10 DEF vars, AskedInv
<1> QED
  BY <1>4, <1>5, <1>6, <1>7, <1>8, <1>9, <1>10 DEF Next

\* One callback of a discovery that goes on.
LEMMA StepAdvances ==
  ASSUME IInv, AskedInv, Next, NEW c \in Conn, beat'[c] # beat[c],
         status[c] = "running", status'[c] = "running", HasCharacteristics(db[c])
  PROVE  \/ /\ proc[c].left # <<>> /\ proc'[c] = [proc[c] EXCEPT !.left = Tail(@)]
            /\ peers'[c].cur_svc = peers[c].cur_svc
         \/ MovesOn(c)
<1> DEFINE Goal == \/ /\ proc[c].left # <<>> /\ proc'[c] = [proc[c] EXCEPT !.left = Tail(@)]
                      /\ peers'[c].cur_svc = peers[c].cur_svc
                   \/ MovesOn(c)
<1>1. ASSUME NEW x \in Conn, NEW r, Settle(x, r)
      PROVE  x = c /\ peers'[c] = r.peer /\ proc'[c] = r.proc /\ r.told = "running"
  BY <1>1, SettleOne
<1>2. ASSUME NEW x \in Conn, Settle(x, Complete(peers[x], "error")) PROVE FALSE
  <2>1. Complete(peers[x], "error").told = "error"
    BY DEF Complete
  <2> QED
    BY <1>1, <1>2, <2>1
<1>3. ASSUME NEW x \in Conn, Item(x) PROVE Goal
  <2> DEFINE y == Head(proc[x].left)
             rest == [proc[x] EXCEPT !.left = Tail(@)]
             r == [peer |-> With(x, y), proc |-> rest, told |-> "running"]
  <2>1. proc[x] # NoProc /\ proc[x].left # <<>> /\ Settle(x, r)
    BY <1>2, <1>3, ItemStep
  <2>2. x = c /\ peers'[c] = With(x, y) /\ proc'[c] = rest
    BY SMTT(60), <1>1, <2>1
  <2>3. StaysThere(x, peers[x], proc[x], y)
    BY <2>1, ProcIs, ItemAsked DEF AskedInv
  <2>4. With(x, y).cur_svc = peers[x].cur_svc
    BY <2>3 DEF StaysThere
  <2> QED
    BY <2>1, <2>2, <2>4
<1>4. ASSUME NEW x \in Conn, Done(x) PROVE Goal
  <2>1. proc[x] # NoProc /\ proc[x].left = <<>>
    BY <1>4 DEF Done, NoProc
  <2>2. PICK accepted \in BOOLEAN : Settle(x, AfterProc(x, accepted))
    BY <1>4 DEF Done
  <2> DEFINE r == AfterProc(x, accepted)
  <2>3. x = c /\ peers'[c] = r.peer /\ proc'[c] = r.proc /\ r.told = "running"
    BY <1>1, <2>2
  <2>4. \/ Stage(proc[c]) < Stage(r.proc)
        \/ proc[c].kind = "chrs" /\ r.proc.kind = "chrs" /\ peers[c].cur_svc < r.peer.cur_svc
        \/ proc[c].kind = "dscs" /\ r.proc.kind = "dscs" /\ proc[c].of < r.proc.of
    BY <2>1, <2>3, ProcIs, NextIsLater DEF AskedInv
  <2> HIDE DEF r
  <2>5. MovesOn(c)
    BY <2>3, <2>4 DEF MovesOn
  <2> QED
    BY <2>5
<1>5. ASSUME NEW x \in Conn, ProcError(x) PROVE Goal
  BY <1>2, <1>5 DEF ProcError
<1>6. ASSUME NEW x \in Conn, Connect(x) PROVE Goal
  <2>1. x = c
    BY <1>6 DEF Connect, IInv, Typed
  <2>2. ~up[c]
    BY <1>6, <2>1 DEF Connect
  <2>3. status[c] = "none"
    BY <2>2 DEF IInv, ConnOK, UpOK
  <2> QED
    BY <2>3
<1>7. ASSUME NEW x \in Conn, Disconnect(x) PROVE Goal
  <2>1. beat' = [beat EXCEPT ![x] = FALSE] /\ status' = [status EXCEPT ![x] = "none"]
    BY <1>7 DEF Disconnect
  <2>2. x = c /\ status'[c] = "none"
    BY <2>1 DEF IInv, Typed
  <2> QED
    BY <2>2
<1>8. CASE GoToSleep
  <2>1. status'[c] = "none"
    BY <1>8 DEF GoToSleep
  <2> QED
    BY <2>1
<1> QED
  BY <1>3, <1>4, <1>5, <1>6, <1>7, <1>8 DEF Next

\* The safety half of the end of a discovery, for every well-formed database: no
\* callback of a discovery that goes on leaves its chain where it was, or takes it back.
THEOREM Progress == Spec => ChainAdvances
<1>1. IInv /\ AskedInv /\ [Next]_vars
        => [\A c \in Conn :
              /\ beat'[c] # beat[c] /\ status[c] = "running" /\ status'[c] = "running"
              /\ HasCharacteristics(db[c])
              => \/ /\ proc[c].left # <<>> /\ proc'[c] = [proc[c] EXCEPT !.left = Tail(@)]
                    /\ peers'[c].cur_svc = peers[c].cur_svc
                 \/ MovesOn(c)]_vars
  BY StepAdvances
<1>2. Spec => []AskedInv
  BY Invariance, InitAsked, NextAsked, PTL DEF Spec
<1> QED
  BY <1>1, <1>2, Invariance, PTL DEF Spec, ChainAdvances

\* What the comment in mesh_peer.c says of the services does hold of peers whose
\* services all have a characteristic, or no attributes at all.
THEOREM NextService ==
  ASSUME \A d \in Databases : HasCharacteristics(d)
  PROVE  Spec => NextServiceFollows
<1>1. ASSUME IInv, IInv', AskedInv, Next, NEW c \in Conn, beat'[c] # beat[c],
             proc[c].kind = "chrs", proc[c].left = <<>>, proc'[c].kind = "chrs"
      PROVE  peers[c].cur_svc < peers'[c].cur_svc
  <2>1. proc[c] # NoProc /\ proc'[c] # NoProc
    BY <1>1 DEF NoProc
  <2>2. status[c] = "running" /\ HasCharacteristics(db[c])
    BY <1>1, <2>1, ProcIs
  <2>3. status'[c] = "running"
    BY <1>1, <2>1 DEF IInv, ConnOK, ChainOK
  <2>4. MovesOn(c)
    BY <1>1, <2>2, <2>3, StepAdvances
  <2> QED
    BY <1>1, <2>4 DEF MovesOn, Stage
<1>2. IInv /\ IInv' /\ AskedInv /\ [Next]_vars
        => [\A c \in Conn :
              /\ beat'[c] # beat[c]
              /\ proc[c].kind = "chrs" /\ proc[c].left = <<>> /\ proc'[c].kind = "chrs"
              => peers[c].cur_svc < peers'[c].cur_svc]_vars
  BY <1>1
<1>3. Spec => []AskedInv
  BY Invariance, InitAsked, NextAsked, PTL DEF Spec
<1> QED
  BY <1>2, <1>3, Invariance, PTL DEF Spec, NextServiceFollows
=============================================================================
