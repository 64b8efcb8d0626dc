------------------------------ MODULE MeshPeer ------------------------------
(***************************************************************************)
(* The peer table of one node (main/mesh_peer.c): peers, and the services, *)
(* characteristics and descriptors discovered on each of them, in blocks   *)
(* of four pools that all peers share.  Discovery is a chain of NimBLE     *)
(* procedures whose callbacks pick the next one; the chains of several     *)
(* connections interleave.  A callback is one action.  NimBLE itself and   *)
(* the attribute database of the peer are external.                        *)
(***************************************************************************)
EXTENDS Integers, Sequences, FiniteSets, SequencesExt

CONSTANTS
  Conn,       \* connection handles
  Databases,  \* the attribute databases a peer may have
  MaxPeers, MaxSvcs, MaxChrs, MaxDscs  \* the sizes of the pools

\* A database lists services, each with its characteristics and each of those with
\* the handles of its descriptors.
Characteristic == [def : Nat, val : Nat, dscs : Seq(Nat)]
Service == [start : Nat, end : Nat, chrs : Seq(Characteristic)]

\* What the attribute protocol requires of a database: handles ascend from 1, a
\* service or characteristic is declared before its parts, and these come before
\* the next declaration.
WellFormed(d) ==
  \A i \in 1..Len(d) :
    /\ 0 < d[i].start /\ d[i].start <= d[i].end
    /\ \A m \in (i + 1)..Len(d) : d[i].end < d[m].start
    /\ \A j \in 1..Len(d[i].chrs) :
         LET chr == d[i].chrs[j] IN
         /\ d[i].start < chr.def /\ chr.def < chr.val /\ chr.val <= d[i].end
         /\ \A m \in (j + 1)..Len(d[i].chrs) : chr.val < d[i].chrs[m].def
         /\ \A k \in 1..Len(chr.dscs) :
              /\ chr.val < chr.dscs[k] /\ chr.dscs[k] <= d[i].end
              /\ \A m \in (j + 1)..Len(d[i].chrs) : chr.dscs[k] < d[i].chrs[m].def
              /\ \A m \in (k + 1)..Len(chr.dscs) : chr.dscs[k] < chr.dscs[m]

ASSUME ConnAssumption == IsFiniteSet(Conn)
ASSUME DatabaseAssumption == \A d \in Databases : d \in Seq(Service) /\ WellFormed(d)
ASSUME PoolAssumption ==
  {MaxPeers, MaxSvcs, MaxChrs, MaxDscs} \subseteq Nat

VARIABLES
  peers,    \* peers[c]: what the table holds of connection c, or NoPeer
  proc,     \* proc[c]: the GATT procedure that is under way on c, or NoProc
  db,       \* db[c]: the database of the peer behind c
  up,       \* up[c]: the connection exists
  status,   \* status[c]: what disc_cb was last told of the current discovery
  reports,  \* reports[c]: how often disc_cb was called for it (history)
  beat,     \* beat[c] flips with every callback: one that changes nothing else is
            \* still a step (history)
  free,     \* how many blocks of the pools of services, ... are free
  order,    \* the list of peers, newest first
  chain,    \* the free blocks of peer_pool, in list order: the handle that each
            \* still holds of the peer it was, {} for a block never used
  abandoned \* the peers the node did not disconnect when it last went to sleep
            \* (history)

peerVars == <<order, chain, abandoned>>
vars == <<peers, proc, db, up, status, reports, beat, free, order, chain, abandoned>>

NoPeer == [absent |-> TRUE]
NoProc == [kind |-> "none", left |-> <<>>]

\* The pools after mesh_peer_init.
AllFree == [svc |-> MaxSvcs, chr |-> MaxChrs, dsc |-> MaxDscs]
Unused  == [i \in 1..MaxPeers |-> {}]

-----------------------------------------------------------------------------
(* Lists of blocks, sorted by handle.                                      *)

Starts(svcs) == [i \in 1..Len(svcs) |-> svcs[i].start]
Values(chrs) == [i \in 1..Len(chrs) |-> chrs[i].val]

\* peer_svc_find_prev, peer_chr_find_prev, peer_dsc_find_prev, on the handles hs
\* of a list: how many entries at its front have a smaller one.
CountBelow(hs, h) == Cardinality({i \in 1..Len(hs) : \A j \in 1..i : hs[j] < h})

\* The entry the find functions return exists, and has handle h.
Found(hs, h) ==
  LET k == CountBelow(hs, h) IN k < Len(hs) /\ hs[k + 1] = h

\* (mutant) the new entry replaces what precedes it
InsertedAtHead(svcs, x) ==
  <<x>> \o SubSeq(svcs, CountBelow(Starts(svcs), x.start) + 1, Len(svcs))

\* SLIST_INSERT_HEAD or SLIST_INSERT_AFTER: peer_svc_add keeps what follows.
Inserted(svcs, x) ==
  LET k == CountBelow(Starts(svcs), x.start)
  IN SubSeq(svcs, 1, k) \o <<x>> \o SubSeq(svcs, k + 1, Len(svcs))

\* SLIST_INSERT_HEAD or SLIST_NEXT(prev) = x: peer_chr_add and peer_dsc_add cut
\* off what follows the k entries before x.
Linked(s, k, x) == IF k = 0 THEN <<x>> \o s ELSE SubSeq(s, 1, k) \o <<x>>

\* The service that starts at a handle; the one whose range has it
\* (peer_svc_find_range); the characteristic with a value handle.
StartsAt(svcs, h)   == SelectInSeq(svcs, LAMBDA s : s.start = h)
RangeHas(svcs, h)   == SelectInSeq(svcs, LAMBDA s : s.start <= h /\ h <= s.end)
HasValue(chrs, val) == SelectInSeq(chrs, LAMBDA chr : chr.val = val)

\* The blocks of a list of services, and those that hang off it, by their places.
SvcBlocks(svcs) == 1..Len(svcs)
ChrBlocks(svcs) == UNION {{i} \X (1..Len(svcs[i].chrs)) : i \in SvcBlocks(svcs)}
DscBlocks(svcs) ==
  UNION {{ij} \X (1..Len(svcs[ij[1]].chrs[ij[2]].dscs)) : ij \in ChrBlocks(svcs)}

\* (mutants) descriptors are not freed; characteristics are freed twice
FreedShallow(svcs, f) ==
  [f EXCEPT !.svc = @ + Cardinality(SvcBlocks(svcs)),
            !.chr = @ + Cardinality(ChrBlocks(svcs))]
FreedTwice(svcs, f) ==
  [f EXCEPT !.svc = @ + Cardinality(SvcBlocks(svcs)),
            !.chr = @ + 2 * Cardinality(ChrBlocks(svcs)),
            !.dsc = @ + Cardinality(DscBlocks(svcs))]

\* Every block of a service list goes back to its pool (peer_svc_delete and
\* peer_chr_delete, for each service).
Freed(svcs, f) ==
  [f EXCEPT !.svc = @ + Cardinality(SvcBlocks(svcs)),
            !.chr = @ + Cardinality(ChrBlocks(svcs)),
            !.dsc = @ + Cardinality(DscBlocks(svcs))]

\* The handles a list of services names: of services, of the values of
\* characteristics, and of descriptors.
ChrHandles(chr) == {chr.val} \cup ToSet(chr.dscs)
SvcHandles(s) == {s.start} \cup UNION {ChrHandles(chr) : chr \in ToSet(s.chrs)}
Handles(svcs) == UNION {SvcHandles(s) : s \in ToSet(svcs)}

-----------------------------------------------------------------------------
(* GATT procedures (external): what is reported, in ascending order.       *)

SvcProc(d) ==
  [kind |-> "svcs",
   left |-> [i \in 1..Len(d) |-> [start |-> d[i].start, end |-> d[i].end]]]

ChrProc(d, svc) ==
  LET s == d[StartsAt(d, svc.start)] IN
  [kind |-> "chrs",
   left |-> [i \in 1..Len(s.chrs) |-> [def |-> s.chrs[i].def, val |-> s.chrs[i].val]]]

Attributes(d) ==
  Handles(d) \cup UNION {{chr.def : chr \in ToSet(s.chrs)} : s \in ToSet(d)}

Ascending(S) ==
  CHOOSE s \in [1..Cardinality(S) -> S] : \A i, j \in 1..Cardinality(S) : i < j => s[i] < s[j]

\* Every attribute after the value, up to the end of the characteristic.
DscProc(d, val, end) ==
  [kind |-> "dscs", of |-> val,
   left |-> Ascending({h \in Attributes(d) : val < h /\ h <= end})]

-----------------------------------------------------------------------------
(* The chain of procedures.  Each step yields the peer, the procedure that *)
(* is under way next, and what disc_cb is told; "accepted" says whether    *)
(* NimBLE accepts the procedure it is asked for.                           *)

\* peer_disc_complete
Complete(p, result) ==
  [peer |-> [p EXCEPT !.disc_prev_chr_val = 0], proc |-> NoProc, told |-> result]

\* peer_svc_is_empty
SvcIsEmpty(svc) == svc.end <= svc.start

\* (mutant) the range runs into the next characteristic
ChrEndAtNext(svc, j) ==
  IF j < Len(svc.chrs) THEN svc.chrs[j + 1].def ELSE svc.end

\* chr_end_handle: the next characteristic starts after it.
ChrEndHandle(svc, j) ==
  IF j < Len(svc.chrs) THEN svc.chrs[j + 1].def - 1 ELSE svc.end

ChrIsEmpty(svc, j) == ChrEndHandle(svc, j) <= svc.chrs[j].val

\* (mutant) disc_prev_chr_val is not looked at
UndescribedAgain(p) ==
  {ij \in ChrBlocks(p.svcs) :
     /\ ~ChrIsEmpty(p.svcs[ij[1]], ij[2])
     /\ p.svcs[ij[1]].chrs[ij[2]].dscs = <<>>}

\* The characteristics whose descriptors peer_disc_dscs still asks for.
Undescribed(p) ==
  {ij \in ChrBlocks(p.svcs) :
     /\ ~ChrIsEmpty(p.svcs[ij[1]], ij[2])
     /\ p.svcs[ij[1]].chrs[ij[2]].dscs = <<>>
     /\ p.disc_prev_chr_val <= p.svcs[ij[1]].chrs[ij[2]].def}

FirstOf(S) ==
  CHOOSE a \in S : \A b \in S : a[1] < b[1] \/ (a[1] = b[1] /\ a[2] <= b[2])

\* peer_disc_dscs.  A refused procedure is reported before disc_prev_chr_val is
\* set.
DiscDscs(c, p, accepted) ==
  IF Undescribed(p) = {} THEN Complete(p, "ok")
  ELSE LET ij  == FirstOf(Undescribed(p))
           svc == p.svcs[ij[1]]
           val == svc.chrs[ij[2]].val
       IN [peer |-> [p EXCEPT !.disc_prev_chr_val = val],
           proc |-> IF accepted THEN DscProc(db[c], val, ChrEndHandle(svc, ij[2])) ELSE NoProc,
           told |-> IF accepted THEN "running" ELSE "error"]

\* The services whose characteristics peer_disc_chrs still asks for.
Undiscovered(p) ==
  {i \in 1..Len(p.svcs) : ~SvcIsEmpty(p.svcs[i]) /\ p.svcs[i].chrs = <<>>}

\* peer_disc_chrs
DiscChrs(c, p, accepted) ==
  IF Undiscovered(p) = {} THEN DiscDscs(c, p, accepted)
  ELSE LET i == CHOOSE i \in Undiscovered(p) : \A j \in Undiscovered(p) : i <= j
           q == [p EXCEPT !.cur_svc = p.svcs[i].start]
       IN IF accepted
          THEN [peer |-> q, proc |-> ChrProc(db[c], p.svcs[i]), told |-> "running"]
          ELSE Complete(q, "error")

\* The end of a callback.
Settle(c, r) ==
  /\ peers' = [peers EXCEPT ![c] = r.peer]
  /\ proc' = [proc EXCEPT ![c] = r.proc]
  /\ status' = [status EXCEPT ![c] = r.told]
  /\ reports' = [reports EXCEPT ![c] = IF r.told = "running" THEN @ ELSE @ + 1]
  /\ beat' = [beat EXCEPT ![c] = ~@]
  /\ UNCHANGED <<db, up, peerVars>>

-----------------------------------------------------------------------------
(* Adding what a procedure reports.                                        *)

\* peer_svc_add, peer_chr_add and peer_dsc_add, as the list they leave.
WithSvc(p, x) ==
  [p EXCEPT !.svcs = Inserted(@, [start |-> x.start, end |-> x.end, chrs |-> <<>>])]

\* peer_chr_add looks for the definition handle among the value handles.
WithChr(p, x) ==
  [p EXCEPT !.svcs[StartsAt(p.svcs, p.cur_svc)].chrs =
     Linked(@, CountBelow(Values(@), x.def), [def |-> x.def, val |-> x.val, dscs |-> <<>>])]

\* peer_dsc_add: the service by range, the characteristic by value handle.
WithDsc(p, val, x) ==
  LET i == RangeHas(p.svcs, val)
      j == HasValue(p.svcs[i].chrs, val)
  IN [p EXCEPT !.svcs[i].chrs[j].dscs = Linked(@, CountBelow(@, x), x)]

\* The handles of the list the reported entry belongs to.
Siblings(c) ==
  LET svcs == peers[c].svcs IN
  CASE proc[c].kind = "svcs" -> Starts(svcs)
    [] proc[c].kind = "chrs" -> Values(svcs[StartsAt(svcs, peers[c].cur_svc)].chrs)
    [] OTHER ->
         LET chrs == svcs[RangeHas(svcs, proc[c].of)].chrs
         IN chrs[HasValue(chrs, proc[c].of)].dscs

\* The entry is in the table already.
Known(c, x) ==
  Found(Siblings(c),
        CASE proc[c].kind = "svcs" -> x.start [] proc[c].kind = "chrs" -> x.def [] OTHER -> x)

\* What of the table an entry takes a block from.
Pool(c) == CASE proc[c].kind = "svcs" -> "svc" [] proc[c].kind = "chrs" -> "chr" [] OTHER -> "dsc"

With(c, x) ==
  IF Known(c, x) THEN peers[c] ELSE
  CASE proc[c].kind = "svcs" -> WithSvc(peers[c], x)
    [] proc[c].kind = "chrs" -> WithChr(peers[c], x)
    [] OTHER                 -> WithDsc(peers[c], proc[c].of, x)

\* (mutant) the callback reports the error but returns 0, so NimBLE goes on
ItemGoesOn(c) ==
  /\ proc[c].left # <<>>
  /\ LET x    == Head(proc[c].left)
         rest == [proc[c] EXCEPT !.left = Tail(@)]
     IN IF ~Known(c, x) /\ free[Pool(c)] = 0
        THEN /\ Settle(c, [Complete(peers[c], "error") EXCEPT !.proc = rest])
             /\ UNCHANGED free
        ELSE /\ Settle(c, [peer |-> With(c, x), proc |-> rest, told |-> "running"])
             /\ free' = [free EXCEPT ![Pool(c)] = IF Known(c, x) THEN @ ELSE @ - 1]

\* peer_svc_disced, peer_chr_disced, peer_dsc_disced with status 0: the item is
\* added, or its pool is empty; an error code makes NimBLE drop the procedure.
Item(c) ==
  /\ proc[c].left # <<>>
  /\ LET x    == Head(proc[c].left)
         rest == [proc[c] EXCEPT !.left = Tail(@)]
     IN IF ~Known(c, x) /\ free[Pool(c)] = 0
        THEN /\ Settle(c, Complete(peers[c], "error"))
             /\ UNCHANGED free
        ELSE /\ Settle(c, [peer |-> With(c, x), proc |-> rest, told |-> "running"])
             /\ free' = [free EXCEPT ![Pool(c)] = IF Known(c, x) THEN @ ELSE @ - 1]

\* The step the callbacks take when a procedure is done: none, if disc_cb was
\* told of the end before.
AfterProc(c, accepted) ==
  IF peers[c].disc_prev_chr_val = 0
  THEN [peer |-> peers[c], proc |-> NoProc, told |-> status[c]]
  ELSE IF proc[c].kind = "dscs" THEN DiscDscs(c, peers[c], accepted)
  ELSE DiscChrs(c, peers[c], accepted)

\* The same callbacks with status BLE_HS_EDONE: on to the next procedure.
Done(c) ==
  /\ proc[c].kind # "none" /\ proc[c].left = <<>>
  /\ \E accepted \in BOOLEAN : Settle(c, AfterProc(c, accepted))
  /\ UNCHANGED free

\* The same callbacks with any other status, such as an ATT timeout.
ProcError(c) ==
  /\ proc[c].kind # "none"
  /\ Settle(c, Complete(peers[c], "error"))
  /\ UNCHANGED free

-----------------------------------------------------------------------------
(* Connections.                                                            *)

\* BLE_GAP_EVENT_CONNECT: mesh_peer_add, then mesh_peer_disc_all.  When either
\* fails the handler only logs, and the connection stays up with nothing known.
Connect(c) ==
  /\ ~up[c]
  /\ up' = [up EXCEPT ![c] = TRUE]
  /\ reports' = [reports EXCEPT ![c] = 0]
  /\ beat' = [beat EXCEPT ![c] = FALSE]
  /\ \E d \in Databases, accepted \in BOOLEAN :
       LET added   == chain # <<>>
           started == added /\ accepted
       IN /\ db' = [db EXCEPT ![c] = d]
          /\ peers' = [peers EXCEPT ![c] =
               IF added THEN [svcs |-> <<>>, disc_prev_chr_val |-> 1, cur_svc |-> 0] ELSE NoPeer]
          /\ order' = IF added THEN <<c>> \o order ELSE order
          /\ chain' = IF added THEN Tail(chain) ELSE chain
          /\ proc' = [proc EXCEPT ![c] = IF started THEN SvcProc(d) ELSE NoProc]
          /\ status' = [status EXCEPT ![c] = IF started THEN "running" ELSE "unstarted"]
  /\ abandoned' = {}
  /\ UNCHANGED free

\* The connection ends: NimBLE fails the procedure that is under way, and
\* BLE_GAP_EVENT_DISCONNECT then removes the peer (mesh_peer_delete).
Disconnect(c) ==
  /\ up[c]
  /\ up' = [up EXCEPT ![c] = FALSE]
  /\ peers' = [peers EXCEPT ![c] = NoPeer]
  /\ proc' = [proc EXCEPT ![c] = NoProc]
  /\ db' = [db EXCEPT ![c] = <<>>]
  /\ status' = [status EXCEPT ![c] = "none"]
  /\ reports' = [reports EXCEPT ![c] = IF proc[c] = NoProc THEN @ ELSE @ + 1]
  /\ beat' = [beat EXCEPT ![c] = FALSE]
  /\ IF peers[c] = NoPeer THEN UNCHANGED <<free, order, chain>>
     ELSE /\ free' = Freed(peers[c].svcs, free)
          /\ order' = RemoveFirst(order, c)
          /\ chain' = <<{c}>> \o chain
  /\ UNCHANGED abandoned

\* mesh_peer_exec_for_each(mesh_node_disconnect): the peers that are disconnected.
\* The first one is deleted while the walk stands on it.  Its block is then the
\* head of the free chain, whose link took the place of "next", so the walk goes
\* on over the old chain and deletes the peers whose handles it finds there;
\* garbage is what blocks that were never used happen to hold.
Walked(garbage) ==
  IF order = <<>> THEN {}
  ELSE ({Head(order)} \cup garbage \cup UNION ToSet(chain)) \cap ToSet(order)

Fresh == {i \in 1..Len(chain) : chain[i] = {}}

\* meshsnsr_proc_go_to_sleep, from the walk on: RAM and connections are gone, and
\* mesh_peer_init sets the pools up again after the next boot.
GoToSleep ==
  /\ \E c \in Conn : up[c]
  /\ \E garbage \in SUBSET Conn :
       /\ Cardinality(garbage) <= Cardinality(Fresh)
       /\ abandoned' = ToSet(order) \ Walked(garbage)
  /\ peers' = [c \in Conn |-> NoPeer] /\ order' = <<>>
  /\ proc' = [c \in Conn |-> NoProc]
  /\ db' = [c \in Conn |-> <<>>]
  /\ up' = [c \in Conn |-> FALSE]
  /\ status' = [c \in Conn |-> "none"]
  /\ reports' = [c \in Conn |-> 0]
  /\ beat' = [c \in Conn |-> FALSE]
  /\ free' = AllFree /\ chain' = Unused

Init ==
  /\ peers = [c \in Conn |-> NoPeer]
  /\ proc = [c \in Conn |-> NoProc]
  /\ db = [c \in Conn |-> <<>>]
  /\ up = [c \in Conn |-> FALSE]
  /\ status = [c \in Conn |-> "none"]
  /\ reports = [c \in Conn |-> 0]
  /\ beat = [c \in Conn |-> FALSE]
  /\ free = AllFree /\ order = <<>> /\ chain = Unused /\ abandoned = {}

Next ==
  \/ \E c \in Conn : Connect(c) \/ Disconnect(c) \/ Item(c) \/ Done(c) \/ ProcError(c)
  \/ GoToSleep

Spec == Init /\ [][Next]_vars

\* An ATT procedure makes progress or times out.
FairSpec == Spec /\ \A c \in Conn : WF_vars(Item(c) \/ Done(c) \/ ProcError(c))

-----------------------------------------------------------------------------
(* Properties.                                                             *)

\* The services in the table, each entry in the form the database has.
Services(c) == IF peers[c] = NoPeer THEN <<>> ELSE peers[c].svcs

\* Each variable keeps to its range; the lists of the table hold handles only of
\* what the peer has.
TypeOK ==
  /\ up \in [Conn -> BOOLEAN] /\ beat \in [Conn -> BOOLEAN]
  /\ status \in [Conn -> {"none", "unstarted", "running", "ok", "error"}]
  /\ reports \in [Conn -> Nat]
  /\ db \in [Conn -> Databases \cup {<<>>}]
  /\ free \in [svc : 0..MaxSvcs, chr : 0..MaxChrs, dsc : 0..MaxDscs]
  /\ order \in Seq(Conn) /\ chain \in Seq(SUBSET Conn) /\ abandoned \subseteq Conn
  /\ \A c \in Conn : Handles(Services(c)) \subseteq Handles(db[c])

\* When meshsnsr_on_disc_complete is told of success, the table holds the whole
\* database of the peer: every service, characteristic and descriptor, under the
\* right parent, in handle order (mesh_main.c:334 "Now we have a complete list
\* of services, characteristics, and descriptors that the peer supports").
CompleteOnSuccess ==
  \A c \in Conn : status[c] = "ok" => Services(c) = db[c]

\* disc_cb is called at most once per discovery, although every callback of the
\* chain can end it, and exactly once when the chain is over.
ReportedOnce ==
  \A c \in Conn :
    /\ reports[c] <= 1
    /\ up[c] /\ status[c] \in {"ok", "error"} => reports[c] = 1

\* How many blocks all connections hold, given those of each.
Held(blocks) == Cardinality(UNION {{c} \X blocks[c] : c \in Conn})

\* No block of the shared pools is lost or counted twice: the free blocks and
\* those the tables of all connections hold make up each pool, whatever
\* discovery failed half-way (peer_svc_delete, peer_chr_delete, mesh_peer_delete).
\* The list of peers has each peer once.
PoolAccounting ==
  /\ Len(chain) + Len(order) = MaxPeers
  /\ ToSet(order) = {c \in Conn : peers[c] # NoPeer} /\ IsInjective(order)
  /\ free.svc + Held([c \in Conn |-> SvcBlocks(Services(c))]) = MaxSvcs
  /\ free.chr + Held([c \in Conn |-> ChrBlocks(Services(c))]) = MaxChrs
  /\ free.dsc + Held([c \in Conn |-> DscBlocks(Services(c))]) = MaxDscs

\* A discovery that is under way comes to an end: disc_cb is told, or the
\* connection is gone; unless the peer has a service with attributes but without
\* a characteristic.
HasCharacteristics(d) == \A s \in ToSet(d) : SvcIsEmpty(s) \/ s.chrs # <<>>
DiscoveryEnds ==
  \A c \in Conn :
    status[c] = "running" /\ HasCharacteristics(db[c]) ~> status[c] # "running"

\* The places of the procedures of a discovery in its order.
Stage(q) == CASE q.kind = "svcs" -> 1 [] q.kind = "chrs" -> 2 [] OTHER -> 3

\* Connection c has moved on to a procedure it has not run before.
MovesOn(c) ==
  \/ Stage(proc[c]) < Stage(proc'[c])
  \/ /\ proc[c].kind = "chrs" /\ proc'[c].kind = "chrs"
     /\ peers[c].cur_svc < peers'[c].cur_svc
  \/ /\ proc[c].kind = "dscs" /\ proc'[c].kind = "dscs"
     /\ proc[c].of < proc'[c].of

\* Every callback of a discovery that goes on takes it further: the procedure under
\* way has one report less to make, or the next one is for a later service or
\* characteristic.  Where the chain is can only be told from what the lists of the
\* peer lack (peer_disc_chrs) and from disc_prev_chr_val (peer_disc_dscs), so an
\* empty list must never look undiscovered twice.
ChainAdvances ==
  [][\A c \in Conn :
       /\ beat'[c] # beat[c] /\ status[c] = "running" /\ status'[c] = "running"
       /\ HasCharacteristics(db[c])
       => \/ /\ proc[c].left # <<>> /\ proc'[c] = [proc[c] EXCEPT !.left = Tail(@)]
             /\ peers'[c].cur_svc = peers[c].cur_svc
          \/ MovesOn(c)]_vars

\* mesh_peer.c:398: "All characteristics in this service discovered; start
\* discovering characteristics in the next service."
NextServiceFollows ==
  [][\A c \in Conn :
       /\ beat'[c] # beat[c]
       /\ proc[c].kind = "chrs" /\ proc[c].left = <<>> /\ proc'[c].kind = "chrs"
       => peers[c].cur_svc < peers'[c].cur_svc]_vars

\* mesh_main.c:660: "Now disconnect from all peers."
EveryPeerDisconnected == abandoned = {}

\* The table implements the abstract one: see PeerTable.
Abstract ==
  INSTANCE PeerTable WITH
    Attribute <- UNION {Handles(d) : d \in Databases},
    offered <- [c \in Conn |-> Handles(db[c])],
    known <- [c \in Conn |-> Handles(Services(c))],
    phase <- status
ImplementsPeerTable == Abstract!Spec
=============================================================================
