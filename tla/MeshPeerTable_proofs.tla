----------------------- MODULE MeshPeerTable_proofs ------------------------
(* What each report of a peer does to the table: the entry it adds, the block it *)
(* takes, and how far the procedure is afterwards.                               *)
EXTENDS MeshPeerData_proofs

-----------------------------------------------------------------------------
(* The table and the database.                                             *)

Statuses == {"none", "unstarted", "running", "ok", "error"}

\* The table of one peer.
Peer == [svcs : Seq(Service), disc_prev_chr_val : Nat, cur_svc : Nat]

\* An entry of the table is one of the database, with the front of its list.
ChrOf(chr, e) ==
  /\ chr.def = e.def /\ chr.val = e.val
  /\ Len(chr.dscs) <= Len(e.dscs)
  /\ \A k \in 1..Len(chr.dscs) : chr.dscs[k] = e.dscs[k]

SvcOf(s, e) ==
  /\ s.start = e.start /\ s.end = e.end
  /\ Len(s.chrs) <= Len(e.chrs)
  /\ \A j \in 1..Len(s.chrs) : ChrOf(s.chrs[j], e.chrs[j])

\* The table t holds what the database d has, from the front of each list.
PartOf(t, d) ==
  /\ Len(t) <= Len(d)
  /\ \A i \in 1..Len(t) : SvcOf(t[i], d[i])

NoDscs(t) == \A i \in 1..Len(t) : \A j \in 1..Len(t[i].chrs) : t[i].chrs[j].dscs = <<>>

AllChrs(t, d) == Len(t) = Len(d) /\ \A i \in 1..Len(d) : Len(t[i].chrs) = Len(d[i].chrs)

Full(t, d, i, j) == Len(t[i].chrs[j].dscs) = Len(d[i].chrs[j].dscs)

\* What a procedure has not reported yet, after n reports.
Left(all, n) == SubSeq(all, n + 1, Len(all))

ChrReports(s) == [n \in 1..Len(s.chrs) |-> [def |-> s.chrs[n].def, val |-> s.chrs[n].val]]

\* The procedure q under way, with the table of p: every entry that was reported is
\* in it, and nothing that comes after it.
AtSvcs(q, p, d) ==
  /\ q = [kind |-> "svcs", left |-> Left(SvcProc(d).left, Len(p.svcs))]
  /\ p.disc_prev_chr_val = 1
  /\ \A i \in 1..Len(p.svcs) : p.svcs[i].chrs = <<>>

AtChrs(q, p, d, i) ==
  /\ q = [kind |-> "chrs", left |-> Left(ChrReports(d[i]), Len(p.svcs[i].chrs))]
  /\ p.disc_prev_chr_val = 1 /\ p.cur_svc = d[i].start
  /\ Len(p.svcs) = Len(d)
  /\ \A m \in 1..Len(d) : m # i => Len(p.svcs[m].chrs) \in {0, Len(d[m].chrs)}
  /\ NoDscs(p.svcs)

AtDscs(q, p, d, i, j) ==
  /\ q = [kind |-> "dscs", of |-> d[i].chrs[j].val,
          left |-> Left(d[i].chrs[j].dscs, Len(p.svcs[i].chrs[j].dscs))]
  /\ p.disc_prev_chr_val = d[i].chrs[j].val
  /\ AllChrs(p.svcs, d)
  /\ \A m \in 1..Len(d) : \A n \in 1..Len(d[m].chrs) :
       <<m, n>> # <<i, j>> =>
         IF d[m].chrs[n].def < d[i].chrs[j].val THEN Full(p.svcs, d, m, n)
         ELSE p.svcs[m].chrs[n].dscs = <<>>

UnderWay(q, p, d) ==
  \/ AtSvcs(q, p, d)
  \/ \E i \in 1..Len(d) : AtChrs(q, p, d, i)
  \/ \E i \in 1..Len(d) : \E j \in 1..Len(d[i].chrs) : AtDscs(q, p, d, i, j)

-----------------------------------------------------------------------------
(* What a reported entry does to the table.                                *)

NewSvc(x) == [start |-> x.start, end |-> x.end, chrs |-> <<>>]
NewChr(x) == [def |-> x.def, val |-> x.val, dscs |-> <<>>]

\* The table with another characteristic of service i, another descriptor of its
\* characteristic j.
PutChr(t, i, chr) == [t EXCEPT ![i].chrs = Append(@, chr)]
PutDsc(t, i, j, x) == [t EXCEPT ![i].chrs[j].dscs = Append(@, x)]

\* The parts of a table that a database also has.
LEMMA SvcPart ==
  ASSUME NEW t \in Seq(Service), NEW d \in Seq(Service), PartOf(t, d), NEW i \in 1..Len(t)
  PROVE  /\ i \in 1..Len(d) /\ t[i].start = d[i].start /\ t[i].end = d[i].end
         /\ Len(t[i].chrs) <= Len(d[i].chrs)
<1>1. Len(t) \in Nat /\ Len(d) \in Nat
  OBVIOUS
<1> QED
  BY <1>1 DEF PartOf, SvcOf

\* The same of a characteristic.
LEMMA ChrPart ==
  ASSUME NEW t \in Seq(Service), NEW d \in Seq(Service), PartOf(t, d), NEW i \in 1..Len(t),
         NEW j \in 1..Len(t[i].chrs)
  PROVE  /\ j \in 1..Len(d[i].chrs)
         /\ t[i].chrs[j].def = d[i].chrs[j].def /\ t[i].chrs[j].val = d[i].chrs[j].val
         /\ Len(t[i].chrs[j].dscs) <= Len(d[i].chrs[j].dscs)
<1>1. i \in 1..Len(d) /\ Len(t[i].chrs) <= Len(d[i].chrs)
  BY SvcPart
<1>2. Len(t[i].chrs) \in Nat /\ Len(d[i].chrs) \in Nat
  BY <1>1, SvcShape
<1>3. j \in 1..Len(d[i].chrs)
  BY <1>1, <1>2
<1> QED
  BY <1>3 DEF PartOf, SvcOf, ChrOf

\* The same of a descriptor.
LEMMA DscPart ==
  ASSUME NEW t \in Seq(Service), NEW d \in Seq(Service), PartOf(t, d), NEW i \in 1..Len(t),
         NEW j \in 1..Len(t[i].chrs), NEW k \in 1..Len(t[i].chrs[j].dscs)
  PROVE  k \in 1..Len(d[i].chrs[j].dscs) /\ t[i].chrs[j].dscs[k] = d[i].chrs[j].dscs[k]
<1>1. /\ i \in 1..Len(d) /\ j \in 1..Len(d[i].chrs)
      /\ Len(t[i].chrs[j].dscs) <= Len(d[i].chrs[j].dscs)
  BY SvcPart, ChrPart
<1>2. Len(t[i].chrs[j].dscs) \in Nat /\ Len(d[i].chrs[j].dscs) \in Nat
  BY <1>1, ChrShape
<1>3. k \in 1..Len(d[i].chrs[j].dscs)
  <2>1. \A a, b \in Nat : k \in 1..a /\ a <= b => k \in 1..b
    OBVIOUS
  <2> QED
    BY <1>1, <1>2, <2>1, ZenonT(60)
<1>4. t[i].chrs[j].dscs[k] = d[i].chrs[j].dscs[k]
  BY DEF PartOf, SvcOf, ChrOf
<1> QED
  BY <1>3, <1>4

\* peer_svc_add puts the next service at the end of the list.
LEMMA WithSvcIs ==
  ASSUME NEW p \in Peer, NEW d \in Seq(Service), WellFormed(d), PartOf(p.svcs, d),
         Len(p.svcs) < Len(d),
         NEW x, x = [start |-> d[Len(p.svcs) + 1].start, end |-> d[Len(p.svcs) + 1].end]
  PROVE  /\ ~Found(Starts(p.svcs), x.start)
         /\ WithSvc(p, x)
              = [p EXCEPT !.svcs = Append(p.svcs, NewSvc(x))]
<1> DEFINE t == p.svcs
           new == [start |-> x.start, end |-> x.end, chrs |-> <<>>]
<1>1. t \in Seq(Service) /\ Len(t) \in Nat /\ Len(d) \in Nat
  BY DEF Peer
<1>2. Len(t) + 1 \in 1..Len(d)
  BY <1>1
<1>3. x.start \in Nat /\ x.end \in Nat
  BY <1>2, SvcShape
<1>4. new \in Service
  BY <1>3 DEF Service
<1>5. ASSUME NEW m \in 1..Len(t) PROVE t[m].start < x.start
  <2>1. m \in 1..Len(d) /\ m < Len(t) + 1 /\ t[m].start = d[m].start
    BY <1>1, SvcPart
  <2>2. d[m].start <= d[m].end /\ d[m].end < d[Len(t) + 1].start
    BY <1>2, <2>1, SvcOrder
  <2>3. d[m].start \in Nat /\ d[m].end \in Nat
    BY <2>1, SvcShape
  <2> QED
    BY SMTT(60), <1>3, <2>1, <2>2, <2>3
<1>6. Len(Starts(t)) = Len(t) /\ \A m \in 1..Len(t) : Starts(t)[m] = t[m].start
  BY <1>1 DEF Starts
<1>7. CountBelow(Starts(t), x.start) = Len(t) /\ ~Found(Starts(t), x.start)
  BY <1>1, <1>5, <1>6, CountBelowAll
<1>8. Inserted(t, new) = Append(t, new)
  BY SMTT(60), <1>1, <1>4, <1>7, InsertedLast
<1> QED
  BY <1>7, <1>8 DEF WithSvc, NewSvc

\* x is the characteristic that comes next in a list of the table.
IsNextChr(t, d, i, x) ==
  /\ Len(t[i].chrs) < Len(d[i].chrs)
  /\ x = [def |-> d[i].chrs[Len(t[i].chrs) + 1].def, val |-> d[i].chrs[Len(t[i].chrs) + 1].val]

\* peer_chr_add finds the service by its start, and puts the next characteristic at
\* the end of its list: nothing is cut off.
LEMMA WithChrIs ==
  ASSUME NEW p \in Peer, NEW d \in Seq(Service), WellFormed(d), PartOf(p.svcs, d),
         Len(p.svcs) = Len(d), NEW i \in 1..Len(d), p.cur_svc = d[i].start,
         NEW x, IsNextChr(p.svcs, d, i, x)
  PROVE  /\ StartsAt(p.svcs, p.cur_svc) = i
         /\ ~Found(Values(p.svcs[i].chrs), x.def)
         /\ WithChr(p, x) = [p EXCEPT !.svcs = PutChr(p.svcs, i, NewChr(x))]
<1> DEFINE t == p.svcs
           chrs == t[i].chrs
           new == [def |-> x.def, val |-> x.val, dscs |-> <<>>]
<1>1. t \in Seq(Service) /\ Len(t) \in Nat /\ Len(d) \in Nat /\ i \in 1..Len(t)
  BY DEF Peer
<1>2. StartsAt(t, p.cur_svc) = i
  <2>1. ASSUME NEW m \in 1..Len(t), m # i PROVE t[m].start # d[i].start
    <3>1. t[m].start = d[m].start /\ m \in 1..Len(d)
      BY <1>1, SvcPart
    <3>2. /\ d[m].start \in Nat /\ d[m].end \in Nat /\ d[i].start \in Nat /\ d[i].end \in Nat
          /\ m \in Nat /\ i \in Nat
      BY <3>1, SvcShape
    <3>3. /\ d[m].start <= d[m].end /\ d[i].start <= d[i].end
          /\ m < i => d[m].end < d[i].start
          /\ i < m => d[i].end < d[m].start
      BY <3>1, SvcOrder
    <3> QED
      BY <2>1, <3>1, <3>2, <3>3
  <2>2. t[i].start = p.cur_svc /\ \A m \in 1..Len(t) : t[m].start = p.cur_svc => m = i
    BY <1>1, <2>1, SvcPart
  <2> HIDE DEF t
  <2> QED
    BY <1>1, <2>2, StartsAtOnly
<1>3. chrs \in Seq(Characteristic) /\ Len(chrs) \in Nat /\ Len(d[i].chrs) \in Nat
  BY SMTT(60), <1>1, SvcShape
<1>4. /\ Len(chrs) + 1 \in 1..Len(d[i].chrs)
      /\ x.def = d[i].chrs[Len(chrs) + 1].def /\ x.val = d[i].chrs[Len(chrs) + 1].val
  BY SMTT(60), <1>3 DEF IsNextChr
<1>5. x.def \in Nat /\ x.val \in Nat
  BY <1>4, ChrShape
<1>6. new \in Characteristic
  BY <1>5 DEF Characteristic
<1>7. ASSUME NEW m \in 1..Len(chrs) PROVE chrs[m].val < x.def
  <2>1. m \in 1..Len(d[i].chrs) /\ chrs[m].val = d[i].chrs[m].val
    BY <1>1, ChrPart
  <2>2. m < Len(chrs) + 1
    BY <1>3
  <2> HIDE DEF chrs
  <2>3. d[i].chrs[m].val < d[i].chrs[Len(chrs) + 1].def
    BY <1>4, <2>1, <2>2, ChrOrder
  <2> QED
    BY <1>4, <2>1, <2>3
<1>8. Len(Values(chrs)) = Len(chrs) /\ \A m \in 1..Len(chrs) : Values(chrs)[m] = chrs[m].val
  BY <1>3 DEF Values
<1>9. CountBelow(Values(chrs), x.def) = Len(chrs) /\ ~Found(Values(chrs), x.def)
  BY <1>3, <1>7, <1>8, CountBelowAll
<1>10. Linked(chrs, Len(chrs), new) = Append(chrs, new)
  BY <1>3, <1>6, LinkedLast
<1> QED
  BY <1>2, <1>9, <1>10 DEF WithChr, PutChr, NewChr

\* x is the descriptor that comes next in a list of the table.
IsNextDsc(t, d, i, j, x) ==
  /\ Len(t[i].chrs[j].dscs) < Len(d[i].chrs[j].dscs)
  /\ x = d[i].chrs[j].dscs[Len(t[i].chrs[j].dscs) + 1]

\* peer_dsc_add finds characteristic j of service i by the handle v of its value, and
\* puts x, which it has not got yet, at the end of its list.
PutsDsc(p, v, i, j, x) ==
  /\ RangeHas(p.svcs, v) = i /\ HasValue(p.svcs[i].chrs, v) = j
  /\ ~Found(p.svcs[i].chrs[j].dscs, x)
  /\ WithDsc(p, v, x) = [p EXCEPT !.svcs = PutDsc(p.svcs, i, j, x)]

\* This is so for the next descriptor that a peer reports: nothing is cut off.
LEMMA WithDscIs ==
  ASSUME NEW p \in Peer, NEW d \in Seq(Service), WellFormed(d), PartOf(p.svcs, d),
         AllChrs(p.svcs, d), NEW i \in 1..Len(d), NEW j \in 1..Len(d[i].chrs),
         NEW x, IsNextDsc(p.svcs, d, i, j, x), NEW v, v = d[i].chrs[j].val
  PROVE  PutsDsc(p, v, i, j, x)
<1> DEFINE t == p.svcs
           chrs == t[i].chrs
           dscs == chrs[j].dscs
<1>1. t \in Seq(Service) /\ Len(t) \in Nat /\ Len(t) = Len(d) /\ i \in 1..Len(t)
  BY DEF Peer, AllChrs
<1>2. chrs \in Seq(Characteristic) /\ Len(chrs) \in Nat /\ Len(d[i].chrs) = Len(chrs)
  BY <1>1, SvcShape DEF AllChrs
<1>3. dscs \in Seq(Nat) /\ Len(dscs) \in Nat /\ Len(d[i].chrs[j].dscs) \in Nat
  BY <1>1, <1>2, ChrShape
<1>4. v \in Nat /\ d[i].start < v /\ v <= d[i].end
  <2>1. v \in Nat /\ d[i].start \in Nat /\ d[i].chrs[j].def \in Nat
    BY ChrShape, SvcShape
  <2>2. d[i].start < d[i].chrs[j].def /\ d[i].chrs[j].def < v /\ v <= d[i].end
    BY ChrOrder
  <2> QED
    BY <2>1, <2>2
<1>5. RangeHas(t, v) = i
  <2>1. ASSUME NEW m \in 1..Len(t), m # i PROVE ~(t[m].start <= v /\ v <= t[m].end)
    <3>1. t[m].start = d[m].start /\ t[m].end = d[m].end /\ m \in 1..Len(d)
      BY <1>1, SvcPart
    <3>2. /\ d[m].start \in Nat /\ d[m].end \in Nat /\ d[i].start \in Nat /\ d[i].end \in Nat
          /\ m \in Nat /\ i \in Nat
      BY <3>1, SvcShape
    <3>3. /\ m < i => d[m].end < d[i].start
          /\ i < m => d[i].end < d[m].start
      BY <3>1, SvcOrder
    <3> QED
      BY SMTT(60), <1>4, <2>1, <3>1, <3>2, <3>3
  <2>2. t[i].start = d[i].start /\ t[i].end = d[i].end /\ d[i].start \in Nat
    BY <1>1, SvcShape, SvcPart
  <2>3. t[i].start <= v /\ v <= t[i].end
    BY <1>4, <2>2
  <2> QED
    BY <1>1, <2>1, <2>3, RangeHasOnly
<1>6. \A n \in 1..Len(chrs) : chrs[n].val = d[i].chrs[n].val
  BY <1>1, ChrPart
<1>7. HasValue(chrs, v) = j
  <2>1. ASSUME NEW n \in 1..Len(chrs), n # j PROVE chrs[n].val # v
    <3>1. n \in 1..Len(d[i].chrs) /\ chrs[n].val = d[i].chrs[n].val
      BY <1>2, <1>6
    <3>2. /\ d[i].chrs[n].def < d[i].chrs[n].val /\ d[i].chrs[j].def < d[i].chrs[j].val
          /\ n < j => d[i].chrs[n].val < d[i].chrs[j].def
          /\ j < n => d[i].chrs[j].val < d[i].chrs[n].def
      BY <3>1, ChrOrder
    <3>3. /\ d[i].chrs[n].def \in Nat /\ d[i].chrs[j].def \in Nat
          /\ d[i].chrs[n].val \in Nat /\ d[i].chrs[j].val \in Nat /\ n \in Nat /\ j \in Nat
      BY <3>1, ChrShape
    <3> QED
      BY SMTT(60), <2>1, <3>1, <3>2, <3>3
  <2>2. j \in 1..Len(chrs) /\ chrs[j].val = v
    BY <1>2, <1>6
  <2>3. \A n \in 1..Len(chrs) : chrs[n].val = v => n = j
    BY <2>1
  <2>4. Len(chrs) \in Nat
    BY <1>2
  <2> HIDE DEF chrs
  <2> QED
    BY SMTT(60), <2>2, <2>3, <2>4, HasValueOnly
<1>8. Len(dscs) + 1 \in 1..Len(d[i].chrs[j].dscs)
  <2>1. Len(dscs) < Len(d[i].chrs[j].dscs)
    BY ZenonT(60) DEF IsNextDsc
  <2> HIDE DEF dscs
  <2> QED
    BY SMTT(60), <1>3, <2>1
<1>9. x = d[i].chrs[j].dscs[Len(dscs) + 1]
  BY ZenonT(60) DEF IsNextDsc
<1>10. ASSUME NEW k \in 1..Len(dscs) PROVE dscs[k] < x
  <2>1. k \in 1..Len(d[i].chrs[j].dscs) /\ dscs[k] = d[i].chrs[j].dscs[k]
    BY ZenonT(60), <1>1, <1>2, DscPart
  <2>2. k < Len(dscs) + 1
    BY <1>3
  <2> QED
    BY ZenonT(60), <1>8, <1>9, <2>1, <2>2, DscOrder
<1>11. CountBelow(dscs, x) = Len(dscs) /\ ~Found(dscs, x)
  BY <1>3, <1>10, CountBelowAll
<1>12. Linked(dscs, Len(dscs), x) = Append(dscs, x)
  <2>1. x \in Nat
    BY ZenonT(60), <1>8, <1>9, DscShape
  <2> QED
    BY ZenonT(60), <1>3, <2>1, LinkedLast
<1> QED
  BY ZenonT(60), <1>5, <1>7, <1>11, <1>12 DEF WithDsc, PutDsc, PutsDsc

-----------------------------------------------------------------------------
(* What an entry adds.                                                     *)

\* The places of the characteristics of one service, of the descriptors of one
\* characteristic.
ChrsAt(i, s) == {i} \X (1..Len(s.chrs))
DscsAt(ij, chr) == {ij} \X (1..Len(chr.dscs))

\* The blocks of characteristics, service by service.
LEMMA ChrBlocksAre ==
  ASSUME NEW t, NEW b
  PROVE  b \in ChrBlocks(t) <=> \E i \in 1..Len(t) : b \in ChrsAt(i, t[i])
BY DEF ChrBlocks, SvcBlocks, ChrsAt

\* The block of one characteristic.
LEMMA ChrBlockIs ==
  ASSUME NEW t, NEW i, NEW j
  PROVE  <<i, j>> \in ChrBlocks(t) <=> i \in 1..Len(t) /\ j \in 1..Len(t[i].chrs)
BY DEF ChrBlocks, SvcBlocks

\* The blocks of descriptors, characteristic by characteristic.
LEMMA DscBlocksAre ==
  ASSUME NEW t, NEW b
  PROVE  b \in DscBlocks(t) <=> \E ij \in ChrBlocks(t) : b \in DscsAt(ij, t[ij[1]].chrs[ij[2]])
BY DEF DscBlocks, DscsAt

\* What a new service, without characteristics, changes of the table.
LEMMA AddSvc ==
  ASSUME NEW t \in Seq(Service), NEW d \in Seq(Service), PartOf(t, d), Len(t) < Len(d),
         NEW s, s = NewSvc(d[Len(t) + 1]), NEW u, u = Append(t, s)
  PROVE  /\ u \in Seq(Service) /\ PartOf(u, d) /\ Len(u) = Len(t) + 1
         /\ \A m \in 1..Len(t) : u[m] = t[m]
         /\ u[Len(t) + 1].chrs = <<>>
         /\ SvcBlocks(u) = SvcBlocks(t) \cup {Len(t) + 1} /\ Len(t) + 1 \notin SvcBlocks(t)
         /\ ChrBlocks(u) = ChrBlocks(t) /\ DscBlocks(u) = DscBlocks(t)
         /\ Handles(u) = Handles(t) \cup {s.start} /\ s.start \in Handles(d)
<1> DEFINE n == Len(t) + 1
<1>1. Len(t) \in Nat /\ Len(d) \in Nat /\ n \in 1..Len(d) /\ n \notin 1..Len(t)
  OBVIOUS
<1>2. s \in Service /\ s.start = d[n].start /\ s.end = d[n].end /\ s.chrs = <<>>
  <2>1. d[n].start \in Nat /\ d[n].end \in Nat
    BY <1>1, SvcShape
  <2> QED
    BY SMTT(60), <2>1 DEF Service, NewSvc
<1>3. /\ u \in Seq(Service) /\ Len(u) = n /\ u[n] = s
      /\ \A m \in 1..Len(t) : u[m] = t[m]
      /\ 1..Len(u) = 1..Len(t) \cup {n}
  BY <1>1, <1>2
<1> HIDE DEF n
<1>4. PartOf(u, d)
  <2>1. SvcOf(s, d[n])
    <3>1. Len(d[n].chrs) \in Nat
      BY <1>1, SvcShape
    <3> QED
      BY <1>2, <3>1 DEF SvcOf
  <2>2. Len(u) <= Len(d)
    BY <1>1, <1>3 DEF n
  <2> QED
    BY <1>3, <2>1, <2>2 DEF PartOf
<1>5. SvcBlocks(u) = SvcBlocks(t) \cup {n} /\ n \notin SvcBlocks(t)
  BY <1>1, <1>3 DEF SvcBlocks
<1>6. ChrBlocks(u) = ChrBlocks(t)
  <2>1. ChrsAt(n, u[n]) = {}
    BY <1>2, <1>3 DEF ChrsAt
  <2>2. ASSUME NEW b PROVE b \in ChrBlocks(u) <=> b \in ChrBlocks(t)
    <3>1. b \in ChrBlocks(u) <=> \E m \in 1..Len(u) : b \in ChrsAt(m, u[m])
      BY ChrBlocksAre
    <3>2. b \in ChrBlocks(t) <=> \E m \in 1..Len(t) : b \in ChrsAt(m, t[m])
      BY ChrBlocksAre
    <3> QED
      BY <1>3, <2>1, <3>1, <3>2
  <2> QED
    BY <2>2
<1>7. DscBlocks(u) = DscBlocks(t)
  <2>1. ASSUME NEW ij \in ChrBlocks(t) PROVE u[ij[1]] = t[ij[1]]
    <3>1. ij[1] \in 1..Len(t)
      BY DEF ChrBlocks, SvcBlocks
    <3> QED
      BY <1>3, <3>1
  <2>2. ASSUME NEW b PROVE b \in DscBlocks(u) <=> b \in DscBlocks(t)
    BY ZenonT(60), <1>6, <2>1, DscBlocksAre
  <2> QED
    BY <2>2
<1>8. s.start \in Handles(d)
  <2>1. s.start \in SvcHandles(d[n])
    BY <1>2 DEF SvcHandles
  <2> QED
    BY <1>1, <2>1, HandlesAre
<1>9. ASSUME NEW h PROVE h \in Handles(u) <=> h \in Handles(t) \/ h = s.start
  <2>1. h \in SvcHandles(s) <=> h = s.start
    BY <1>2 DEF SvcHandles, ToSet
  <2>2. h \in Handles(u) <=> \E i \in 1..Len(u) : h \in SvcHandles(u[i])
    BY ZenonT(60), <1>3, HandlesAre
  <2>3. h \in Handles(t) <=> \E i \in 1..Len(t) : h \in SvcHandles(t[i])
    BY HandlesAre
  <2> QED
    BY SMTT(60), <1>3, <2>1, <2>2, <2>3
<1>10. Handles(u) = Handles(t) \cup {s.start}
  BY <1>9
<1> QED
  BY <1>2, <1>3, <1>4, <1>5, <1>6, <1>7, <1>8, <1>10 DEF n

\* u is t with another characteristic of its service i, that d has.
AddedChr(t, u, d, i, chr) ==
  /\ u \in Seq(Service) /\ PartOf(u, d) /\ Len(u) = Len(t)
  /\ \A m \in 1..Len(t) : m # i => u[m] = t[m]
  /\ Len(u[i].chrs) = Len(t[i].chrs) + 1
  /\ \A m \in 1..Len(t[i].chrs) : u[i].chrs[m] = t[i].chrs[m]
  /\ u[i].chrs[Len(t[i].chrs) + 1].dscs = <<>>
  /\ SvcBlocks(u) = SvcBlocks(t)
  /\ ChrBlocks(u) = ChrBlocks(t) \cup {<<i, Len(t[i].chrs) + 1>>}
  /\ <<i, Len(t[i].chrs) + 1>> \notin ChrBlocks(t)
  /\ DscBlocks(u) = DscBlocks(t)
  /\ Handles(u) = Handles(t) \cup {chr.val} /\ chr.val \in Handles(d)

\* The entry peer_chr_add makes of a report is the one the database has, without
\* descriptors.
LEMMA NextChrIs ==
  ASSUME NEW t, NEW d, NEW i, NEW x, IsNextChr(t, d, i, x)
  PROVE  NewChr(x) = NewChr(d[i].chrs[Len(t[i].chrs) + 1]) /\ Len(t[i].chrs) < Len(d[i].chrs)
<1> DEFINE e == d[i].chrs[Len(t[i].chrs) + 1]
<1>1. x = [def |-> e.def, val |-> e.val]
  BY DEF IsNextChr
<1> HIDE DEF e
<1>2. NewChr(x) = NewChr(e)
  BY <1>1 DEF NewChr
<1> QED
  BY <1>2 DEF e, IsNextChr

\* What peer_chr_add allocates for a characteristic c that was reported.
LEMMA NewChrIs ==
  ASSUME NEW c, c.def \in Nat, c.val \in Nat, Len(c.dscs) \in Nat
  PROVE  /\ NewChr(c) \in Characteristic
         /\ NewChr(c).def = c.def /\ NewChr(c).val = c.val /\ NewChr(c).dscs = <<>>
         /\ ChrOf(NewChr(c), c)
<1>1. /\ NewChr(c) \in Characteristic
      /\ NewChr(c).def = c.def /\ NewChr(c).val = c.val /\ NewChr(c).dscs = <<>>
  BY DEF Characteristic, NewChr
<1> QED
  BY <1>1 DEF ChrOf

\* A characteristic without descriptors holds the handle of its value.
LEMMA NoDescriptors ==
  ASSUME NEW c, c.dscs = <<>>
  PROVE  1..Len(c.dscs) = {} /\ \A h : h \in ChrHandles(c) <=> h = c.val
<1>1. 1..Len(c.dscs) = {}
  OBVIOUS
<1> QED
  BY DEF ChrHandles, ToSet

\* A list with one more element.
LEMMA AppendIs ==
  ASSUME NEW S, NEW s \in Seq(S), NEW x \in S, NEW n, n = Len(s) + 1,
         NEW r, r = Append(s, x)
  PROVE  /\ r \in Seq(S) /\ Len(r) = n /\ r[n] = x
         /\ \A m \in 1..Len(s) : r[m] = s[m]
         /\ 1..Len(r) = 1..Len(s) \cup {n}
  OBVIOUS

\* A service r with one more characteristic than s.
LEMMA MoreChrs ==
  ASSUME NEW i, NEW s, NEW r, NEW n, 1..Len(r.chrs) = 1..Len(s.chrs) \cup {n}, NEW b
  PROVE  b \in ChrsAt(i, r) <=> b \in ChrsAt(i, s) \/ b = <<i, n>>
  BY DEF ChrsAt

\* What a new characteristic, without descriptors, changes of the table.
LEMMA AddChr ==
  ASSUME NEW t \in Seq(Service), NEW d \in Seq(Service), PartOf(t, d), NEW i \in 1..Len(t),
         NEW x, IsNextChr(t, d, i, x),
         NEW chr, chr = NewChr(x),
         NEW u, u = PutChr(t, i, chr)
  PROVE  AddedChr(t, u, d, i, chr)
<1> DEFINE n == Len(t[i].chrs) + 1
<1>1. /\ Len(t) \in Nat /\ Len(d) \in Nat /\ i \in 1..Len(d)
      /\ t[i] \in Service /\ t[i].chrs \in Seq(Characteristic)
      /\ t[i].start = d[i].start /\ t[i].end = d[i].end
      /\ Len(t[i].chrs) \in Nat /\ Len(d[i].chrs) \in Nat
  BY SvcPart, SvcShape
<1>2. n \in 1..Len(d[i].chrs) /\ n \notin 1..Len(t[i].chrs) /\ n \in Nat
  <2>1. Len(t[i].chrs) < Len(d[i].chrs)
    BY NextChrIs
  <2> QED
    BY <1>1, <2>1
<1>3. chr \in Characteristic /\ chr.def = d[i].chrs[n].def /\ chr.val = d[i].chrs[n].val
      /\ chr.dscs = <<>> /\ ChrOf(chr, d[i].chrs[n])
  <2> DEFINE e == d[i].chrs[n]
  <2>1. e.def \in Nat /\ e.val \in Nat /\ Len(e.dscs) \in Nat
    BY <1>1, <1>2, ChrShape
  <2>2. chr = NewChr(e)
    BY NextChrIs
  <2> HIDE DEF e
  <2>3. /\ chr \in Characteristic /\ chr.def = e.def /\ chr.val = e.val
        /\ chr.dscs = <<>> /\ ChrOf(chr, e)
    BY <2>1, <2>2, NewChrIs
  <2> QED
    BY <2>3 DEF e
<1> DEFINE c2 == Append(t[i].chrs, chr)
<1>4. /\ c2 \in Seq(Characteristic) /\ Len(c2) = n /\ c2[n] = chr
      /\ \A m \in 1..Len(t[i].chrs) : c2[m] = t[i].chrs[m]
      /\ 1..Len(c2) = 1..Len(t[i].chrs) \cup {n}
  <2>1. t[i].chrs \in Seq(Characteristic) /\ chr \in Characteristic
    BY <1>1, <1>3
  <2>2. n = Len(t[i].chrs) + 1 /\ c2 = Append(t[i].chrs, chr)
    OBVIOUS
  <2> HIDE DEF n, c2
  <2> QED
    BY SMTT(60), <2>1, <2>2, AppendIs
<1> HIDE DEF n
<1> DEFINE s2 == [t[i] EXCEPT !.chrs = c2]
<1>5. u = [t EXCEPT ![i] = s2]
  BY DEF PutChr
<1> HIDE DEF c2
<1>6. s2 \in Service /\ s2.chrs = c2 /\ s2.start = t[i].start /\ s2.end = t[i].end
  BY <1>1, <1>4 DEF Service
<1> HIDE DEF s2
<1>7. /\ u \in Seq(Service) /\ Len(u) = Len(t) /\ u[i] = s2
      /\ \A m \in 1..Len(t) : m # i => u[m] = t[m]
  <2>1. Len(t) \in Nat /\ DOMAIN t = 1..Len(t) /\ \A m \in 1..Len(t) : t[m] \in Service
    BY ElementOfSeq
  <2>2. u \in [1..Len(t) -> Service]
    BY SMTT(60), <1>5, <1>6, <2>1
  <2>3. u \in Seq(Service) /\ Len(u) = Len(t)
    BY SMTT(60), <2>1, <2>2, SeqDef
  <2>4. u[i] = s2 /\ \A m \in 1..Len(t) : m # i => u[m] = t[m]
    BY <1>5, <1>6, <2>1
  <2> QED
    BY <2>3, <2>4
<1>8. PartOf(u, d)
  <2>1. SvcOf(s2, d[i])
    <3>1. \A j \in 1..Len(t[i].chrs) : ChrOf(t[i].chrs[j], d[i].chrs[j])
      BY DEF PartOf, SvcOf
    <3>2. Len(c2) <= Len(d[i].chrs)
      BY SMTT(60), <1>1, <1>2, <1>4
    <3> QED
      BY <1>1, <1>3, <1>4, <1>6, <3>1, <3>2 DEF SvcOf
  <2> QED
    BY ZenonT(60), <1>7, <2>1 DEF PartOf
<1>9. SvcBlocks(u) = SvcBlocks(t)
  BY <1>7 DEF SvcBlocks
<1>10. ChrBlocks(u) = ChrBlocks(t) \cup {<<i, n>>}
  <2>1. ASSUME NEW b PROVE b \in ChrBlocks(u) <=> b \in ChrBlocks(t) \/ b = <<i, n>>
    <3>1. b \in ChrBlocks(u) <=> \E m \in 1..Len(t) : b \in ChrsAt(m, u[m])
      BY ZenonT(60), <1>7, ChrBlocksAre
    <3>2. b \in ChrBlocks(t) <=> \E m \in 1..Len(t) : b \in ChrsAt(m, t[m])
      BY ChrBlocksAre
    <3>3. b \in ChrsAt(i, u[i]) <=> b \in ChrsAt(i, t[i]) \/ b = <<i, n>>
      <4>1. 1..Len(u[i].chrs) = 1..Len(t[i].chrs) \cup {n}
        BY <1>4, <1>6, <1>7
      <4> QED
        BY ZenonT(60), <4>1, MoreChrs
    <3> QED
      BY ZenonT(60), <1>7, <3>1, <3>2, <3>3
  <2> QED
    BY SMTT(60), <2>1
<1>11. <<i, n>> \notin ChrBlocks(t)
  <2>1. ASSUME <<i, n>> \in ChrBlocks(t) PROVE FALSE
    <3>1. n \in 1..Len(t[i].chrs)
      BY <2>1, ChrBlockIs
    <3> QED
      BY <1>2, <3>1
  <2> QED
    BY <2>1
<1>12. DscBlocks(u) = DscBlocks(t)
  <2>1. ASSUME NEW ij \in ChrBlocks(t) PROVE u[ij[1]].chrs[ij[2]] = t[ij[1]].chrs[ij[2]]
    <3>1. PICK m \in 1..Len(t) : ij \in ChrsAt(m, t[m])
      BY ChrBlocksAre
    <3>2. ij[1] = m /\ ij[2] \in 1..Len(t[m].chrs)
      BY <3>1 DEF ChrsAt
    <3> QED
      BY ZenonT(60), <1>4, <1>6, <1>7, <3>2
  <2>2. DscsAt(<<i, n>>, u[i].chrs[n]) = {}
    <3>1. u[i].chrs[n] = chr
      BY ZenonT(60), <1>4, <1>6, <1>7
    <3>2. 1..Len(chr.dscs) = {}
      BY ZenonT(60), <1>3, NoDescriptors
    <3> QED
      BY ZenonT(60), <3>1, <3>2 DEF DscsAt
  <2>3. ASSUME NEW b PROVE b \in DscBlocks(u) <=> b \in DscBlocks(t)
    <3>1. b \in DscBlocks(u) <=>
             \E ij \in ChrBlocks(u) : b \in DscsAt(ij, u[ij[1]].chrs[ij[2]])
      BY ZenonT(60), DscBlocksAre
    <3>2. b \in DscBlocks(t) <=>
             \E ij \in ChrBlocks(t) : b \in DscsAt(ij, t[ij[1]].chrs[ij[2]])
      BY SMTT(60), DscBlocksAre
    <3>3. b \notin DscsAt(<<i, n>>, u[<<i, n>>[1]].chrs[<<i, n>>[2]])
      BY <2>2
    <3> QED
      BY ZenonT(60), <1>10, <2>1, <3>1, <3>2, <3>3
  <2> QED
    BY <2>3
<1>13. chr.val \in Handles(d)
  <2>1. chr.val \in ChrHandles(d[i].chrs[n])
    BY ZenonT(60), <1>3 DEF ChrHandles
  <2>2. chr.val \in SvcHandles(d[i])
    <3>1. d[i].chrs \in Seq(Characteristic)
      BY SMTT(60), <1>1, SvcShape
    <3> QED
      BY <1>2, <2>1, <3>1, SvcHandlesAre
  <2> QED
    BY SMTT(60), <1>1, <2>2, HandlesAre
<1>14. Handles(u) = Handles(t) \cup {chr.val}
  <2>1. ASSUME NEW h PROVE h \in Handles(u) <=> h \in Handles(t) \/ h = chr.val
    <3>1. h \in ChrHandles(chr) <=> h = chr.val
      BY ZenonT(60), <1>3, NoDescriptors
    <3>2. h \in SvcHandles(s2) <=> h \in SvcHandles(t[i]) \/ h = chr.val
      <4>1. h \in SvcHandles(s2) <=>
              h = s2.start \/ \E j \in 1..Len(c2) : h \in ChrHandles(c2[j])
        BY <1>4, <1>6, SvcHandlesAre
      <4>2. h \in SvcHandles(t[i]) <=>
              h = t[i].start \/ \E j \in 1..Len(t[i].chrs) : h \in ChrHandles(t[i].chrs[j])
        BY SMTT(60), <1>1, SvcHandlesAre
      <4> QED
        BY <1>4, <1>6, <3>1, <4>1, <4>2
    <3>3. h \in Handles(u) <=> \E m \in 1..Len(u) : h \in SvcHandles(u[m])
      BY ZenonT(60), <1>7, HandlesAre
    <3>4. h \in Handles(t) <=> \E m \in 1..Len(t) : h \in SvcHandles(t[m])
      BY HandlesAre
    <3> QED
      BY ZenonT(60), <1>7, <3>2, <3>3, <3>4
  <2> QED
    BY ZenonT(60), <2>1
<1> QED
  BY ZenonT(60), <1>3, <1>4, <1>6, <1>7, <1>8, <1>9, <1>10, <1>11, <1>12, <1>13, <1>14 DEF n, AddedChr

\* u is t with another descriptor of characteristic j of its service i, that d has.
AddedDsc(t, u, d, i, j, x) ==
  /\ u \in Seq(Service) /\ PartOf(u, d) /\ Len(u) = Len(t)
  /\ \A m \in 1..Len(t) : m # i => u[m] = t[m]
  /\ Len(u[i].chrs) = Len(t[i].chrs)
  /\ \A m \in 1..Len(t[i].chrs) : m # j => u[i].chrs[m] = t[i].chrs[m]
  /\ Len(u[i].chrs[j].dscs) = Len(t[i].chrs[j].dscs) + 1
  /\ SvcBlocks(u) = SvcBlocks(t) /\ ChrBlocks(u) = ChrBlocks(t)
  /\ DscBlocks(u) = DscBlocks(t) \cup {<<<<i, j>>, Len(t[i].chrs[j].dscs) + 1>>}
  /\ <<<<i, j>>, Len(t[i].chrs[j].dscs) + 1>> \notin DscBlocks(t)
  /\ Handles(u) = Handles(t) \cup {x} /\ x \in Handles(d)

\* What a new descriptor changes of the table.
LEMMA AddDsc ==
  ASSUME NEW t \in Seq(Service), NEW d \in Seq(Service), PartOf(t, d), NEW i \in 1..Len(t),
         NEW j \in 1..Len(t[i].chrs), NEW x, IsNextDsc(t, d, i, j, x), NEW u, u = PutDsc(t, i, j, x)
  PROVE  AddedDsc(t, u, d, i, j, x)
<1> DEFINE chr == t[i].chrs[j]
           n == Len(chr.dscs) + 1
<1>1. /\ Len(t) \in Nat /\ Len(d) \in Nat /\ i \in 1..Len(d)
      /\ t[i] \in Service /\ t[i].chrs \in Seq(Characteristic)
      /\ Len(t[i].chrs) \in Nat
      /\ j \in 1..Len(d[i].chrs)
      /\ chr \in Characteristic /\ chr.dscs \in Seq(Nat) /\ Len(chr.dscs) \in Nat
  BY SvcPart, SvcShape, ChrPart, ChrShape
<1>2. Len(d[i].chrs[j].dscs) \in Nat
  BY <1>1, ChrShape
<1>3. n \in 1..Len(d[i].chrs[j].dscs) /\ n \notin 1..Len(chr.dscs) /\ n \in Nat
  <2>1. \A a, b \in Nat : a < b => a + 1 \in 1..b /\ a + 1 \notin 1..a /\ a + 1 \in Nat
    BY SMTT(60)
  <2> QED
    BY <1>1, <1>2, <2>1, ZenonT(60) DEF IsNextDsc
<1>4. x \in Nat
  <2>1. x = d[i].chrs[j].dscs[n]
    BY ZenonT(60) DEF IsNextDsc
  <2> QED
    BY ZenonT(60), <1>1, <1>3, <2>1, DscShape
<1> DEFINE l2 == Append(chr.dscs, x)
<1>5. /\ l2 \in Seq(Nat) /\ Len(l2) = n /\ l2[n] = x
      /\ \A m \in 1..Len(chr.dscs) : l2[m] = chr.dscs[m]
      /\ 1..Len(l2) = 1..Len(chr.dscs) \cup {n}
  <2> DEFINE l == chr.dscs
  <2>1. l \in Seq(Nat)
    BY <1>1
  <2> HIDE DEF l, chr
  <2>2. Append(l, x) \in Seq(Nat) /\ Len(Append(l, x)) = Len(l) + 1
    BY <1>4, <2>1, AppendProperties
  <2>3. \A m \in 1..Len(l) : Append(l, x)[m] = l[m]
    BY <1>4, <2>1, AppendProperties
  <2>4. Append(l, x)[Len(l) + 1] = x
    BY <1>4, <2>1, AppendProperties
  <2>5. 1..(Len(l) + 1) = 1..Len(l) \cup {Len(l) + 1}
    <3>1. Len(l) \in Nat
      BY <2>1
    <3> QED
      BY <3>1
  <2> QED
    BY <2>2, <2>3, <2>4, <2>5 DEF l
<1> DEFINE chr2 == [chr EXCEPT !.dscs = l2]
           s2 == [t[i] EXCEPT !.chrs = [t[i].chrs EXCEPT ![j] = chr2]]
<1>6. u = [t EXCEPT ![i] = s2]
  BY DEF PutDsc
<1>7. x = d[i].chrs[j].dscs[n]
  BY ZenonT(60) DEF IsNextDsc
<1> HIDE DEF n, l2
<1>8. chr2 \in Characteristic /\ chr2.def = chr.def /\ chr2.val = chr.val /\ chr2.dscs = l2
  <2> HIDE DEF chr
  <2> QED
    BY <1>1, <1>5 DEF Characteristic
<1> HIDE DEF chr2
<1> DEFINE c2 == [t[i].chrs EXCEPT ![j] = chr2]
<1>9. /\ c2 \in Seq(Characteristic) /\ Len(c2) = Len(t[i].chrs) /\ c2[j] = chr2
      /\ \A m \in 1..Len(t[i].chrs) : m # j => c2[m] = t[i].chrs[m]
  BY <1>1, <1>8, ExceptSeq
<1> HIDE DEF c2
<1>10. s2 \in Service /\ s2.chrs = c2 /\ s2.start = t[i].start /\ s2.end = t[i].end
  <2>1. s2 = [t[i] EXCEPT !.chrs = c2]
    BY DEF c2
  <2> HIDE DEF s2
  <2> QED
    BY <1>1, <1>9, <2>1 DEF Service
<1> HIDE DEF s2
<1>11. /\ u \in Seq(Service) /\ Len(u) = Len(t) /\ u[i] = s2
       /\ \A m \in 1..Len(t) : m # i => u[m] = t[m]
  <2>1. Len(t) \in Nat /\ DOMAIN t = 1..Len(t) /\ \A m \in 1..Len(t) : t[m] \in Service
    BY ElementOfSeq
  <2>2. u \in [1..Len(t) -> Service]
    BY <1>6, <1>10, <2>1
  <2>3. u \in Seq(Service) /\ Len(u) = Len(t)
    BY SMTT(60), <2>1, <2>2, SeqDef
  <2>4. u[i] = s2 /\ \A m \in 1..Len(t) : m # i => u[m] = t[m]
    BY <1>6, <1>10, <2>1
  <2> QED
    BY <2>3, <2>4
<1>12. PartOf(u, d)
  <2>1. /\ SvcOf(t[i], d[i]) /\ \A m \in 1..Len(t) : SvcOf(t[m], d[m])
        /\ Len(t) <= Len(d)
    BY DEF PartOf
  <2>2. /\ t[i].start = d[i].start /\ t[i].end = d[i].end /\ Len(t[i].chrs) <= Len(d[i].chrs)
        /\ \A m \in 1..Len(t[i].chrs) : ChrOf(t[i].chrs[m], d[i].chrs[m])
    BY <2>1 DEF SvcOf
  <2>3. ChrOf(chr, d[i].chrs[j])
    BY SMTT(60), <2>2
  <2>4. ChrOf(chr2, d[i].chrs[j])
    <3>1. Len(l2) <= Len(d[i].chrs[j].dscs)
      BY SMTT(60), <1>2, <1>3, <1>5
    <3>2. \A k \in 1..Len(l2) : l2[k] = d[i].chrs[j].dscs[k]
      BY <1>5, <1>7, <2>3 DEF ChrOf
    <3> QED
      BY <1>8, <2>3, <3>1, <3>2 DEF ChrOf
  <2>5. SvcOf(s2, d[i])
    BY <1>9, <1>10, <2>2, <2>4 DEF SvcOf
  <2> QED
    BY <1>11, <2>1, <2>5 DEF PartOf
<1>13. SvcBlocks(u) = SvcBlocks(t)
  BY <1>11 DEF SvcBlocks
<1>14. ChrBlocks(u) = ChrBlocks(t)
  <2>1. ASSUME NEW b PROVE b \in ChrBlocks(u) <=> b \in ChrBlocks(t)
    <3>1. b \in ChrBlocks(u) <=> \E m \in 1..Len(t) : b \in ChrsAt(m, u[m])
      BY <1>11, ChrBlocksAre
    <3>2. b \in ChrBlocks(t) <=> \E m \in 1..Len(t) : b \in ChrsAt(m, t[m])
      BY ChrBlocksAre
    <3>3. b \in ChrsAt(i, u[i]) <=> b \in ChrsAt(i, t[i])
      <4>1. Len(u[i].chrs) = Len(t[i].chrs)
        BY <1>9, <1>10, <1>11
      <4> QED
        BY <4>1 DEF ChrsAt
    <3> QED
      BY <1>11, <3>1, <3>2, <3>3
  <2> QED
    BY <2>1
<1>15. u[i].chrs[j] = chr2 /\ chr2.dscs = l2
  BY <1>8, <1>9, <1>10, <1>11
<1>16. ASSUME NEW ij \in ChrBlocks(t), ij # <<i, j>>
       PROVE  u[ij[1]].chrs[ij[2]] = t[ij[1]].chrs[ij[2]]
  <2>1. PICK m \in 1..Len(t) : ij \in ChrsAt(m, t[m])
    BY ChrBlocksAre
  <2>2. ij[1] = m /\ ij[2] \in 1..Len(t[m].chrs) /\ ij = <<m, ij[2]>>
    BY <2>1 DEF ChrsAt
  <2>3. m = i => ij[2] # j
    BY <1>16, <2>2
  <2> QED
    BY SMTT(60), <1>9, <1>10, <1>11, <2>2, <2>3
<1>17. <<i, j>> \in ChrBlocks(t)
  BY ChrBlockIs
<1>18. DscBlocks(u) = DscBlocks(t) \cup {<<<<i, j>>, n>>}
  <2>1. ASSUME NEW b
        PROVE  b \in DscBlocks(u) <=> b \in DscBlocks(t) \/ b = <<<<i, j>>, n>>
    <3>1. b \in DscBlocks(u) <=>
             \E ij \in ChrBlocks(u) : b \in DscsAt(ij, u[ij[1]].chrs[ij[2]])
      BY DscBlocksAre
    <3>2. b \in DscBlocks(t) <=>
             \E ij \in ChrBlocks(t) : b \in DscsAt(ij, t[ij[1]].chrs[ij[2]])
      BY DscBlocksAre
    <3>3. b \in DscsAt(<<i, j>>, chr2) <=> b \in DscsAt(<<i, j>>, chr) \/ b = <<<<i, j>>, n>>
      <4> HIDE DEF chr
      <4>1. 1..Len(chr2.dscs) = 1..Len(chr.dscs) \cup {n}
        BY <1>5, <1>15
      <4> QED
        BY <4>1 DEF DscsAt
    <3>4. /\ <<i, j>>[1] = i /\ <<i, j>>[2] = j
          /\ u[<<i, j>>[1]].chrs[<<i, j>>[2]] = chr2
          /\ t[<<i, j>>[1]].chrs[<<i, j>>[2]] = chr
      BY <1>15
    <3> HIDE DEF chr
    <3> QED
      BY <1>14, <1>16, <1>17, <3>1, <3>2, <3>3, <3>4
  <2> QED
    BY <2>1
<1>19. <<<<i, j>>, n>> \notin DscBlocks(t)
  <2>1. ASSUME <<<<i, j>>, n>> \in DscBlocks(t) PROVE FALSE
    <3>1. PICK ij \in ChrBlocks(t) : <<<<i, j>>, n>> \in DscsAt(ij, t[ij[1]].chrs[ij[2]])
      BY <2>1, DscBlocksAre
    <3>2. ij = <<i, j>> /\ n \in 1..Len(t[ij[1]].chrs[ij[2]].dscs)
      BY <3>1 DEF DscsAt
    <3>3. n \in 1..Len(chr.dscs)
      BY <3>2
    <3> QED
      BY <1>3, <3>3
  <2> QED
    BY <2>1
<1>20. x \in Handles(d)
  <2>1. d[i].chrs \in Seq(Characteristic) /\ d[i].chrs[j].dscs \in Seq(Nat)
    BY <1>1, SvcShape, ChrShape
  <2>2. x \in ChrHandles(d[i].chrs[j])
    BY <1>3, <1>7, <2>1, ChrHandlesAre
  <2>3. x \in SvcHandles(d[i])
    BY <1>1, <2>1, <2>2, SvcHandlesAre
  <2> QED
    BY <1>1, <2>3, HandlesAre
<1>21. Handles(u) = Handles(t) \cup {x}
  <2>1. ASSUME NEW h PROVE h \in Handles(u) <=> h \in Handles(t) \/ h = x
    <3>1. h \in ChrHandles(chr2) <=> h \in ChrHandles(chr) \/ h = x
      <4> HIDE DEF chr
      <4>1. h \in ChrHandles(chr2) <=> h = chr2.val \/ \E k \in 1..Len(l2) : h = l2[k]
        BY SMTT(60), <1>5, <1>8, ChrHandlesAre
      <4>2. h \in ChrHandles(chr) <=> h = chr.val \/ \E k \in 1..Len(chr.dscs) : h = chr.dscs[k]
        BY <1>1, ChrHandlesAre
      <4> QED
        BY <1>5, <1>8, <4>1, <4>2
    <3>2. h \in SvcHandles(s2) <=> h \in SvcHandles(t[i]) \/ h = x
      <4>1. h \in SvcHandles(s2) <=>
              h = s2.start \/ \E m \in 1..Len(c2) : h \in ChrHandles(c2[m])
        BY <1>9, <1>10, SvcHandlesAre
      <4>2. h \in SvcHandles(t[i]) <=>
              h = t[i].start \/ \E m \in 1..Len(t[i].chrs) : h \in ChrHandles(t[i].chrs[m])
        BY <1>1, SvcHandlesAre
      <4> QED
        BY <1>9, <1>10, <3>1, <4>1, <4>2
    <3>3. h \in Handles(u) <=> \E m \in 1..Len(u) : h \in SvcHandles(u[m])
      BY <1>11, HandlesAre
    <3>4. h \in Handles(t) <=> \E m \in 1..Len(t) : h \in SvcHandles(t[m])
      BY HandlesAre
    <3> QED
      BY <1>11, <3>2, <3>3, <3>4
  <2> QED
    BY <2>1
<1>22. /\ Len(u[i].chrs) = Len(t[i].chrs)
       /\ \A m \in 1..Len(t[i].chrs) : m # j => u[i].chrs[m] = t[i].chrs[m]
       /\ Len(u[i].chrs[j].dscs) = n
  <2> HIDE DEF chr
  <2> QED
    BY <1>5, <1>9, <1>10, <1>11, <1>15
<1> USE DEF n
<1> QED
  <2>1. Len(u[i].chrs[j].dscs) = Len(t[i].chrs[j].dscs) + 1
    BY <1>22
  <2> QED
    BY <1>11, <1>12, <1>13, <1>14, <1>18, <1>19, <1>20, <1>21, <1>22, <2>1 DEF AddedDsc

-----------------------------------------------------------------------------
(* The reports of a procedure.                                             *)

\* The table u of a peer has a block of the given pool more than t, and one handle of
\* the database d more, if t has not got it.
Adds(t, u, d, pool) ==
  /\ PartOf(u, d)
  /\ \E h \in Handles(d) : Handles(u) = Handles(t) \cup {h}
  /\ Cardinality(SvcBlocks(u)) = Cardinality(SvcBlocks(t)) + (IF pool = "svc" THEN 1 ELSE 0)
  /\ Cardinality(ChrBlocks(u)) = Cardinality(ChrBlocks(t)) + (IF pool = "chr" THEN 1 ELSE 0)
  /\ Cardinality(DscBlocks(u)) = Cardinality(DscBlocks(t)) + (IF pool = "dsc" THEN 1 ELSE 0)

\* One block more.
LEMMA BlockMore ==
  ASSUME NEW S, IsFiniteSet(S), NEW b, b \notin S
  PROVE  Cardinality(S \cup {b}) = Cardinality(S) + 1 /\ Cardinality(S) \in Nat
BY FS_AddElement, FS_CardinalityType

\* The blocks of a table can be counted.
LEMMA BlocksNat ==
  ASSUME NEW t \in Seq(Service)
  PROVE  /\ Cardinality(SvcBlocks(t)) \in Nat
         /\ Cardinality(ChrBlocks(t)) \in Nat
         /\ Cardinality(DscBlocks(t)) \in Nat
BY BlocksFinite, FS_CardinalityType

\* The table has one entry more.
LEMMA AddsSvc ==
  ASSUME NEW t \in Seq(Service), NEW u, NEW d, PartOf(u, d), NEW h \in Handles(d),
         Handles(u) = Handles(t) \cup {h}, NEW b,
         SvcBlocks(u) = SvcBlocks(t) \cup {b}, b \notin SvcBlocks(t),
         ChrBlocks(u) = ChrBlocks(t),
         DscBlocks(u) = DscBlocks(t)
  PROVE  Adds(t, u, d, "svc")
<1>1. IsFiniteSet(SvcBlocks(t))
  BY BlocksFinite
<1>2. Cardinality(SvcBlocks(t) \cup {b}) = Cardinality(SvcBlocks(t)) + 1
  BY <1>1, BlockMore
<1> QED
  BY <1>2, BlocksNat DEF Adds

\* The same of a characteristic.
LEMMA AddsChr ==
  ASSUME NEW t \in Seq(Service), NEW u, NEW d, PartOf(u, d), NEW h \in Handles(d),
         Handles(u) = Handles(t) \cup {h}, NEW b,
         SvcBlocks(u) = SvcBlocks(t),
         ChrBlocks(u) = ChrBlocks(t) \cup {b}, b \notin ChrBlocks(t),
         DscBlocks(u) = DscBlocks(t)
  PROVE  Adds(t, u, d, "chr")
<1>1. IsFiniteSet(ChrBlocks(t))
  BY BlocksFinite
<1>2. Cardinality(ChrBlocks(t) \cup {b}) = Cardinality(ChrBlocks(t)) + 1
  BY <1>1, BlockMore
<1> QED
  BY <1>2, BlocksNat DEF Adds

\* The same of a descriptor.
LEMMA AddsDsc ==
  ASSUME NEW t \in Seq(Service), NEW u, NEW d, PartOf(u, d), NEW h \in Handles(d),
         Handles(u) = Handles(t) \cup {h}, NEW b,
         SvcBlocks(u) = SvcBlocks(t),
         ChrBlocks(u) = ChrBlocks(t),
         DscBlocks(u) = DscBlocks(t) \cup {b}, b \notin DscBlocks(t)
  PROVE  Adds(t, u, d, "dsc")
<1>1. IsFiniteSet(DscBlocks(t))
  BY BlocksFinite
<1>2. Cardinality(DscBlocks(t) \cup {b}) = Cardinality(DscBlocks(t)) + 1
  BY <1>1, BlockMore
<1> QED
  BY <1>2, BlocksNat DEF Adds

\* What is left after the next report, if there is one.
LEMMA LeftNext ==
  ASSUME NEW S, NEW all \in Seq(S), NEW n \in Nat, n <= Len(all), Left(all, n) # <<>>
  PROVE  /\ n < Len(all) /\ n + 1 \in 1..Len(all)
         /\ Head(Left(all, n)) = all[n + 1]
         /\ Tail(Left(all, n)) = Left(all, n + 1)
<1>1. Len(all) \in Nat
  OBVIOUS
<1>2. n < Len(all)
  BY <1>1 DEF Left
<1>3. /\ Left(all, n) \in Seq(S) /\ Len(Left(all, n)) = Len(all) - n
      /\ \A k \in 1..(Len(all) - n) : Left(all, n)[k] = all[n + k]
  BY <1>1, <1>2, SubSeqProperties DEF Left
<1>4. /\ Left(all, n + 1) \in Seq(S) /\ Len(Left(all, n + 1)) = Len(all) - (n + 1)
      /\ \A k \in 1..(Len(all) - (n + 1)) : Left(all, n + 1)[k] = all[(n + 1) + k]
  BY <1>1, <1>2, SubSeqProperties DEF Left
<1>5. Head(Left(all, n)) = all[n + 1]
  BY <1>1, <1>2, <1>3
<1>6. /\ Tail(Left(all, n)) \in Seq(S) /\ Len(Tail(Left(all, n))) = Len(all) - (n + 1)
      /\ \A k \in 1..(Len(all) - (n + 1)) : Tail(Left(all, n))[k] = Left(all, n)[k + 1]
  BY <1>1, <1>2, <1>3
<1>7. Tail(Left(all, n)) = Left(all, n + 1)
  <2>1. ASSUME NEW k \in 1..(Len(all) - (n + 1))
        PROVE  Tail(Left(all, n))[k] = Left(all, n + 1)[k]
    BY <1>1, <1>2, <1>3, <1>4, <1>6
  <2> QED
    BY <1>4, <1>6, <2>1, SeqEqual
<1> QED
  BY <1>1, <1>2, <1>5, <1>7

\* Before the first report everything is left.
LEMMA LeftAll ==
  ASSUME NEW S, NEW all \in Seq(S)
  PROVE  Left(all, 0) = all
BY SubSeqFull DEF Left

\* When nothing is left, all was reported.
LEMMA LeftNone ==
  ASSUME NEW S, NEW all \in Seq(S), NEW n \in Nat, n <= Len(all), Left(all, n) = <<>>
  PROVE  n = Len(all)
BY SMTT(60) DEF Left

\* What is left of a procedure after a report.
LEMMA RestSvcs ==
  ASSUME NEW q, NEW l, q = [kind |-> "svcs", left |-> l]
  PROVE  [q EXCEPT !.left = Tail(@)] = [kind |-> "svcs", left |-> Tail(l)]
<1>1. PICK m : m = Tail(l)
  OBVIOUS
<1>2. [q EXCEPT !.left = m] = [kind |-> "svcs", left |-> m] /\ q.left = l
  OBVIOUS
<1> QED
  BY <1>1, <1>2

\* The same when it reports characteristics.
LEMMA RestChrs ==
  ASSUME NEW q, NEW l, q = [kind |-> "chrs", left |-> l]
  PROVE  [q EXCEPT !.left = Tail(@)] = [kind |-> "chrs", left |-> Tail(l)]
<1>1. PICK m : m = Tail(l)
  OBVIOUS
<1>2. [q EXCEPT !.left = m] = [kind |-> "chrs", left |-> m] /\ q.left = l
  OBVIOUS
<1> QED
  BY <1>1, <1>2

\* The same when it reports descriptors.
LEMMA RestDscs ==
  ASSUME NEW q, NEW l, NEW v, q = [kind |-> "dscs", of |-> v, left |-> l]
  PROVE  [q EXCEPT !.left = Tail(@)] = [kind |-> "dscs", of |-> v, left |-> Tail(l)]
<1>1. PICK m : m = Tail(l)
  OBVIOUS
<1>2. [q EXCEPT !.left = m] = [kind |-> "dscs", of |-> v, left |-> m] /\ q.left = l
  OBVIOUS
<1> QED
  BY <1>1, <1>2

\* A service that is reported is added.
LEMMA SvcItem ==
  ASSUME NEW p \in Peer, NEW d \in Seq(Service), WellFormed(d), PartOf(p.svcs, d),
         NEW q, AtSvcs(q, p, d), q.left # <<>>, NEW x, x = Head(q.left)
  PROVE  /\ ~Found(Starts(p.svcs), x.start)
         /\ WithSvc(p, x) \in Peer
         /\ Adds(p.svcs, WithSvc(p, x).svcs, d, "svc")
         /\ UnderWay([q EXCEPT !.left = Tail(@)], WithSvc(p, x), d)
<1> DEFINE t == p.svcs
           n == Len(t) + 1
           s == NewSvc(d[n])
           u == Append(t, s)
           all == SvcProc(d).left
<1>1. t \in Seq(Service) /\ Len(t) \in Nat /\ Len(d) \in Nat /\ Len(t) <= Len(d)
  BY DEF Peer, PartOf
<1>2. /\ q = [kind |-> "svcs", left |-> Left(all, Len(t))] /\ p.disc_prev_chr_val = 1
      /\ \A i \in 1..Len(t) : t[i].chrs = <<>>
  BY DEF AtSvcs
<1>3. /\ all \in Seq([start : Nat, end : Nat]) /\ Len(all) = Len(d)
      /\ \A k \in 1..Len(d) : all[k] = [start |-> d[k].start, end |-> d[k].end]
  <2>1. \A k \in 1..Len(d) : d[k].start \in Nat /\ d[k].end \in Nat
    BY SvcShape
  <2> QED
    BY <1>1, <2>1 DEF SvcProc
<1> HIDE DEF all
<1>4. q.left = Left(all, Len(t))
  BY <1>2
<1>5. /\ Len(t) < Len(d) /\ n \in 1..Len(d) /\ x = all[n]
      /\ Tail(Left(all, Len(t))) = Left(all, n)
  BY <1>1, <1>3, <1>4, LeftNext
<1>6. x = [start |-> d[n].start, end |-> d[n].end]
  BY <1>3, <1>5
<1>7. ~Found(Starts(t), x.start) /\ WithSvc(p, x) = [p EXCEPT !.svcs = u]
  <2>1. s = NewSvc(x)
    BY <1>6 DEF NewSvc
  <2>2. /\ ~Found(Starts(p.svcs), x.start)
        /\ WithSvc(p, x) = [p EXCEPT !.svcs = Append(p.svcs, NewSvc(x))]
    BY ZenonT(60), <1>5, <1>6, WithSvcIs
  <2> QED
    BY <2>1, <2>2
<1>8. /\ u \in Seq(Service) /\ PartOf(u, d) /\ Len(u) = n
      /\ \A m \in 1..Len(t) : u[m] = t[m]
      /\ u[n].chrs = <<>>
      /\ SvcBlocks(u) = SvcBlocks(t) \cup {n} /\ n \notin SvcBlocks(t)
      /\ ChrBlocks(u) = ChrBlocks(t) /\ DscBlocks(u) = DscBlocks(t)
      /\ Handles(u) = Handles(t) \cup {s.start} /\ s.start \in Handles(d)
  BY <1>1, <1>5, AddSvc
<1> HIDE DEF u
<1>9. WithSvc(p, x) \in Peer /\ WithSvc(p, x).svcs = u /\ WithSvc(p, x).disc_prev_chr_val = 1
  BY <1>2, <1>7, <1>8 DEF Peer
<1>10. Adds(t, u, d, "svc")
  BY <1>1, <1>8, AddsSvc
<1>11. AtSvcs([q EXCEPT !.left = Tail(@)], WithSvc(p, x), d)
  <2>1. [q EXCEPT !.left = Tail(@)] = [kind |-> "svcs", left |-> Left(all, n)]
    BY SMTT(60), <1>2, <1>5, RestSvcs
  <2>2. \A i \in 1..Len(u) : i \in 1..Len(t) \/ i = n
    BY <1>1, <1>8
  <2>3. \A i \in 1..Len(u) : u[i].chrs = <<>>
    BY SMTT(60), <1>2, <1>8, <2>2
  <2> QED
    BY <1>8, <1>9, <2>1, <2>3 DEF AtSvcs, all
<1> QED
  BY <1>7, <1>9, <1>10, <1>11 DEF UnderWay

\* The places of a list with one entry more.
LEMMA OneMore == \A a \in Nat : 1..(a + 1) = 1..a \cup {a + 1}
OBVIOUS

\* A characteristic that is reported is added to the service it belongs to.
LEMMA ChrItem ==
  ASSUME NEW p \in Peer, NEW d \in Seq(Service), WellFormed(d), PartOf(p.svcs, d),
         NEW i \in 1..Len(d), NEW q, AtChrs(q, p, d, i), q.left # <<>>,
         NEW x, x = Head(q.left)
  PROVE  /\ StartsAt(p.svcs, p.cur_svc) = i
         /\ ~Found(Values(p.svcs[i].chrs), x.def)
         /\ WithChr(p, x) \in Peer
         /\ Adds(p.svcs, WithChr(p, x).svcs, d, "chr")
         /\ UnderWay([q EXCEPT !.left = Tail(@)], WithChr(p, x), d)
<1> DEFINE t == p.svcs
           k == Len(t[i].chrs)
           n == k + 1
           chr == NewChr(x)
           u == PutChr(t, i, chr)
           all == ChrReports(d[i])
<1>1. /\ p.disc_prev_chr_val = 1 /\ p.cur_svc = d[i].start
      /\ Len(t) = Len(d) /\ NoDscs(t)
  BY DEF AtChrs
<1>2. \A m \in 1..Len(d) : m # i => Len(t[m].chrs) \in {0, Len(d[m].chrs)}
  BY DEF AtChrs
<1>3. q = [kind |-> "chrs", left |-> Left(all, k)]
  BY DEF AtChrs
<1>4. q.left = Left(all, k)
  BY <1>3
<1>5. t \in Seq(Service) /\ Len(t) \in Nat /\ i \in 1..Len(t) /\ PartOf(t, d)
  BY <1>1 DEF Peer
<1>6. k \in Nat /\ Len(d[i].chrs) \in Nat /\ k <= Len(d[i].chrs)
  BY <1>5, SvcShape, SvcPart
<1>7. /\ all \in Seq([def : Nat, val : Nat]) /\ Len(all) = Len(d[i].chrs)
      /\ \A m \in 1..Len(d[i].chrs) :
           all[m] = [def |-> d[i].chrs[m].def, val |-> d[i].chrs[m].val]
  <2>1. \A m \in 1..Len(d[i].chrs) : d[i].chrs[m].def \in Nat /\ d[i].chrs[m].val \in Nat
    BY ChrShape
  <2> QED
    BY <1>6, <2>1 DEF ChrReports
<1>8. k < Len(d[i].chrs) /\ n \in 1..Len(d[i].chrs) /\ x = all[n] /\ Tail(Left(all, k)) = Left(all, n)
  <2> HIDE DEF all, k
  <2> QED
    BY <1>4, <1>6, <1>7, LeftNext
<1>9. x = [def |-> d[i].chrs[n].def, val |-> d[i].chrs[n].val]
  <2> HIDE DEF all, n
  <2> QED
    BY <1>7, <1>8
<1>10. IsNextChr(t, d, i, x)
  <2>1. k < Len(d[i].chrs)
    BY <1>8
  <2> QED
    BY <1>9, <2>1, ZenonT(60) DEF IsNextChr
<1>11. /\ StartsAt(t, p.cur_svc) = i
       /\ ~Found(Values(t[i].chrs), x.def)
       /\ WithChr(p, x) = [p EXCEPT !.svcs = u]
  BY <1>1, <1>10, WithChrIs, ZenonT(60)
<1>12. /\ u \in Seq(Service) /\ PartOf(u, d) /\ Len(u) = Len(t)
       /\ \A m \in 1..Len(t) : m # i => u[m] = t[m]
       /\ Len(u[i].chrs) = n
       /\ \A m \in 1..k : u[i].chrs[m] = t[i].chrs[m]
       /\ u[i].chrs[n].dscs = <<>>
       /\ SvcBlocks(u) = SvcBlocks(t)
       /\ ChrBlocks(u) = ChrBlocks(t) \cup {<<i, n>>}
       /\ <<i, n>> \notin ChrBlocks(t)
       /\ DscBlocks(u) = DscBlocks(t)
       /\ Handles(u) = Handles(t) \cup {chr.val} /\ chr.val \in Handles(d)
  <2>1. chr = NewChr(x)
    OBVIOUS
  <2>2. u = PutChr(t, i, chr)
    OBVIOUS
  <2> HIDE DEF t, chr, u
  <2>3. AddedChr(t, u, d, i, chr)
    BY <1>5, <1>10, <2>1, <2>2, AddChr, ZenonT(60)
  <2> QED
    BY <2>3 DEF AddedChr
<1> HIDE DEF t, chr
<1>13. 1..n = 1..k \cup {n}
  BY <1>6, OneMore, ZenonT(60)
<1>14. \A o \in 1..k : t[i].chrs[o].dscs = <<>>
  BY <1>1, <1>5 DEF NoDscs
<1> HIDE DEF n, k, u
<1>15. /\ WithChr(p, x) \in Peer /\ WithChr(p, x).svcs = u
       /\ WithChr(p, x).disc_prev_chr_val = 1 /\ WithChr(p, x).cur_svc = d[i].start
  BY <1>1, <1>11, <1>12 DEF Peer
<1>16. Adds(t, u, d, "chr")
  BY <1>5, <1>12, AddsChr
<1>17. NoDscs(u)
  <2>1. ASSUME NEW m \in 1..Len(u), NEW j \in 1..Len(u[m].chrs)
        PROVE  u[m].chrs[j].dscs = <<>>
    <3>1. CASE m # i
      BY <1>1, <1>12, <3>1 DEF NoDscs
    <3>2. CASE m = i
      <4>1. j \in 1..k \/ j = n
        BY <1>12, <1>13, <3>2
      <4> QED
        BY <1>12, <1>14, <3>2, <4>1
    <3> QED
      BY <3>1, <3>2
  <2> QED
    BY <2>1 DEF NoDscs
<1>18. AtChrs([q EXCEPT !.left = Tail(@)], WithChr(p, x), d, i)
  <2>1. [q EXCEPT !.left = Tail(@)] = [kind |-> "chrs", left |-> Tail(Left(all, k))]
    BY <1>3, RestChrs
  <2>2. Tail(Left(all, k)) = Left(all, n)
    BY <1>8
  <2>3. \A m \in 1..Len(d) : m # i => Len(u[m].chrs) \in {0, Len(d[m].chrs)}
    BY <1>1, <1>2, <1>12
  <2> QED
    BY ZenonT(60), <1>1, <1>12, <1>15, <1>17, <2>1, <2>2, <2>3 DEF AtChrs, all
<1> QED
  BY <1>11, <1>15, <1>16, <1>18 DEF UnderWay, t

\* A descriptor that is reported is added to the characteristic it belongs to.
DscAdded(p, q, d, i, j, x) ==
  /\ RangeHas(p.svcs, q.of) = i /\ HasValue(p.svcs[i].chrs, q.of) = j
  /\ ~Found(p.svcs[i].chrs[j].dscs, x)
  /\ WithDsc(p, q.of, x) \in Peer
  /\ Adds(p.svcs, WithDsc(p, q.of, x).svcs, d, "dsc")
  /\ UnderWay([q EXCEPT !.left = Tail(@)], WithDsc(p, q.of, x), d)

\* That is what peer_dsc_disced does with a report.
LEMMA DscItem ==
  ASSUME NEW p \in Peer, NEW d \in Seq(Service), WellFormed(d), PartOf(p.svcs, d),
         NEW i \in 1..Len(d), NEW j \in 1..Len(d[i].chrs),
         NEW q, AtDscs(q, p, d, i, j), q.left # <<>>, NEW x, x = Head(q.left)
  PROVE  DscAdded(p, q, d, i, j, x)
<1> DEFINE t == p.svcs
           k == Len(t[i].chrs[j].dscs)
           n == k + 1
           u == PutDsc(t, i, j, x)
           all == d[i].chrs[j].dscs
           v == d[i].chrs[j].val
<1>1. p.disc_prev_chr_val = v /\ AllChrs(t, d)
  BY DEF AtDscs
<1>2. \A m \in 1..Len(d) : \A o \in 1..Len(d[m].chrs) :
           <<m, o>> # <<i, j>> => IF d[m].chrs[o].def < v THEN Full(t, d, m, o)
                                  ELSE t[m].chrs[o].dscs = <<>>
  BY DEF AtDscs
<1>3. q = [kind |-> "dscs", of |-> v, left |-> Left(all, k)]
  BY DEF AtDscs
<1>4. q.left = Left(all, k) /\ q.of = v
  BY <1>3
<1>5. /\ t \in Seq(Service) /\ i \in 1..Len(t) /\ j \in 1..Len(t[i].chrs) /\ Len(t) = Len(d)
      /\ \A m \in 1..Len(d) : Len(t[m].chrs) = Len(d[m].chrs)
      /\ PartOf(t, d)
  BY <1>1 DEF AllChrs, Peer
<1>6. v \in Nat /\ k \in Nat /\ all \in Seq(Nat) /\ k <= Len(all)
  BY <1>5, ChrShape, ChrPart
<1>7. k < Len(all) /\ n \in 1..Len(all) /\ x = all[n] /\ Tail(Left(all, k)) = Left(all, n)
  <2> HIDE DEF all, k
  <2> QED
    BY <1>4, <1>6, LeftNext
<1>8. IsNextDsc(t, d, i, j, x)
  BY <1>7, ZenonT(60) DEF IsNextDsc
<1>9. /\ RangeHas(t, v) = i /\ HasValue(t[i].chrs, v) = j
      /\ ~Found(t[i].chrs[j].dscs, x)
      /\ WithDsc(p, v, x) = [p EXCEPT !.svcs = u]
  <2>1. v = d[i].chrs[j].val
    OBVIOUS
  <2> HIDE DEF v
  <2>2. PutsDsc(p, v, i, j, x)
    BY <1>1, <1>8, <2>1, WithDscIs
  <2> QED
    BY <2>2 DEF PutsDsc
<1>10. /\ u \in Seq(Service) /\ PartOf(u, d) /\ Len(u) = Len(t)
       /\ \A m \in 1..Len(t) : m # i => u[m] = t[m]
       /\ Len(u[i].chrs) = Len(t[i].chrs)
       /\ \A m \in 1..Len(t[i].chrs) : m # j => u[i].chrs[m] = t[i].chrs[m]
       /\ Len(u[i].chrs[j].dscs) = n
       /\ SvcBlocks(u) = SvcBlocks(t) /\ ChrBlocks(u) = ChrBlocks(t)
       /\ DscBlocks(u) = DscBlocks(t) \cup {<<<<i, j>>, n>>}
       /\ <<<<i, j>>, n>> \notin DscBlocks(t)
       /\ Handles(u) = Handles(t) \cup {x} /\ x \in Handles(d)
  <2>1. u = PutDsc(t, i, j, x)
    OBVIOUS
  <2> HIDE DEF t, u
  <2>2. AddedDsc(t, u, d, i, j, x)
    BY <1>5, <1>8, <2>1, AddDsc, ZenonT(60)
  <2> QED
    BY <2>2 DEF AddedDsc
<1> HIDE DEF t
<1> HIDE DEF u, n, k, all, v
<1>11. /\ WithDsc(p, v, x) \in Peer /\ WithDsc(p, v, x).svcs = u
       /\ WithDsc(p, v, x).disc_prev_chr_val = v
  BY <1>1, <1>6, <1>9, <1>10 DEF Peer
<1>12. Adds(t, u, d, "dsc")
  BY <1>5, <1>10, AddsDsc
<1>13. AtDscs([q EXCEPT !.left = Tail(@)], WithDsc(p, v, x), d, i, j)
  <2>1. [q EXCEPT !.left = Tail(@)] = [kind |-> "dscs", of |-> v, left |-> Tail(Left(all, k))]
    BY <1>3, RestDscs
  <2>2. Tail(Left(all, k)) = Left(all, n)
    BY <1>7
  <2>3. AllChrs(u, d)
    BY <1>5, <1>10 DEF AllChrs
  <2>4. ASSUME NEW m \in 1..Len(d), NEW o \in 1..Len(d[m].chrs), <<m, o>> # <<i, j>>
        PROVE  IF d[m].chrs[o].def < v THEN Full(u, d, m, o) ELSE u[m].chrs[o].dscs = <<>>
    <3>1. u[m].chrs[o] = t[m].chrs[o]
      BY <1>5, <1>10, <2>4
    <3> QED
      BY <1>2, <2>4, <3>1 DEF Full
  <2> QED
    BY <1>10, <1>11, <2>1, <2>2, <2>3, <2>4, ZenonT(60) DEF AtDscs, all, v
<1> QED
  BY <1>4, <1>9, <1>11, <1>12, <1>13 DEF UnderWay, DscAdded, t
=============================================================================
