----------------------- MODULE MeshPeerChain_proofs ------------------------
(* What the callbacks of the chain of procedures yield, and what that means for  *)
(* the pools and the lists.                                                      *)
EXTENDS MeshPeerTable_proofs

-----------------------------------------------------------------------------
(* The next procedure.                                                     *)

\* What a step of the chain may yield, on a table t of a database d: the next
\* procedure, or an end for good, with success only if nothing is missing.
Good(r, t, d) ==
  /\ r.peer \in Peer /\ r.peer.svcs = t
  /\ \/ r.told = "running" /\ UnderWay(r.proc, r.peer, d)
     \/ r.told \in {"ok", "error"} /\ r.proc = NoProc /\ (r.told = "ok" => t = d)

\* The descriptors of the characteristics before disc_prev_chr_val are in the table.
Described(p, d) ==
  \A m \in 1..Len(d) : \A n \in 1..Len(d[m].chrs) :
    IF d[m].chrs[n].def < p.disc_prev_chr_val THEN Full(p.svcs, d, m, n)
    ELSE p.svcs[m].chrs[n].dscs = <<>>

\* peer_disc_complete ends the chain for good.
LEMMA CompleteGood ==
  ASSUME NEW p \in Peer, NEW d, NEW result \in {"ok", "error"}, result = "ok" => p.svcs = d
  PROVE  Good(Complete(p, result), p.svcs, d)
BY DEF Complete, Good, Peer

\* Characteristics with the same parts are the same.
LEMMA SameParts ==
  ASSUME NEW a \in Characteristic, NEW b \in Characteristic,
         a.def = b.def, a.val = b.val, a.dscs = b.dscs
  PROVE  a = b
BY DEF Characteristic

\* A table that has the length of every list of the database is the database.
LEMMA SameChr ==
  ASSUME NEW t \in Seq(Service), NEW d \in Seq(Service), PartOf(t, d), NEW i \in 1..Len(t),
         NEW j \in 1..Len(t[i].chrs), Full(t, d, i, j)
  PROVE  t[i].chrs[j] = d[i].chrs[j]
<1> DEFINE a == t[i].chrs[j]
           b == d[i].chrs[j]
<1>1. i \in 1..Len(d) /\ j \in 1..Len(d[i].chrs) /\ a.def = b.def /\ a.val = b.val
  BY SvcPart, ChrPart
<1>2. a \in Characteristic /\ b \in Characteristic /\ a.dscs \in Seq(Nat) /\ b.dscs \in Seq(Nat)
  BY <1>1, ChrShape
<1>3. \A k \in 1..Len(a.dscs) : a.dscs[k] = b.dscs[k]
  BY DscPart
<1>4. Len(a.dscs) = Len(b.dscs)
  BY DEF Full
<1> HIDE DEF a, b
<1>5. a.dscs = b.dscs
  BY <1>2, <1>3, <1>4, SeqEqual
<1>6. a = b
  BY <1>1, <1>2, <1>5, SameParts, ZenonT(60)
<1> QED
  BY <1>6 DEF a, b

\* Services with the same parts are the same.
LEMMA SameSvc ==
  ASSUME NEW a \in Service, NEW b \in Service,
         a.start = b.start, a.end = b.end, a.chrs = b.chrs
  PROVE  a = b
BY DEF Service

\* So the whole table is the database, if it has the length of every list.
LEMMA SameAll ==
  ASSUME NEW t \in Seq(Service), NEW d \in Seq(Service), PartOf(t, d), AllChrs(t, d),
         \A m \in 1..Len(d) : \A n \in 1..Len(d[m].chrs) : Full(t, d, m, n)
  PROVE  t = d
<1>1. Len(t) = Len(d)
  BY DEF AllChrs
<1>2. ASSUME NEW i \in 1..Len(t) PROVE t[i] = d[i]
  <2> DEFINE a == t[i]
             b == d[i]
  <2>1. i \in 1..Len(d) /\ a.start = b.start /\ a.end = b.end /\ Len(a.chrs) = Len(b.chrs)
    BY <1>1, SvcPart DEF AllChrs
  <2>2. /\ a \in Service /\ b \in Service
        /\ a.chrs \in Seq(Characteristic) /\ b.chrs \in Seq(Characteristic)
    BY <2>1, SvcShape
  <2>3. ASSUME NEW j \in 1..Len(a.chrs) PROVE a.chrs[j] = b.chrs[j]
    <3>1. Full(t, d, i, j)
      BY <2>1
    <3> QED
      BY <3>1, SameChr
  <2> HIDE DEF a, b
  <2>4. a.chrs = b.chrs
    BY <2>1, <2>2, <2>3, SeqEqual
  <2>5. a = b
    BY <2>1, <2>2, <2>4, SameSvc
  <2> QED
    BY <2>5 DEF a, b
<1> QED
  BY <1>1, <1>2, SeqEqual

\* The end of a characteristic is the same in the table, once it has them all.
LEMMA SameEnd ==
  ASSUME NEW t \in Seq(Service), NEW d \in Seq(Service), PartOf(t, d), AllChrs(t, d),
         NEW i \in 1..Len(d), NEW j \in 1..Len(d[i].chrs)
  PROVE  /\ ChrEndHandle(t[i], j) = ChrEndHandle(d[i], j)
         /\ t[i].chrs[j].val = d[i].chrs[j].val /\ t[i].chrs[j].def = d[i].chrs[j].def
         /\ i \in 1..Len(t) /\ j \in 1..Len(t[i].chrs)
         /\ <<i, j>> \in ChrBlocks(t)
<1>1. i \in 1..Len(t) /\ Len(t[i].chrs) = Len(d[i].chrs) /\ j \in 1..Len(t[i].chrs)
  BY DEF AllChrs
<1>2. t[i].end = d[i].end /\ \A n \in 1..Len(t[i].chrs) :
        t[i].chrs[n].def = d[i].chrs[n].def /\ t[i].chrs[n].val = d[i].chrs[n].val
  BY ZenonT(60), <1>1, SvcPart, ChrPart
<1>3. Len(d[i].chrs) \in Nat /\ j \in Nat
  BY SvcShape, ChrShape
<1>4. CASE j < Len(d[i].chrs)
  <2>1. j + 1 \in 1..Len(t[i].chrs)
    BY <1>1, <1>3, <1>4
  <2>2. t[i].chrs[j + 1].def = d[i].chrs[j + 1].def
    BY <1>2, <2>1
  <2>3. ChrEndHandle(t[i], j) = t[i].chrs[j + 1].def - 1
    BY <1>1, <1>4 DEF ChrEndHandle
  <2>4. ChrEndHandle(d[i], j) = d[i].chrs[j + 1].def - 1
    BY <1>4 DEF ChrEndHandle
  <2> QED
    BY <1>1, <1>2, <2>2, <2>3, <2>4, ChrBlockIs
<1>5. CASE ~(j < Len(d[i].chrs))
  <2>1. ChrEndHandle(t[i], j) = t[i].end /\ ChrEndHandle(d[i], j) = d[i].end
    BY <1>1, <1>5 DEF ChrEndHandle
  <2> QED
    BY <1>1, <1>2, <2>1, ChrBlockIs
<1> QED
  BY <1>4, <1>5

\* A characteristic that ends with its value has no descriptors.
LEMMA EmptyChr ==
  ASSUME NEW d \in Seq(Service), WellFormed(d), NEW i \in 1..Len(d), NEW j \in 1..Len(d[i].chrs),
         ChrIsEmpty(d[i], j)
  PROVE  d[i].chrs[j].dscs = <<>>
<1> DEFINE s == d[i].chrs[j].dscs
           e == ChrEndHandle(d[i], j)
           v == d[i].chrs[j].val
<1>1. s \in Seq(Nat) /\ Len(s) \in Nat /\ v \in Nat
  BY ChrShape
<1>2. e \in Int
  <2>1. d[i].end \in Nat /\ Len(d[i].chrs) \in Nat /\ j \in Nat
    BY SvcShape, ChrShape
  <2>2. j < Len(d[i].chrs) => j + 1 \in 1..Len(d[i].chrs)
    BY <2>1
  <2>3. j < Len(d[i].chrs) => d[i].chrs[j + 1].def \in Nat
    BY <2>2, ChrShape
  <2> QED
    BY SMTT(60), <2>1, <2>3 DEF ChrEndHandle
<1>3. e <= v
  BY DEF ChrIsEmpty
<1>4. ASSUME NEW k \in 1..Len(s) PROVE FALSE
  <2>1. s[k] \in ToSet(s) /\ s[k] \in Nat
    BY SMTT(60), <1>1 DEF ToSet
  <2>2. v < s[k] /\ s[k] <= e
    BY <2>1, DscsInRange
  <2>3. s[k] \in Int /\ v \in Int
    BY SMTT(60), <1>1, <2>1
  <2> DEFINE x == s[k]
  <2>4. x \in Int /\ v < x /\ x <= e
    BY <2>2, <2>3
  <2> HIDE DEF s, e, v, x
  <2> QED
    BY <1>2, <1>3, <2>3, <2>4
<1> HIDE DEF s
<1>5. Len(s) = 0
  BY <1>1, <1>4
<1>6. s = <<>>
  BY <1>1, <1>5
<1> QED
  BY <1>6 DEF s

\* A characteristic that peer_disc_dscs does not ask about has its descriptors.
LEMMA NotAsked ==
  ASSUME NEW p \in Peer, NEW d \in Seq(Service), WellFormed(d), PartOf(p.svcs, d),
         AllChrs(p.svcs, d), Described(p, d),
         NEW m \in 1..Len(d), NEW n \in 1..Len(d[m].chrs), <<m, n>> \notin Undescribed(p)
  PROVE  Full(p.svcs, d, m, n)
<1> DEFINE t == p.svcs
<1>1. t \in Seq(Service)
  BY DEF Peer
<1>2. CASE d[m].chrs[n].def < p.disc_prev_chr_val
  BY <1>2 DEF Described
<1>3. CASE ~(d[m].chrs[n].def < p.disc_prev_chr_val)
  <2>1. t[m].chrs[n].dscs = <<>>
    BY <1>3 DEF Described
  <2>2. /\ ChrEndHandle(t[m], n) = ChrEndHandle(d[m], n)
        /\ t[m].chrs[n].val = d[m].chrs[n].val /\ t[m].chrs[n].def = d[m].chrs[n].def
        /\ <<m, n>> \in ChrBlocks(t)
    BY SMTT(60), <1>1, SameEnd
  <2>3. p.disc_prev_chr_val <= t[m].chrs[n].def
    <3>1. p.disc_prev_chr_val \in Nat /\ d[m].chrs[n].def \in Nat
      BY ChrShape DEF Peer
    <3>2. \A a, b \in Nat : ~(a < b) => b <= a
      OBVIOUS
    <3> QED
      BY <1>3, <2>2, <3>1, <3>2
  <2>4. ChrIsEmpty(t[m], n)
    BY <2>1, <2>2, <2>3 DEF Undescribed
  <2>5. ChrIsEmpty(d[m], n)
    BY <2>2, <2>4 DEF ChrIsEmpty
  <2>6. d[m].chrs[n].dscs = <<>>
    BY <2>5, EmptyChr
  <2> QED
    BY <2>1, <2>6 DEF Full
<1> QED
  BY <1>2, <1>3

\* peer_disc_dscs asks for the first descriptors that are missing, or nothing is.
LEMMA DiscDscsGood ==
  ASSUME NEW c, NEW d \in Seq(Service), db[c] = d, WellFormed(d), NEW p \in Peer,
         PartOf(p.svcs, d), AllChrs(p.svcs, d), Described(p, d), NEW accepted
  PROVE  Good(DiscDscs(c, p, accepted), p.svcs, d)
<1> DEFINE t == p.svcs
<1>1. t \in Seq(Service)
  BY DEF Peer
<1>2. CASE Undescribed(p) = {}
  <2>1. \A m \in 1..Len(d) : \A n \in 1..Len(d[m].chrs) : Full(t, d, m, n)
    BY <1>2, NotAsked
  <2>2. t = d
    BY <1>1, <2>1, SameAll
  <2>3. DiscDscs(c, p, accepted) = Complete(p, "ok")
    BY <1>2 DEF DiscDscs
  <2> QED
    BY <2>2, <2>3, CompleteGood
<1>3. CASE Undescribed(p) # {}
  <2> DEFINE ij == FirstOf(Undescribed(p))
             i == ij[1]
             j == ij[2]
             v == d[i].chrs[j].val
  <2>1. Undescribed(p) \subseteq Nat \X Nat
    <3>1. ASSUME NEW b \in ChrBlocks(t) PROVE b \in Nat \X Nat
      <4>1. PICK m \in 1..Len(t) : b \in {m} \X (1..Len(t[m].chrs))
        BY DEF ChrBlocks, SvcBlocks
      <4>2. m \in Nat /\ Len(t[m].chrs) \in Nat
        BY <1>1, SvcShape
      <4> QED
        BY <4>1, <4>2
    <3> QED
      BY <3>1 DEF Undescribed
  <2>2. /\ ij \in Undescribed(p)
        /\ \A b \in Undescribed(p) : i < b[1] \/ (i = b[1] /\ j <= b[2])
    BY <1>3, <2>1, FirstOfLeast
  <2>3. ij = <<i, j>> /\ i \in Nat /\ j \in Nat
    <3> HIDE DEF ij
    <3> QED
      BY SMTT(60), <2>1, <2>2
  <2>4. /\ <<i, j>> \in ChrBlocks(t) /\ t[i].chrs[j].dscs = <<>>
        /\ p.disc_prev_chr_val <= t[i].chrs[j].def
    <3> HIDE DEF ij
    <3> QED
      BY <2>2, <2>3 DEF Undescribed
  <2> HIDE DEF ij, i, j
  <2>5. i \in 1..Len(d) /\ j \in 1..Len(d[i].chrs)
    <3>1. i \in 1..Len(t) /\ j \in 1..Len(t[i].chrs)
      BY <2>4, ChrBlockIs
    <3> QED
      BY <1>1, <3>1, SvcPart, ChrPart
  <2>6. /\ ChrEndHandle(t[i], j) = ChrEndHandle(d[i], j)
        /\ t[i].chrs[j].val = v /\ t[i].chrs[j].def = d[i].chrs[j].def
    BY ZenonT(60), <1>1, <2>5, SameEnd
  <2>7. DscProc(d, v, ChrEndHandle(d[i], j))
          = [kind |-> "dscs", of |-> v, left |-> d[i].chrs[j].dscs]
    BY <2>5, DscProcIs
  <2>8. v \in Nat /\ d[i].chrs[j].def \in Nat /\ d[i].chrs[j].dscs \in Seq(Nat)
    BY <2>5, ChrShape
  <2>9. d[i].chrs[j].def < v
    BY <2>5, ChrOrder
  <2> DEFINE p2 == [p EXCEPT !.disc_prev_chr_val = v]
             q2 == [kind |-> "dscs", of |-> v, left |-> d[i].chrs[j].dscs]
  <2>10. DiscDscs(c, p, accepted)
           = [peer |-> p2, proc |-> IF accepted THEN q2 ELSE NoProc,
              told |-> IF accepted THEN "running" ELSE "error"]
    <3>1. db[c] = d /\ t[i].chrs[j].val = v /\ DscProc(d, v, ChrEndHandle(t[i], j)) = q2
      BY <2>6, <2>7
    <3> HIDE DEF q2, v
    <3> QED
      BY <1>3, <3>1 DEF DiscDscs, ij, i, j
  <2>11. p2 \in Peer /\ p2.svcs = t /\ p2.disc_prev_chr_val = v
    <3> HIDE DEF v
    <3> QED
      BY <1>1, <2>8 DEF Peer
  <2>12. AtDscs(q2, p2, d, i, j)
    <3>1. q2.left = Left(d[i].chrs[j].dscs, Len(t[i].chrs[j].dscs))
      <4>1. Len(t[i].chrs[j].dscs) = 0
        BY <2>4
      <4> QED
        BY <2>8, <4>1, LeftAll
    <3>2. ASSUME NEW m \in 1..Len(d), NEW n \in 1..Len(d[m].chrs), <<m, n>> # <<i, j>>
          PROVE  IF d[m].chrs[n].def < v THEN Full(t, d, m, n) ELSE t[m].chrs[n].dscs = <<>>
      <4>1. d[m].chrs[n].def \in Nat /\ m \in Nat /\ n \in Nat
        BY SvcShape, ChrShape
      <4>2. CASE d[m].chrs[n].def < v
        <5>1. m < i \/ (m = i /\ n <= j)
          BY <2>5, <4>2, Earlier
        <5>2. <<m, n>> \notin Undescribed(p)
          <6>1. ASSUME <<m, n>> \in Undescribed(p) PROVE FALSE
            <7>1. i < m \/ (i = m /\ j <= n)
              BY <2>2, <6>1
            <7> QED
              BY <2>3, <3>2, <4>1, <5>1, <7>1
          <6> QED
            BY <6>1
        <5> QED
          BY <4>2, <5>2, NotAsked
      <4>3. CASE ~(d[m].chrs[n].def < v)
        <5>1. ~(d[m].chrs[n].def < p.disc_prev_chr_val)
          <6>1. p.disc_prev_chr_val \in Nat
            BY DEF Peer
          <6>2. \A a, b, e, f \in Nat : a <= b /\ b < e /\ ~(f < e) => ~(f < a)
            OBVIOUS
          <6>3. p.disc_prev_chr_val <= d[i].chrs[j].def
            BY <2>4, <2>6
          <6> QED
            BY <2>8, <2>9, <4>1, <4>3, <6>1, <6>2, <6>3, ZenonT(60)
        <5> QED
          BY <4>3, <5>1 DEF Described
      <4> QED
        BY <4>2, <4>3
    <3> HIDE DEF p2
    <3>3. q2 = [kind |-> "dscs", of |-> v,
                left |-> Left(d[i].chrs[j].dscs, Len(t[i].chrs[j].dscs))]
      BY <3>1
    <3> HIDE DEF q2
    <3> QED
      BY <2>11, <3>2, <3>3 DEF AtDscs
  <2>13. UnderWay(q2, p2, d)
    BY <2>5, <2>12 DEF UnderWay
  <2> HIDE DEF p2, q2
  <2> QED
    BY <2>10, <2>11, <2>13 DEF Good
<1> QED
  BY <1>2, <1>3

\* A service is the only one of the database with its start.
LEMMA StartIs ==
  ASSUME NEW d \in Seq(Service), WellFormed(d), NEW i \in 1..Len(d)
  PROVE  StartsAt(d, d[i].start) = i
<1>1. ASSUME NEW m \in 1..Len(d), d[m].start = d[i].start PROVE m = i
  <2>1. /\ d[m].start \in Nat /\ d[m].end \in Nat /\ d[i].start \in Nat /\ d[i].end \in Nat
        /\ m \in Nat /\ i \in Nat
    BY SvcShape
  <2>2. /\ d[m].start <= d[m].end /\ d[i].start <= d[i].end
        /\ m < i => d[m].end < d[i].start
        /\ i < m => d[i].end < d[m].start
    BY SvcOrder
  <2> QED
    BY <1>1, <2>1, <2>2
<1>2. Len(d) \in Nat
  OBVIOUS
<1> QED
  BY <1>1, <1>2, StartsAtOnly

\* A service that ends where it starts has no characteristics.
LEMMA EmptySvc ==
  ASSUME NEW d \in Seq(Service), WellFormed(d), NEW i \in 1..Len(d), SvcIsEmpty(d[i])
  PROVE  Len(d[i].chrs) = 0
<1>1. Len(d[i].chrs) \in Nat /\ d[i].start \in Nat /\ d[i].end \in Nat
  BY SvcShape
<1>2. ASSUME 1 \in 1..Len(d[i].chrs) PROVE FALSE
  <2>1. d[i].chrs[1].def \in Nat /\ d[i].chrs[1].val \in Nat
    BY <1>2, ChrShape
  <2>2. /\ d[i].start < d[i].chrs[1].def /\ d[i].chrs[1].def < d[i].chrs[1].val
        /\ d[i].chrs[1].val <= d[i].end
    BY <1>2, ChrOrder
  <2>3. d[i].end <= d[i].start
    BY DEF SvcIsEmpty
  <2>4. \A a, b, e, f \in Nat : a < b /\ b < e /\ e <= f /\ f <= a => FALSE
    OBVIOUS
  <2> QED
    BY <1>1, <2>1, <2>2, <2>3, <2>4, ZenonT(60)
<1>3. \A a \in Nat : 1 \in 1..a \/ a = 0
  OBVIOUS
<1> QED
  BY <1>1, <1>2, <1>3

\* peer_disc_chrs asks for the first characteristics that are missing, and if there
\* are none for descriptors.
LEMMA DiscChrsGood ==
  ASSUME NEW c, NEW d \in Seq(Service), db[c] = d, WellFormed(d), NEW p \in Peer,
         PartOf(p.svcs, d), Len(p.svcs) = Len(d), p.disc_prev_chr_val = 1,
         \A m \in 1..Len(d) : Len(p.svcs[m].chrs) \in {0, Len(d[m].chrs)}, NoDscs(p.svcs),
         NEW accepted
  PROVE  Good(DiscChrs(c, p, accepted), p.svcs, d)
<1> DEFINE t == p.svcs
<1>1. t \in Seq(Service) /\ Len(t) = Len(d) /\ Len(t) \in Nat
  BY DEF Peer
<1>2. CASE Undiscovered(p) = {}
  <2>1. AllChrs(t, d)
    <3>1. ASSUME NEW m \in 1..Len(d) PROVE Len(t[m].chrs) = Len(d[m].chrs)
      <4>1. m \in 1..Len(t) /\ t[m].start = d[m].start /\ t[m].end = d[m].end
        BY <1>1, SvcPart
      <4>2. SvcIsEmpty(t[m]) \/ t[m].chrs # <<>>
        BY <1>2, <4>1 DEF Undiscovered
      <4>3. CASE SvcIsEmpty(t[m])
        <5>1. SvcIsEmpty(d[m])
          BY <4>1, <4>3 DEF SvcIsEmpty
        <5>2. Len(d[m].chrs) = 0
          BY <5>1, EmptySvc
        <5> QED
          BY <5>2
      <4>4. CASE t[m].chrs # <<>>
        <5>1. t[m].chrs \in Seq(Characteristic)
          BY <1>1, <4>1, SvcShape
        <5>2. Len(t[m].chrs) # 0
          BY <4>4, <5>1
        <5> QED
          BY <5>2
      <4> QED
        BY <4>2, <4>3, <4>4
    <3> QED
      BY <1>1, <3>1 DEF AllChrs
  <2>2. Described(p, d)
    <3>1. ASSUME NEW m \in 1..Len(d), NEW n \in 1..Len(d[m].chrs)
          PROVE  ~(d[m].chrs[n].def < 1) /\ t[m].chrs[n].dscs = <<>>
      <4>1. d[m].start \in Nat /\ d[m].chrs[n].def \in Nat
        BY SvcShape, ChrShape
      <4>2. d[m].start < d[m].chrs[n].def
        BY ChrOrder
      <4>3. \A a, b \in Nat : a < b => ~(b < 1)
        OBVIOUS
      <4>4. m \in 1..Len(t) /\ n \in 1..Len(t[m].chrs)
        BY <1>1, <2>1 DEF AllChrs
      <4> QED
        BY SMTT(60), <4>1, <4>2, <4>3, <4>4 DEF NoDscs
    <3> QED
      BY <3>1 DEF Described
  <2>3. DiscChrs(c, p, accepted) = DiscDscs(c, p, accepted)
    BY <1>2 DEF DiscChrs
  <2> QED
    BY <2>1, <2>2, <2>3, DiscDscsGood
<1>3. CASE Undiscovered(p) # {}
  <2> DEFINE i == CHOOSE i \in Undiscovered(p) : \A j \in Undiscovered(p) : i <= j
             p2 == [p EXCEPT !.cur_svc = t[i].start]
             q2 == [kind |-> "chrs", left |-> ChrReports(d[i])]
  <2>1. i \in Undiscovered(p)
    <3>1. Undiscovered(p) \subseteq Nat
      BY <1>1 DEF Undiscovered
    <3>2. \E n \in Undiscovered(p) : \A j \in Undiscovered(p) : n <= j
      BY <1>3, <3>1, LeastNat
    <3> QED
      BY <3>2
  <2>2. DiscChrs(c, p, accepted)
          = IF accepted THEN [peer |-> p2, proc |-> ChrProc(d, t[i]), told |-> "running"]
            ELSE Complete(p2, "error")
    BY <1>3 DEF DiscChrs
  <2> HIDE DEF i
  <2>3. i \in 1..Len(d) /\ i \in 1..Len(t) /\ t[i].chrs = <<>>
    BY <1>1, <2>1 DEF Undiscovered
  <2>4. t[i].start = d[i].start /\ t[i].start \in Nat
    BY <1>1, <2>3, SvcPart, SvcShape
  <2>5. p2 \in Peer /\ p2.svcs = t /\ p2.disc_prev_chr_val = 1 /\ p2.cur_svc = d[i].start
    BY <2>4 DEF Peer
  <2>6. ChrProc(d, t[i]) = q2
    <3>1. StartsAt(d, t[i].start) = i
      BY <2>3, <2>4, StartIs
    <3> QED
      BY <3>1 DEF ChrProc, ChrReports
  <2>7. q2 = [kind |-> "chrs", left |-> Left(ChrReports(d[i]), Len(t[i].chrs))]
    <3>1. Len(t[i].chrs) = 0
      BY <2>3
    <3>2. ChrReports(d[i]) \in Seq([def : Nat, val : Nat])
      <4>1. \A m \in 1..Len(d[i].chrs) : d[i].chrs[m].def \in Nat /\ d[i].chrs[m].val \in Nat
        BY <2>3, ChrShape
      <4>2. Len(d[i].chrs) \in Nat
        BY <2>3, SvcShape
      <4> QED
        BY <4>1, <4>2 DEF ChrReports
    <3>3. Left(ChrReports(d[i]), 0) = ChrReports(d[i])
      BY <3>2, LeftAll
    <3> QED
      BY <3>1, <3>3
  <2> HIDE DEF p2, q2
  <2>8. AtChrs(q2, p2, d, i)
    BY <1>1, <2>5, <2>7 DEF AtChrs
  <2>9. UnderWay(q2, p2, d)
    BY <2>3, <2>8 DEF UnderWay
  <2>10. CASE accepted
    BY <2>2, <2>5, <2>6, <2>9, <2>10 DEF Good
  <2>11. CASE ~accepted
    <3>1. DiscChrs(c, p, accepted) = Complete(p2, "error")
      BY <2>2, <2>11
    <3>2. Good(Complete(p2, "error"), p2.svcs, d)
      BY <2>5, CompleteGood
    <3> QED
      BY <2>5, <3>1, <3>2
  <2> QED
    BY <2>10, <2>11
<1> QED
  BY <1>2, <1>3

\* disc_cb has not been told of the end while a procedure is under way.
LEMMA NotEnded ==
  ASSUME NEW q, NEW p, NEW d \in Seq(Service), UnderWay(q, p, d)
  PROVE  q.kind \in {"svcs", "chrs", "dscs"}
<1>1. CASE AtSvcs(q, p, d)
  BY <1>1 DEF AtSvcs
<1>2. ASSUME NEW i \in 1..Len(d), AtChrs(q, p, d, i) PROVE q.kind = "chrs"
  BY <1>2 DEF AtChrs
<1>3. ASSUME NEW i \in 1..Len(d), NEW j \in 1..Len(d[i].chrs), AtDscs(q, p, d, i, j)
      PROVE  q.kind = "dscs"
  BY <1>3 DEF AtDscs
<1> QED
  BY <1>1, <1>2, <1>3 DEF UnderWay

\* The callbacks at the end of a procedure.
LEMMA AfterProcGood ==
  ASSUME NEW c, NEW d \in Seq(Service), db[c] = d, WellFormed(d), NEW p \in Peer, peers[c] = p,
         NEW q, proc[c] = q, PartOf(p.svcs, d), UnderWay(q, p, d), q.left = <<>>, NEW accepted
  PROVE  Good(AfterProc(c, accepted), p.svcs, d)
<1> DEFINE t == p.svcs
<1>1. t \in Seq(Service) /\ Len(t) \in Nat /\ Len(d) \in Nat /\ Len(t) <= Len(d)
  BY DEF Peer, PartOf
<1>2. CASE AtSvcs(q, p, d)
  <2>1. /\ q.kind = "svcs" /\ p.disc_prev_chr_val = 1
        /\ \A m \in 1..Len(t) : t[m].chrs = <<>>
        /\ Left(SvcProc(d).left, Len(t)) = <<>>
    BY <1>2 DEF AtSvcs
  <2>2. SvcProc(d).left \in Seq([start : Nat, end : Nat]) /\ Len(SvcProc(d).left) = Len(d)
    <3>1. \A m \in 1..Len(d) : d[m].start \in Nat /\ d[m].end \in Nat
      BY SvcShape
    <3> QED
      BY <1>1, <3>1 DEF SvcProc
  <2>3. Len(t) = Len(d)
    BY <1>1, <2>1, <2>2, LeftNone
  <2>4. \A m \in 1..Len(d) : Len(t[m].chrs) = 0
    BY <2>1, <2>3
  <2>5. NoDscs(t)
    BY <2>1 DEF NoDscs
  <2>6. AfterProc(c, accepted) = DiscChrs(c, p, accepted)
    BY <2>1 DEF AfterProc
  <2>7. \A m \in 1..Len(d) : Len(p.svcs[m].chrs) \in {0, Len(d[m].chrs)}
    BY <2>4
  <2> QED
    BY <2>1, <2>3, <2>5, <2>6, <2>7, DiscChrsGood
<1>3. ASSUME NEW i \in 1..Len(d), AtChrs(q, p, d, i)
      PROVE  Good(AfterProc(c, accepted), p.svcs, d)
  <2>1. /\ q.kind = "chrs" /\ p.disc_prev_chr_val = 1 /\ Len(t) = Len(d) /\ NoDscs(t)
        /\ Left(ChrReports(d[i]), Len(t[i].chrs)) = <<>>
        /\ \A m \in 1..Len(d) : m # i => Len(t[m].chrs) \in {0, Len(d[m].chrs)}
    BY <1>3 DEF AtChrs
  <2>2. /\ i \in 1..Len(t) /\ Len(t[i].chrs) \in Nat
        /\ Len(t[i].chrs) <= Len(d[i].chrs) /\ Len(d[i].chrs) \in Nat
    BY <1>1, <2>1, SvcPart, SvcShape
  <2>3. /\ ChrReports(d[i]) \in Seq([def : Nat, val : Nat])
        /\ Len(ChrReports(d[i])) = Len(d[i].chrs)
    <3>1. \A m \in 1..Len(d[i].chrs) : d[i].chrs[m].def \in Nat /\ d[i].chrs[m].val \in Nat
      BY ChrShape
    <3> QED
      BY <2>2, <3>1 DEF ChrReports
  <2>4. Len(t[i].chrs) = Len(d[i].chrs)
    BY <2>1, <2>2, <2>3, LeftNone
  <2>5. \A m \in 1..Len(d) : Len(p.svcs[m].chrs) \in {0, Len(d[m].chrs)}
    BY <2>1, <2>4
  <2>6. AfterProc(c, accepted) = DiscChrs(c, p, accepted)
    BY <2>1 DEF AfterProc
  <2> QED
    BY <2>1, <2>5, <2>6, DiscChrsGood
<1>4. ASSUME NEW i \in 1..Len(d), NEW j \in 1..Len(d[i].chrs), AtDscs(q, p, d, i, j)
      PROVE  Good(AfterProc(c, accepted), p.svcs, d)
  <2> DEFINE v == d[i].chrs[j].val
  <2>1. /\ q.kind = "dscs" /\ p.disc_prev_chr_val = v /\ AllChrs(t, d)
        /\ Left(d[i].chrs[j].dscs, Len(t[i].chrs[j].dscs)) = <<>>
    BY SMTT(60), <1>4 DEF AtDscs
  <2>2. \A m \in 1..Len(d) : \A n \in 1..Len(d[m].chrs) :
          <<m, n>> # <<i, j>> => IF d[m].chrs[n].def < v THEN Full(t, d, m, n)
                                 ELSE t[m].chrs[n].dscs = <<>>
    BY <1>4 DEF AtDscs
  <2>3. /\ v \in Nat /\ d[i].chrs[j].def \in Nat /\ d[i].chrs[j].dscs \in Seq(Nat)
        /\ d[i].chrs[j].def < v
    BY ChrShape, ChrOrder
  <2>4. Full(t, d, i, j)
    <3>1. i \in 1..Len(t) /\ j \in 1..Len(t[i].chrs)
      BY <2>1 DEF AllChrs
    <3>2. /\ Len(t[i].chrs[j].dscs) \in Nat
          /\ Len(t[i].chrs[j].dscs) <= Len(d[i].chrs[j].dscs)
      BY ZenonT(60), <1>1, <3>1, ChrShape, ChrPart
    <3> QED
      BY <2>1, <2>3, <3>2, LeftNone DEF Full
  <2>5. Described(p, d)
    <3>1. ASSUME NEW m \in 1..Len(d), NEW n \in 1..Len(d[m].chrs)
          PROVE  IF d[m].chrs[n].def < v THEN Full(t, d, m, n) ELSE t[m].chrs[n].dscs = <<>>
      <4>1. CASE <<m, n>> # <<i, j>>
        BY <2>2, <4>1
      <4>2. CASE <<m, n>> = <<i, j>>
        BY <2>3, <2>4, <4>2
      <4> QED
        BY <4>1, <4>2
    <3> HIDE DEF v
    <3> QED
      BY <2>1, <3>1 DEF Described
  <2>6. AfterProc(c, accepted) = DiscDscs(c, p, accepted)
    <3>1. v # 0
      <4>1. \A a, b \in Nat : a < b => b # 0
        OBVIOUS
      <4> QED
        BY <2>3, <4>1, ZenonT(60)
    <3> QED
      BY <2>1, <3>1 DEF AfterProc
  <2> QED
    BY SMTT(60), <2>1, <2>5, <2>6, DiscDscsGood
<1> QED
  BY <1>2, <1>3, <1>4 DEF UnderWay

-----------------------------------------------------------------------------
(* Reports of all kinds.                                                   *)

\* What is reported is not in the table yet.  With it the table of a peer is still a
\* part of the database, with a block of one pool more.
ItemAdds(c, p, q, d, x) ==
  /\ ~Known(c, x) /\ With(c, x) \in Peer /\ Pool(c) \in {"svc", "chr", "dsc"}
  /\ Adds(p.svcs, With(c, x).svcs, d, Pool(c))
  /\ UnderWay([q EXCEPT !.left = Tail(@)], With(c, x), d)

\* That is what the callbacks of all three kinds of procedure do with a report.
LEMMA ItemGood ==
  ASSUME NEW c, NEW d \in Seq(Service), WellFormed(d), NEW p \in Peer, peers[c] = p,
         NEW q, proc[c] = q, PartOf(p.svcs, d), UnderWay(q, p, d), q.left # <<>>,
         NEW x, x = Head(q.left)
  PROVE  ItemAdds(c, p, q, d, x)
<1>1. CASE AtSvcs(q, p, d)
  <2>1. q.kind = "svcs"
    BY <1>1 DEF AtSvcs
  <2>2. /\ ~Found(Starts(p.svcs), x.start)
        /\ WithSvc(p, x) \in Peer
        /\ Adds(p.svcs, WithSvc(p, x).svcs, d, "svc")
        /\ UnderWay([q EXCEPT !.left = Tail(@)], WithSvc(p, x), d)
    BY <1>1, SvcItem
  <2>3. ~Known(c, x)
    BY <2>1, <2>2 DEF Known, Siblings
  <2>4. With(c, x) = WithSvc(p, x) /\ Pool(c) = "svc"
    BY <2>1, <2>3 DEF With, Pool
  <2> QED
    BY <2>2, <2>3, <2>4 DEF ItemAdds
<1>2. ASSUME NEW i \in 1..Len(d), AtChrs(q, p, d, i) PROVE ItemAdds(c, p, q, d, x)
  <2>1. q.kind = "chrs"
    BY <1>2 DEF AtChrs
  <2>2. /\ StartsAt(p.svcs, p.cur_svc) = i
        /\ ~Found(Values(p.svcs[i].chrs), x.def)
        /\ WithChr(p, x) \in Peer
        /\ Adds(p.svcs, WithChr(p, x).svcs, d, "chr")
        /\ UnderWay([q EXCEPT !.left = Tail(@)], WithChr(p, x), d)
    BY <1>2, ChrItem
  <2>3. ~Known(c, x)
    BY <2>1, <2>2 DEF Known, Siblings
  <2>4. With(c, x) = WithChr(p, x) /\ Pool(c) = "chr"
    BY <2>1, <2>3 DEF With, Pool
  <2> QED
    BY <2>2, <2>3, <2>4 DEF ItemAdds
<1>3. ASSUME NEW i \in 1..Len(d), NEW j \in 1..Len(d[i].chrs), AtDscs(q, p, d, i, j)
      PROVE  ItemAdds(c, p, q, d, x)
  <2>1. q.kind = "dscs"
    BY <1>3 DEF AtDscs
  <2>2. /\ RangeHas(p.svcs, q.of) = i /\ HasValue(p.svcs[i].chrs, q.of) = j
        /\ ~Found(p.svcs[i].chrs[j].dscs, x)
        /\ WithDsc(p, q.of, x) \in Peer
        /\ Adds(p.svcs, WithDsc(p, q.of, x).svcs, d, "dsc")
        /\ UnderWay([q EXCEPT !.left = Tail(@)], WithDsc(p, q.of, x), d)
    <3>1. DscAdded(p, q, d, i, j, x)
      BY <1>3, DscItem
    <3> QED
      BY <3>1 DEF DscAdded
  <2>3. ~Known(c, x)
    BY <2>1, <2>2 DEF Known, Siblings
  <2>4. With(c, x) = WithDsc(p, q.of, x) /\ Pool(c) = "dsc"
    BY <2>1, <2>3 DEF With, Pool
  <2> QED
    BY <2>2, <2>3, <2>4 DEF ItemAdds
<1> QED
  BY <1>1, <1>2, <1>3 DEF UnderWay

-----------------------------------------------------------------------------
(* The accounts of the pools.                                              *)

\* How many blocks of each pool the tables a[c] hold.
SvcsHeld(a) == Held([x \in Conn |-> SvcBlocks(a[x])])
ChrsHeld(a) == Held([x \in Conn |-> ChrBlocks(a[x])])
DscsHeld(a) == Held([x \in Conn |-> DscBlocks(a[x])])

Tables == [Conn -> Seq(Service)]
Counts == [svc : Nat, chr : Nat, dsc : Nat]

\* The free blocks f and those of the tables make up the pools.
Accounts(f, a) ==
  /\ f \in Counts
  /\ f.svc + SvcsHeld(a) = MaxSvcs
  /\ f.chr + ChrsHeld(a) = MaxChrs
  /\ f.dsc + DscsHeld(a) = MaxDscs

\* The table of one connection is all that makes a difference.
LEMMA TableChange ==
  ASSUME NEW a \in Tables, NEW c \in Conn, NEW u \in Seq(Service),
         NEW b, b = [a EXCEPT ![c] = u]
  PROVE  /\ SvcsHeld(b) = SvcsHeld(a) - Cardinality(SvcBlocks(a[c])) + Cardinality(SvcBlocks(u))
         /\ ChrsHeld(b) = ChrsHeld(a) - Cardinality(ChrBlocks(a[c])) + Cardinality(ChrBlocks(u))
         /\ DscsHeld(b) = DscsHeld(a) - Cardinality(DscBlocks(a[c])) + Cardinality(DscBlocks(u))
<1>1. b \in Tables /\ b[c] = u /\ \A x \in Conn \ {c} : b[x] = a[x]
  BY DEF Tables
<1>2. \A x \in Conn : a[x] \in Seq(Service) /\ b[x] \in Seq(Service)
  BY <1>1 DEF Tables
<1>3. SvcsHeld(b) = SvcsHeld(a) - Cardinality(SvcBlocks(a[c])) + Cardinality(SvcBlocks(u))
  <2> DEFINE f == [x \in Conn |-> SvcBlocks(a[x])]
             g == [x \in Conn |-> SvcBlocks(b[x])]
  <2>1. \A x \in Conn : IsFiniteSet(f[x])
    BY <1>2, BlocksFinite
  <2>2. IsFiniteSet(g[c]) /\ g[c] = SvcBlocks(u) /\ f[c] = SvcBlocks(a[c])
    BY <1>1, <1>2, BlocksFinite
  <2>3. \A x \in Conn \ {c} : g[x] = f[x]
    BY <1>1
  <2> HIDE DEF f, g
  <2>4. Held(g) = Held(f) - Cardinality(f[c]) + Cardinality(g[c])
    BY <2>1, <2>2, <2>3, HeldChange
  <2> QED
    BY <2>2, <2>4 DEF f, g, SvcsHeld
<1>4. ChrsHeld(b) = ChrsHeld(a) - Cardinality(ChrBlocks(a[c])) + Cardinality(ChrBlocks(u))
  <2> DEFINE f == [x \in Conn |-> ChrBlocks(a[x])]
             g == [x \in Conn |-> ChrBlocks(b[x])]
  <2>1. \A x \in Conn : IsFiniteSet(f[x])
    BY <1>2, BlocksFinite
  <2>2. IsFiniteSet(g[c]) /\ g[c] = ChrBlocks(u) /\ f[c] = ChrBlocks(a[c])
    BY <1>1, <1>2, BlocksFinite
  <2>3. \A x \in Conn \ {c} : g[x] = f[x]
    BY <1>1
  <2> HIDE DEF f, g
  <2>4. Held(g) = Held(f) - Cardinality(f[c]) + Cardinality(g[c])
    BY <2>1, <2>2, <2>3, HeldChange
  <2> QED
    BY <2>2, <2>4 DEF f, g, ChrsHeld
<1>5. DscsHeld(b) = DscsHeld(a) - Cardinality(DscBlocks(a[c])) + Cardinality(DscBlocks(u))
  <2> DEFINE f == [x \in Conn |-> DscBlocks(a[x])]
             g == [x \in Conn |-> DscBlocks(b[x])]
  <2>1. \A x \in Conn : IsFiniteSet(f[x])
    BY <1>2, BlocksFinite
  <2>2. IsFiniteSet(g[c]) /\ g[c] = DscBlocks(u) /\ f[c] = DscBlocks(a[c])
    BY <1>1, <1>2, BlocksFinite
  <2>3. \A x \in Conn \ {c} : g[x] = f[x]
    BY <1>1
  <2> HIDE DEF f, g
  <2>4. Held(g) = Held(f) - Cardinality(f[c]) + Cardinality(g[c])
    BY <2>1, <2>2, <2>3, HeldChange
  <2> QED
    BY <2>2, <2>4 DEF f, g, DscsHeld
<1> QED
  BY <1>3, <1>4, <1>5

\* The counts of blocks are natural numbers.
LEMMA TableHeld ==
  ASSUME NEW a \in Tables
  PROVE  /\ SvcsHeld(a) \in Nat /\ ChrsHeld(a) \in Nat /\ DscsHeld(a) \in Nat
<1>1. \A x \in Conn : a[x] \in Seq(Service)
  BY DEF Tables
<1>2. /\ \A x \in Conn : IsFiniteSet([y \in Conn |-> SvcBlocks(a[y])][x])
      /\ \A x \in Conn : IsFiniteSet([y \in Conn |-> ChrBlocks(a[y])][x])
      /\ \A x \in Conn : IsFiniteSet([y \in Conn |-> DscBlocks(a[y])][x])
  BY <1>1, BlocksFinite
<1>3. SvcsHeld(a) \in Nat
  <2> DEFINE f == [x \in Conn |-> SvcBlocks(a[x])]
  <2>1. \A x \in Conn : IsFiniteSet(f[x])
    BY <1>2
  <2> HIDE DEF f
  <2>2. Held(f) \in Nat
    BY <2>1, HeldNat
  <2> QED
    BY <2>2 DEF f, SvcsHeld
<1>4. ChrsHeld(a) \in Nat
  <2> DEFINE f == [x \in Conn |-> ChrBlocks(a[x])]
  <2>1. \A x \in Conn : IsFiniteSet(f[x])
    BY <1>2
  <2> HIDE DEF f
  <2>2. Held(f) \in Nat
    BY <2>1, HeldNat
  <2> QED
    BY <2>2 DEF f, ChrsHeld
<1>5. DscsHeld(a) \in Nat
  <2> DEFINE f == [x \in Conn |-> DscBlocks(a[x])]
  <2>1. \A x \in Conn : IsFiniteSet(f[x])
    BY <1>2
  <2> HIDE DEF f
  <2>2. Held(f) \in Nat
    BY <2>1, HeldNat
  <2> QED
    BY <2>2 DEF f, DscsHeld
<1> QED
  BY <1>3, <1>4, <1>5

-----------------------------------------------------------------------------
(* Changes of the accounts.                                                *)

\* A change of one field, of all fields, of a record of three numbers.
LEMMA FieldSet ==
  ASSUME NEW a, NEW b, NEW e, NEW f, f = [svc |-> a, chr |-> b, dsc |-> e], NEW n
  PROVE  /\ [f EXCEPT !.svc = n] = [svc |-> n, chr |-> b, dsc |-> e]
         /\ [f EXCEPT !.chr = n] = [svc |-> a, chr |-> n, dsc |-> e]
         /\ [f EXCEPT !.dsc = n] = [svc |-> a, chr |-> b, dsc |-> n]
OBVIOUS

\* A record of three numbers is made of them.
LEMMA CountsIs ==
  ASSUME NEW f \in Counts
  PROVE  f = [svc |-> f.svc, chr |-> f.chr, dsc |-> f.dsc]
BY DEF Counts

\* The change of all three.
LEMMA CountsSet ==
  ASSUME NEW f \in Counts, NEW a, NEW b, NEW e
  PROVE  [f EXCEPT !.svc = a, !.chr = b, !.dsc = e] = [svc |-> a, chr |-> b, dsc |-> e]
<1> DEFINE g == [f EXCEPT !.svc = a]
           h == [g EXCEPT !.chr = b]
           k == [h EXCEPT !.dsc = e]
<1>1. f = [svc |-> f.svc, chr |-> f.chr, dsc |-> f.dsc]
  BY CountsIs
<1>2. [f EXCEPT !.svc = a, !.chr = b, !.dsc = e] = k
  OBVIOUS
<1>3. g = [svc |-> a, chr |-> f.chr, dsc |-> f.dsc]
  BY <1>1, FieldSet
<1> HIDE DEF g
<1>4. h = [svc |-> a, chr |-> b, dsc |-> f.dsc]
  BY SMTT(60), <1>3, FieldSet
<1> HIDE DEF h
<1>5. k = [svc |-> a, chr |-> b, dsc |-> e]
  BY SMTT(60), <1>4, FieldSet
<1> QED
  BY <1>2, <1>5

\* The block of an entry that is added comes from the pool it belongs to.
LEMMA AccountsItem ==
  ASSUME NEW f, NEW a \in Tables, Accounts(f, a), NEW c \in Conn,
         NEW pool \in {"svc", "chr", "dsc"}, f[pool] # 0,
         NEW u \in Seq(Service), NEW d, Adds(a[c], u, d, pool),
         NEW b, b = [a EXCEPT ![c] = u], NEW g, g = [f EXCEPT ![pool] = @ - 1]
  PROVE  Accounts(g, b)
<1>1. /\ f \in Counts /\ f.svc + SvcsHeld(a) = MaxSvcs /\ f.chr + ChrsHeld(a) = MaxChrs
      /\ f.dsc + DscsHeld(a) = MaxDscs
  BY DEF Accounts
<1>2. a[c] \in Seq(Service)
  BY DEF Tables
<1>3. /\ SvcsHeld(b) = SvcsHeld(a) - Cardinality(SvcBlocks(a[c])) + Cardinality(SvcBlocks(u))
      /\ ChrsHeld(b) = ChrsHeld(a) - Cardinality(ChrBlocks(a[c])) + Cardinality(ChrBlocks(u))
      /\ DscsHeld(b) = DscsHeld(a) - Cardinality(DscBlocks(a[c])) + Cardinality(DscBlocks(u))
  BY ZenonT(60), TableChange
<1>4. SvcsHeld(a) \in Nat /\ ChrsHeld(a) \in Nat /\ DscsHeld(a) \in Nat
  BY TableHeld
<1>5. /\ Cardinality(SvcBlocks(a[c])) \in Nat /\ Cardinality(ChrBlocks(a[c])) \in Nat
      /\ Cardinality(DscBlocks(a[c])) \in Nat
  BY <1>2, BlocksNat
<1>6. /\ Cardinality(SvcBlocks(u)) = Cardinality(SvcBlocks(a[c])) + (IF pool = "svc" THEN 1 ELSE 0)
      /\ Cardinality(ChrBlocks(u)) = Cardinality(ChrBlocks(a[c])) + (IF pool = "chr" THEN 1 ELSE 0)
      /\ Cardinality(DscBlocks(u)) = Cardinality(DscBlocks(a[c])) + (IF pool = "dsc" THEN 1 ELSE 0)
  BY DEF Adds
<1>7. /\ SvcsHeld(b) = SvcsHeld(a) + (IF pool = "svc" THEN 1 ELSE 0)
      /\ ChrsHeld(b) = ChrsHeld(a) + (IF pool = "chr" THEN 1 ELSE 0)
      /\ DscsHeld(b) = DscsHeld(a) + (IF pool = "dsc" THEN 1 ELSE 0)
  BY SMTT(60), <1>3, <1>4, <1>5, <1>6
<1>8. CASE pool = "svc"
  <2>1. g = [f EXCEPT !.svc = f.svc - 1] /\ f.svc # 0
    BY <1>8
  <2>2. g = [svc |-> f.svc - 1, chr |-> f.chr, dsc |-> f.dsc]
    BY <1>1, <2>1, CountsIs, FieldSet
  <2>3. /\ SvcsHeld(b) = SvcsHeld(a) + 1 /\ ChrsHeld(b) = ChrsHeld(a)
        /\ DscsHeld(b) = DscsHeld(a)
    BY <1>4, <1>7, <1>8
  <2>4. f.svc \in Nat /\ f.chr \in Nat /\ f.dsc \in Nat
    BY <1>1 DEF Counts
  <2>5. f.svc - 1 \in Nat
    BY <2>1, <2>4
  <2>6. g \in Counts
    BY <2>2, <2>4, <2>5 DEF Counts
  <2>7. g.svc = f.svc - 1 /\ g.chr = f.chr /\ g.dsc = f.dsc
    BY <2>2
  <2> QED
    BY SMTT(60), <1>1, <1>4, <2>3, <2>4, <2>6, <2>7 DEF Accounts
<1>9. CASE pool = "chr"
  <2>1. g = [f EXCEPT !.chr = f.chr - 1] /\ f.chr # 0
    BY <1>9
  <2>2. g = [svc |-> f.svc, chr |-> f.chr - 1, dsc |-> f.dsc]
    BY <1>1, <2>1, CountsIs, FieldSet
  <2>3. /\ SvcsHeld(b) = SvcsHeld(a) /\ ChrsHeld(b) = ChrsHeld(a) + 1
        /\ DscsHeld(b) = DscsHeld(a)
    BY <1>4, <1>7, <1>9
  <2>4. f.svc \in Nat /\ f.chr \in Nat /\ f.dsc \in Nat
    BY <1>1 DEF Counts
  <2>5. f.chr - 1 \in Nat
    BY <2>1, <2>4
  <2>6. g \in Counts
    BY <2>2, <2>4, <2>5 DEF Counts
  <2>7. g.svc = f.svc /\ g.chr = f.chr - 1 /\ g.dsc = f.dsc
    BY <2>2
  <2> QED
    BY SMTT(60), <1>1, <1>4, <2>3, <2>4, <2>6, <2>7 DEF Accounts
<1>10. CASE pool = "dsc"
  <2>1. g = [f EXCEPT !.dsc = f.dsc - 1] /\ f.dsc # 0
    BY <1>10
  <2>2. g = [svc |-> f.svc, chr |-> f.chr, dsc |-> f.dsc - 1]
    BY ZenonT(60), <1>1, <2>1, CountsIs, FieldSet
  <2>3. /\ SvcsHeld(b) = SvcsHeld(a) /\ ChrsHeld(b) = ChrsHeld(a)
        /\ DscsHeld(b) = DscsHeld(a) + 1
    BY <1>4, <1>7, <1>10
  <2>4. f.svc \in Nat /\ f.chr \in Nat /\ f.dsc \in Nat
    BY <1>1 DEF Counts
  <2>5. f.dsc - 1 \in Nat
    BY <2>1, <2>4
  <2>6. g \in Counts
    BY <2>2, <2>4, <2>5 DEF Counts
  <2>7. g.svc = f.svc /\ g.chr = f.chr /\ g.dsc = f.dsc - 1
    BY <2>2
  <2> QED
    BY SMTT(60), <1>1, <1>4, <2>3, <2>4, <2>6, <2>7 DEF Accounts
<1> QED
  BY <1>8, <1>9, <1>10

\* An empty table has no blocks.
LEMMA EmptyBlocks ==
  /\ Cardinality(SvcBlocks(<<>>)) = 0
  /\ Cardinality(ChrBlocks(<<>>)) = 0
  /\ Cardinality(DscBlocks(<<>>)) = 0
  /\ SvcBlocks(<<>>) = {} /\ ChrBlocks(<<>>) = {} /\ DscBlocks(<<>>) = {}
<1>1. SvcBlocks(<<>>) = {}
  BY DEF SvcBlocks
<1>2. ChrBlocks(<<>>) = {}
  BY <1>1 DEF ChrBlocks
<1>3. DscBlocks(<<>>) = {}
  BY <1>2 DEF DscBlocks
<1> QED
  BY <1>1, <1>2, <1>3, FS_EmptySet

\* The blocks of a peer that is deleted are free again.
LEMMA AccountsFreed ==
  ASSUME NEW f, NEW a \in Tables, Accounts(f, a), NEW c \in Conn,
         NEW b, b = [a EXCEPT ![c] = <<>>], NEW g, g = Freed(a[c], f)
  PROVE  Accounts(g, b)
<1>1. /\ f \in Counts /\ f.svc + SvcsHeld(a) = MaxSvcs /\ f.chr + ChrsHeld(a) = MaxChrs
      /\ f.dsc + DscsHeld(a) = MaxDscs
  BY DEF Accounts
<1>2. a[c] \in Seq(Service)
  BY DEF Tables
<1>3. /\ Cardinality(SvcBlocks(a[c])) \in Nat /\ Cardinality(ChrBlocks(a[c])) \in Nat
      /\ Cardinality(DscBlocks(a[c])) \in Nat
  BY <1>2, BlocksNat
<1>4. SvcsHeld(a) \in Nat /\ ChrsHeld(a) \in Nat /\ DscsHeld(a) \in Nat
  BY TableHeld
<1>5. /\ SvcsHeld(b) = SvcsHeld(a) - Cardinality(SvcBlocks(a[c])) + 0
      /\ ChrsHeld(b) = ChrsHeld(a) - Cardinality(ChrBlocks(a[c])) + 0
      /\ DscsHeld(b) = DscsHeld(a) - Cardinality(DscBlocks(a[c])) + 0
  <2>1. <<>> \in Seq(Service)
    OBVIOUS
  <2>2. /\ SvcsHeld(b)
             = SvcsHeld(a) - Cardinality(SvcBlocks(a[c])) + Cardinality(SvcBlocks(<<>>))
        /\ ChrsHeld(b)
             = ChrsHeld(a) - Cardinality(ChrBlocks(a[c])) + Cardinality(ChrBlocks(<<>>))
        /\ DscsHeld(b)
             = DscsHeld(a) - Cardinality(DscBlocks(a[c])) + Cardinality(DscBlocks(<<>>))
    BY ZenonT(60), <2>1, TableChange
  <2> QED
    BY <2>2, EmptyBlocks
<1> DEFINE k == Cardinality(SvcBlocks(a[c]))
           m == Cardinality(ChrBlocks(a[c]))
           n == Cardinality(DscBlocks(a[c]))
<1>6. g = [svc |-> f.svc + k, chr |-> f.chr + m, dsc |-> f.dsc + n]
  <2>1. g = [f EXCEPT !.svc = f.svc + k, !.chr = f.chr + m, !.dsc = f.dsc + n]
    BY DEF Freed
  <2> HIDE DEF k, m, n
  <2> QED
    BY ZenonT(60), <1>1, <2>1, CountsSet
<1>7. k \in Nat /\ m \in Nat /\ n \in Nat
  BY <1>3
<1>8. /\ SvcsHeld(b) = SvcsHeld(a) - k + 0 /\ ChrsHeld(b) = ChrsHeld(a) - m + 0
      /\ DscsHeld(b) = DscsHeld(a) - n + 0
  BY <1>5
<1> HIDE DEF k, m, n
<1>9. f.svc \in Nat /\ f.chr \in Nat /\ f.dsc \in Nat
  BY <1>1 DEF Counts
<1>10. g \in Counts
  BY SMTT(60), <1>6, <1>7, <1>9 DEF Counts
<1>11. g.svc = f.svc + k /\ g.chr = f.chr + m /\ g.dsc = f.dsc + n
  BY <1>6
<1>12. g.svc + SvcsHeld(b) = MaxSvcs
  BY SMTT(60), <1>1, <1>4, <1>7, <1>8, <1>9, <1>11
<1>13. g.chr + ChrsHeld(b) = MaxChrs
  BY SMTT(60), <1>1, <1>4, <1>7, <1>8, <1>9, <1>11
<1>14. g.dsc + DscsHeld(b) = MaxDscs
  BY <1>1, <1>4, <1>7, <1>8, <1>9, <1>11
<1> QED
  BY <1>10, <1>12, <1>13, <1>14 DEF Accounts

\* At first all blocks are free.
LEMMA AccountsNone ==
  ASSUME NEW a, \A x \in Conn : a[x] = <<>>
  PROVE  Accounts(AllFree, a)
<1>1. SvcsHeld(a) = 0
  BY EmptyBlocks, HeldNone DEF SvcsHeld
<1>2. ChrsHeld(a) = 0
  BY EmptyBlocks, HeldNone DEF ChrsHeld
<1>3. DscsHeld(a) = 0
  BY EmptyBlocks, HeldNone DEF DscsHeld
<1>4. MaxSvcs \in Nat /\ MaxChrs \in Nat /\ MaxDscs \in Nat
  BY PoolAssumption
<1> QED
  BY <1>1, <1>2, <1>3, <1>4 DEF Accounts, AllFree, Counts

-----------------------------------------------------------------------------
(* The lists of peers and of free blocks.                                  *)

\* A new peer is put at the head of the list.
Extended(S, s, x, u) ==
  /\ u \in Seq(S) /\ Len(u) = Len(s) + 1
  /\ IsInjective(u) /\ ToSet(u) = ToSet(s) \cup {x}

\* SLIST_INSERT_HEAD keeps each peer in the list once.
LEMMA ListAdd ==
  ASSUME NEW S, NEW s \in Seq(S), IsInjective(s), NEW x \in S, x \notin ToSet(s),
         NEW u, u = <<x>> \o s
  PROVE  Extended(S, s, x, u)
<1>1. <<x>> \in Seq(S) /\ Len(<<x>>) = 1 /\ <<x>>[1] = x /\ Len(s) \in Nat
  OBVIOUS
<1>2. /\ u \in Seq(S) /\ Len(u) = Len(s) + 1
      /\ \A i \in 1..(Len(s) + 1) : u[i] = IF i <= 1 THEN x ELSE s[i - 1]
  BY <1>1, ConcatProperties
<1>3. DOMAIN u = 1..(Len(s) + 1) /\ DOMAIN s = 1..Len(s)
  BY <1>2
<1>4. u[1] = x /\ \A i \in 1..Len(s) : u[i + 1] = s[i]
  BY <1>1, <1>2
<1>5. \A i \in 1..(Len(s) + 1) : i = 1 \/ (i - 1 \in 1..Len(s) /\ u[i] = s[i - 1])
  BY <1>1, <1>2
<1>6. IsInjective(u)
  <2>1. ASSUME NEW i \in DOMAIN u, NEW j \in DOMAIN u, u[i] = u[j] PROVE i = j
    <3>1. \A k \in 1..Len(s) : s[k] # x
      BY <1>3 DEF ToSet
    <3>2. CASE i = 1 \/ j = 1
      BY <1>3, <1>4, <1>5, <2>1, <3>1, <3>2
    <3>3. CASE i # 1 /\ j # 1
      <4>1. i - 1 \in 1..Len(s) /\ j - 1 \in 1..Len(s) /\ s[i - 1] = s[j - 1]
        BY <1>3, <1>5, <2>1, <3>3
      <4>2. i - 1 = j - 1
        BY <1>3, <4>1 DEF IsInjective
      <4> QED
        BY <1>1, <1>3, <4>2
    <3> QED
      BY <3>2, <3>3
  <2> QED
    BY <2>1 DEF IsInjective
<1>7. ToSet(u) = ToSet(s) \cup {x}
  <2>1. ASSUME NEW y PROVE y \in ToSet(u) <=> y \in ToSet(s) \/ y = x
    <3>1. ASSUME y \in ToSet(u) PROVE y \in ToSet(s) \/ y = x
      <4>1. PICK i \in 1..(Len(s) + 1) : y = u[i]
        BY <1>3, <3>1 DEF ToSet
      <4> QED
        BY <1>3, <1>4, <1>5, <4>1 DEF ToSet
    <3>2. ASSUME y \in ToSet(s) PROVE y \in ToSet(u)
      <4>1. PICK i \in 1..Len(s) : y = s[i]
        BY <1>3, <3>2 DEF ToSet
      <4>2. i + 1 \in DOMAIN u /\ u[i + 1] = y
        BY <1>1, <1>3, <1>4, <4>1
      <4> QED
        BY <4>2 DEF ToSet
    <3>3. x \in ToSet(u)
      <4>1. 1 \in DOMAIN u
        BY <1>1, <1>3
      <4> QED
        BY <1>4, <4>1 DEF ToSet
    <3> QED
      BY <3>1, <3>2, <3>3
  <2> QED
    BY <2>1
<1> QED
  BY <1>2, <1>6, <1>7 DEF Extended

\* The first entry that is x; the list without it.
LEMMA FirstIs ==
  ASSUME NEW s, NEW k \in 1..Len(s), Len(s) \in Nat, NEW x, s[k] = x,
         \A m \in 1..Len(s) : s[m] = x => m = k
  PROVE  RemoveFirst(s, x) = SubSeq(s, 1, k - 1) \o SubSeq(s, k + 1, Len(s))
<1>1. {m \in 1..Len(s) : s[m] = x} = {k}
  OBVIOUS
<1>2. Min({k}) = k
  BY DEF Min
<1>3. SelectInSeq(s, LAMBDA v : v = x) = k
  BY <1>1, <1>2 DEF SelectInSeq
<1> QED
  BY <1>3 DEF RemoveFirst, RemoveAt

\* SLIST_REMOVE takes the peer out of the list, and no other one.
LEMMA ListRemove ==
  ASSUME NEW S, NEW s \in Seq(S), IsInjective(s), NEW x \in ToSet(s),
         NEW u, u = RemoveFirst(s, x)
  PROVE  /\ u \in Seq(S) /\ Len(u) = Len(s) - 1
         /\ IsInjective(u) /\ ToSet(u) = ToSet(s) \ {x}
<1>1. Len(s) \in Nat /\ DOMAIN s = 1..Len(s)
  OBVIOUS
<1>2. PICK k \in 1..Len(s) : s[k] = x
  BY <1>1 DEF ToSet
<1>3. \A m \in 1..Len(s) : s[m] = x => m = k
  BY <1>1, <1>2 DEF IsInjective
<1> DEFINE a == SubSeq(s, 1, k - 1)
           b == SubSeq(s, k + 1, Len(s))
<1>4. u = a \o b
  BY ZenonT(60), <1>1, <1>2, <1>3, FirstIs
<1>5. /\ a \in Seq(S) /\ Len(a) = k - 1
      /\ \A i \in 1..(k - 1) : a[i] = s[i]
  BY <1>1, SubSeqProperties
<1>6. /\ b \in Seq(S) /\ Len(b) = Len(s) - k
      /\ \A i \in 1..(Len(s) - k) : b[i] = s[k + i]
  <2>1. k + 1 \in Int /\ Len(s) \in Int /\ \A i \in (k + 1)..Len(s) : s[i] \in S
    BY <1>1
  <2>2. /\ b \in Seq(S) /\ Len(b) = IF k + 1 <= Len(s) THEN Len(s) - (k + 1) + 1 ELSE 0
        /\ \A i \in 1..(Len(s) - (k + 1) + 1) : b[i] = s[(k + 1) + i - 1]
    BY <2>1, SubSeqProperties
  <2> HIDE DEF b
  <2>3. Len(s) - (k + 1) + 1 = Len(s) - k
    BY <1>1
  <2>4. \A i \in 1..(Len(s) - k) : (k + 1) + i - 1 = k + i
    BY <1>1
  <2>5. \A n \in Nat : \A i \in 1..n : IF i + 1 <= n THEN n - (i + 1) + 1 = n - i ELSE n - i = 0
    BY SMTT(60)
  <2>6. Len(b) = Len(s) - k
    BY ZenonT(60), <1>1, <2>2, <2>5
  <2> QED
    BY ZenonT(60), <2>2, <2>3, <2>4, <2>6
<1> HIDE DEF a, b
<1>7. /\ u \in Seq(S) /\ Len(u) = Len(s) - 1
      /\ \A i \in 1..(Len(s) - 1) : u[i] = IF i < k THEN s[i] ELSE s[i + 1]
  <2>1. /\ u \in Seq(S) /\ Len(u) = Len(a) + Len(b)
        /\ \A i \in 1..(Len(a) + Len(b)) :
             u[i] = IF i <= Len(a) THEN a[i] ELSE b[i - Len(a)]
    <3>1. a \in Seq(S) /\ b \in Seq(S)
      BY <1>5, <1>6
    <3>2. a \o b \in Seq(S) /\ Len(a \o b) = Len(a) + Len(b)
      BY <3>1, ConcatProperties
    <3>3. \A i \in 1..(Len(a) + Len(b)) :
            (a \o b)[i] = IF i <= Len(a) THEN a[i] ELSE b[i - Len(a)]
      BY <3>1, ConcatProperties
    <3> QED
      BY <1>4, <3>2, <3>3
  <2>2. Len(a) + Len(b) = Len(s) - 1 /\ Len(a) = k - 1
    BY <1>1, <1>5, <1>6
  <2>3. \A i \in 1..(Len(s) - 1) : u[i] = IF i <= k - 1 THEN a[i] ELSE b[i - (k - 1)]
    BY <2>1, <2>2
  <2>4. ASSUME NEW i \in 1..(Len(s) - 1) PROVE u[i] = IF i < k THEN s[i] ELSE s[i + 1]
    <3>1. CASE i < k
      BY <1>1, <1>5, <2>3, <3>1
    <3>2. CASE ~(i < k)
      <4>1. i - (k - 1) \in 1..(Len(s) - k) /\ k + (i - (k - 1)) = i + 1
        BY <1>1, <3>2
      <4>2. b[i - (k - 1)] = s[i + 1]
        BY <1>6, <4>1
      <4> QED
        BY <1>1, <2>3, <3>2, <4>2
    <3> QED
      BY <3>1, <3>2
  <2> QED
    BY <2>1, <2>2, <2>4
<1>8. DOMAIN u = 1..(Len(s) - 1)
  BY <1>7
<1> DEFINE at(i) == IF i < k THEN i ELSE i + 1
<1>9. \A i \in 1..(Len(s) - 1) : at(i) \in 1..Len(s) /\ at(i) # k /\ u[i] = s[at(i)]
  BY <1>1, <1>7
<1>10. \A i, j \in 1..(Len(s) - 1) : at(i) = at(j) => i = j
  BY <1>1
<1>11. \A m \in 1..Len(s) : m # k => \E i \in 1..(Len(s) - 1) : at(i) = m
  <2>1. ASSUME NEW m \in 1..Len(s), m < k PROVE m \in 1..(Len(s) - 1) /\ at(m) = m
    BY <1>1, <2>1
  <2>2. ASSUME NEW m \in 1..Len(s), m > k PROVE m - 1 \in 1..(Len(s) - 1) /\ at(m - 1) = m
    BY <1>1, <2>2
  <2> HIDE DEF at
  <2>3. \A m \in 1..Len(s) : m # k => m < k \/ m > k
    BY <1>1
  <2> QED
    BY <2>1, <2>2, <2>3
<1> HIDE DEF at
<1>12. IsInjective(u)
  BY <1>1, <1>8, <1>9, <1>10 DEF IsInjective
<1>13. ToSet(u) = ToSet(s) \ {x}
  <2>1. ASSUME NEW y \in ToSet(u) PROVE y \in ToSet(s) /\ y # x
    <3>1. PICK i \in 1..(Len(s) - 1) : y = u[i]
      BY <1>8 DEF ToSet
    <3> QED
      BY <1>1, <1>3, <1>9, <3>1 DEF ToSet
  <2>2. ASSUME NEW y \in ToSet(s), y # x PROVE y \in ToSet(u)
    <3>1. PICK m \in 1..Len(s) : y = s[m]
      BY <1>1 DEF ToSet
    <3>2. m # k
      BY <1>2, <2>2, <3>1
    <3>3. PICK i \in 1..(Len(s) - 1) : at(i) = m
      BY <1>11, <3>2
    <3>4. u[i] = y
      BY <1>9, <3>1, <3>3
    <3> QED
      BY <1>8, <3>4 DEF ToSet
  <2> QED
    BY <2>1, <2>2
<1> QED
  BY <1>7, <1>12, <1>13
=============================================================================
