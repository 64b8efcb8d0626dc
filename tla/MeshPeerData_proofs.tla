------------------------ MODULE MeshPeerData_proofs ------------------------
(* Facts about the lists of the peer table and about the databases of peers, for *)
(* MeshPeer_proofs.                                                              *)
EXTENDS MeshPeer, FiniteSetTheorems, SequenceTheorems, TLAPS

-----------------------------------------------------------------------------
(* Lists sorted by handle.                                                 *)

\* An interval from 1 is finite and has as many elements as its end says.
LEMMA Counting == ASSUME NEW n \in Nat PROVE IsFiniteSet(1..n) /\ Cardinality(1..n) = n
BY FS_Interval

\* An entry with a handle above those of a list goes after all of it.
LEMMA CountBelowAll ==
  ASSUME NEW hs, Len(hs) \in Nat, NEW h, \A i \in 1..Len(hs) : hs[i] < h
  PROVE  CountBelow(hs, h) = Len(hs) /\ ~Found(hs, h)
<1>1. {i \in 1..Len(hs) : \A j \in 1..i : hs[j] < h} = 1..Len(hs)
  OBVIOUS
<1>2. Cardinality(1..Len(hs)) = Len(hs)
  BY Counting
<1>3. CountBelow(hs, h) = Len(hs)
  BY <1>1, <1>2 DEF CountBelow
<1> QED
  BY <1>3 DEF Found

\* An entry that SLIST_NEXT(prev) = x links behind the whole list is appended.
LEMMA LinkedLast ==
  ASSUME NEW S, NEW s \in Seq(S), NEW x \in S
  PROVE  Linked(s, Len(s), x) = Append(s, x)
<1>1. CASE Len(s) = 0
  <2>1. s = <<>>
    BY <1>1
  <2> QED
    BY <2>1 DEF Linked
<1>2. CASE Len(s) # 0
  <2>1. SubSeq(s, 1, Len(s)) = s
    BY SubSeqFull
  <2>2. Append(s, x) = s \o <<x>>
    OBVIOUS
  <2> QED
    BY <1>2, <2>1, <2>2 DEF Linked
<1> QED
  BY <1>1, <1>2

\* So is one that peer_svc_add inserts there.
LEMMA InsertedLast ==
  ASSUME NEW S, NEW s \in Seq(S), NEW x \in S, CountBelow(Starts(s), x.start) = Len(s)
  PROVE  Inserted(s, x) = Append(s, x)
<1>1. SubSeq(s, 1, Len(s)) = s
  BY SubSeqFull
<1>2. SubSeq(s, Len(s) + 1, Len(s)) = <<>>
  OBVIOUS
<1>3. Inserted(s, x) = (s \o <<x>>) \o <<>>
  BY <1>1, <1>2 DEF Inserted
<1>4. Append(s, x) = s \o <<x>> /\ Append(s, x) \in Seq(S)
  OBVIOUS
<1> QED
  BY <1>3, <1>4, ConcatEmptySeq

\* The only index of a list whose entry passes a test is the one that is selected.
LEMMA StartsAtOnly ==
  ASSUME NEW s, NEW i \in 1..Len(s), Len(s) \in Nat, NEW h, s[i].start = h,
         \A m \in 1..Len(s) : s[m].start = h => m = i
  PROVE  StartsAt(s, h) = i
<1>1. {m \in 1..Len(s) : s[m].start = h} = {i}
  OBVIOUS
<1>2. Min({i}) = i
  BY DEF Min
<1> QED
  BY <1>1, <1>2 DEF StartsAt, SelectInSeq

\* The same of the service whose range has a handle ...
LEMMA RangeHasOnly ==
  ASSUME NEW s, NEW i \in 1..Len(s), Len(s) \in Nat, NEW h, s[i].start <= h, h <= s[i].end,
         \A m \in 1..Len(s) : s[m].start <= h /\ h <= s[m].end => m = i
  PROVE  RangeHas(s, h) = i
<1>1. {m \in 1..Len(s) : s[m].start <= h /\ h <= s[m].end} = {i}
  OBVIOUS
<1>2. Min({i}) = i
  BY DEF Min
<1> QED
  BY <1>1, <1>2 DEF RangeHas, SelectInSeq

\* ... and of the characteristic with a value.
LEMMA HasValueOnly ==
  ASSUME NEW s, NEW i \in 1..Len(s), Len(s) \in Nat, NEW v, s[i].val = v,
         \A m \in 1..Len(s) : s[m].val = v => m = i
  PROVE  HasValue(s, v) = i
<1>1. {m \in 1..Len(s) : s[m].val = v} = {i}
  OBVIOUS
<1>2. Min({i}) = i
  BY DEF Min
<1> QED
  BY <1>1, <1>2 DEF HasValue, SelectInSeq

\* A set of naturals has a least element.
LEMMA LeastNat ==
  ASSUME NEW S, S \subseteq Nat, S # {}
  PROVE  \E n \in S : \A m \in S : n <= m
<1>1. PICK n \in S : \A m \in S : ~(<<m, n>> \in OpToRel(<, Nat))
  BY WFMin, NatLessThanWellFounded
<1>2. \A m \in S : ~(m < n)
  BY <1>1 DEF OpToRel
<1> QED
  BY <1>2

\* FirstOf picks an element that no other one of the set precedes.
LEMMA FirstOfLeast ==
  ASSUME NEW S, S \subseteq Nat \X Nat, S # {}
  PROVE  /\ FirstOf(S) \in S
         /\ \A b \in S : \/ FirstOf(S)[1] < b[1]
                         \/ FirstOf(S)[1] = b[1] /\ FirstOf(S)[2] <= b[2]
<1> DEFINE F == {a[1] : a \in S}
<1>1. PICK n \in F : \A m \in F : n <= m
  <2>1. F \subseteq Nat /\ F # {}
    OBVIOUS
  <2> QED
    BY <2>1, LeastNat
<1> DEFINE G == {a[2] : a \in {b \in S : b[1] = n}}
<1>2. PICK k \in G : \A m \in G : k <= m
  <2>1. G \subseteq Nat /\ G # {}
    OBVIOUS
  <2> QED
    BY <2>1, LeastNat
<1>3. PICK a \in S : a[1] = n /\ a[2] = k
  OBVIOUS
<1>4. \A b \in S : a[1] < b[1] \/ (a[1] = b[1] /\ a[2] <= b[2])
  <2> SUFFICES ASSUME NEW b \in S
               PROVE  a[1] < b[1] \/ (a[1] = b[1] /\ a[2] <= b[2])
    OBVIOUS
  <2>1. b[1] \in F /\ n <= b[1] /\ b[1] \in Nat /\ n \in Nat
    BY <1>1
  <2>2. b[1] = n => k <= b[2]
    BY <1>2
  <2> QED
    BY <1>3, <2>1, <2>2
<1> QED
  BY <1>4 DEF FirstOf

\* An ascending list is the only one of its elements.
LEMMA AscendingOf ==
  ASSUME NEW s \in Seq(Nat), \A i, j \in 1..Len(s) : i < j => s[i] < s[j]
  PROVE  Ascending(ToSet(s)) = s
<1> DEFINE n == Len(s)
           S == ToSet(s)
           Sorts(t) == t \in [1..n -> S] /\ \A i, j \in 1..n : i < j => t[i] < t[j]
<1>1. n \in Nat /\ s \in [1..n -> S] /\ S \subseteq Nat /\ \A x \in S : \E i \in 1..n : s[i] = x
  BY DEF ToSet
<1>2. Cardinality(S) = n
  <2>1. s \in Bijection(1..n, S)
    <3>1. \A i, j \in 1..n : s[i] = s[j] => i = j
      BY <1>1
    <3> QED
      BY <1>1, <3>1 DEF Bijection, Injection, Surjection, IsInjective
  <2> QED
    BY <1>1, <2>1, FS_CountingElements DEF ExistsBijection
<1>3. Sorts(s)
  BY <1>1
<1>4. ASSUME NEW t, Sorts(t)
      PROVE  t = s
  <2> DEFINE D == {i \in 1..n : t[i] # s[i]}
  <2>1. SUFFICES ASSUME D # {} PROVE FALSE
    BY <1>1, <1>4
  <2>2. PICK i \in D : \A j \in D : i <= j
    <3>1. D \subseteq Nat
      OBVIOUS
    <3> QED
      BY <2>1, <3>1, LeastNat
  <2>3. \A j \in 1..n : j < i => t[j] = s[j]
    BY <2>2
  <2>4. PICK k \in 1..n : s[k] = t[i]
    BY <1>1, <1>4
  <2>5. k > i /\ s[i] < t[i]
    <3>1. k # i /\ i \in 1..n
      BY <2>2, <2>4
    <3>2. ASSUME k < i PROVE FALSE
      <4>1. t[k] = t[i]
        BY <2>3, <2>4, <3>2
      <4>2. t[k] < t[i] /\ t[i] \in Nat
        BY <1>1, <1>4, <3>1, <3>2
      <4> QED
        BY <4>1, <4>2
    <3>3. k > i
      BY <3>1, <3>2
    <3> QED
      BY <2>4, <3>1, <3>3
  <2>6. PICK l \in 1..n : t[l] = s[i]
    <3>1. t \in Injection(1..n, S)
      <4>1. \A x, y \in 1..n : x # y => t[x] # t[y]
        <5> SUFFICES ASSUME NEW x \in 1..n, NEW y \in 1..n, x # y PROVE t[x] # t[y]
          OBVIOUS
        <5>1. t[x] \in Nat /\ t[y] \in Nat /\ (x < y \/ y < x)
          BY <1>1, <1>4
        <5> QED
          BY SMTT(60), <1>4, <5>1
      <4> QED
        BY <1>4, <4>1 DEF Injection, IsInjective
    <3>2. IsFiniteSet(S) /\ Cardinality(1..n) = n
      <4>2. IsFiniteSet(1..n) /\ Cardinality(1..n) = n
        BY <1>1, Counting
      <4>3. s \in Surjection(1..n, S)
        BY <1>1 DEF Surjection
      <4> QED
        BY <4>2, <4>3, FS_Surjection
    <3>3. t \in Surjection(1..n, S)
      BY <1>2, <3>1, <3>2, FS_Injection
    <3> QED
      BY <1>1, <2>2, <3>3 DEF Surjection
  <2>7. i \in 1..n /\ l \in 1..n /\ s[i] \in Nat /\ t[i] \in Nat /\ t[l] = s[i]
    BY <1>1, <1>4, <2>2, <2>6
  <2>8. CASE l < i
    <3>1. s[l] = s[i]
      BY <2>3, <2>7, <2>8
    <3> QED
      BY <2>7, <2>8, <3>1
  <2>9. CASE l >= i
    <3>1. t[i] <= t[l]
      BY SMTT(60), <1>4, <2>7, <2>9
    <3> QED
      BY SMTT(60), <2>5, <2>7, <3>1
  <2> QED
    BY <2>7, <2>8, <2>9
<1> QED
  BY <1>2, <1>3, <1>4 DEF Ascending

-----------------------------------------------------------------------------
(* The blocks of the pools.                                                *)

\* Finitely many finite sets have finitely many elements together.
LEMMA UnionFinite ==
  ASSUME NEW S, IsFiniteSet(S), NEW f, \A x \in S : IsFiniteSet(f[x])
  PROVE  IsFiniteSet(UNION {{x} \X f[x] : x \in S})
<1> DEFINE T == {{x} \X f[x] : x \in S}
           g == [x \in S |-> {x} \X f[x]]
<1>1. g \in Surjection(S, T)
  BY DEF Surjection
<1>2. IsFiniteSet(T)
  BY <1>1, FS_Surjection
<1>3. ASSUME NEW t \in T PROVE IsFiniteSet(t)
  <2>1. PICK x \in S : t = {x} \X f[x]
    OBVIOUS
  <2>2. IsFiniteSet({x}) /\ IsFiniteSet(f[x])
    BY FS_Singleton
  <2> QED
    BY <2>1, <2>2, FS_Product
<1> HIDE DEF T
<1>4. IsFiniteSet(UNION T)
  BY <1>2, <1>3, FS_UNION
<1> QED
  BY <1>4 DEF T

\* When the blocks of one connection change, the number of all changes alike.
LEMMA HeldChange ==
  ASSUME NEW a, NEW b, \A x \in Conn : IsFiniteSet(a[x]), NEW c \in Conn,
         IsFiniteSet(b[c]), \A x \in Conn \ {c} : b[x] = a[x]
  PROVE  /\ Held(a) \in Nat /\ Cardinality(a[c]) \in Nat /\ Cardinality(b[c]) \in Nat
         /\ Cardinality(a[c]) <= Held(a)
         /\ Held(b) = Held(a) - Cardinality(a[c]) + Cardinality(b[c])
<1> DEFINE R == UNION {{x} \X a[x] : x \in Conn \ {c}}
<1>1. IsFiniteSet(R) /\ Cardinality(R) \in Nat
  <2>1. IsFiniteSet(Conn \ {c})
    BY ConnAssumption, FS_RemoveElement
  <2> QED
    BY <2>1, UnionFinite, FS_CardinalityType
<1>2. ASSUME NEW f, IsFiniteSet(f[c]), \A x \in Conn \ {c} : f[x] = a[x]
      PROVE  Held(f) = Cardinality(R) + Cardinality(f[c]) /\ Cardinality(f[c]) \in Nat
  <2> DEFINE C == {c} \X f[c]
  <2>1. UNION {{x} \X f[x] : x \in Conn} = R \cup C
    BY <1>2
  <2>2. R \cap C = {}
    OBVIOUS
  <2>3. IsFiniteSet(C) /\ Cardinality(C) = Cardinality(f[c]) /\ Cardinality(f[c]) \in Nat
    <3>1. IsFiniteSet({c}) /\ Cardinality({c}) = 1
      BY FS_Singleton
    <3>2. IsFiniteSet(C) /\ Cardinality(C) = Cardinality({c}) * Cardinality(f[c])
      BY <1>2, <3>1, FS_Product
    <3>3. Cardinality(f[c]) \in Nat
      BY <1>2, FS_CardinalityType
    <3> QED
      BY <3>1, <3>2, <3>3
  <2>4. Cardinality(R \cup C) = Cardinality(R) + Cardinality(C) - Cardinality(R \cap C)
    BY <1>1, <2>3, FS_Union
  <2>5. Cardinality(R \cap C) = 0
    BY <2>2, FS_EmptySet
  <2>6. Held(f) = Cardinality(R \cup C)
    BY <2>1 DEF Held
  <2> HIDE DEF R, C
  <2> QED
    BY <1>1, <2>3, <2>4, <2>5, <2>6
<1>3. Held(a) = Cardinality(R) + Cardinality(a[c]) /\ Cardinality(a[c]) \in Nat
  BY <1>2
<1>4. Held(b) = Cardinality(R) + Cardinality(b[c]) /\ Cardinality(b[c]) \in Nat
  BY <1>2
<1> QED
  BY <1>1, <1>3, <1>4

\* The blocks that all connections hold can be counted.
LEMMA HeldNat ==
  ASSUME NEW a, \A x \in Conn : IsFiniteSet(a[x])
  PROVE  Held(a) \in Nat
BY ConnAssumption, UnionFinite, FS_CardinalityType DEF Held

\* No blocks are held at all.
LEMMA HeldNone ==
  ASSUME NEW a, \A x \in Conn : a[x] = {}
  PROVE  Held(a) = 0
<1>1. UNION {{x} \X a[x] : x \in Conn} = {}
  OBVIOUS
<1> QED
  BY <1>1, FS_EmptySet DEF Held

\* The blocks of a list of services are finitely many.
LEMMA BlocksFinite ==
  ASSUME NEW t \in Seq(Service)
  PROVE  IsFiniteSet(SvcBlocks(t)) /\ IsFiniteSet(ChrBlocks(t)) /\ IsFiniteSet(DscBlocks(t))
<1>1. IsFiniteSet(SvcBlocks(t))
  BY Counting DEF SvcBlocks
<1>2. IsFiniteSet(ChrBlocks(t))
  <2> DEFINE f == [i \in SvcBlocks(t) |-> 1..Len(t[i].chrs)]
  <2>1. \A i \in SvcBlocks(t) : IsFiniteSet(f[i])
    <3> SUFFICES ASSUME NEW i \in SvcBlocks(t) PROVE IsFiniteSet(f[i])
      OBVIOUS
    <3>1. Len(t[i].chrs) \in Nat
      BY SMTT(60) DEF SvcBlocks, Service
    <3> QED
      BY <3>1, Counting
  <2>2. ChrBlocks(t) = UNION {{i} \X f[i] : i \in SvcBlocks(t)}
    BY DEF ChrBlocks
  <2> HIDE DEF f
  <2> QED
    BY <1>1, <2>1, <2>2, UnionFinite
<1>3. IsFiniteSet(DscBlocks(t))
  <2> DEFINE f == [ij \in ChrBlocks(t) |-> 1..Len(t[ij[1]].chrs[ij[2]].dscs)]
  <2>1. \A ij \in ChrBlocks(t) : IsFiniteSet(f[ij])
    <3> SUFFICES ASSUME NEW ij \in ChrBlocks(t) PROVE IsFiniteSet(f[ij])
      OBVIOUS
    <3>1. PICK i \in 1..Len(t) : \E j \in 1..Len(t[i].chrs) : ij = <<i, j>>
      BY DEF ChrBlocks, SvcBlocks
    <3>2. PICK j \in 1..Len(t[i].chrs) : ij = <<i, j>>
      BY <3>1
    <3>3. Len(t[ij[1]].chrs[ij[2]].dscs) \in Nat
      <4>1. t[i] \in Service
        BY ElementOfSeq
      <4>2. t[i].chrs \in Seq(Characteristic)
        BY <4>1 DEF Service
      <4>3. t[i].chrs[j] \in Characteristic
        BY <4>2, ElementOfSeq
      <4> QED
        BY SMTT(60), <3>2, <4>3 DEF Characteristic
    <3> QED
      BY <3>3, Counting
  <2>2. DscBlocks(t) = UNION {{ij} \X f[ij] : ij \in ChrBlocks(t)}
    BY DEF DscBlocks
  <2> HIDE DEF f
  <2> QED
    BY <1>2, <2>1, <2>2, UnionFinite
<1> QED
  BY <1>1, <1>2, <1>3

-----------------------------------------------------------------------------
(* The parts of a list of services.                                        *)

\* Handles are compared as numbers.
LEMMA LessTrans == \A a, b, c \in Nat : a < b /\ b < c => a < c
OBVIOUS

\* A smaller handle is not a larger one.
LEMMA LessLeq == \A a, b \in Nat : a < b => a <= b
OBVIOUS

\* The parts of a list of services have their types.
LEMMA SvcShape ==
  ASSUME NEW t \in Seq(Service), NEW i \in 1..Len(t)
  PROVE  /\ Len(t) \in Nat /\ i \in Nat /\ t[i] \in Service
         /\ t[i].start \in Nat /\ t[i].end \in Nat
         /\ t[i].chrs \in Seq(Characteristic) /\ Len(t[i].chrs) \in Nat
<1>1. t[i] \in Service
  BY ElementOfSeq
<1> QED
  BY SMTT(60), <1>1 DEF Service

\* The parts of a characteristic in such a list.
LEMMA ChrShape ==
  ASSUME NEW t \in Seq(Service), NEW i \in 1..Len(t), NEW j \in 1..Len(t[i].chrs)
  PROVE  /\ j \in Nat /\ t[i].chrs[j] \in Characteristic
         /\ t[i].chrs[j].def \in Nat /\ t[i].chrs[j].val \in Nat
         /\ t[i].chrs[j].dscs \in Seq(Nat) /\ Len(t[i].chrs[j].dscs) \in Nat
<1>1. t[i].chrs \in Seq(Characteristic) /\ Len(t[i].chrs) \in Nat
  BY SvcShape
<1>2. t[i].chrs[j] \in Characteristic
  BY <1>1, ElementOfSeq
<1> QED
  <2>1. /\ t[i].chrs[j].def \in Nat /\ t[i].chrs[j].val \in Nat
        /\ t[i].chrs[j].dscs \in Seq(Nat)
    BY <1>2 DEF Characteristic
  <2> QED
    BY <1>1, <1>2, <2>1, LenProperties

\* A descriptor in such a list.
LEMMA DscShape ==
  ASSUME NEW t \in Seq(Service), NEW i \in 1..Len(t), NEW j \in 1..Len(t[i].chrs),
         NEW k \in 1..Len(t[i].chrs[j].dscs)
  PROVE  k \in Nat /\ t[i].chrs[j].dscs[k] \in Nat
<1>1. t[i].chrs[j].dscs \in Seq(Nat)
  BY ChrShape
<1> QED
  BY SMTT(60), <1>1, ElementOfSeq

\* What Handles and Attributes consist of.
LEMMA ChrHandlesAre ==
  ASSUME NEW chr, NEW h, chr.dscs \in Seq(Nat)
  PROVE  h \in ChrHandles(chr) <=> h = chr.val \/ \E k \in 1..Len(chr.dscs) : h = chr.dscs[k]
BY LenProperties DEF ChrHandles, ToSet

\* The handles of a service.
LEMMA SvcHandlesAre ==
  ASSUME NEW s, NEW h, s.chrs \in Seq(Characteristic)
  PROVE  h \in SvcHandles(s) <=>
           h = s.start \/ \E j \in 1..Len(s.chrs) : h \in ChrHandles(s.chrs[j])
BY LenProperties DEF SvcHandles, ToSet

\* The handles of a list of services.
LEMMA HandlesAre ==
  ASSUME NEW t \in Seq(Service), NEW h
  PROVE  h \in Handles(t) <=> \E i \in 1..Len(t) : h \in SvcHandles(t[i])
BY LenProperties DEF Handles, ToSet

\* The attributes of a database.
LEMMA AttributesAre ==
  ASSUME NEW d \in Seq(Service), NEW h \in Attributes(d)
  PROVE  \E i \in 1..Len(d) :
           \/ h = d[i].start
           \/ \E j \in 1..Len(d[i].chrs) :
                \/ h = d[i].chrs[j].def \/ h = d[i].chrs[j].val
                \/ \E k \in 1..Len(d[i].chrs[j].dscs) : h = d[i].chrs[j].dscs[k]
<1>1. CASE h \in Handles(d)
  <2>1. PICK i \in 1..Len(d) : h \in SvcHandles(d[i])
    BY <1>1, HandlesAre
  <2>2. d[i].chrs \in Seq(Characteristic)
    BY SvcShape
  <2>3. h = d[i].start \/ \E j \in 1..Len(d[i].chrs) : h \in ChrHandles(d[i].chrs[j])
    BY <2>1, <2>2, SvcHandlesAre
  <2>4. \A j \in 1..Len(d[i].chrs) : d[i].chrs[j].dscs \in Seq(Nat)
    BY ChrShape
  <2>5. ASSUME NEW j \in 1..Len(d[i].chrs), h \in ChrHandles(d[i].chrs[j])
        PROVE  h = d[i].chrs[j].val \/ \E k \in 1..Len(d[i].chrs[j].dscs) : h = d[i].chrs[j].dscs[k]
    BY <2>4, <2>5, ChrHandlesAre
  <2> QED
    BY <2>3, <2>5
<1>2. CASE h \notin Handles(d)
  <2>1. PICK s \in ToSet(d) : h \in {chr.def : chr \in ToSet(s.chrs)}
    BY <1>2 DEF Attributes
  <2>2. PICK i \in 1..Len(d) : s = d[i]
    BY <2>1, LenProperties DEF ToSet
  <2>3. DOMAIN d[i].chrs = 1..Len(d[i].chrs)
    BY SvcShape, LenProperties
  <2> QED
    BY SMTT(60), <2>1, <2>2, <2>3 DEF ToSet
<1> QED
  BY <1>1, <1>2

-----------------------------------------------------------------------------
(* Well-formed databases.                                                  *)

\* Where the parts of a service are.
LEMMA SvcOrder ==
  ASSUME NEW d \in Seq(Service), WellFormed(d), NEW i \in 1..Len(d)
  PROVE  /\ 0 < d[i].start /\ d[i].start <= d[i].end
         /\ \A m \in 1..Len(d) : i < m => d[i].end < d[m].start
<1>1. Len(d) \in Nat
  OBVIOUS
<1> QED
  BY <1>1 DEF WellFormed

\* Where the characteristics of a service are.
LEMMA ChrOrder ==
  ASSUME NEW d \in Seq(Service), WellFormed(d), NEW i \in 1..Len(d),
         NEW j \in 1..Len(d[i].chrs)
  PROVE  /\ d[i].start < d[i].chrs[j].def /\ d[i].chrs[j].def < d[i].chrs[j].val
         /\ d[i].chrs[j].val <= d[i].end
         /\ \A m \in 1..Len(d[i].chrs) : j < m => d[i].chrs[j].val < d[i].chrs[m].def
<1>1. Len(d[i].chrs) \in Nat
  BY SvcShape
<1>2. /\ d[i].start < d[i].chrs[j].def /\ d[i].chrs[j].def < d[i].chrs[j].val
      /\ d[i].chrs[j].val <= d[i].end
      /\ \A m \in (j + 1)..Len(d[i].chrs) : d[i].chrs[j].val < d[i].chrs[m].def
  BY DEF WellFormed
<1>3. \A m \in 1..Len(d[i].chrs) : j < m => m \in (j + 1)..Len(d[i].chrs)
  BY <1>1
<1> QED
  BY <1>2, <1>3

\* Where the descriptors of a characteristic are.
LEMMA DscOrder ==
  ASSUME NEW d \in Seq(Service), WellFormed(d), NEW i \in 1..Len(d),
         NEW j \in 1..Len(d[i].chrs), NEW k \in 1..Len(d[i].chrs[j].dscs)
  PROVE  /\ d[i].chrs[j].val < d[i].chrs[j].dscs[k]
         /\ d[i].chrs[j].dscs[k] <= d[i].end
         /\ \A m \in 1..Len(d[i].chrs) : j < m => d[i].chrs[j].dscs[k] < d[i].chrs[m].def
         /\ \A m \in 1..Len(d[i].chrs[j].dscs) :
              k < m => d[i].chrs[j].dscs[k] < d[i].chrs[j].dscs[m]
<1>1. Len(d[i].chrs) \in Nat /\ Len(d[i].chrs[j].dscs) \in Nat
  BY SMTT(60), SvcShape, ChrShape
<1>2. /\ d[i].chrs[j].val < d[i].chrs[j].dscs[k]
      /\ d[i].chrs[j].dscs[k] <= d[i].end
      /\ \A m \in (j + 1)..Len(d[i].chrs) : d[i].chrs[j].dscs[k] < d[i].chrs[m].def
      /\ \A m \in (k + 1)..Len(d[i].chrs[j].dscs) :
           d[i].chrs[j].dscs[k] < d[i].chrs[j].dscs[m]
  BY DEF WellFormed
<1>3. \A m \in 1..Len(d[i].chrs) : j < m => m \in (j + 1)..Len(d[i].chrs)
  BY <1>1
<1>4. \A m \in 1..Len(d[i].chrs[j].dscs) : k < m => m \in (k + 1)..Len(d[i].chrs[j].dscs)
  BY <1>1
<1> QED
  BY <1>2, <1>3, <1>4, ZenonT(60)

\* The declaration of one characteristic comes before the value of another one
\* exactly if the whole characteristic comes before it.
LEMMA Earlier ==
  ASSUME NEW d \in Seq(Service), WellFormed(d),
         NEW i \in 1..Len(d), NEW j \in 1..Len(d[i].chrs),
         NEW m \in 1..Len(d), NEW n \in 1..Len(d[m].chrs)
  PROVE  d[m].chrs[n].def < d[i].chrs[j].val <=> m < i \/ (m = i /\ n <= j)
<1>1. /\ i \in Nat /\ j \in Nat /\ m \in Nat /\ n \in Nat
      /\ d[i].start \in Nat /\ d[i].end \in Nat /\ d[m].start \in Nat /\ d[m].end \in Nat
      /\ d[i].chrs[j].def \in Nat /\ d[i].chrs[j].val \in Nat
      /\ d[m].chrs[n].def \in Nat /\ d[m].chrs[n].val \in Nat
  BY SvcShape, ChrShape
<1>2. CASE m < i
  <2>1. /\ d[m].chrs[n].def < d[m].chrs[n].val /\ d[m].chrs[n].val <= d[m].end
        /\ d[m].end < d[i].start
    BY <1>2, SvcOrder, ChrOrder
  <2>2. d[i].start < d[i].chrs[j].def /\ d[i].chrs[j].def < d[i].chrs[j].val
    BY ChrOrder
  <2>3. d[m].chrs[n].def < d[m].end
    BY SMTT(60), <1>1, <2>1
  <2>4. d[m].chrs[n].def < d[i].start
    BY SMTT(60), <1>1, <2>1, <2>3
  <2>5. d[m].chrs[n].def < d[i].chrs[j].val
    <3>1. d[m].chrs[n].def < d[i].chrs[j].def
      BY SMTT(60), <1>1, <2>2, <2>4
    <3> QED
      BY <1>1, <2>2, <3>1, LessTrans, ZenonT(60)
  <2> QED
    BY <1>2, <2>5
<1>3. CASE i < m
  <2>1. d[i].chrs[j].val <= d[i].end /\ d[i].end < d[m].start
    BY <1>3, SvcOrder, ChrOrder
  <2>2. d[m].start < d[m].chrs[n].def
    BY ChrOrder
  <2>3. d[i].chrs[j].val < d[m].start
    BY SMTT(60), <1>1, <2>1
  <2>4. d[i].chrs[j].val < d[m].chrs[n].def
    BY <1>1, <2>2, <2>3, LessTrans, ZenonT(60)
  <2>5. ~(d[m].chrs[n].def < d[i].chrs[j].val)
    <3> DEFINE a == d[m].chrs[n].def
               b == d[i].chrs[j].val
    <3>1. a \in Nat /\ b \in Nat /\ b < a
      BY <1>1, <2>4
    <3> HIDE DEF a, b
    <3>2. ~(a < b)
      BY <3>1
    <3> QED
      BY <3>2 DEF a, b
  <2> QED
    BY SMTT(60), <1>1, <1>3, <2>5
<1>4. CASE m = i /\ n < j
  <2>1. d[i].chrs[n].def < d[i].chrs[n].val /\ d[i].chrs[n].val < d[i].chrs[j].def
    BY <1>4, ChrOrder
  <2>2. d[i].chrs[j].def < d[i].chrs[j].val
    BY ChrOrder
  <2> QED
    BY SMTT(60), <1>1, <1>4, <2>1, <2>2
<1>5. CASE m = i /\ j < n
  <2>1. d[i].chrs[j].val < d[i].chrs[n].def
    BY <1>5, ChrOrder
  <2> QED
    BY SMTT(60), <1>1, <1>5, <2>1
<1>6. CASE m = i /\ n = j
  BY <1>6, ChrOrder
<1> QED
  BY <1>1, <1>2, <1>3, <1>4, <1>5, <1>6

\* The attributes from the value of a characteristic to its end are its
\* descriptors.
LEMMA DscsInRange ==
  ASSUME NEW d \in Seq(Service), WellFormed(d),
         NEW i \in 1..Len(d), NEW j \in 1..Len(d[i].chrs)
  PROVE  {h \in Attributes(d) : d[i].chrs[j].val < h /\ h <= ChrEndHandle(d[i], j)}
           = ToSet(d[i].chrs[j].dscs)
<1> DEFINE val == d[i].chrs[j].val
           end == ChrEndHandle(d[i], j)
           dscs == d[i].chrs[j].dscs
<1>1. /\ Len(d[i].chrs) \in Nat /\ d[i].end \in Nat /\ val \in Nat /\ d[i].start \in Nat
      /\ \A n \in 1..Len(d[i].chrs) : d[i].chrs[n].def \in Nat
      /\ i \in Nat /\ j \in Nat /\ DOMAIN dscs = 1..Len(dscs)
  BY SvcShape, ChrShape, LenProperties
<1>2. end \in Int /\ end <= d[i].end
      /\ \A n \in 1..Len(d[i].chrs) : j < n => end < d[i].chrs[n].def
  <2>1. CASE j < Len(d[i].chrs)
    <3>1. end = d[i].chrs[j + 1].def - 1 /\ j + 1 \in 1..Len(d[i].chrs)
      BY <1>1, <2>1 DEF ChrEndHandle
    <3>2. d[i].chrs[j + 1].def < d[i].chrs[j + 1].val /\ d[i].chrs[j + 1].val <= d[i].end
          /\ d[i].chrs[j + 1].val \in Nat
      BY <3>1, ChrOrder, ChrShape
    <3>3. \A n \in 1..Len(d[i].chrs) : j + 1 < n => d[i].chrs[j + 1].val < d[i].chrs[n].def
      BY <3>1, ChrOrder
    <3>4. \A n \in 1..Len(d[i].chrs) : j < n => n = j + 1 \/ j + 1 < n
      BY <1>1
    <3>5. ASSUME NEW n \in 1..Len(d[i].chrs), j < n PROVE end < d[i].chrs[n].def
      <4>1. CASE n = j + 1
        BY SMTT(60), <1>1, <3>1, <4>1
      <4>2. CASE j + 1 < n
        <5>1. d[i].chrs[j + 1].val < d[i].chrs[n].def /\ d[i].chrs[n].def \in Nat
          BY <1>1, <3>3, <4>2
        <5> HIDE DEF end
        <5>2. d[i].chrs[j + 1].def < d[i].chrs[n].def
          BY SMTT(60), <1>1, <3>1, <3>2, <5>1
        <5> QED
          BY SMTT(60), <1>1, <3>1, <5>1, <5>2
      <4> QED
        BY <3>4, <3>5, <4>1, <4>2
    <3>6. end \in Int /\ end <= d[i].end
      BY SMTT(60), <1>1, <3>1, <3>2
    <3> QED
      BY <3>5, <3>6
  <2>2. CASE ~(j < Len(d[i].chrs))
    BY <1>1, <2>2 DEF ChrEndHandle
  <2> QED
    BY <2>1, <2>2
<1>3. ASSUME NEW k \in 1..Len(dscs)
      PROVE  dscs[k] \in Attributes(d) /\ val < dscs[k] /\ dscs[k] <= end
  <2>1. dscs[k] \in Handles(d)
    <3>1. d[i].chrs \in Seq(Characteristic) /\ dscs \in Seq(Nat)
      BY SvcShape, ChrShape
    <3>2. dscs[k] \in ChrHandles(d[i].chrs[j])
      BY <3>1, ChrHandlesAre
    <3>3. dscs[k] \in SvcHandles(d[i])
      BY <3>1, <3>2, SvcHandlesAre
    <3> QED
      BY <3>3, HandlesAre
  <2>2. val < dscs[k] /\ dscs[k] <= d[i].end
        /\ \A m \in 1..Len(d[i].chrs) : j < m => dscs[k] < d[i].chrs[m].def
    BY DscOrder
  <2>3. dscs[k] <= end
    <3>1. dscs[k] \in Nat
      BY DscShape
    <3>2. CASE j < Len(d[i].chrs)
      <4>1. end = d[i].chrs[j + 1].def - 1 /\ j + 1 \in 1..Len(d[i].chrs)
        BY <1>1, <3>2 DEF ChrEndHandle
      <4>2. dscs[k] < d[i].chrs[j + 1].def
        BY <1>1, <2>2, <4>1
      <4> QED
        BY SMTT(60), <1>1, <3>1, <4>1, <4>2
    <3>3. CASE ~(j < Len(d[i].chrs))
      BY <2>2, <3>3 DEF ChrEndHandle
    <3> QED
      BY <3>2, <3>3
  <2> QED
    BY <2>1, <2>2, <2>3 DEF Attributes
<1>4. ASSUME NEW h \in Attributes(d), val < h, h <= end
      PROVE  \E k \in 1..Len(dscs) : h = dscs[k]
  <2>1. PICK m \in 1..Len(d) :
           \/ h = d[m].start
           \/ \E n \in 1..Len(d[m].chrs) :
                \/ h = d[m].chrs[n].def \/ h = d[m].chrs[n].val
                \/ \E k \in 1..Len(d[m].chrs[n].dscs) : h = d[m].chrs[n].dscs[k]
    BY AttributesAre
  <2>2. d[m].start \in Nat /\ d[m].end \in Nat /\ m \in Nat
    BY SvcShape
  <2>3. h \in Nat /\ d[m].start <= h /\ h <= d[m].end
    <3>1. CASE h = d[m].start
      BY SMTT(60), <2>2, <3>1, SvcOrder
    <3>2. CASE \E n \in 1..Len(d[m].chrs) :
                  \/ h = d[m].chrs[n].def \/ h = d[m].chrs[n].val
                  \/ \E k \in 1..Len(d[m].chrs[n].dscs) : h = d[m].chrs[n].dscs[k]
      <4>1. PICK n \in 1..Len(d[m].chrs) :
                  \/ h = d[m].chrs[n].def \/ h = d[m].chrs[n].val
                  \/ \E k \in 1..Len(d[m].chrs[n].dscs) : h = d[m].chrs[n].dscs[k]
        BY <3>2
      <4>2. /\ d[m].chrs[n].def \in Nat /\ d[m].chrs[n].val \in Nat
            /\ \A k \in 1..Len(d[m].chrs[n].dscs) : d[m].chrs[n].dscs[k] \in Nat
        BY ChrShape, DscShape
      <4>3. /\ d[m].start < d[m].chrs[n].def /\ d[m].chrs[n].def < d[m].chrs[n].val
            /\ d[m].chrs[n].val <= d[m].end
            /\ \A k \in 1..Len(d[m].chrs[n].dscs) :
                 d[m].chrs[n].val < d[m].chrs[n].dscs[k] /\ d[m].chrs[n].dscs[k] <= d[m].end
        BY ChrOrder, DscOrder
      <4>4. d[m].start <= d[m].chrs[n].def /\ d[m].chrs[n].def <= d[m].end
            /\ d[m].start <= d[m].chrs[n].val
        BY SMTT(60), <2>2, <4>2, <4>3
      <4>5. ASSUME NEW k \in 1..Len(d[m].chrs[n].dscs)
            PROVE  d[m].start <= d[m].chrs[n].dscs[k]
        <5>1. d[m].start < d[m].chrs[n].val
          BY <2>2, <4>2, <4>3, LessTrans, ZenonT(60)
        <5>2. d[m].start < d[m].chrs[n].dscs[k]
          BY <2>2, <4>2, <4>3, <5>1, LessTrans, ZenonT(60)
        <5> QED
          BY <2>2, <4>2, <5>2, LessLeq, ZenonT(60)
      <4> QED
        BY <4>1, <4>2, <4>3, <4>4, <4>5
    <3> QED
      BY <2>1, <3>1, <3>2
  <2>4. d[i].start < val
    <3>1. d[i].start < d[i].chrs[j].def /\ d[i].chrs[j].def < val
      BY ChrOrder
    <3> QED
      BY SMTT(60), <1>1, <3>1
  <2>5. m = i
    <3>1. m < i => d[m].end < d[i].start
      BY SvcOrder
    <3>2. i < m => d[i].end < d[m].start
      BY SvcOrder
    <3> QED
      BY SMTT(60), <1>1, <1>2, <1>4, <2>2, <2>3, <2>4, <3>1, <3>2
  <2>6. PICK n \in 1..Len(d[i].chrs) :
          \/ h = d[i].chrs[n].def \/ h = d[i].chrs[n].val
          \/ \E k \in 1..Len(d[i].chrs[n].dscs) : h = d[i].chrs[n].dscs[k]
    <3>1. h # d[i].start
      BY <1>1, <1>4, <2>3, <2>4, <2>5
    <3> QED
      BY <2>1, <2>5, <3>1
  <2>7. /\ d[i].chrs[n].def \in Nat /\ d[i].chrs[n].val \in Nat /\ n \in Nat
        /\ \A k \in 1..Len(d[i].chrs[n].dscs) : d[i].chrs[n].dscs[k] \in Nat
        /\ d[i].chrs[j].def \in Nat
    BY ChrShape, DscShape
  <2>8. /\ d[i].chrs[n].def < d[i].chrs[n].val
        /\ \A k \in 1..Len(d[i].chrs[n].dscs) : d[i].chrs[n].val < d[i].chrs[n].dscs[k]
        /\ n < j => /\ d[i].chrs[n].val < d[i].chrs[j].def
                    /\ \A k \in 1..Len(d[i].chrs[n].dscs) :
                         d[i].chrs[n].dscs[k] < d[i].chrs[j].def
        /\ d[i].chrs[j].def < val
    BY ChrOrder, DscOrder
  <2>9. ASSUME n < j PROVE FALSE
    <3>1. d[i].chrs[n].val < d[i].chrs[j].def
      BY <2>8, <2>9
    <3>2. h < d[i].chrs[j].def
      BY SMTT(60), <2>6, <2>7, <2>8, <2>9, <3>1
    <3> QED
      BY SMTT(60), <1>1, <1>4, <2>3, <2>7, <2>8, <3>2
  <2>10. ASSUME j < n PROVE FALSE
    <3>1. end < d[i].chrs[n].def
      BY <1>2, <2>10
    <3>2. d[i].chrs[n].def <= h
      <4>1. CASE \E k \in 1..Len(d[i].chrs[n].dscs) : h = d[i].chrs[n].dscs[k]
        <5>1. PICK k \in 1..Len(d[i].chrs[n].dscs) : h = d[i].chrs[n].dscs[k]
          BY <4>1
        <5>2. d[i].chrs[n].def < h
          BY <2>3, <2>7, <2>8, <5>1, LessTrans, ZenonT(60)
        <5> QED
          BY <2>3, <2>7, <5>2, LessLeq, ZenonT(60)
      <4>2. CASE h = d[i].chrs[n].def \/ h = d[i].chrs[n].val
        BY SMTT(60), <2>7, <2>8, <4>2
      <4> QED
        BY <2>6, <4>1, <4>2
    <3> QED
      BY SMTT(60), <1>2, <1>4, <2>3, <2>7, <3>1, <3>2
  <2>11. n = j
    BY <1>1, <2>7, <2>9, <2>10
  <2>12. h # d[i].chrs[j].def /\ h # val
    BY SMTT(60), <1>1, <1>4, <2>3, <2>7, <2>8
  <2> QED
    BY <2>6, <2>11, <2>12
<1> QED
  BY <1>1, <1>3, <1>4 DEF ToSet

\* So NimBLE reports them, in the order of the database.
LEMMA DscProcIs ==
  ASSUME NEW d \in Seq(Service), WellFormed(d),
         NEW i \in 1..Len(d), NEW j \in 1..Len(d[i].chrs)
  PROVE  DscProc(d, d[i].chrs[j].val, ChrEndHandle(d[i], j))
           = [kind |-> "dscs", of |-> d[i].chrs[j].val, left |-> d[i].chrs[j].dscs]
<1>1. d[i].chrs[j].dscs \in Seq(Nat)
  BY ChrShape
<1>2. \A k, m \in 1..Len(d[i].chrs[j].dscs) :
        k < m => d[i].chrs[j].dscs[k] < d[i].chrs[j].dscs[m]
  BY DscOrder
<1>3. Ascending(ToSet(d[i].chrs[j].dscs)) = d[i].chrs[j].dscs
  BY <1>1, <1>2, AscendingOf
<1> QED
  BY <1>3, DscsInRange DEF DscProc
=============================================================================
